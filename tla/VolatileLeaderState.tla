------------------------ MODULE VolatileLeaderState ------------------------
(***************************************************************************)
(* What a leader remembers of its peers (src/server/volatile_leader_state  *)
(* .rs): nextIndex, one number per peer.  The match indices the struct     *)
(* also holds are written once and read by nothing, so they are left out.  *)
(***************************************************************************)
EXTENDS Integers, FiniteSets

\* VolatileLeaderState::new.
NewNextIndices(ids, lastLogIndex) == [p \in ids |-> lastLogIndex + 1]

\* Variants with a bug, that no run uses as they are: Decrement without its
\* guard, Decrement that starts over, and a median one place too low.
UnguardedDecrement(index) == index - 1

RestartingDecrement(index) == 1

LowerMedian(next) ==
    LET half == (Cardinality(DOMAIN next) - 1) \div 2
    IN  CHOOSE v \in {next[p] : p \in DOMAIN next} :
            /\ Cardinality({p \in DOMAIN next : next[p] < v}) <= half
            /\ Cardinality({p \in DOMAIN next : next[p] <= v}) > half

\* VolatileLeaderState::decrement_next_index, on the entry of one peer.
Decrement(index) == IF index > 1 THEN index - 1 ELSE index

\* The element at position len / 2 (counted from 0) of the sorted values.
UpperMedian(next) ==
    LET half == Cardinality(DOMAIN next) \div 2
    IN  CHOOSE v \in {next[p] : p \in DOMAIN next} :
            /\ Cardinality({p \in DOMAIN next : next[p] < v}) <= half
            /\ Cardinality({p \in DOMAIN next : next[p] <= v}) > half

\* A variant with a bug: the median is not turned into an index replicated.
MedianItself(next) == IF DOMAIN next = {} THEN 0 ELSE UpperMedian(next)

\* VolatileLeaderState::highest_committable_index.  Without peers the code
\* returns None, which its only caller turns into 0.
HighestCommittableIndex(next) ==
    IF DOMAIN next = {} THEN 0
    ELSE IF UpperMedian(next) > 0 THEN UpperMedian(next) - 1 ELSE 0
=============================================================================
