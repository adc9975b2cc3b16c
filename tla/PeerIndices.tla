---------------------------- MODULE PeerIndices ----------------------------
(***************************************************************************)
(* VolatileLeaderState as a data type: any sequence of calls a leader can  *)
(* make (src/server/volatile_leader_state.rs).  MiniRaft drives it with    *)
(* two peers; here it has more of them and all values of their indices.    *)
(***************************************************************************)
EXTENDS VolatileLeaderState, FiniteSetsExt

CONSTANTS
    Peer,
    MaxIndex       \* Bound: no log is longer than MaxIndex - 1 entries.

ASSUME PeerAssumption == IsFiniteSet(Peer) /\ MaxIndex \in Nat \ {0}

VARIABLE nextIndices

\* Every leader starts with new indices, past the end of its log.
Init == \E last \in 0 .. MaxIndex - 1 : nextIndices = NewNextIndices(Peer, last)

\* set_next_index, by which a leader records a success.
SetNextIndex(p, index) == nextIndices' = [nextIndices EXCEPT ![p] = index]

\* decrement_next_index, by which a leader records a failure.
DecrementNextIndex(p) ==
    nextIndices' = [nextIndices EXCEPT ![p] = Decrement(@)]

Next ==
    \E p \in Peer :
        \/ \E index \in 1 .. MaxIndex : SetNextIndex(p, index)
        \/ DecrementNextIndex(p)

Spec == Init /\ [][Next]_nextIndices
-----------------------------------------------------------------------------
\* Entry i is credited to a majority of the cluster: the leader and the peers
\* whose next index is past it.
Majority(i) ==
    2 * (1 + Cardinality({p \in Peer : nextIndices[p] > i})) > Cardinality(Peer) + 1

\* The highest committable index, read off the middle of a sorted vector
\* (volatile_leader_state.rs:95-104), is the highest index credited to a
\* majority of the full cluster, for an odd or an even number of peers.  (A server
\* without peers has no such index: nothing it records is ever committable.)
CommittableIsMajority ==
    Peer # {} => HighestCommittableIndex(nextIndices)
        = Max({i \in 0 .. MaxIndex : i = 0 \/ Majority(i)})

\* One call moves the committable index the way it moved the peer's index, and
\* a rejection, which moves that by one at most, no further than by one.
CommittableFollowsPeer ==
    [][LET before == HighestCommittableIndex(nextIndices)
           after  == HighestCommittableIndex(nextIndices')
       IN  \A p \in Peer :
               /\ nextIndices'[p] > nextIndices[p] => after >= before
               /\ nextIndices'[p] < nextIndices[p] => after <= before
               /\ DecrementNextIndex(p) => after >= before - 1]_nextIndices
=============================================================================
