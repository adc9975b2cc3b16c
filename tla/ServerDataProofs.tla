-------------------------- MODULE ServerDataProofs --------------------------
(***************************************************************************)
(* Facts about the operators of ServerLog and of VolatileLeaderState, for  *)
(* any log, any number of peers and any indices.                           *)
(***************************************************************************)
EXTENDS ServerLog, VolatileLeaderState, FiniteSetTheorems, WellFoundedInduction, TLAPS

(***************************************************************************)
(* ServerLog.  The code looks an entry up by the index it carries; these   *)
(* lemmas say when that is its position.                                   *)
(***************************************************************************)

\* Every entry carries its position as its index.
Numbered(entries) == \A i \in DOMAIN entries : entries[i].index = i

\* The last index of a numbered log is its length (ServerLog::last).
LEMMA LastIndexIsLength ==
    ASSUME NEW Command, NEW entries \in Seq(LogEntries(Command)),
           Numbered(entries)
    PROVE  LastIndex(entries) = Len(entries)
<1>1. Len(entries) \in Nat /\ DOMAIN entries = 1 .. Len(entries)
  OBVIOUS
<1>2. CASE entries = <<>>
  BY <1>2 DEF LastIndex, LastIndexOr
<1>3. CASE entries # <<>>
  <2>1. Len(entries) \in DOMAIN entries
    BY <1>1, <1>3
  <2> QED BY <1>3, <2>1 DEF LastIndex, LastIndexOr, Numbered
<1> QED
  BY <1>2, <1>3

\* In a numbered log an index is found where it belongs (ServerLog::find).
LEMMA FoundInPlace ==
    ASSUME NEW Command, NEW entries \in Seq(LogEntries(Command)),
           Numbered(entries), NEW i \in Int
    PROVE  /\ HasIndex(entries, i) <=> i \in 1 .. Len(entries)
           /\ HasIndex(entries, i) => PositionOf(entries, i) = i
<1>1. Len(entries) \in Nat /\ DOMAIN entries = 1 .. Len(entries)
  OBVIOUS
<1>2. HasIndex(entries, i) <=> i \in 1 .. Len(entries)
  BY <1>1 DEF HasIndex, Numbered
<1>3. ASSUME HasIndex(entries, i) PROVE PositionOf(entries, i) = i
  <2>1. /\ i \in DOMAIN entries
        /\ entries[i].index = i
        /\ \A j \in 1 .. i - 1 : entries[j].index # i
    BY <1>1, <1>2, <1>3 DEF Numbered
  <2>2. \A k \in DOMAIN entries : entries[k].index = i => k = i
    BY DEF Numbered
  <2> QED BY <2>1, <2>2 DEF PositionOf
<1> QED
  BY <1>2, <1>3

\* The entries from index i on are the end of a numbered log from position i on
\* (ServerLog::entries_from), and none past its end.
LEMMA EntriesFromInPlace ==
    ASSUME NEW Command, NEW entries \in Seq(LogEntries(Command)),
           Numbered(entries), NEW i \in Nat \ {0}
    PROVE  EntriesFrom(entries, i) = SubSeq(entries, i, Len(entries))
<1>1. CASE i \in 1 .. Len(entries)
  BY <1>1, FoundInPlace DEF EntriesFrom
<1>2. CASE i \notin 1 .. Len(entries)
  <2>1. i > Len(entries)
    BY <1>2
  <2>2. SubSeq(entries, i, Len(entries)) = <<>>
    BY <2>1
  <2> QED BY <1>2, <2>2, FoundInPlace DEF EntriesFrom
<1> QED
  BY <1>1, <1>2

\* A log numbered before a command is appended is numbered after it, and one
\* entry longer (ServerLog::append_cmd).
LEMMA AppendKeepsNumbers ==
    ASSUME NEW Command, NEW entries \in Seq(LogEntries(Command)),
           Numbered(entries), NEW term \in Nat, NEW command \in Command
    PROVE  LET longer == AppendCommand(entries, term, command) IN
           /\ longer \in Seq(LogEntries(Command))
           /\ Numbered(longer)
           /\ Len(longer) = Len(entries) + 1
           /\ \A i \in DOMAIN entries : longer[i] = entries[i]
<1> DEFINE entry == LogEntry(LastIndex(entries) + 1, term, command)
<1>1. LastIndex(entries) = Len(entries) /\ Len(entries) \in Nat
  BY LastIndexIsLength
<1>2. entry \in LogEntries(Command) /\ entry.index = Len(entries) + 1
  BY <1>1 DEF LogEntry, LogEntries
<1> HIDE DEF entry
<1>3. /\ Append(entries, entry) \in Seq(LogEntries(Command))
      /\ Len(Append(entries, entry)) = Len(entries) + 1
      /\ \A i \in 1 .. Len(entries) : Append(entries, entry)[i] = entries[i]
      /\ Append(entries, entry)[Len(entries) + 1] = entry
  BY <1>2
<1>4. Numbered(Append(entries, entry))
  BY <1>1, <1>2, <1>3 DEF Numbered
<1> QED
  BY <1>3, <1>4 DEF AppendCommand, entry

-----------------------------------------------------------------------------
(***************************************************************************)
(* VolatileLeaderState.                                                    *)
(***************************************************************************)

\* The peers whose index is at most v.
UpTo(next, v) == {p \in DOMAIN next : next[p] <= v}

\* Every set of natural numbers but the empty one has a least element: the
\* intervals up to its elements are well-founded under inclusion.
LEMMA LeastNumber ==
    ASSUME NEW T \in SUBSET Nat, T # {}
    PROVE  \E v \in T : \A w \in T : v <= w
<1> DEFINE Upto(v) == 1 .. v
           F == {Upto(v) : v \in T}
<1>1. \A v \in Nat : Upto(v) \in FiniteSubsetsOf(Nat)
  BY FS_Interval DEF FiniteSubsetsOf
<1>2. F \subseteq FiniteSubsetsOf(Nat) /\ F # {}
  BY <1>1
<1>3. PICK E \in F : \A G \in F : ~(<<G, E>> \in StrictSubsetOrdering(Nat))
  <2> HIDE DEF F
  <2> QED BY ONLY <1>2, FS_StrictSubsetOrderingWellFounded, WFMin
<1>4. PICK v \in T : E = Upto(v)
  OBVIOUS
<1>5. ASSUME NEW w \in T, w < v PROVE FALSE
  <2>1. Upto(w) \in F /\ Upto(w) \subseteq Upto(v) /\ Upto(w) # Upto(v)
    <3>1. v \in Upto(v) /\ v \notin Upto(w)
      BY <1>5
    <3> QED BY <1>5, <3>1
  <2>2. <<Upto(w), Upto(v)>> \in StrictSubsetOrdering(Nat)
    BY <2>1, <1>5 DEF StrictSubsetOrdering
  <2> QED BY <2>1, <2>2, <1>3, <1>4
<1> QED
  BY <1>5

\* The value in the middle of the sorted indices (volatile_leader_state.rs:95
\* -104) exists, whatever the number of peers: it is the smallest number that
\* more than half of the indices, rounded down, do not exceed.
LEMMA UpperMedianExists ==
    ASSUME NEW D, IsFiniteSet(D), D # {},
           NEW next \in [D -> Nat],
           NEW bound \in Nat, \A p \in D : next[p] <= bound
    PROVE  LET half == Cardinality(D) \div 2 IN
           \E v \in {next[p] : p \in D} :
              /\ Cardinality({p \in D : next[p] < v}) <= half
              /\ Cardinality({p \in D : next[p] <= v}) > half
<1> DEFINE half == Cardinality(D) \div 2
           T == {v \in Nat : Cardinality(UpTo(next, v)) > half}
<1>1. DOMAIN next = D
  OBVIOUS
<1>2. \A E \in SUBSET D : IsFiniteSet(E) /\ Cardinality(E) \in Nat
  BY FS_Subset, FS_CardinalityType
<1>3. Cardinality(D) \in Nat /\ Cardinality(D) > 0
  BY FS_CardinalityType, FS_EmptySet
<1>4. half \in Nat /\ half < Cardinality(D)
  BY <1>3
<1>5. bound \in T
  <2>1. UpTo(next, bound) = D
    BY <1>1 DEF UpTo
  <2> QED BY <2>1, <1>4
<1>6. PICK v \in T : \A w \in T : v <= w
  <2>1. T \in SUBSET Nat /\ T # {}
    BY <1>5
  <2> QED BY ONLY <2>1, LeastNumber
<1> HIDE DEF half
<1>7. v > 0 => v - 1 \notin T
  BY <1>6
<1>8. Cardinality({p \in D : next[p] < v}) <= half
  <2>1. CASE v = 0
    <3>1. {p \in D : next[p] < v} = {}
      BY <2>1
    <3> QED BY <3>1, FS_EmptySet, <1>4
  <2>2. CASE v > 0
    <3>1. {p \in D : next[p] < v} = UpTo(next, v - 1)
      BY <1>1, <2>2 DEF UpTo
    <3>2. UpTo(next, v - 1) \in SUBSET D
      BY <1>1 DEF UpTo
    <3>3. Cardinality(UpTo(next, v - 1)) \in Nat
      BY <3>2, <1>2
    <3> QED BY <1>7, <2>2, <3>1, <3>3, <1>4
  <2> QED BY <2>1, <2>2
<1>9. {p \in D : next[p] <= v} = UpTo(next, v)
  BY <1>1 DEF UpTo
<1>10. Cardinality(UpTo(next, v)) > half
  BY <1>6
<1>11. \E p \in D : next[p] = v
  <2>1. SUFFICES ASSUME \A p \in D : next[p] # v PROVE FALSE
    OBVIOUS
  <2>2. {p \in D : next[p] < v} = {p \in D : next[p] <= v}
    BY <2>1
  <2>3. Cardinality({p \in D : next[p] <= v}) \in Nat
    BY <1>2
  <2> QED BY <1>8, <1>9, <1>10, <2>2, <2>3, <1>4
<1> QED
  BY <1>8, <1>9, <1>10, <1>11 DEF half

\* The highest committable index is one that some peer's next index is past.
LEMMA CommittableBelowSomePeer ==
    ASSUME NEW D, IsFiniteSet(D),
           NEW next \in [D -> Nat],
           NEW bound \in Nat, \A p \in D : next[p] <= bound
    PROVE  /\ HighestCommittableIndex(next) \in Nat
           /\ HighestCommittableIndex(next) # 0 =>
                 \E p \in D : next[p] > HighestCommittableIndex(next)
<1>1. DOMAIN next = D
  OBVIOUS
<1>2. CASE D = {}
  BY <1>1, <1>2 DEF HighestCommittableIndex
<1>3. CASE D # {}
  <2>1. UpperMedian(next) \in {next[p] : p \in D}
    BY <1>1, <1>3, UpperMedianExists DEF UpperMedian
  <2> QED
    BY <1>1, <1>3, <2>1 DEF HighestCommittableIndex
<1> QED
  BY <1>2, <1>3

\* The highest committable index is credited to a majority of the cluster, the
\* leader and its peers D, and no index past it is.
LEMMA CommittableIsHighest ==
    ASSUME NEW D, IsFiniteSet(D), D # {},
           NEW bound \in Nat, NEW next \in [D -> 1 .. bound]
    PROVE  LET high == HighestCommittableIndex(next)
               Credit(i) == 2 * (1 + Cardinality({p \in D : next[p] > i}))
           IN  /\ high + 1 \in 1 .. bound
               /\ Credit(high) > Cardinality(D) + 1
               /\ \A i \in Nat : i > high => Credit(i) <= Cardinality(D) + 1
<1> DEFINE n == Cardinality(D)
           half == n \div 2
           below(v) == {p \in D : next[p] < v}
           upTo(v) == {p \in D : next[p] <= v}
           beyond(v) == {p \in D : next[p] > v}
<1>1. /\ next \in [D -> Nat] /\ DOMAIN next = D
      /\ \A p \in D : next[p] \in 1 .. bound
  OBVIOUS
<1>2. n \in Nat /\ half \in Nat /\ (n = 2 * half \/ n = 2 * half + 1)
  <2>1. n \in Nat
    BY FS_CardinalityType
  <2> HIDE DEF n
  <2> QED BY <2>1
<1>3. PICK v \in {next[p] : p \in D} :
         /\ v = UpperMedian(next)
         /\ Cardinality(below(v)) <= half
         /\ Cardinality(upTo(v)) > half
  <2> DEFINE Middle(w) == /\ Cardinality(below(w)) <= half
                          /\ Cardinality(upTo(w)) > half
  <2>1. \E w \in {next[p] : p \in D} : Middle(w)
    <3>1. next \in [D -> Nat] /\ \A p \in D : next[p] <= bound
      BY <1>1
    <3> QED BY <3>1, UpperMedianExists
  <2>2. UpperMedian(next) = CHOOSE w \in {next[p] : p \in D} : Middle(w)
    BY <1>1 DEF UpperMedian
  <2>3. /\ UpperMedian(next) \in {next[p] : p \in D}
        /\ Middle(UpperMedian(next))
    <3> HIDE DEF Middle
    <3> QED BY <2>1, <2>2
  <2> QED BY <2>3
<1>4. v \in 1 .. bound
  BY <1>1, <1>3
<1>5. HighestCommittableIndex(next) = v - 1
  BY <1>1, <1>3, <1>4 DEF HighestCommittableIndex
\* The peers are those below an index, or up to it, and those that are not.
<1>6. /\ Cardinality(below(v)) \in Nat
      /\ Cardinality(beyond(v - 1)) = n - Cardinality(below(v))
  <2>1. beyond(v - 1) = D \ below(v) /\ D \cap below(v) = below(v)
    BY <1>1, <1>4
  <2>2. IsFiniteSet(below(v)) /\ Cardinality(below(v)) \in Nat
    BY FS_Subset, FS_CardinalityType
  <2>3. Cardinality(D \ below(v)) = n - Cardinality(D \cap below(v))
    BY FS_Difference
  <2> QED BY <2>1, <2>2, <2>3
<1>7. /\ Cardinality(upTo(v)) \in Nat
      /\ \A i \in Nat : i >= v =>
            /\ Cardinality(beyond(i)) \in Nat
            /\ Cardinality(beyond(i)) <= n - Cardinality(upTo(v))
  <2>1. IsFiniteSet(upTo(v)) /\ Cardinality(upTo(v)) \in Nat
    BY FS_Subset, FS_CardinalityType
  <2>2. IsFiniteSet(D \ upTo(v)) /\ Cardinality(D \ upTo(v)) = n - Cardinality(upTo(v))
    <3>1. D \cap upTo(v) = upTo(v)
      OBVIOUS
    <3> QED BY <3>1, FS_Difference
  <2>3. ASSUME NEW i \in Nat, i >= v
        PROVE  /\ Cardinality(beyond(i)) \in Nat
               /\ Cardinality(beyond(i)) <= n - Cardinality(upTo(v))
    <3>1. beyond(i) \subseteq D \ upTo(v)
      BY <1>1, <1>4, <2>3
    <3> QED BY <2>2, <3>1, FS_Subset, FS_CardinalityType
  <2> QED BY <2>1, <2>3
<1> HIDE DEF n, half
<1>8. 2 * (1 + Cardinality(beyond(v - 1))) > n + 1
  BY <1>2, <1>3, <1>6
<1>9. ASSUME NEW i \in Nat, i > v - 1
      PROVE  2 * (1 + Cardinality(beyond(i))) <= n + 1
  <2> DEFINE u == Cardinality(upTo(v))
             b == Cardinality(beyond(i))
  <2>1. u \in Nat /\ u > half /\ b \in Nat /\ b <= n - u
    BY <1>3, <1>4, <1>7, <1>9
  <2> HIDE DEF u, b
  <2> QED BY <1>2, <2>1 DEF b
<1>10. v - 1 + 1 \in 1 .. bound
  BY <1>4
<1> QED
  BY <1>5, <1>8, <1>9, <1>10 DEF n

\* When no index falls by more than d, the highest committable index falls by
\* no more than d; in particular it does not fall when no index does.
LEMMA CommittableFallsNoFaster ==
    ASSUME NEW D, IsFiniteSet(D), D # {},
           NEW bound \in Nat, NEW d \in Nat,
           NEW before \in [D -> 1 .. bound], NEW after \in [D -> 1 .. bound],
           \A p \in D : after[p] >= before[p] - d
    PROVE  HighestCommittableIndex(after) >= HighestCommittableIndex(before) - d
<1> DEFINE high == HighestCommittableIndex(before)
           low == HighestCommittableIndex(after)
           n == Cardinality(D)
           Past(next, i) == Cardinality({p \in D : next[p] > i})
<1>1. /\ high + 1 \in 1 .. bound /\ low + 1 \in 1 .. bound
      /\ 2 * (1 + Past(before, high)) > n + 1
      /\ \A i \in Nat : i > low => 2 * (1 + Past(after, i)) <= n + 1
  BY CommittableIsHighest
<1>2. high \in Nat /\ low \in Nat
  <2>1. /\ before \in [D -> Nat] /\ after \in [D -> Nat]
        /\ \A p \in D : before[p] <= bound /\ after[p] <= bound
    OBVIOUS
  <2> QED BY <2>1, CommittableBelowSomePeer
<1>3. n \in Nat
  BY FS_CardinalityType
<1>4. ASSUME low < high - d PROVE FALSE
  <2> DEFINE A == {p \in D : before[p] > high}
             B == {p \in D : after[p] > high - d}
  <2>1. A \in SUBSET B /\ B \in SUBSET D
    BY <1>2
  <2>2. /\ Cardinality(A) \in Nat /\ Cardinality(B) \in Nat
        /\ Cardinality(A) <= Cardinality(B)
    BY <2>1, FS_Subset, FS_CardinalityType
  <2>3. high - d \in Nat
    BY <1>2, <1>4
  <2>4. 2 * (1 + Cardinality(B)) <= n + 1
    BY <1>1, <1>4, <2>3
  <2>5. 2 * (1 + Cardinality(A)) > n + 1
    BY <1>1
  <2> HIDE DEF A, B, n
  <2> QED BY <1>3, <2>2, <2>4, <2>5
<1> QED
  BY <1>2, <1>4
=============================================================================
