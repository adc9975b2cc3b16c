--------------------------- MODULE DataTypeProofs ---------------------------
(***************************************************************************)
(* Theorems about the data types a server holds: for every number of peers *)
(* the highest committable index is the highest one credited to a majority *)
(* of the cluster, and the state machine is sound for every width of its   *)
(* numbers.                                                                *)
(***************************************************************************)
EXTENDS PeerIndices, StateMachine, ServerDataProofs

IndicesTyped == nextIndices \in [Peer -> 1 .. MaxIndex]

\* A peer's index never falls below 1 (volatile_leader_state.rs:36-43) and, as
\* the leader sets it, never rises past the end of the log.
THEOREM IndicesStayTyped == Spec => []IndicesTyped
<1> USE PeerAssumption
<1>1. Init => IndicesTyped
  BY DEF Init, IndicesTyped, NewNextIndices
<1>2. IndicesTyped /\ [Next]_nextIndices => IndicesTyped'
  BY DEF IndicesTyped, Next, SetNextIndex, DecrementNextIndex, Decrement
<1> QED
  BY <1>1, <1>2, PTL DEF Spec

\* However the leader's calls set and decrement the indices, the element it
\* reads off the middle of the sorted vector, less one, is the highest index
\* that a majority of the full cluster is credited with
\* (volatile_leader_state.rs:95-104).
THEOREM CommittableIsAlwaysMajority == Spec => []CommittableIsMajority
<1>1. IndicesTyped => CommittableIsMajority
  <2> SUFFICES ASSUME IndicesTyped, Peer # {}
               PROVE  HighestCommittableIndex(nextIndices)
                         = Max({i \in 0 .. MaxIndex : i = 0 \/ Majority(i)})
    BY DEF CommittableIsMajority
  <2> DEFINE high == HighestCommittableIndex(nextIndices)
             credited == {i \in 0 .. MaxIndex : i = 0 \/ Majority(i)}
  <2>1. IsFiniteSet(Peer) /\ MaxIndex \in Nat
    BY PeerAssumption
  <2>2. /\ high + 1 \in 1 .. MaxIndex
        /\ Majority(high)
        /\ \A i \in Nat : i > high => ~Majority(i)
    <3> DEFINE credit(i) == 2 * (1 + Cardinality({p \in Peer : nextIndices[p] > i}))
    <3>1. /\ high + 1 \in 1 .. MaxIndex
          /\ credit(high) > Cardinality(Peer) + 1
          /\ \A i \in Nat : i > high => credit(i) <= Cardinality(Peer) + 1
      BY <2>1, CommittableIsHighest DEF IndicesTyped
    <3>2. ASSUME NEW i \in Nat
          PROVE  Cardinality({p \in Peer : nextIndices[p] > i}) \in Nat
      BY <2>1, FS_Subset, FS_CardinalityType
    <3>3. Cardinality(Peer) \in Nat
      BY <2>1, FS_CardinalityType
    <3> HIDE DEF high
    <3> QED BY <3>1, <3>2, <3>3 DEF Majority
  <2> HIDE DEF high
  <2>3. high \in 0 .. MaxIndex /\ high \in Nat
    <3>1. high \in Int
      <4>1. HighestCommittableIndex(nextIndices) \in Nat
        BY <2>1, CommittableBelowSomePeer DEF IndicesTyped
      <4> QED BY <4>1 DEF high
    <3> QED BY <2>1, <2>2, <3>1
  <2>4. high \in credited /\ \A i \in credited : i <= high
    BY <2>1, <2>2, <2>3
  <2>5. /\ \A x \in credited : (\A y \in credited : x >= y) => x = high
        /\ \A y \in credited : high >= y
    BY <2>1, <2>3, <2>4
  <2> HIDE DEF credited
  <2>6. Max(credited) = high
    BY <2>4, <2>5 DEF Max
  <2> QED
    BY <2>6 DEF credited, high
<1> QED
  BY <1>1, IndicesStayTyped, PTL

\* A call moves the highest committable index the way it moves the peer's own,
\* and a rejection moves it back by one at most (volatile_leader_state.rs:36-43,
\* 95-104), for every number of peers.
THEOREM CommittableAlwaysFollows == Spec => CommittableFollowsPeer
<1> DEFINE before == HighestCommittableIndex(nextIndices)
           after == HighestCommittableIndex(nextIndices')
           Follows == \A p \in Peer :
                         /\ nextIndices'[p] > nextIndices[p] => after >= before
                         /\ nextIndices'[p] < nextIndices[p] => after <= before
                         /\ DecrementNextIndex(p) => after >= before - 1
<1>1. IndicesTyped /\ IndicesTyped' /\ [Next]_nextIndices => Follows
  <2> SUFFICES ASSUME IndicesTyped, IndicesTyped', [Next]_nextIndices, NEW p \in Peer
               PROVE  /\ nextIndices'[p] > nextIndices[p] => after >= before
                      /\ nextIndices'[p] < nextIndices[p] => after <= before
                      /\ DecrementNextIndex(p) => after >= before - 1
    OBVIOUS
  <2>1. /\ IsFiniteSet(Peer) /\ Peer # {} /\ MaxIndex \in Nat
        /\ nextIndices \in [Peer -> 1 .. MaxIndex]
        /\ nextIndices' \in [Peer -> 1 .. MaxIndex]
    BY PeerAssumption DEF IndicesTyped
  <2>2. before \in Nat /\ after \in Nat
    <3>1. /\ nextIndices \in [Peer -> Nat] /\ nextIndices' \in [Peer -> Nat]
          /\ \A q \in Peer : nextIndices[q] <= MaxIndex /\ nextIndices'[q] <= MaxIndex
      BY <2>1
    <3> QED BY <2>1, <3>1, CommittableBelowSomePeer
  <2>3. ASSUME nextIndices'[p] # nextIndices[p]
        PROVE  \A q \in Peer \ {p} : nextIndices'[q] = nextIndices[q]
    BY <2>1, <2>3 DEF Next, SetNextIndex, DecrementNextIndex
  <2>4. ASSUME nextIndices'[p] > nextIndices[p] PROVE after >= before
    <3>1. \A q \in Peer : nextIndices'[q] >= nextIndices[q] - 0
      BY <2>1, <2>3, <2>4
    <3>2. after >= before - 0
      BY ONLY <2>1, <3>1, 0 \in Nat, CommittableFallsNoFaster
    <3> QED BY <2>2, <3>2
  <2>5. ASSUME nextIndices'[p] < nextIndices[p] PROVE after <= before
    <3>1. \A q \in Peer : nextIndices[q] >= nextIndices'[q] - 0
      BY <2>1, <2>3, <2>5
    <3>2. before >= after - 0
      BY ONLY <2>1, <3>1, 0 \in Nat, CommittableFallsNoFaster
    <3> QED BY <2>2, <3>2
  <2>6. ASSUME DecrementNextIndex(p) PROVE after >= before - 1
    <3>1. \A q \in Peer : nextIndices'[q] >= nextIndices[q] - 1
      BY <2>1, <2>6 DEF DecrementNextIndex, Decrement
    <3> QED BY ONLY <2>1, <3>1, 1 \in Nat, CommittableFallsNoFaster
  <2> QED BY <2>4, <2>5, <2>6
<1>2. Follows <=> LET b == HighestCommittableIndex(nextIndices)
                      c == HighestCommittableIndex(nextIndices')
                  IN  \A p \in Peer :
                         /\ nextIndices'[p] > nextIndices[p] => c >= b
                         /\ nextIndices'[p] < nextIndices[p] => c <= b
                         /\ DecrementNextIndex(p) => c >= b - 1
  OBVIOUS
<1> HIDE DEF Follows
<1> QED
  BY <1>1, <1>2, IndicesStayTyped, PTL DEF Spec, CommittableFollowsPeer

-----------------------------------------------------------------------------
(***************************************************************************)
(* The state machine.                                                      *)
(***************************************************************************)
MachineTypeOK ==
    /\ machine \in [Key -> Value]
    /\ replica \in [Key -> Value]
    /\ exact \in [Key -> Value \cup {OutOfRange}]

\* A command leaves a value of the width, whatever it is given.
LEMMA ExecType ==
    ASSUME NEW op \in Op, NEW lhs \in Value, NEW rhs \in Value
    PROVE  Exec(op, lhs, rhs) \in Value
<1>1. MaxValue \in Nat
    BY ValueAssumption
<1>2. CASE op = "Increment"
    BY <1>1, <1>2 DEF Exec, Saturating, Value, MinValue
<1>3. CASE op = "Decrement"
    BY <1>1, <1>3 DEF Exec, Saturating, Value, MinValue
<1>4. CASE op = "Replace"
    BY <1>4 DEF Exec
<1>5. QED
    BY <1>2, <1>3, <1>4 DEF Op

\* The reference stays among integers of the width and its mark beyond them.
LEMMA ReferenceType ==
    ASSUME NEW op, NEW lhs, NEW rhs
    PROVE  Reference(op, lhs, rhs) \in Value \cup {OutOfRange}
    BY DEF Reference

\* A reference that is still in range is what the machine computes.
LEMMA ReferenceIsExec ==
    ASSUME NEW op \in Op, NEW lhs \in Value, NEW rhs \in Value,
           Reference(op, lhs, rhs) # OutOfRange
    PROVE  Exec(op, lhs, rhs) = Reference(op, lhs, rhs)
<1>1. MaxValue \in Nat
    BY ValueAssumption
<1>2. CASE op = "Increment"
    BY <1>1, <1>2 DEF Reference, Exec, Saturating, Value, MinValue
<1>3. CASE op = "Decrement"
    BY <1>1, <1>3 DEF Reference, Exec, Saturating, Value, MinValue
<1>4. CASE op = "Replace"
    BY <1>4 DEF Reference, Exec
<1>5. QED
    BY <1>2, <1>3, <1>4 DEF Op

\* From a value already lost only a Replace comes back, and it needs no value.
LEMMA ReferenceForgets ==
    ASSUME NEW op \in Op, NEW lhs \in Value, NEW rhs \in Value,
           Reference(op, OutOfRange, rhs) # OutOfRange
    PROVE  Exec(op, lhs, rhs) = Reference(op, OutOfRange, rhs)
<1>1. OutOfRange \notin Value
    BY ValueAssumption DEF OutOfRange, Value, MinValue
<1>2. op = "Replace"
    BY <1>1 DEF Reference
<1>3. QED
    BY <1>2 DEF Reference, Exec

\* A command keeps the order of two values and brings them no further apart.
LEMMA ExecContracts ==
    ASSUME NEW op \in Op, NEW low \in Value, NEW high \in Value,
           NEW rhs \in Value, low <= high
    PROVE  /\ Exec(op, low, rhs) <= Exec(op, high, rhs)
           /\ Exec(op, high, rhs) - Exec(op, low, rhs) <= high - low
<1>1. MaxValue \in Nat
    BY ValueAssumption
<1>2. CASE op = "Increment"
    BY <1>1, <1>2 DEF Exec, Saturating, Value, MinValue
<1>3. CASE op = "Decrement"
    BY <1>1, <1>3 DEF Exec, Saturating, Value, MinValue
<1>4. CASE op = "Replace"
    BY <1>1, <1>4 DEF Exec, Value, MinValue
<1>5. QED
    BY <1>2, <1>3, <1>4 DEF Op
-----------------------------------------------------------------------------
LEMMA MachineInitial == MachineInit => MachineTypeOK /\ ExactWhileInRange
<1>1. 0 \in Value
    BY ValueAssumption DEF Value, MinValue
<1>2. QED
    BY <1>1 DEF MachineInit, MachineTypeOK, ExactWhileInRange

LEMMA MachineTypeStep ==
    MachineTypeOK /\ [MachineNext]_machineVars => MachineTypeOK'
<1> SUFFICES ASSUME MachineTypeOK, [MachineNext]_machineVars
             PROVE  MachineTypeOK'
    OBVIOUS
<1>1. ASSUME NEW op \in Op, NEW key \in Key, NEW value \in Value,
             ApplyCommand(op, key, value)
      PROVE  MachineTypeOK'
    <2>1. /\ Exec(op, machine[key], value) \in Value
          /\ Exec(op, replica[key], value) \in Value
        BY <1>1, ExecType DEF MachineTypeOK
    <2>2. Reference(op, exact[key], value) \in Value \cup {OutOfRange}
        BY ReferenceType
    <2>3. QED
        BY <1>1, <2>1, <2>2 DEF ApplyCommand, MachineTypeOK
<1>2. CASE UNCHANGED machineVars
    BY <1>2 DEF machineVars, MachineTypeOK
<1>3. QED
    BY <1>1, <1>2 DEF MachineNext

LEMMA ExactStep ==
    MachineTypeOK /\ ExactWhileInRange /\ [MachineNext]_machineVars
        => ExactWhileInRange'
<1> SUFFICES ASSUME MachineTypeOK, ExactWhileInRange, [MachineNext]_machineVars
             PROVE  ExactWhileInRange'
    OBVIOUS
<1>1. ASSUME NEW op \in Op, NEW key \in Key, NEW value \in Value,
             ApplyCommand(op, key, value)
      PROVE  ExactWhileInRange'
    <2> SUFFICES ASSUME NEW k \in Key, exact'[k] # OutOfRange
                 PROVE  machine'[k] = exact'[k]
        BY DEF ExactWhileInRange
    <2>1. CASE k # key
        BY <1>1, <2>1 DEF ApplyCommand, ExactWhileInRange, MachineTypeOK
    <2>2. CASE k = key
        <3>1. /\ machine'[k] = Exec(op, machine[k], value)
              /\ exact'[k] = Reference(op, exact[k], value)
            BY <1>1, <2>2 DEF ApplyCommand, MachineTypeOK
        <3>2. CASE exact[k] = OutOfRange
            BY <3>1, <3>2, ReferenceForgets DEF MachineTypeOK
        <3>3. CASE exact[k] # OutOfRange
            BY <3>1, <3>3, ReferenceIsExec DEF MachineTypeOK, ExactWhileInRange
        <3>4. QED
            BY <3>2, <3>3
    <2>3. QED
        BY <2>1, <2>2
<1>2. CASE UNCHANGED machineVars
    BY <1>2 DEF machineVars, ExactWhileInRange
<1>3. QED
    BY <1>1, <1>2 DEF MachineNext

\* A value in a machine is the exact one until arithmetic leaves the width.
THEOREM MachineIsExact == MachineSpec => []ExactWhileInRange
<1>1. MachineInit => MachineTypeOK /\ ExactWhileInRange
    BY MachineInitial
<1>2. MachineTypeOK /\ ExactWhileInRange /\ [MachineNext]_machineVars
          => MachineTypeOK' /\ ExactWhileInRange'
    BY MachineTypeStep, ExactStep
<1>3. QED
    BY <1>1, <1>2, PTL DEF MachineSpec

\* What one command does to two machines.
StayClose ==
    \A key \in Key :
        machine[key] <= replica[key] =>
            /\ machine'[key] <= replica'[key]
            /\ replica'[key] - machine'[key] <= replica[key] - machine[key]

LEMMA ConvergingStep ==
    MachineTypeOK /\ [MachineNext]_machineVars => [StayClose]_machineVars
<1> SUFFICES ASSUME MachineTypeOK, MachineNext, NEW k \in Key,
                    machine[k] <= replica[k]
             PROVE  /\ machine'[k] <= replica'[k]
                    /\ replica'[k] - machine'[k] <= replica[k] - machine[k]
    BY DEF StayClose
<1>1. PICK op \in Op, key \in Key, value \in Value : ApplyCommand(op, key, value)
    BY DEF MachineNext
<1>2. CASE k # key
    <2>1. machine'[k] = machine[k] /\ replica'[k] = replica[k]
        BY <1>1, <1>2 DEF ApplyCommand, MachineTypeOK
    <2>2. machine[k] \in Int /\ replica[k] \in Int
        BY ValueAssumption DEF MachineTypeOK, Value, MinValue
    <2>3. QED
        BY <2>1, <2>2
<1>3. CASE k = key
    <2>1. /\ machine'[k] = Exec(op, machine[k], value)
          /\ replica'[k] = Exec(op, replica[k], value)
        BY <1>1, <1>3 DEF ApplyCommand, MachineTypeOK
    <2>2. machine[k] \in Value /\ replica[k] \in Value
        BY DEF MachineTypeOK
    <2>3. QED
        BY <2>1, <2>2, ExecContracts
<1>4. QED
    BY <1>2, <1>3

\* Machines that apply the same commands never drift apart nor change places.
THEOREM MachinesStayClose == MachineSpec => ReplicasStayClose
<1>1. MachineInit => MachineTypeOK
    BY MachineInitial
<1>2. MachineTypeOK /\ [MachineNext]_machineVars => MachineTypeOK'
    BY MachineTypeStep
<1>3. MachineTypeOK /\ [MachineNext]_machineVars => [StayClose]_machineVars
    BY ConvergingStep
<1>4. MachineSpec => [][StayClose]_machineVars
    BY <1>1, <1>2, <1>3, PTL DEF MachineSpec
<1>5. QED
    BY <1>4 DEF ReplicasStayClose, StayClose
=============================================================================
