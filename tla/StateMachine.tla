---------------------------- MODULE StateMachine ----------------------------
(***************************************************************************)
(* The state machine of a server (src/state_machine.rs) under any commands *)
(* it may be given.  No code of a server applies a command to it yet: its  *)
(* tests do, from any values, and a replica is to be one that applies the  *)
(* same commands as another, perhaps from a state that has fallen behind.  *)
(***************************************************************************)
EXTENDS Integers

CONSTANTS
    Key,
    MaxValue       \* The greatest number of the machine's width, i64.

ASSUME ValueAssumption == MaxValue \in Nat

\* Two's complement: there is one more number below zero than above.
MinValue == -MaxValue - 1

Value == MinValue .. MaxValue

VARIABLES
    machine,   \* The value at each key.
    replica,   \* The values of another machine, given the same commands.
    exact      \* What integers of any size would hold, while they are in range.

machineVars == <<machine, replica, exact>>

OutOfRange == MaxValue + 1

\* A variant with a bug: the sum wraps around.
Wrapping(i) ==
    MinValue + ((i - MinValue) % (MaxValue - MinValue + 1))

\* saturating_add and saturating_sub: the nearest value there is.
Saturating(i) ==
    IF i < MinValue THEN MinValue
    ELSE IF i > MaxValue THEN MaxValue ELSE i

Op == {"Increment", "Decrement", "Replace"}

\* A variant with a bug: a decrement may be taken for the negated increment,
\* but the smallest value has no opposite.
ExecNegating(op, lhs, rhs) ==
    CASE op = "Increment" -> Saturating(lhs + rhs)
      [] op = "Decrement" -> Saturating(lhs + Saturating(-rhs))
      [] op = "Replace"   -> rhs

Exec(op, lhs, rhs) ==
    CASE op = "Increment" -> Saturating(lhs + rhs)
      [] op = "Decrement" -> Saturating(lhs - rhs)
      [] op = "Replace"   -> rhs

\* The same operation on integers.  What has left the range has no value that a
\* later command could bring back.
Reference(op, lhs, rhs) ==
    LET result == CASE op = "Increment" -> lhs + rhs
                    [] op = "Decrement" -> lhs - rhs
                    [] op = "Replace"   -> rhs
    IN  IF (lhs \in Value \/ op = "Replace") /\ result \in Value
        THEN result ELSE OutOfRange

\* A machine begins with zeros, or in a test with values of its own.
MachineInit ==
    /\ machine = [key \in Key |-> 0]
    /\ replica \in [Key -> Value]
    /\ exact = machine

ApplyCommand(op, key, value) ==
    /\ machine' = [machine EXCEPT ![key] = Exec(op, @, value)]
    /\ replica' = [replica EXCEPT ![key] = Exec(op, @, value)]
    /\ exact' = [exact EXCEPT ![key] = Reference(op, @, value)]

MachineNext ==
    \E op \in Op, key \in Key, value \in Value : ApplyCommand(op, key, value)

MachineSpec == MachineInit /\ [][MachineNext]_machineVars
-----------------------------------------------------------------------------
\* Until arithmetic on integers leaves the range of i64, each value is the one
\* that arithmetic gives; it is so again from the next Replace on
\* (state_machine.rs:89-95).
ExactWhileInRange ==
    \A key \in Key : exact[key] # OutOfRange => machine[key] = exact[key]

\* Two machines given the same commands never drift apart nor change places,
\* whatever saturates on the way: at a key where one is not above the other it
\* never comes to be, and the difference never grows.
ReplicasStayClose ==
    [][\A key \in Key :
          machine[key] <= replica[key] =>
              /\ machine'[key] <= replica'[key]
              /\ replica'[key] - machine'[key] <= replica[key] - machine[key]
       ]_machineVars
=============================================================================
