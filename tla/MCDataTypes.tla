---------------------------- MODULE MCDataTypes ----------------------------
(* An instance of PeerIndices, with the peers of a cluster of five as in      *)
(* main.rs, beside one of StateMachine.  A server has both, and no code of    *)
(* one touches the other.                                                     *)
EXTENDS PeerIndices, StateMachine, TLC

CONSTANTS p1, p2, p3, p4, x, y

DataInit == Init /\ MachineInit

DataNext ==
    \/ Next /\ UNCHANGED machineVars
    \/ MachineNext /\ UNCHANGED nextIndices

DataSpec == DataInit /\ [][DataNext]_<<nextIndices, machineVars>>

AnyPeer == Permutations(Peer)
=============================================================================
