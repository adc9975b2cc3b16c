--------------------------- MODULE ClientContract ---------------------------
(***************************************************************************)
(* What the cluster promises its clients, whatever its servers do to elect *)
(* a leader: a request is answered at most once, and a write is recorded   *)
(* in the log of one server, once, in the step that answers it.  Nothing   *)
(* recorded is ever taken back or reordered.  That an answered write is    *)
(* stored anywhere else, or survives, is no part of the promise.           *)
(***************************************************************************)
EXTENDS Integers, Sequences

CONSTANTS Server, Reads, Writes

VARIABLES
    request,       \* "unsent", "pending" or "answered", for each request.
    recorded       \* The writes in each server's log, in order.

Init ==
    /\ request = [r \in Reads \cup Writes |-> "unsent"]
    /\ recorded = [s \in Server |-> <<>>]

Issue(r) ==
    /\ request[r] = "unsent"
    /\ request' = [request EXCEPT ![r] = "pending"]
    /\ UNCHANGED recorded

Answer(r) ==
    /\ request[r] = "pending"
    /\ request' = [request EXCEPT ![r] = "answered"]

AnswerRead(r) ==
    /\ r \in Reads
    /\ Answer(r)
    /\ UNCHANGED recorded

AnswerWrite(r) ==
    /\ r \in Writes
    /\ Answer(r)
    /\ \E s \in Server :
          recorded' = [recorded EXCEPT ![s] = Append(@, r)]

Next == \E r \in Reads \cup Writes : Issue(r) \/ AnswerRead(r) \/ AnswerWrite(r)

Spec == Init /\ [][Next]_<<request, recorded>>
=============================================================================
