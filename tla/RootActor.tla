----------------------------- MODULE RootActor -----------------------------
(***************************************************************************)
(* The root actor of a server (src/server/actors/root.rs): the only reader *)
(* of the mailbox.  It routes by the role of the moment at which it takes  *)
(* the message, so what it routed stays in that role's queue when the role *)
(* changes before the message is handled.                                  *)
(***************************************************************************)
EXTENDS Server

FromClient(message) == message.type = "ClientRequest"

\* A variant with a bug: the message goes to an actor that is at work, in
\* whatever role, and not by the role of the server.
RootRoutesToWorker(s) ==
    LET role == IF follower[s].watching THEN "Follower"
                ELSE IF candidate[s].campaigning THEN "Candidate"
                ELSE "Leader"
    IN
    /\ Running
    /\ inbox[s] # <<>>
    /\ ~FromClient(Head(inbox[s]))
    /\ inbox' = [inbox EXCEPT ![s] = Tail(@)]
    /\ queue' = [queue EXCEPT ![s][role] = Append(@, Head(inbox[s]))]
    /\ UNCHANGED <<roleVars, persistentVars, volatileVars, clientQueue, outbox,
                   actorVars, request, panicked>>

RootRoutesServerMessage(s) ==
    /\ Running
    /\ inbox[s] # <<>>
    /\ ~FromClient(Head(inbox[s]))
    /\ inbox' = [inbox EXCEPT ![s] = Tail(@)]
    /\ queue' = [queue EXCEPT ![s][state[s]] = Append(@, Head(inbox[s]))]
    /\ UNCHANGED <<roleVars, persistentVars, volatileVars, clientQueue, outbox,
                   actorVars, request, panicked>>

RootRoutesClientMessage(s) ==
    /\ Running
    /\ inbox[s] # <<>>
    /\ FromClient(Head(inbox[s]))
    /\ inbox' = [inbox EXCEPT ![s] = Tail(@)]
    /\ clientQueue' =
           [clientQueue EXCEPT ![s] = Append(@, Head(inbox[s]).request)]
    /\ UNCHANGED <<roleVars, persistentVars, volatileVars, queue, outbox,
                   actorVars, request, panicked>>

RootStep(s) == RootRoutesServerMessage(s) \/ RootRoutesClientMessage(s)
=============================================================================
