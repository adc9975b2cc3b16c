------------------------- MODULE ClientRequestActor -------------------------
(***************************************************************************)
(* A client (src/client.rs) and the actor of a server that answers clients *)
(* (src/server/actors/client_request.rs).  A client sends each request to  *)
(* a server it draws at random.  A leader answers at once; any other       *)
(* server passes the request on to the server it last voted for.           *)
(***************************************************************************)
EXTENDS Server

ClientSends(r) ==
    /\ Running
    /\ request[r] = "unsent"
    /\ request' = [request EXCEPT ![r] = "pending"]
    /\ \E s \in Node : Send(s, ClientRequest(r))
    /\ UNCHANGED <<roleVars, persistentVars, volatileVars, queue, clientQueue,
                   outbox, actorVars, panicked>>

\* A variant with a bug: the request stays in the queue.
PeeksRequest(s) ==
    /\ Running
    /\ clientQueue[s] # <<>>
    /\ clientQueue' = clientQueue

TakesRequest(s) ==
    /\ Running
    /\ clientQueue[s] # <<>>
    /\ clientQueue' = [clientQueue EXCEPT ![s] = Tail(@)]

\* A variant with a bug: reads are recorded like writes.
LeaderRecordsAll(s) ==
    LET r == Head(clientQueue[s]) IN
    /\ TakesRequest(s)
    /\ state[s] = "Leader"
    /\ log' = [log EXCEPT ![s] = AppendCommand(@, currentTerm[s], r)]
    /\ request' = [request EXCEPT ![r] = "answered"]
    /\ UNCHANGED <<roleVars, currentTerm, votedFor, volatileVars, inbox, queue,
                   outbox, actorVars, panicked>>

\* The leader answers a read from its state machine, to which no code applies
\* any entry, and a write as soon as the command is in its own log.  The append
\* (client_request.rs:50) and handing over the answer (:51) are one step: nothing
\* between them looks at the log on the client's behalf.  A wait for room in the
\* client's channel is one of Backpressure.
LeaderAnswers(s) ==
    LET r == Head(clientQueue[s]) IN
    /\ TakesRequest(s)
    /\ state[s] = "Leader"
    /\ log' = [log EXCEPT ![s] =
                   IF r \in Writes THEN AppendCommand(@, currentTerm[s], r)
                   ELSE @]
    /\ request' = [request EXCEPT ![r] = "answered"]
    /\ UNCHANGED <<roleVars, currentTerm, votedFor, volatileVars, inbox, queue,
                   outbox, actorVars, panicked>>

\* A variant with a bug: the request is taken and not passed on.
ServerSwallows(s) ==
    /\ TakesRequest(s)
    /\ state[s] # "Leader"
    /\ votedFor[s] \in Peers(s)
    /\ UNCHANGED <<roleVars, persistentVars, volatileVars, inbox, queue, outbox,
                   actorVars, request, panicked>>

ServerForwards(s) ==
    LET r == Head(clientQueue[s]) IN
    /\ TakesRequest(s)
    /\ state[s] # "Leader"
    /\ votedFor[s] \in Peers(s)
    /\ Send(votedFor[s], ClientRequest(r))
    /\ UNCHANGED <<roleVars, persistentVars, volatileVars, queue, outbox,
                   actorVars, request, panicked>>

\* A variant with a bug: the leader's branch does not return.
ServerUnwrapsAnyway(s) ==
    /\ TakesRequest(s)
    /\ votedFor[s] \notin Peers(s)
    /\ Panic("no leader known")
    /\ UNCHANGED queue

\* voted_for is unwrapped when it is None, and a server is not among its own
\* peers: either unwrap panics.
ServerKnowsNoLeader(s) ==
    /\ TakesRequest(s)
    /\ state[s] # "Leader"
    /\ votedFor[s] \notin Peers(s)
    /\ Panic("no leader known")
    /\ UNCHANGED queue

ClientRequestStep(s) ==
    \/ LeaderAnswers(s)
    \/ ServerForwards(s)
    \/ ServerKnowsNoLeader(s)
=============================================================================
