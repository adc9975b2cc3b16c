---------------------------- MODULE LeaderActor ----------------------------
(***************************************************************************)
(* The leader actor (src/server/actors/leader.rs).  At the top of its loop *)
(* it gives a task for each peer an AppendEntries request, then takes      *)
(* messages until the heartbeat timer or a change of role ends the round.  *)
(***************************************************************************)
EXTENDS Server

\* A variant with a bug: the entry at next[p] is taken for the preceding one.
AppendEntriesSkipping(s, p, next) ==
    LET prev  == next[p]
        known == HasIndex(log[s], prev)
    IN  AppendEntries(
            s,
            IF known THEN prev ELSE 0,
            IF known THEN log[s][PositionOf(log[s], prev)].term ELSE 0,
            EntriesFrom(log[s], next[p]),
            commitIndex[s],
            currentTerm[s])

\* The request for peer p when the leader's volatile state is next: the entries
\* from next[p] on, and the index and term of the entry just before them.
AppendEntriesFor(s, p, next) ==
    LET prev  == next[p] - 1
        known == next[p] > 0 /\ HasIndex(log[s], prev)
    IN  AppendEntries(
            s,
            IF known THEN prev ELSE 0,
            IF known THEN log[s][PositionOf(log[s], prev)].term ELSE 0,
            EntriesFrom(log[s], next[p]),
            commitIndex[s],
            currentTerm[s])

Heartbeat(s, next) ==
    outbox' = [outbox EXCEPT ![s] = @ \cup
        {[to |-> p, message |-> AppendEntriesFor(s, p, next)] : p \in Peers(s)}]

\* The actor learns that the server is leader: the volatile state starts over
\* and the first round is sent.
LeaderTakesOffice(s) ==
    LET next == NewNextIndices(Peers(s), LastIndex(log[s])) IN
    /\ Running
    /\ ~leading[s]
    /\ "Leader" \in unseen[s]
    /\ state[s] = "Leader"
    /\ Keep(s, {"Leader"})
    /\ nextIndex' = [nextIndex EXCEPT ![s] = next]
    /\ Heartbeat(s, next)
    /\ leading' = [leading EXCEPT ![s] = TRUE]
    /\ UNCHANGED <<persistentVars, commitIndex, inbox, queue, clientQueue,
                   follower, candidate, request, panicked>>

LeaderOverlooksChange(s) ==
    /\ Running
    /\ ~leading[s]
    /\ "Leader" \in unseen[s]
    /\ state[s] # "Leader"
    /\ Keep(s, {"Leader"})
    /\ UNCHANGED <<persistentVars, volatileVars, channelVars, actorVars, request,
                   panicked>>

\* A variant with a bug: the actor does not wait for the round to be delivered.
ListeningAtOnce(s) == leading[s]

\* join_all has returned: the round's requests are in the peers' mailboxes.
Listening(s) == leading[s] /\ ~Sending(s, "AppendEntries")

\* A variant with a bug: a new round begins without requests.
LeaderIdles(s) ==
    /\ Running
    /\ Listening(s)
    /\ state[s] = "Leader"
    /\ Keep(s, {"Leader"})
    /\ UNCHANGED <<persistentVars, volatileVars, channelVars, actorVars, request,
                   panicked>>

\* The heartbeat timer, or a change of role that left the server leader.  The
\* timer runs since before join_all and waits for no answer: rounds overlap.
LeaderBeats(s) ==
    /\ Running
    /\ Listening(s)
    /\ state[s] = "Leader"
    /\ Keep(s, {"Leader"})
    /\ Heartbeat(s, nextIndex[s])
    /\ UNCHANGED <<persistentVars, volatileVars, inbox, queue, clientQueue,
                   actorVars, request, panicked>>

LeaderStandsDown(s) ==
    /\ Running
    /\ Listening(s)
    /\ state[s] # "Leader"
    /\ Keep(s, {"Leader"})
    /\ leading' = [leading EXCEPT ![s] = FALSE]
    /\ UNCHANGED <<persistentVars, volatileVars, channelVars, follower,
                   candidate, request, panicked>>

LeaderReceives(s, type) ==
    /\ Running
    /\ Listening(s)
    /\ Receives(s, "Leader", type)
    /\ Take(s, "Leader")

\* A variant with a bug: the commit index counts the answer just received.
LeaderRecordsSuccessFirst(s) ==
    LET m == Mail(s, "Leader") IN
    /\ LeaderReceives(s, "AppendEntriesResponse")
    /\ m.success
    /\ nextIndex' = [nextIndex EXCEPT ![s][m.from] = LastIndex(log[s]) + 1]
    /\ commitIndex' = [commitIndex EXCEPT ![s] =
                           HighestCommittableIndex(nextIndex'[s])]
    /\ UNCHANGED <<roleVars, persistentVars, inbox, clientQueue, outbox,
                   actorVars, request, panicked>>

\* The commit index is computed before the peer's index is advanced, and the
\* peer is taken to hold all of the log, whatever it was sent.
LeaderRecordsSuccess(s) ==
    LET m == Mail(s, "Leader") IN
    /\ LeaderReceives(s, "AppendEntriesResponse")
    /\ m.success
    /\ commitIndex' = [commitIndex EXCEPT ![s] =
                           HighestCommittableIndex(nextIndex[s])]
    /\ nextIndex' = [nextIndex EXCEPT ![s][m.from] = LastIndex(log[s]) + 1]
    /\ UNCHANGED <<roleVars, persistentVars, inbox, clientQueue, outbox,
                   actorVars, request, panicked>>

LeaderRecordsFailure(s) ==
    LET m == Mail(s, "Leader") IN
    /\ LeaderReceives(s, "AppendEntriesResponse")
    /\ ~m.success
    /\ nextIndex' = [nextIndex EXCEPT ![s][m.from] = Decrement(@)]
    /\ UNCHANGED <<roleVars, persistentVars, commitIndex, inbox, clientQueue,
                   outbox, actorVars, request, panicked>>

LeaderDropsVote(s) ==
    /\ LeaderReceives(s, "RequestVoteResponse")
    /\ UNCHANGED <<roleVars, persistentVars, volatileVars, inbox, clientQueue,
                   outbox, actorVars, request, panicked>>

\* todo!("fencing scenario"), whatever the term of the request.
LeaderPanics(s) ==
    /\ \/ LeaderReceives(s, "RequestVote")
       \/ LeaderReceives(s, "AppendEntries")
    /\ Panic("fencing")
    /\ UNCHANGED clientQueue

LeaderStep(s) ==
    \/ LeaderTakesOffice(s)
    \/ LeaderOverlooksChange(s)
    \/ LeaderBeats(s)
    \/ LeaderStandsDown(s)
    \/ LeaderRecordsSuccess(s)
    \/ LeaderRecordsFailure(s)
    \/ LeaderDropsVote(s)
    \/ LeaderPanics(s)
=============================================================================
