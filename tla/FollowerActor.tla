--------------------------- MODULE FollowerActor ---------------------------
(***************************************************************************)
(* The follower actor (src/server/actors/follower.rs).  While it watches,  *)
(* it waits in one select! for its timer, a change of role or a message;   *)
(* the term it compares requests with is the one it read before it began   *)
(* to wait.  Every branch ends at the top of the loop, where the role is   *)
(* polled and the term is read again.                                      *)
(***************************************************************************)
EXTENDS Server

IdleFollower == [watching |-> FALSE, term |-> 0]

\* The top of the loop, after a step that leaves the role at state'[s].
FollowerLoops(s) ==
    follower' = [follower EXCEPT ![s] =
                     IF state'[s] = "Follower"
                     THEN [watching |-> TRUE, term |-> currentTerm'[s]]
                     ELSE IdleFollower]

\* The election timer expires.
FollowerTimesOut(s) ==
    /\ Running
    /\ follower[s].watching
    /\ s \in Impatient
    /\ currentTerm[s] < MaxTerm
    /\ SwitchTo(s, "Candidate", {"Follower"})
    /\ UNCHANGED persistentVars
    /\ FollowerLoops(s)
    /\ UNCHANGED <<volatileVars, channelVars, candidate, leading, request,
                   panicked>>

\* The receiver of the watch channel reports a change, watching or not.
FollowerSeesChange(s) ==
    /\ Running
    /\ "Follower" \in unseen[s]
    /\ Keep(s, {"Follower"})
    /\ UNCHANGED persistentVars
    /\ FollowerLoops(s)
    /\ UNCHANGED <<volatileVars, channelVars, candidate, leading, request,
                   panicked>>

FollowerReceives(s, type) ==
    /\ Running
    /\ follower[s].watching
    /\ Receives(s, "Follower", type)
    /\ Take(s, "Follower")

\* The vote is free, or is the candidate's already, whatever term it was
\* given in: nothing gives it back when the term rises.
WouldVote(s, m) ==
    /\ m.term >= follower[s].term
    /\ votedFor[s] \in {NoVote, m.from}

FollowerGrantsVote(s) ==
    LET m == Mail(s, "Follower") IN
    /\ FollowerReceives(s, "RequestVote")
    /\ WouldVote(s, m)
    /\ currentTerm' = [currentTerm EXCEPT ![s] = m.term]
    /\ votedFor' = [votedFor EXCEPT ![s] = m.from]
    /\ SwitchTo(s, "Follower", {"Follower"})
    /\ FollowerLoops(s)
    /\ Send(m.from, RequestVoteResponse(s, follower[s].term, TRUE))
    /\ UNCHANGED <<log, volatileVars, clientQueue, outbox, candidate, leading,
                   request, panicked>>

FollowerRefusesVote(s) ==
    LET m == Mail(s, "Follower") IN
    /\ FollowerReceives(s, "RequestVote")
    /\ ~WouldVote(s, m)
    /\ Keep(s, {"Follower"})
    /\ UNCHANGED persistentVars
    /\ FollowerLoops(s)
    /\ Send(m.from, RequestVoteResponse(s, follower[s].term, FALSE))
    /\ UNCHANGED <<volatileVars, clientQueue, outbox, candidate, leading,
                   request, panicked>>

\* A variant with a bug: the leader's commit index is adopted even if lower.
AdoptedBlindly(s, m) ==
    LET last == LastIndexOr(m.entries, m.leaderCommit) IN
    IF last < m.leaderCommit THEN last ELSE m.leaderCommit

\* What the follower takes the leader's commit index to mean for itself.
AdoptedCommit(s, m) ==
    LET last == LastIndexOr(m.entries, m.leaderCommit) IN
    IF m.leaderCommit <= commitIndex[s] THEN commitIndex[s]
    ELSE IF last < m.leaderCommit THEN last ELSE m.leaderCommit

\* The answer to a request that is not stale.  The entries themselves are put
\* nowhere: no line of the handler appends to the log.
Consistent(s, m) ==
    \/ Holds(log[s], m.prevLogIndex, m.prevLogTerm)
    \/ m.entries # <<>> /\ log[s] = <<>>

\* A variant with a bug: an accepted heartbeat gives the vote back.
FollowerForgetsLeader(s) ==
    LET m == Mail(s, "Follower") IN
    /\ FollowerReceives(s, "AppendEntries")
    /\ m.term >= follower[s].term
    /\ votedFor' = [votedFor EXCEPT ![s] = NoVote]
    /\ currentTerm' = [currentTerm EXCEPT ![s] = m.term]
    /\ commitIndex' = [commitIndex EXCEPT ![s] = AdoptedCommit(s, m)]
    /\ Keep(s, {"Follower"})
    /\ FollowerLoops(s)
    /\ Send(m.from,
            AppendEntriesResponse(s, follower[s].term, Consistent(s, m)))
    /\ UNCHANGED <<log, nextIndex, clientQueue, outbox, candidate, leading,
                   request, panicked>>

FollowerFollowsLeader(s) ==
    LET m == Mail(s, "Follower") IN
    /\ FollowerReceives(s, "AppendEntries")
    /\ m.term >= follower[s].term
    /\ votedFor' = [votedFor EXCEPT ![s] = m.from]
    /\ currentTerm' = [currentTerm EXCEPT ![s] = m.term]
    /\ commitIndex' = [commitIndex EXCEPT ![s] = AdoptedCommit(s, m)]
    /\ Keep(s, {"Follower"})
    /\ FollowerLoops(s)
    /\ Send(m.from,
            AppendEntriesResponse(s, follower[s].term, Consistent(s, m)))
    /\ UNCHANGED <<log, nextIndex, clientQueue, outbox, candidate, leading,
                   request, panicked>>

FollowerRejectsStaleLeader(s) ==
    LET m == Mail(s, "Follower") IN
    /\ FollowerReceives(s, "AppendEntries")
    /\ m.term < follower[s].term
    /\ Keep(s, {"Follower"})
    /\ UNCHANGED persistentVars
    /\ FollowerLoops(s)
    /\ Send(m.from, AppendEntriesResponse(s, follower[s].term, FALSE))
    /\ UNCHANGED <<volatileVars, clientQueue, outbox, candidate, leading,
                   request, panicked>>

\* An answer to an election this server has since left.
FollowerDropsVote(s) ==
    /\ FollowerReceives(s, "RequestVoteResponse")
    /\ Keep(s, {"Follower"})
    /\ UNCHANGED persistentVars
    /\ FollowerLoops(s)
    /\ UNCHANGED <<volatileVars, inbox, clientQueue, outbox, candidate,
                   leading, request, panicked>>

\* unreachable!("should never have received this message")
FollowerPanics(s) ==
    /\ FollowerReceives(s, "AppendEntriesResponse")
    /\ Panic("unreachable")
    /\ UNCHANGED clientQueue

FollowerStep(s) ==
    \/ FollowerTimesOut(s)
    \/ FollowerSeesChange(s)
    \/ FollowerGrantsVote(s)
    \/ FollowerRefusesVote(s)
    \/ FollowerFollowsLeader(s)
    \/ FollowerRejectsStaleLeader(s)
    \/ FollowerDropsVote(s)
    \/ FollowerPanics(s)
=============================================================================
