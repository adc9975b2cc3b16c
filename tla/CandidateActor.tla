--------------------------- MODULE CandidateActor ---------------------------
(***************************************************************************)
(* The candidate actor (src/server/actors/candidate.rs).  Once it has      *)
(* begun an election it stays in the election's loop until its timer or a  *)
(* change of role makes it leave: select! picks among the ready branches   *)
(* at random, so after it has stepped down it may go on taking messages    *)
(* from its queue, with the term of the election it no longer stands in.   *)
(***************************************************************************)
EXTENDS Server

IdleCandidate == [campaigning |-> FALSE, term |-> 0, votes |-> 0]

\* The election's loop is reached when every request for a vote is sent.
Polling(s) == candidate[s].campaigning /\ ~Sending(s, "RequestVote")

\* What brings the actor to the top of its outer loop: a change of role it has
\* been waiting for, or the end of an election by its timer or by a change.
CandidateLoops(s) ==
    \/ ~candidate[s].campaigning /\ "Candidate" \in unseen[s]
    \/ Polling(s)

\* A new election: the term rises, the server votes for itself, and a task
\* for each peer is given a request.  Votes still in the queue stay there.
CandidateCampaigns(s) ==
    /\ Running
    /\ CandidateLoops(s)
    /\ state[s] = "Candidate"
    /\ currentTerm[s] < MaxTerm
    /\ Keep(s, {"Candidate"})
    /\ currentTerm' = [currentTerm EXCEPT ![s] = @ + 1]
    /\ votedFor' = [votedFor EXCEPT ![s] = s]
    /\ candidate' = [candidate EXCEPT ![s] =
           [campaigning |-> TRUE, term |-> currentTerm[s] + 1, votes |-> 0]]
    /\ outbox' = [outbox EXCEPT ![s] = @ \cup
           {[to |-> p, message |-> RequestVote(s, currentTerm[s] + 1)] :
                p \in Peers(s)}]
    /\ UNCHANGED <<log, volatileVars, inbox, queue, clientQueue, follower,
                   leading, request, panicked>>

CandidateStandsDown(s) ==
    /\ Running
    /\ CandidateLoops(s)
    /\ state[s] # "Candidate"
    /\ Keep(s, {"Candidate"})
    /\ candidate' = [candidate EXCEPT ![s] = IdleCandidate]
    /\ UNCHANGED <<persistentVars, volatileVars, channelVars, follower, leading,
                   request, panicked>>

CandidateReceives(s, type) ==
    /\ Running
    /\ Polling(s)
    /\ Receives(s, "Candidate", type)
    /\ Take(s, "Candidate")

\* Any request of the election's term or a later one sends the candidate back
\* to following its sender.  A request for a vote is granted with it, even in
\* the term in which the server has voted for itself.
CandidateYields(s, m, response) ==
    /\ m.term >= candidate[s].term
    /\ currentTerm' = [currentTerm EXCEPT ![s] = m.term]
    /\ votedFor' = [votedFor EXCEPT ![s] = m.from]
    /\ SwitchTo(s, "Follower", {})
    /\ Send(m.from, response)
    /\ UNCHANGED <<log, volatileVars, clientQueue, outbox, actorVars, request,
                   panicked>>

CandidateRefuses(s, m, response) ==
    /\ m.term < candidate[s].term
    /\ Send(m.from, response)
    /\ UNCHANGED <<roleVars, persistentVars, volatileVars, clientQueue, outbox,
                   actorVars, request, panicked>>

CandidateFollowsLeader(s) ==
    LET m == Mail(s, "Candidate") IN
    /\ CandidateReceives(s, "AppendEntries")
    /\ CandidateYields(s, m,
           AppendEntriesResponse(s, candidate[s].term, TRUE))

CandidateRejectsStaleLeader(s) ==
    LET m == Mail(s, "Candidate") IN
    /\ CandidateReceives(s, "AppendEntries")
    /\ CandidateRefuses(s, m,
           AppendEntriesResponse(s, candidate[s].term, FALSE))

CandidateGrantsVote(s) ==
    LET m == Mail(s, "Candidate") IN
    /\ CandidateReceives(s, "RequestVote")
    /\ CandidateYields(s, m, RequestVoteResponse(s, candidate[s].term, TRUE))

CandidateRefusesVote(s) ==
    LET m == Mail(s, "Candidate") IN
    /\ CandidateReceives(s, "RequestVote")
    /\ CandidateRefuses(s, m, RequestVoteResponse(s, candidate[s].term, FALSE))

\* Variants with a bug: half of the peers is enough, or all are too few.
HalfIsEnough(votes, s) == votes * 2 >= Cardinality(Peers(s))

WholeClusterNeeded(votes, s) == votes >= Cardinality(Node)

\* The votes counted are those of peers, against the number of peers asked.
Majority(votes, s) == votes * 2 > Cardinality(Peers(s))

\* A variant with a bug: the election's loop is not left after the victory.
CandidateWinsAndStays(s) ==
    /\ CandidateReceives(s, "RequestVoteResponse")
    /\ Mail(s, "Candidate").granted
    /\ Majority(candidate[s].votes + 1, s)
    /\ SwitchTo(s, "Leader", {})
    /\ candidate' = [candidate EXCEPT ![s].votes = @ + 1]
    /\ UNCHANGED <<persistentVars, volatileVars, inbox, clientQueue, outbox,
                   follower, leading, request, panicked>>

CandidateWins(s) ==
    /\ CandidateReceives(s, "RequestVoteResponse")
    /\ Mail(s, "Candidate").granted
    /\ Majority(candidate[s].votes + 1, s)
    /\ SwitchTo(s, "Leader", {"Candidate"})
    /\ candidate' = [candidate EXCEPT ![s] = IdleCandidate]
    /\ UNCHANGED <<persistentVars, volatileVars, inbox, clientQueue, outbox,
                   follower, leading, request, panicked>>

\* A vote short of a majority is counted, a refusal is not; neither the term
\* nor the sender of the answer is looked at.
CandidateCountsVote(s) ==
    LET granted == Mail(s, "Candidate").granted IN
    /\ CandidateReceives(s, "RequestVoteResponse")
    /\ ~(granted /\ Majority(candidate[s].votes + 1, s))
    /\ candidate' = [candidate EXCEPT ![s].votes =
                         IF granted THEN @ + 1 ELSE @]
    /\ UNCHANGED <<roleVars, persistentVars, volatileVars, inbox, clientQueue,
                   outbox, follower, leading, request, panicked>>

\* unreachable!("should never have received this message")
CandidatePanics(s) ==
    /\ CandidateReceives(s, "AppendEntriesResponse")
    /\ Panic("unreachable")
    /\ UNCHANGED clientQueue

CandidateStep(s) ==
    \/ CandidateCampaigns(s)
    \/ CandidateStandsDown(s)
    \/ CandidateFollowsLeader(s)
    \/ CandidateRejectsStaleLeader(s)
    \/ CandidateGrantsVote(s)
    \/ CandidateRefusesVote(s)
    \/ CandidateWins(s)
    \/ CandidateCountsVote(s)
    \/ CandidatePanics(s)
=============================================================================
