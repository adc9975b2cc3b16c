--------------------------- MODULE FirstTermProofs ---------------------------
(***************************************************************************)
(* Theorems about a cluster in which several servers stand for election in *)
(* the first term.  A candidate votes for itself and may yet grant several *)
(* rivals (candidate.rs:158-174), so majorities need not meet in a server  *)
(* that votes once.  What rules out two leaders is that a server grants no *)
(* vote after which it could still be given one, and that a server which   *)
(* never stands grants one vote only.  The leader then stays in office.    *)
(***************************************************************************)
EXTENDS LoneCandidateProofs

\* The server stands no more in the first term: it has won, or follows.
Settled(s) == state[s] # "Candidate" /\ currentTerm[s] = 1

\* Roles and requests of the first term.
FirstTerm ==
    /\ \A s \in Node :
          /\ currentTerm[s] <= 1
          /\ state[s] # "Follower" \/ candidate[s].campaigning => s \in Impatient
          /\ state[s] = "Leader" \/ candidate[s].campaigning => currentTerm[s] = 1
          /\ \A parcel \in outbox[s] : parcel.message.from = s
    /\ \A m \in InFlight :
          m.type \in {"RequestVote", "AppendEntries"} =>
              m.term = 1 /\ (m.type = "AppendEntries" => Settled(m.from))

-----------------------------------------------------------------------------
(***************************************************************************)
(* What a step does.                                                       *)
(***************************************************************************)
\* p grants x its vote.
Grants(p, x) ==
    \/ FollowerGrantsVote(p) /\ Mail(p, "Follower").from = x
    \/ CandidateGrantsVote(p) /\ Mail(p, "Candidate").from = x

\* x counts the vote of p.
Counts(x, p) ==
    /\ CandidateWins(x) \/ CandidateCountsVote(x)
    /\ Mail(x, "Candidate").granted
    /\ Mail(x, "Candidate").from = p

Takes(s, role) == queue[s][role] # <<>> /\ Take(s, role)

\* A message is taken and answered.
Replies(s, role) ==
    /\ Takes(s, role)
    /\ \E answer \in VoteResponses \cup AppendResponses :
          /\ answer.from = s
          /\ Send(Mail(s, role).from, answer)
          /\ answer \in VoteResponses => Mail(s, role) \in VoteRequests
          /\ answer \in AppendResponses => Mail(s, role) \in AppendRequests
          /\ answer \in VoteResponses /\ answer.granted =>
                Grants(s, Mail(s, role).from)
    /\ UNCHANGED outbox

Traffic ==
    \/ Unposted
    \/ \E s \in Node, role \in Role : Takes(s, role) /\ UNCHANGED <<inbox, outbox>>
    \/ \E s \in Node : Replies(s, "Follower") \/ Replies(s, "Candidate")
    \/ \E s \in Node : CandidateCampaigns(s)
    \/ \E s \in Node : Beats(s)
    \/ \E s \in Node : RootStep(s)
    \/ \E s \in Node : Transmit(s)
    \/ ClientMail

LEMMA TrafficOfFollower ==
    ASSUME TypeOK, NEW s \in Node, FollowerStep(s)
    PROVE  Traffic
<1>1. CASE FollowerTimesOut(s) \/ FollowerSeesChange(s)
  BY <1>1 DEF FollowerTimesOut, FollowerSeesChange, channelVars, Traffic, Unposted
<1>2. CASE FollowerDropsVote(s) \/ FollowerPanics(s)
  BY <1>2 DEF FollowerDropsVote, FollowerPanics, FollowerReceives, Receives, Panic,
     Traffic, Takes, Role
<1>3. ASSUME NEW type, FollowerReceives(s, type)
      PROVE  /\ Takes(s, "Follower")
             /\ Mail(s, "Follower") \in ServerMessage
             /\ Mail(s, "Follower").type = type
             /\ follower[s].term \in Nat
  BY <1>3, TakeTyped DEF FollowerReceives, Receives, Takes, TypeOK, Role
<1>4. CASE FollowerGrantsVote(s) \/ FollowerRefusesVote(s)
  <2>1. /\ Takes(s, "Follower")
        /\ Mail(s, "Follower") \in VoteRequests
        /\ follower[s].term \in Nat
    BY <1>3, <1>4, TypesOfMessages DEF FollowerGrantsVote, FollowerRefusesVote
  <2>2. PICK granted \in BOOLEAN :
           /\ Send(Mail(s, "Follower").from,
                   RequestVoteResponse(s, follower[s].term, granted))
           /\ granted => FollowerGrantsVote(s)
    BY <1>4 DEF FollowerGrantsVote, FollowerRefusesVote
  <2>3. /\ RequestVoteResponse(s, follower[s].term, granted) \in VoteResponses
        /\ RequestVoteResponse(s, follower[s].term, granted).from = s
        /\ RequestVoteResponse(s, follower[s].term, granted).granted = granted
        /\ RequestVoteResponse(s, follower[s].term, granted) \notin AppendResponses
    BY <2>1 DEF RequestVoteResponse, VoteResponses, AppendResponses
  <2>4. UNCHANGED outbox
    BY <1>4 DEF FollowerGrantsVote, FollowerRefusesVote
  <2>5. Replies(s, "Follower")
    BY <2>1, <2>2, <2>3, <2>4 DEF Replies, Grants
  <2> QED BY <2>5 DEF Traffic
<1>5. CASE FollowerFollowsLeader(s) \/ FollowerRejectsStaleLeader(s)
  <2>1. /\ Takes(s, "Follower")
        /\ Mail(s, "Follower") \in AppendRequests
        /\ follower[s].term \in Nat
    BY <1>3, <1>5, TypesOfMessages DEF FollowerFollowsLeader,
       FollowerRejectsStaleLeader
  <2>2. PICK ok \in BOOLEAN :
           Send(Mail(s, "Follower").from,
                AppendEntriesResponse(s, follower[s].term, ok))
    BY <1>5 DEF FollowerFollowsLeader, FollowerRejectsStaleLeader, Consistent, Holds
  <2>3. /\ AppendEntriesResponse(s, follower[s].term, ok) \in AppendResponses
        /\ AppendEntriesResponse(s, follower[s].term, ok) \notin VoteResponses
        /\ AppendEntriesResponse(s, follower[s].term, ok).from = s
    BY <2>1 DEF AppendEntriesResponse, AppendResponses, VoteResponses
  <2>4. UNCHANGED outbox
    BY <1>5 DEF FollowerFollowsLeader, FollowerRejectsStaleLeader
  <2>5. Replies(s, "Follower")
    BY <2>1, <2>2, <2>3, <2>4 DEF Replies
  <2> QED BY <2>5 DEF Traffic
<1> QED
  BY <1>1, <1>2, <1>4, <1>5 DEF FollowerStep

LEMMA TrafficOfCandidate ==
    ASSUME TypeOK, NEW s \in Node, CandidateStep(s)
    PROVE  Traffic
<1>1. CASE CandidateCampaigns(s) \/ CandidateStandsDown(s)
  BY <1>1 DEF CandidateStandsDown, channelVars, Traffic, Unposted
<1>2. CASE CandidateWins(s) \/ CandidateCountsVote(s) \/ CandidatePanics(s)
  BY <1>2 DEF CandidateWins, CandidateCountsVote, CandidatePanics, CandidateReceives,
     Receives, Panic, Traffic, Takes, Role
<1>3. ASSUME NEW type, CandidateReceives(s, type)
      PROVE  /\ Takes(s, "Candidate")
             /\ Mail(s, "Candidate") \in ServerMessage
             /\ Mail(s, "Candidate").type = type
             /\ candidate[s].term \in Nat
  BY <1>3, TakeTyped DEF CandidateReceives, Receives, Takes, TypeOK, Role
<1>4. CASE CandidateGrantsVote(s) \/ CandidateRefusesVote(s)
  <2>1. /\ Takes(s, "Candidate")
        /\ Mail(s, "Candidate") \in VoteRequests
        /\ candidate[s].term \in Nat
    BY <1>3, <1>4, TypesOfMessages DEF CandidateGrantsVote, CandidateRefusesVote
  <2>2. PICK granted \in BOOLEAN :
           /\ Send(Mail(s, "Candidate").from,
                   RequestVoteResponse(s, candidate[s].term, granted))
           /\ granted => CandidateGrantsVote(s)
    BY <1>4 DEF CandidateGrantsVote, CandidateRefusesVote, CandidateYields,
       CandidateRefuses
  <2>3. /\ RequestVoteResponse(s, candidate[s].term, granted) \in VoteResponses
        /\ RequestVoteResponse(s, candidate[s].term, granted).from = s
        /\ RequestVoteResponse(s, candidate[s].term, granted).granted = granted
        /\ RequestVoteResponse(s, candidate[s].term, granted) \notin AppendResponses
    BY <2>1 DEF RequestVoteResponse, VoteResponses, AppendResponses
  <2>4. UNCHANGED outbox
    BY <1>4 DEF CandidateGrantsVote, CandidateRefusesVote, CandidateYields,
       CandidateRefuses
  <2>5. Replies(s, "Candidate")
    BY <2>1, <2>2, <2>3, <2>4 DEF Replies, Grants
  <2> QED BY <2>5 DEF Traffic
<1>5. CASE CandidateFollowsLeader(s) \/ CandidateRejectsStaleLeader(s)
  <2>1. /\ Takes(s, "Candidate")
        /\ Mail(s, "Candidate") \in AppendRequests
        /\ candidate[s].term \in Nat
    BY <1>3, <1>5, TypesOfMessages DEF CandidateFollowsLeader,
       CandidateRejectsStaleLeader
  <2>2. PICK ok \in BOOLEAN :
           Send(Mail(s, "Candidate").from,
                AppendEntriesResponse(s, candidate[s].term, ok))
    BY <1>5 DEF CandidateFollowsLeader, CandidateRejectsStaleLeader,
       CandidateYields, CandidateRefuses
  <2>3. /\ AppendEntriesResponse(s, candidate[s].term, ok) \in AppendResponses
        /\ AppendEntriesResponse(s, candidate[s].term, ok) \notin VoteResponses
        /\ AppendEntriesResponse(s, candidate[s].term, ok).from = s
    BY <2>1 DEF AppendEntriesResponse, AppendResponses, VoteResponses
  <2>4. UNCHANGED outbox
    BY <1>5 DEF CandidateFollowsLeader, CandidateRejectsStaleLeader,
       CandidateYields, CandidateRefuses
  <2>5. Replies(s, "Candidate")
    BY <2>1, <2>2, <2>3, <2>4 DEF Replies
  <2> QED BY <2>5 DEF Traffic
<1> QED
  BY <1>1, <1>2, <1>4, <1>5 DEF CandidateStep

LEMMA TrafficOfStep ==
    ASSUME TypeOK, [Next]_vars
    PROVE  Traffic
<1>1. ASSUME NEW s \in Node, LeaderStep(s) PROVE Traffic
  <2>1. CASE LeaderTakesOffice(s) \/ LeaderBeats(s)
    BY <2>1 DEF LeaderTakesOffice, LeaderBeats, Beats, Traffic
  <2>2. CASE LeaderOverlooksChange(s) \/ LeaderStandsDown(s)
    BY <2>2 DEF LeaderOverlooksChange, LeaderStandsDown, channelVars, Traffic, Unposted
  <2>3. CASE \/ LeaderRecordsSuccess(s) \/ LeaderRecordsFailure(s)
             \/ LeaderDropsVote(s) \/ LeaderPanics(s)
    <3>1. Takes(s, "Leader") /\ UNCHANGED <<inbox, outbox>>
      BY <2>3 DEF LeaderRecordsSuccess, LeaderRecordsFailure, LeaderDropsVote,
         LeaderPanics, LeaderReceives, Receives, Panic, Takes
    <3> QED BY <3>1 DEF Traffic, Role
  <2> QED BY <1>1, <2>1, <2>2, <2>3 DEF LeaderStep
<1>2. ASSUME NEW s \in Node, ClientRequestStep(s) PROVE Traffic
  <2>1. CASE LeaderAnswers(s) \/ ServerKnowsNoLeader(s)
    BY <2>1 DEF LeaderAnswers, ServerKnowsNoLeader, Panic, Traffic, Unposted
  <2>2. CASE ServerForwards(s)
    <3>1. clientQueue[s] \in Seq(Request) /\ clientQueue[s] # <<>>
      BY <2>2 DEF ServerForwards, TakesRequest, TypeOK
    <3>2. Head(clientQueue[s]) \in Request
      BY <3>1
    <3> QED BY <2>2, <3>2 DEF ServerForwards, ClientMail, Peers, Traffic
  <2> QED BY <1>2, <2>1, <2>2 DEF ClientRequestStep
<1>3. CASE \E r \in Request : ClientSends(r)
  BY <1>3 DEF ClientSends, Traffic, ClientMail
<1>4. CASE UNCHANGED vars
  BY <1>4 DEF vars, channelVars, Traffic, Unposted
<1>5. ASSUME NEW s \in Node, RootStep(s) \/ Transmit(s) PROVE Traffic
  BY <1>5 DEF Traffic
<1> QED
  BY <1>1, <1>2, <1>3, <1>4, <1>5, TrafficOfFollower, TrafficOfCandidate
  DEF Next, ServerStep, Halted

-----------------------------------------------------------------------------
(***************************************************************************)
(* What a step does to the roles.                                          *)
(***************************************************************************)
Advances(n) ==
    /\ currentTerm'[n] \in {currentTerm[n], 1}
    /\ state'[n] = "Candidate" =>
          state[n] = "Candidate" \/ (n \in Impatient /\ currentTerm[n] = 0)
    /\ state'[n] = "Leader" => state[n] = "Leader" \/ CandidateWins(n)
    /\ candidate'[n].campaigning =>
          \/ CandidateCampaigns(n)
          \/ /\ candidate[n].campaigning
             /\ \/ candidate'[n].votes = candidate[n].votes
                \/ \E p : Counts(n, p)
    /\ \/ votedFor'[n] = votedFor[n]
       \/ Grants(n, votedFor'[n])
       \/ n \in Impatient
       \/ votedFor'[n] \in Node /\ Settled(votedFor'[n])

\* The actors of other servers leave the role and the term of a server alone.
Untouched(n) ==
    /\ state'[n] = state[n]
    /\ currentTerm'[n] = currentTerm[n]
    /\ votedFor'[n] = votedFor[n]
    /\ candidate'[n] = candidate[n]

LEMMA UntouchedAdvances ==
    ASSUME TypeOK, NEW n \in Node, Untouched(n)
    PROVE  Advances(n)
  BY DEF Untouched, Advances

\* A request an actor finds in its queue is of the first term.
LEMMA RequestsOfFirstTerm ==
    ASSUME TypeOK, FirstTerm, NEW s \in Node, NEW role \in Role, NEW type,
           Receives(s, role, type), Take(s, role),
           type \in {"RequestVote", "AppendEntries"}
    PROVE  /\ Mail(s, role).from \in Node
           /\ Mail(s, role).term = 1
           /\ type = "AppendEntries" => Settled(Mail(s, role).from)
<1>1. Mail(s, role) \in InFlight
  BY TakeInFlight DEF Receives
<1>2. Mail(s, role).type = type /\ Mail(s, role).from \in Node
  BY TakeTyped DEF TypeOK, Receives
<1> QED
  BY <1>1, <1>2 DEF FirstTerm

LEMMA FollowerAdvances ==
    ASSUME TypeOK, FirstTerm, MaxTerm = 1, NEW s \in Node, FollowerStep(s),
           NEW n \in Node
    PROVE  Advances(n)
<1>a. /\ state \in [Node -> Role] /\ currentTerm \in [Node -> Nat]
      /\ DOMAIN votedFor = Node
      /\ "Follower" \in Role
  BY DEF TypeOK, Role
<1>b. candidate' = candidate
  BY DEF FollowerStep, FollowerTimesOut, FollowerSeesChange, FollowerGrantsVote,
     FollowerRefusesVote, FollowerFollowsLeader, FollowerRejectsStaleLeader,
     FollowerDropsVote, FollowerPanics, Panic, actorVars
<1>1. CASE FollowerTimesOut(s)
  <2>1. state' = [state EXCEPT ![s] = "Candidate"] /\ UNCHANGED persistentVars
    BY <1>1 DEF FollowerTimesOut, SwitchTo
  <2>2. currentTerm[s] = 0 /\ s \in Impatient
    BY <1>1, <1>a DEF FollowerTimesOut
  <2>3. CASE n = s
    BY <1>a, <1>b, <2>1, <2>2, <2>3 DEF Advances, persistentVars
  <2>4. CASE n # s
    BY <1>a, <1>b, <2>1, <2>4, UntouchedAdvances DEF Untouched, persistentVars
  <2> QED BY <2>3, <2>4
<1>2. CASE \/ FollowerSeesChange(s) \/ FollowerRefusesVote(s)
           \/ FollowerRejectsStaleLeader(s) \/ FollowerDropsVote(s)
           \/ FollowerPanics(s)
  <2>1. state' = state /\ UNCHANGED persistentVars
    BY <1>2, <1>a DEF FollowerSeesChange, FollowerRefusesVote,
       FollowerRejectsStaleLeader, FollowerDropsVote, FollowerPanics, Panic, Keep,
       SwitchTo, roleVars
  <2> QED BY <1>b, <2>1, UntouchedAdvances DEF Untouched, persistentVars
<1>3. CASE FollowerGrantsVote(s)
  <2> DEFINE m == Mail(s, "Follower")
  <2>1. m.term = 1
    BY <1>3, <1>a, RequestsOfFirstTerm DEF FollowerGrantsVote, FollowerReceives
  <2>2. /\ state' = [state EXCEPT ![s] = "Follower"]
        /\ currentTerm' = [currentTerm EXCEPT ![s] = m.term]
        /\ votedFor' = [votedFor EXCEPT ![s] = m.from]
    BY <1>3 DEF FollowerGrantsVote, SwitchTo
  <2>3. Grants(s, m.from)
    BY <1>3 DEF Grants
  <2> HIDE DEF m
  <2>4. CASE n = s
    <3>1. /\ state'[s] = "Follower" /\ currentTerm'[s] = 1 /\ votedFor'[s] = m.from
      BY <1>a, <2>1, <2>2
    <3> QED BY <1>b, <2>3, <2>4, <3>1 DEF Advances
  <2>5. CASE n # s
    BY <1>a, <1>b, <2>2, <2>5, UntouchedAdvances DEF Untouched
  <2> QED BY <2>4, <2>5
<1>4. CASE FollowerFollowsLeader(s)
  <2> DEFINE m == Mail(s, "Follower")
  <2>1. m.term = 1 /\ m.from \in Node /\ Settled(m.from)
    BY <1>4, <1>a, RequestsOfFirstTerm DEF FollowerFollowsLeader, FollowerReceives
  <2>2. /\ state' = [state EXCEPT ![s] = state[s]]
        /\ currentTerm' = [currentTerm EXCEPT ![s] = m.term]
        /\ votedFor' = [votedFor EXCEPT ![s] = m.from]
    BY <1>4 DEF FollowerFollowsLeader, Keep, SwitchTo
  <2> HIDE DEF m
  <2>4. CASE n = s
    <3>1. /\ state'[s] = state[s] /\ currentTerm'[s] = 1 /\ votedFor'[s] = m.from
      BY <1>a, <2>1, <2>2
    <3> QED BY <1>b, <2>1, <2>4, <3>1 DEF Advances
  <2>5. CASE n # s
    BY <1>a, <1>b, <2>2, <2>5, UntouchedAdvances DEF Untouched
  <2> QED BY <2>4, <2>5
<1> QED
  BY <1>1, <1>2, <1>3, <1>4 DEF FollowerStep

LEMMA CandidateAdvances ==
    ASSUME TypeOK, FirstTerm, MaxTerm = 1, NEW s \in Node, CandidateStep(s),
           NEW n \in Node
    PROVE  Advances(n)
<1>a. /\ state \in [Node -> Role] /\ currentTerm \in [Node -> Nat]
      /\ DOMAIN votedFor = Node /\ DOMAIN candidate = Node
      /\ candidate[s].votes \in Nat
      /\ candidate[s] \in [campaigning : BOOLEAN, term : Nat, votes : Nat]
      /\ "Candidate" \in Role
  BY DEF TypeOK, Role
<1>1. CASE CandidateCampaigns(s)
  <2>1. /\ state' = [state EXCEPT ![s] = state[s]]
        /\ currentTerm' = [currentTerm EXCEPT ![s] = currentTerm[s] + 1]
        /\ votedFor' = [votedFor EXCEPT ![s] = s]
        /\ candidate' = [candidate EXCEPT ![s] =
              [campaigning |-> TRUE, term |-> currentTerm[s] + 1, votes |-> 0]]
    BY <1>1 DEF CandidateCampaigns, Keep, SwitchTo
  <2>2. currentTerm[s] = 0 /\ state[s] = "Candidate" /\ s \in Impatient
    BY <1>1, <1>a DEF CandidateCampaigns, FirstTerm
  <2>3. CASE n = s
    <3>1. state'[s] = state[s] /\ currentTerm'[s] = 1
      BY <1>a, <2>1, <2>2
    <3> QED BY <1>1, <2>2, <2>3, <3>1 DEF Advances
  <2>4. CASE n # s
    BY <1>a, <2>1, <2>4, UntouchedAdvances DEF Untouched
  <2> QED BY <2>3, <2>4
<1>2. CASE CandidateStandsDown(s)
  <2>1. /\ state' = state /\ UNCHANGED <<currentTerm, votedFor>>
        /\ candidate' = [candidate EXCEPT ![s] = IdleCandidate]
    BY <1>2, <1>a DEF CandidateStandsDown, Keep, SwitchTo, persistentVars
  <2>2. candidate'[s].campaigning = FALSE /\ (n # s => candidate'[n] = candidate[n])
    BY <1>a, <2>1 DEF IdleCandidate
  <2>3. CASE n = s
    BY <2>1, <2>2, <2>3 DEF Advances
  <2>4. CASE n # s
    BY <2>1, <2>2, <2>4, UntouchedAdvances DEF Untouched
  <2> QED BY <2>3, <2>4
<1>3. ASSUME NEW m, NEW answer, CandidateYields(s, m, answer), m.term = 1,
             candidate[s].campaigning
      PROVE  Advances(n)
  <2>1. /\ state' = [state EXCEPT ![s] = "Follower"]
        /\ currentTerm' = [currentTerm EXCEPT ![s] = m.term]
        /\ votedFor' = [votedFor EXCEPT ![s] = m.from]
        /\ candidate' = candidate
    BY <1>3 DEF CandidateYields, SwitchTo, actorVars
  <2>2. s \in Impatient
    BY <1>3 DEF FirstTerm
  <2>3. CASE n = s
    <3>1. state'[s] = "Follower" /\ currentTerm'[s] = 1
      BY <1>a, <1>3, <2>1
    <3> QED BY <2>1, <2>2, <2>3, <3>1 DEF Advances
  <2>4. CASE n # s
    BY <1>a, <2>1, <2>4, UntouchedAdvances DEF Untouched
  <2> QED BY <2>3, <2>4
<1>4. CASE CandidateFollowsLeader(s) \/ CandidateGrantsVote(s)
  <2>1. candidate[s].campaigning /\ Mail(s, "Candidate").term = 1
    BY <1>4, <1>a, RequestsOfFirstTerm DEF CandidateFollowsLeader,
       CandidateGrantsVote, CandidateReceives, Polling
  <2> QED BY <1>3, <1>4, <2>1 DEF CandidateFollowsLeader, CandidateGrantsVote
<1>5. CASE \/ CandidateRejectsStaleLeader(s) \/ CandidateRefusesVote(s)
           \/ CandidatePanics(s)
  <2>1. UNCHANGED <<state, currentTerm, votedFor, candidate>>
    BY <1>5 DEF CandidateRejectsStaleLeader, CandidateRefusesVote,
       CandidateRefuses, CandidatePanics, Panic, roleVars, persistentVars, actorVars
  <2> QED BY <2>1, UntouchedAdvances DEF Untouched
<1>6. CASE CandidateWins(s)
  <2>1. /\ state' = [state EXCEPT ![s] = "Leader"]
        /\ UNCHANGED <<currentTerm, votedFor>>
        /\ candidate' = [candidate EXCEPT ![s] = IdleCandidate]
    BY <1>6 DEF CandidateWins, SwitchTo, persistentVars
  <2>2. candidate'[s].campaigning = FALSE /\ (n # s => candidate'[n] = candidate[n])
    BY <1>a, <2>1 DEF IdleCandidate
  <2>3. state'[s] = "Leader" /\ (n # s => state'[n] = state[n])
    BY <1>a, <2>1
  <2>4. CASE n = s
    BY <1>6, <2>1, <2>2, <2>3, <2>4 DEF Advances
  <2>5. CASE n # s
    BY <2>1, <2>2, <2>3, <2>5, UntouchedAdvances DEF Untouched
  <2> QED BY <2>4, <2>5
<1>7. CASE CandidateCountsVote(s)
  <2> DEFINE granted == Mail(s, "Candidate").granted
  <2>1. /\ UNCHANGED <<state, currentTerm, votedFor>>
        /\ candidate' = [candidate EXCEPT ![s].votes = IF granted THEN @ + 1 ELSE @]
        /\ candidate[s].campaigning
    BY <1>7 DEF CandidateCountsVote, CandidateReceives, Polling, roleVars,
       persistentVars
  <2>2. granted => Counts(s, Mail(s, "Candidate").from)
    BY <1>7 DEF Counts
  <2> HIDE DEF granted
  <2>3. /\ candidate'[s].votes = IF granted THEN candidate[s].votes + 1
                                 ELSE candidate[s].votes
        /\ n # s => candidate'[n] = candidate[n]
    BY <1>a, <2>1
  <2>4. CASE n = s
    BY <2>1, <2>2, <2>3, <2>4 DEF Advances
  <2>5. CASE n # s
    BY <2>1, <2>3, <2>5, UntouchedAdvances DEF Untouched
  <2> QED BY <2>4, <2>5
<1> QED
  BY <1>1, <1>2, <1>4, <1>5, <1>6, <1>7 DEF CandidateStep

LEMMA StepAdvances ==
    ASSUME TypeOK, FirstTerm, MaxTerm = 1, [Next]_vars, NEW n \in Node
    PROVE  Advances(n)
<1>1. ASSUME NEW s \in Node, LeaderStep(s) PROVE Advances(n)
  <2>1. UNCHANGED <<state, currentTerm, votedFor, candidate>>
    BY <1>1 DEF LeaderStep, LeaderTakesOffice, LeaderOverlooksChange, LeaderBeats,
       LeaderStandsDown, LeaderRecordsSuccess, LeaderRecordsFailure,
       LeaderDropsVote, LeaderPanics, Panic, Keep, SwitchTo, TypeOK, roleVars,
       persistentVars, actorVars
  <2> QED BY <2>1, UntouchedAdvances DEF Untouched
<1>2. CASE \/ \E s \in Node : RootStep(s) \/ ClientRequestStep(s) \/ Transmit(s)
           \/ \E r \in Request : ClientSends(r)
           \/ UNCHANGED vars
  <2>1. UNCHANGED <<state, currentTerm, votedFor, candidate>>
    BY <1>2 DEF RootStep, RootRoutesServerMessage, RootRoutesClientMessage,
       ClientRequestStep, LeaderAnswers, ServerForwards, ServerKnowsNoLeader, Panic,
       Transmit, ClientSends, vars, roleVars, persistentVars, actorVars
  <2> QED BY <2>1, UntouchedAdvances DEF Untouched
<1> QED
  BY <1>1, <1>2, FollowerAdvances, CandidateAdvances DEF Next, ServerStep, Halted

-----------------------------------------------------------------------------
(***************************************************************************)
(* Roles and requests of the first term.                                   *)
(***************************************************************************)
\* A request in flight was in flight before or has just been made: for a vote,
\* in the first term, or by a leader.
LEMMA RequestsAfter ==
    ASSUME TypeOK, FirstTerm, MaxTerm = 1, Traffic, NEW m \in InFlight',
           m.type \in {"RequestVote", "AppendEntries"}
    PROVE  \/ m \in InFlight
           \/ m.type = "RequestVote" /\ m.term = 1
           \/ /\ m.type = "AppendEntries" /\ m.term = 1
              /\ m.from \in Node /\ state[m.from] = "Leader"
<1> DEFINE Goal == \/ m \in InFlight
                   \/ m.type = "RequestVote" /\ m.term = 1
                   \/ /\ m.type = "AppendEntries" /\ m.term = 1
                      /\ m.from \in Node /\ state[m.from] = "Leader"
<1>1. ASSUME Unposted PROVE Goal
  BY <1>1 DEF Unposted, InFlight
<1>2. ASSUME NEW s \in Node, NEW role \in Role, Takes(s, role),
             UNCHANGED <<inbox, outbox>>
      PROVE  Goal
  <2>1. \A n \in Node, r \in Role : Range(queue'[n][r]) \subseteq InFlight
    BY <1>2, TakeInFlight DEF Takes
  <2>2. InFlight' \subseteq InFlight \cup {}
    BY <1>2, <2>1, Carriers, InFlightAfter
  <2> QED BY <2>2
<1>3. ASSUME NEW s \in Node, NEW role \in Role, Replies(s, role) PROVE Goal
  <2>1. PICK answer \in VoteResponses \cup AppendResponses :
           Send(Mail(s, role).from, answer)
    BY <1>3 DEF Replies
  <2>2. /\ Mail(s, role).from \in Node
        /\ \A n \in Node, r \in Role : Range(queue'[n][r]) \subseteq InFlight
    <3>1. queue[s][role] \in Seq(ServerMessage) /\ queue[s][role] # <<>>
      BY <1>3 DEF TypeOK, Replies, Takes
    <3>2. Mail(s, role) \in ServerMessage
      BY <3>1 DEF Mail
    <3> QED BY <1>3, <3>2, TypesOfMessages, TakeInFlight DEF Replies, Takes
  <2>3. \A n \in Node : Range(inbox'[n]) \subseteq InFlight \cup {answer}
    BY <2>1, <2>2, SendInFlight DEF ServerMessage
  <2>4. InFlight' \subseteq InFlight \cup {answer}
    BY <1>3, <2>2, <2>3, InFlightAfter DEF Replies
  <2>5. answer.type \notin {"RequestVote", "AppendEntries"}
    BY DEF VoteResponses, AppendResponses
  <2> QED BY <2>4, <2>5
<1>4. ASSUME NEW s \in Node, CandidateCampaigns(s) PROVE Goal
  <2> DEFINE ask == RequestVote(s, currentTerm[s] + 1)
  <2>1. currentTerm[s] = 0
    BY <1>4 DEF CandidateCampaigns, TypeOK
  <2>2. ask.type = "RequestVote" /\ ask.term = 1
    BY <2>1 DEF RequestVote
  <2>3. /\ \A n \in Node : \A parcel \in outbox'[n] :
              parcel \in outbox[n] \/ parcel.message = ask
        /\ UNCHANGED <<inbox, queue>>
    BY <1>4 DEF CandidateCampaigns, TypeOK
  <2> HIDE DEF ask
  <2>4. InFlight' \subseteq InFlight \cup {ask}
    BY <2>3, Carriers, InFlightAfter
  <2> QED BY <2>2, <2>4
<1>5. ASSUME NEW s \in Node, Beats(s) PROVE Goal
  <2>1. PICK next : Heartbeat(s, next)
    BY <1>5 DEF Beats
  <2> DEFINE New == {AppendEntriesFor(s, p, next) : p \in Peers(s)}
  <2>2. state[s] = "Leader" /\ currentTerm[s] = 1 /\ UNCHANGED <<inbox, queue>>
    BY <1>5 DEF Beats, FirstTerm
  <2>3. \A p : LET k == AppendEntriesFor(s, p, next) IN
           k.type = "AppendEntries" /\ k.term = 1 /\ k.from = s
    BY <2>2 DEF AppendEntriesFor, AppendEntries
  <2>4. \A n \in Node : \A parcel \in outbox'[n] :
           parcel \in outbox[n] \/ parcel.message \in New
    BY <2>1 DEF Heartbeat, TypeOK
  <2>5. \A k \in New : k.type = "AppendEntries" /\ k.term = 1 /\ k.from = s
    BY <2>3
  <2> HIDE DEF New
  <2>6. InFlight' \subseteq InFlight \cup New
    BY <2>2, <2>4, Carriers, InFlightAfter
  <2> QED BY <2>2, <2>5, <2>6
<1>6. ASSUME NEW s \in Node, RootStep(s) \/ Transmit(s) PROVE Goal
  BY <1>6, MovingAddsNothing
<1>7. ASSUME ClientMail PROVE Goal
  <2>1. PICK n \in Node : \E r \in Request : Send(n, ClientRequest(r))
    BY <1>7 DEF ClientMail
  <2>2. PICK r \in Request : Send(n, ClientRequest(r))
    BY <2>1
  <2>3. /\ ClientRequest(r) \in ServerMessage \cup ClientRequests
        /\ ClientRequest(r).type \notin {"RequestVote", "AppendEntries"}
    BY DEF ClientRequest, ClientRequests
  <2>4. InFlight' \subseteq InFlight \cup {ClientRequest(r)}
    BY <1>7, <2>2, <2>3, SendInFlight, Carriers, InFlightAfter DEF ClientMail
  <2> QED BY <2>3, <2>4
<1> HIDE DEF Goal
<1>8. Goal
  BY <1>1, <1>2, <1>3, <1>4, <1>5, <1>6, <1>7 DEF Traffic, Role
<1> QED
  BY <1>8 DEF Goal

\* What waits to be sent is the sender's own.
LEMMA ParcelsAfter ==
    ASSUME TypeOK, Traffic, NEW s \in Node, NEW parcel \in outbox'[s]
    PROVE  parcel \in outbox[s] \/ parcel.message.from = s
<1>1. CASE UNCHANGED outbox
  BY <1>1
<1>2. ASSUME NEW n \in Node, CandidateCampaigns(n)
      PROVE  parcel \in outbox[s] \/ parcel.message.from = s
  BY <1>2 DEF CandidateCampaigns, TypeOK, RequestVote
<1>3. ASSUME NEW n \in Node, Beats(n)
      PROVE  parcel \in outbox[s] \/ parcel.message.from = s
  <2>1. PICK next : Heartbeat(n, next)
    BY <1>3 DEF Beats
  <2>2. \A p : AppendEntriesFor(n, p, next).from = n
    BY DEF AppendEntriesFor, AppendEntries
  <2> QED BY <2>1, <2>2 DEF Heartbeat, TypeOK
<1>4. ASSUME NEW n \in Node, Transmit(n)
      PROVE  parcel \in outbox[s] \/ parcel.message.from = s
  BY <1>4 DEF Transmit, TypeOK
<1> QED
  BY <1>1, <1>2, <1>3, <1>4 DEF Traffic, Unposted, Replies, RootStep,
     RootRoutesServerMessage, RootRoutesClientMessage, ClientMail

LEMMA SettledStays ==
    ASSUME TypeOK, NEW n \in Node, Advances(n), Settled(n)
    PROVE  Settled(n)'
  BY DEF Advances, Settled

LEMMA FirstTermKept ==
    ASSUME TypeOK, TypeOK', FirstTerm, MaxTerm = 1, Traffic,
           \A n \in Node : Advances(n)
    PROVE  FirstTerm'
<1>1. ASSUME NEW s \in Node PROVE currentTerm'[s] <= 1
  BY <1>1 DEF FirstTerm, Advances
<1>2. ASSUME NEW s \in Node, state'[s] # "Follower" \/ candidate'[s].campaigning
      PROVE  s \in Impatient
  BY <1>2 DEF FirstTerm, Advances, TypeOK, Role, CandidateWins, CandidateReceives,
     Polling, CandidateCampaigns
<1>3. ASSUME NEW s \in Node, state'[s] = "Leader" \/ candidate'[s].campaigning
      PROVE  currentTerm'[s] = 1
  <2>1. CASE CandidateCampaigns(s)
    <3>1. currentTerm[s] = 0 /\ currentTerm'[s] = currentTerm[s] + 1
      BY <2>1 DEF CandidateCampaigns, TypeOK
    <3> QED BY <3>1
  <2>2. CASE ~CandidateCampaigns(s)
    <3>1. currentTerm[s] = 1
      BY <1>3, <2>2 DEF FirstTerm, Advances, CandidateWins, CandidateReceives, Polling
    <3> QED BY <3>1 DEF Advances
  <2> QED BY <2>1, <2>2
<1>4. ASSUME NEW s \in Node, NEW parcel \in outbox'[s]
      PROVE  parcel.message.from = s
  BY <1>4, ParcelsAfter DEF FirstTerm
<1>5. ASSUME NEW m \in InFlight', m.type \in {"RequestVote", "AppendEntries"}
      PROVE  m.term = 1 /\ (m.type = "AppendEntries" => Settled(m.from)')
  <2>1. CASE m \in InFlight
    <3>1. m.type = "AppendEntries" => m.from \in Node
      BY <2>1, AppendsTyped DEF AppendRequests
    <3>2. m.term = 1 /\ (m.type = "AppendEntries" => Settled(m.from))
      BY <1>5, <2>1 DEF FirstTerm
    <3> QED BY <3>1, <3>2, SettledStays
  <2>2. CASE m.type = "RequestVote" /\ m.term = 1
    BY <2>2
  <2>3. CASE /\ m.type = "AppendEntries" /\ m.term = 1
             /\ m.from \in Node /\ state[m.from] = "Leader"
    <3>1. Settled(m.from)
      BY <2>3 DEF FirstTerm, Settled
    <3> QED BY <2>3, <3>1, SettledStays
  <2> QED BY <1>5, <2>1, <2>2, <2>3, RequestsAfter
<1> QED
  BY <1>1, <1>2, <1>3, <1>4, <1>5 DEF FirstTerm, Settled

LEMMA FirstTermInitially == ASSUME Init PROVE FirstTerm
<1>1. ASSUME NEW s \in Node
      PROVE  /\ state[s] = "Follower" /\ outbox[s] = {}
             /\ currentTerm[s] = 0 /\ ~candidate[s].campaigning
  BY DEF Init, IdleCandidate
<1>2. ASSUME NEW s \in Node
      PROVE  /\ currentTerm[s] <= 1
             /\ state[s] # "Follower" \/ candidate[s].campaigning => s \in Impatient
             /\ state[s] = "Leader" \/ candidate[s].campaigning => currentTerm[s] = 1
             /\ \A parcel \in outbox[s] : parcel.message.from = s
  <2>1. currentTerm[s] <= 1
    BY <1>1
  <2> QED BY <1>1, <2>1
<1>3. \A m : m \notin InFlight
  BY NothingInFlightInitially
<1> QED
  BY <1>2, <1>3 DEF FirstTerm

-----------------------------------------------------------------------------
(***************************************************************************)
(* The votes each server may yet be given.  C[x] are the servers whose     *)
(* votes x has counted: the program only has their number.                 *)
(***************************************************************************)
RequestsOf(x) == {m \in VoteRequests : m.from = x}

GrantsOf(p) == {m \in VotesOf(p) : m.granted}

\* Requests of x for the vote of p, and answers of p that x may yet count.
Due(x, p) ==
    Pending(x, p)
    + Count(inbox[p], RequestsOf(x))
    + Count(queue[p]["Follower"], RequestsOf(x))
    + Count(queue[p]["Candidate"], RequestsOf(x))
    + Count(inbox[x], VotesOf(p))
    + Count(queue[x]["Candidate"], VotesOf(p))

\* Each server is asked once in a term, and no server asks itself.
Elections(x, p) == IF x = p THEN 0 ELSE currentTerm[x]

AskedOnce(C) ==
    \A x, p \in Node :
        Due(x, p) + (IF p \in C[x] THEN 1 ELSE 0) <= Elections(x, p)

LEMMA DueIsNatural ==
    ASSUME TypeOK, NEW x \in Node, NEW p \in Node
    PROVE  /\ Due(x, p) \in Nat
           /\ Due(x, p) >= Count(inbox[x], VotesOf(p))
           /\ Due(x, p) >= Count(queue[x]["Candidate"], VotesOf(p))
           /\ Due(x, p) >= Count(queue[p]["Follower"], RequestsOf(x))
           /\ Due(x, p) >= Count(queue[p]["Candidate"], RequestsOf(x))
<1>1. PICK pending, asked, seen, heard, answered, uncounted :
         /\ pending = Pending(x, p)
         /\ asked = Count(inbox[p], RequestsOf(x))
         /\ seen = Count(queue[p]["Follower"], RequestsOf(x))
         /\ heard = Count(queue[p]["Candidate"], RequestsOf(x))
         /\ answered = Count(inbox[x], VotesOf(p))
         /\ uncounted = Count(queue[x]["Candidate"], VotesOf(p))
  OBVIOUS
<1>2. /\ pending \in Nat /\ asked \in Nat /\ seen \in Nat /\ heard \in Nat
      /\ answered \in Nat /\ uncounted \in Nat
  BY <1>1, CountsAreNatural DEF Pending, Role
<1>3. Due(x, p) = pending + asked + seen + heard + answered + uncounted
  BY <1>1 DEF Due
<1> QED
  BY <1>1, <1>2, <1>3

\* The requests of x that wait to be sent to p are all the same.
LEMMA OneRequestEach ==
    ASSUME TypeOK, FirstTerm, NEW x \in Node, NEW p \in Node
    PROVE  Single(x, p)
<1>1. ASSUME NEW parcel \in Asking(x, p)
      PROVE  parcel = [to |-> p, message |-> RequestVote(x, 1)]
  <2>1. /\ parcel \in Parcel /\ parcel \in outbox[x]
        /\ parcel.to = p /\ parcel.message.type = "RequestVote"
    BY DEF Asking, TypeOK
  <2>2. parcel.message.from = x /\ parcel.message.term = 1
    BY <2>1, Carriers DEF FirstTerm
  <2>3. parcel.message \in VoteRequests
    BY <2>1 DEF Parcel, AppendRequests
  <2>4. parcel.message = RequestVote(x, 1)
    BY <2>1, <2>2, <2>3 DEF VoteRequests, RequestVote
  <2> QED BY <2>1, <2>4 DEF Parcel
<1> QED
  BY <1>1 DEF Single

\* What a step does to the requests that wait to be sent.
LEMMA PendingMoves ==
    ASSUME TypeOK, FirstTerm, NEW x \in Node, NEW p \in Node
    PROVE  /\ UNCHANGED outbox => Pending(x, p)' = Pending(x, p)
           /\ \A s \in Node : Beats(s) => Pending(x, p)' = Pending(x, p)
           /\ \A s \in Node : CandidateCampaigns(s) =>
                 Pending(x, p)' <= Pending(x, p)
                                   + (IF s = x /\ x # p THEN 1 ELSE 0)
           /\ \A s \in Node : \A parcel \in outbox[s] :
                 outbox' = [outbox EXCEPT ![s] = @ \ {parcel}] =>
                    Pending(x, p) =
                       Pending(x, p)'
                       + (IF parcel.to = p /\ parcel.message \in RequestsOf(x)
                          THEN 1 ELSE 0)
<1>1. UNCHANGED outbox => Asking(x, p)' = Asking(x, p)
  BY DEF Asking
<1>2. ASSUME NEW s \in Node, Beats(s) PROVE Asking(x, p)' = Asking(x, p)
  <2>1. PICK next : Heartbeat(s, next)
    BY <1>2 DEF Beats
  <2>2. \A q : AppendEntriesFor(s, q, next).type = "AppendEntries"
    BY DEF AppendEntriesFor, AppendEntries
  <2> DEFINE New == {[to |-> q, message |-> AppendEntriesFor(s, q, next)] :
                        q \in Peers(s)}
  <2>3. outbox'[x] = IF x = s THEN outbox[x] \cup New ELSE outbox[x]
    BY <2>1 DEF Heartbeat, TypeOK
  <2>4. \A parcel \in New : parcel.message.type = "AppendEntries"
    BY <2>2
  <2> HIDE DEF New
  <2>5. ASSUME NEW parcel PROVE parcel \in Asking(x, p)' <=> parcel \in Asking(x, p)
    BY <2>3, <2>4 DEF Asking
  <2> QED BY <2>5
<1>3. ASSUME NEW s \in Node, CandidateCampaigns(s), s # x \/ x = p
      PROVE  Asking(x, p)' = Asking(x, p)
  <2> DEFINE New == {[to |-> q, message |-> RequestVote(s, currentTerm[s] + 1)] :
                        q \in Peers(s)}
  <2>1. outbox'[x] = IF x = s THEN outbox[x] \cup New ELSE outbox[x]
    BY <1>3 DEF CandidateCampaigns, TypeOK
  <2>2. \A parcel \in New : parcel.to # s
    BY DEF Peers
  <2> HIDE DEF New
  <2>3. ASSUME NEW parcel PROVE parcel \in Asking(x, p)' <=> parcel \in Asking(x, p)
    BY <1>3, <2>1, <2>2 DEF Asking
  <2> QED BY <2>3
<1>4. Pending(x, p) \in {0, 1} /\ Pending(x, p)' \in {0, 1}
  BY DEF Pending
<1>5. ASSUME NEW s \in Node, NEW parcel \in outbox[s],
             outbox' = [outbox EXCEPT ![s] = @ \ {parcel}]
      PROVE  Pending(x, p) =
                Pending(x, p)'
                + (IF parcel.to = p /\ parcel.message \in RequestsOf(x)
                   THEN 1 ELSE 0)
  <2>1. /\ outbox'[x] = IF x = s THEN outbox[x] \ {parcel} ELSE outbox[x]
        /\ parcel \in Parcel /\ parcel.message.from = s
    BY <1>5 DEF TypeOK, FirstTerm
  <2>2. parcel.message \in RequestsOf(x)
           <=> s = x /\ parcel.message.type = "RequestVote"
    BY <2>1 DEF Parcel, RequestsOf, VoteRequests, AppendRequests
  <2>3. CASE parcel.to = p /\ parcel.message \in RequestsOf(x)
    <3>1. parcel \in Asking(x, p) /\ Asking(x, p)' = Asking(x, p) \ {parcel}
      BY <1>5, <2>1, <2>2, <2>3 DEF Asking
    <3>2. Asking(x, p)' = {}
      BY <3>1, OneRequestEach DEF Single
    <3> QED BY <2>3, <3>1, <3>2 DEF Pending
  <2>4. CASE ~(parcel.to = p /\ parcel.message \in RequestsOf(x))
    <3>1. Asking(x, p)' = Asking(x, p)
      BY <2>1, <2>2, <2>4 DEF Asking
    <3> QED BY <1>4, <2>4, <3>1 DEF Pending
  <2> QED BY <2>3, <2>4
<1>6. ASSUME NEW s \in Node, CandidateCampaigns(s)
      PROVE  Pending(x, p)' <= Pending(x, p)
                               + (IF s = x /\ x # p THEN 1 ELSE 0)
  <2>1. CASE s # x \/ x = p
    <3>1. Pending(x, p)' = Pending(x, p)
      BY <1>3, <1>6, <2>1 DEF Pending
    <3> QED BY <1>4, <2>1, <3>1
  <2>2. CASE s = x /\ x # p
    BY <1>4, <2>2
  <2> QED BY <2>1, <2>2
<1> QED
  BY <1>1, <1>2, <1>5, <1>6 DEF Pending

\* No step but the start of an election adds a vote to be given, and that adds one.
LEMMA DueMoves ==
    ASSUME TypeOK, TypeOK', FirstTerm, Traffic, NEW x \in Node, NEW p \in Node
    PROVE  /\ Due(x, p)' \in Nat
           /\ Due(x, p)' <= Due(x, p)
                            + (IF CandidateCampaigns(x) /\ x # p THEN 1 ELSE 0)
<1> DEFINE Extra == IF CandidateCampaigns(x) /\ x # p THEN 1 ELSE 0
           Goal == Due(x, p)' <= Due(x, p) + Extra
<1>a. "Follower" \in Role /\ "Candidate" \in Role
  BY DEF Role
<1>b. PICK pending, asked, seen, heard, answered, uncounted :
         /\ pending = Pending(x, p)
         /\ asked = Count(inbox[p], RequestsOf(x))
         /\ seen = Count(queue[p]["Follower"], RequestsOf(x))
         /\ heard = Count(queue[p]["Candidate"], RequestsOf(x))
         /\ answered = Count(inbox[x], VotesOf(p))
         /\ uncounted = Count(queue[x]["Candidate"], VotesOf(p))
  OBVIOUS
<1>c. PICK pending1, asked1, seen1, heard1, answered1, uncounted1 :
         /\ pending1 = Pending(x, p)'
         /\ asked1 = Count(inbox'[p], RequestsOf(x))
         /\ seen1 = Count(queue'[p]["Follower"], RequestsOf(x))
         /\ heard1 = Count(queue'[p]["Candidate"], RequestsOf(x))
         /\ answered1 = Count(inbox'[x], VotesOf(p))
         /\ uncounted1 = Count(queue'[x]["Candidate"], VotesOf(p))
  OBVIOUS
<1>d. /\ Due(x, p) = pending + asked + seen + heard + answered + uncounted
      /\ Due(x, p)' = pending1 + asked1 + seen1 + heard1 + answered1 + uncounted1
  BY <1>b, <1>c DEF Due, VotesOf, RequestsOf
<1>e. /\ pending \in Nat /\ asked \in Nat /\ seen \in Nat
      /\ heard \in Nat /\ answered \in Nat /\ uncounted \in Nat
      /\ pending1 \in Nat /\ asked1 \in Nat /\ seen1 \in Nat
      /\ heard1 \in Nat /\ answered1 \in Nat /\ uncounted1 \in Nat
  BY <1>a, <1>b, <1>c, CountsAreNatural, CountsStayNatural DEF Pending
<1>f. Extra \in {0, 1}
  OBVIOUS
<1>g. RequestsOf(x) \cap ClientRequests = {} /\ VotesOf(p) \cap ClientRequests = {}
      /\ RequestsOf(x) \cap (VoteResponses \cup AppendResponses) = {}
      /\ VotesOf(p) \cap (VoteRequests \cup AppendRequests) = {}
      /\ VotesOf(p) \cap AppendResponses = {}
  BY KindsDiffer DEF RequestsOf
<1> HIDE DEF Extra
<1>1. ASSUME Unposted PROVE Goal
  <2>1. /\ asked1 = asked /\ seen1 = seen /\ heard1 = heard
        /\ answered1 = answered /\ uncounted1 = uncounted
    BY <1>b, <1>c, <1>1 DEF Unposted
  <2>2. pending1 = pending
    BY <1>b, <1>c, <1>1, PendingMoves DEF Unposted
  <2> QED BY <1>d, <1>e, <1>f, <2>1, <2>2
<1>2. ASSUME NEW s \in Node, NEW role \in Role, Takes(s, role)
      PROVE  /\ seen1 + (IF p = s /\ "Follower" = role
                            /\ Mail(s, role) \in RequestsOf(x) THEN 1 ELSE 0) = seen
             /\ heard1 + (IF p = s /\ "Candidate" = role
                             /\ Mail(s, role) \in RequestsOf(x) THEN 1 ELSE 0) = heard
             /\ uncounted1 <= uncounted
  <2>1. queue[s][role] # <<>> /\ Take(s, role)
    BY <1>2 DEF Takes
  <2>2. uncounted1 + (IF x = s /\ "Candidate" = role
                         /\ Mail(s, role) \in VotesOf(p) THEN 1 ELSE 0) = uncounted
    BY <1>a, <1>b, <1>c, <2>1, TakeCounts
  <2>3. uncounted1 <= uncounted
    BY <1>e, <2>2
  <2>4. \A r \in Role :
           Count(queue'[p][r], RequestsOf(x))
              + (IF p = s /\ r = role /\ Mail(s, role) \in RequestsOf(x)
                 THEN 1 ELSE 0)
           = Count(queue[p][r], RequestsOf(x))
    BY <2>1, TakeCounts
  <2> QED BY <1>a, <1>b, <1>c, <2>3, <2>4
<1>3. ASSUME NEW s \in Node, NEW role \in Role, Takes(s, role),
             UNCHANGED <<inbox, outbox>>
      PROVE  Goal
  <2>1. asked1 = asked /\ answered1 = answered
    BY <1>b, <1>c, <1>3
  <2>2. pending1 = pending
    BY <1>b, <1>c, <1>3, PendingMoves
  <2>3. seen1 <= seen /\ heard1 <= heard /\ uncounted1 <= uncounted
    BY <1>2, <1>3, <1>e
  <2> QED BY <1>d, <1>e, <1>f, <2>1, <2>2, <2>3
<1>4. ASSUME NEW s \in Node, NEW role \in {"Follower", "Candidate"}, Replies(s, role)
      PROVE  Goal
  <2>1. role \in Role /\ Takes(s, role)
    BY <1>4 DEF Replies, Role
  <2>2. PICK m : m = Mail(s, role)
    OBVIOUS
  <2>3. PICK answer \in VoteResponses \cup AppendResponses :
           /\ answer.from = s
           /\ Send(m.from, answer)
           /\ answer \in VoteResponses => m \in VoteRequests
    BY <1>4, <2>2 DEF Replies
  <2>4. m \in ServerMessage /\ m.from \in Node
    <3>1. queue[s][role] \in Seq(ServerMessage) /\ queue[s][role] # <<>>
      BY <2>1 DEF TypeOK, Takes
    <3>2. m \in ServerMessage
      BY <2>2, <3>1 DEF Mail
    <3> QED BY <3>2, TypesOfMessages
  <2>5. answer \in ServerMessage \cup ClientRequests
    BY DEF ServerMessage
  <2>6. asked1 = asked
    <3>1. answer \notin RequestsOf(x)
      BY <1>g
    <3> QED BY <1>b, <1>c, <1>e, <2>3, <2>4, <2>5, <3>1, SendCounts
  <2>7. answered1 = answered + (IF x = m.from /\ answer \in VotesOf(p) THEN 1 ELSE 0)
    BY <1>b, <1>c, <2>3, <2>4, <2>5, SendCounts
  <2>8. x = m.from /\ answer \in VotesOf(p) => p = s /\ m \in RequestsOf(x)
    BY <2>3 DEF VotesOf, RequestsOf
  <2>9. pending1 = pending
    BY <1>b, <1>c, <1>4, PendingMoves DEF Replies
  <2>10. /\ seen1 + (IF p = s /\ "Follower" = role
                        /\ m \in RequestsOf(x) THEN 1 ELSE 0) = seen
         /\ heard1 + (IF p = s /\ "Candidate" = role
                         /\ m \in RequestsOf(x) THEN 1 ELSE 0) = heard
         /\ uncounted1 <= uncounted
    BY <1>2, <2>1, <2>2
  <2>11. answered1 + seen1 + heard1 <= answered + seen + heard
    BY <1>e, <2>7, <2>8, <2>10
  <2> QED BY <1>d, <1>e, <1>f, <2>6, <2>9, <2>10, <2>11
<1>5. ASSUME NEW s \in Node, CandidateCampaigns(s) PROVE Goal
  <2>1. /\ asked1 = asked /\ seen1 = seen /\ heard1 = heard
        /\ answered1 = answered /\ uncounted1 = uncounted
    BY <1>b, <1>c, <1>5 DEF CandidateCampaigns
  <2>2. pending1 <= pending + (IF s = x /\ x # p THEN 1 ELSE 0)
    BY <1>b, <1>c, <1>5, PendingMoves
  <2>3. pending1 <= pending + Extra
    BY <1>e, <1>5, <2>2 DEF Extra
  <2> QED BY <1>d, <1>e, <1>f, <2>1, <2>3
<1>6. ASSUME NEW s \in Node, Beats(s) PROVE Goal
  <2>1. /\ asked1 = asked /\ seen1 = seen /\ heard1 = heard
        /\ answered1 = answered /\ uncounted1 = uncounted
    BY <1>b, <1>c, <1>6 DEF Beats
  <2>2. pending1 = pending
    BY <1>b, <1>c, <1>6, PendingMoves
  <2> QED BY <1>d, <1>e, <1>f, <2>1, <2>2
<1>7. ASSUME NEW n \in Node, RootStep(n) PROVE Goal
  <2>1. PICK m : m = Head(inbox[n])
    OBVIOUS
  <2>2. /\ asked1 + (IF p = n /\ m \in RequestsOf(x) THEN 1 ELSE 0) = asked
        /\ seen1 = seen + (IF p = n /\ "Follower" = state[n] /\ m \in RequestsOf(x)
                           THEN 1 ELSE 0)
        /\ heard1 = heard + (IF p = n /\ "Candidate" = state[n] /\ m \in RequestsOf(x)
                             THEN 1 ELSE 0)
    BY <1>a, <1>b, <1>c, <1>g, <1>7, <2>1, RouteCounts
  <2>3. /\ answered1 + (IF x = n /\ m \in VotesOf(p) THEN 1 ELSE 0) = answered
        /\ uncounted1 = uncounted + (IF x = n /\ "Candidate" = state[n]
                                        /\ m \in VotesOf(p) THEN 1 ELSE 0)
    BY <1>a, <1>b, <1>c, <1>g, <1>7, <2>1, RouteCounts
  <2>4. pending1 = pending
    BY <1>b, <1>c, <1>7, PendingMoves DEF RootStep, RootRoutesServerMessage,
       RootRoutesClientMessage
  <2>5. asked1 + seen1 + heard1 <= asked + seen + heard
    BY <1>e, <2>2
  <2>6. answered1 + uncounted1 <= answered + uncounted
    BY <1>e, <2>3
  <2> QED BY <1>d, <1>e, <1>f, <2>4, <2>5, <2>6
<1>8. ASSUME NEW n \in Node, Transmit(n) PROVE Goal
  <2>1. PICK parcel \in outbox[n] :
           /\ outbox' = [outbox EXCEPT ![n] = @ \ {parcel}]
           /\ Send(parcel.to, parcel.message)
    BY <1>8 DEF Transmit
  <2>2. /\ parcel.to \in Node
        /\ parcel.message \in VoteRequests \cup AppendRequests
        /\ parcel.message \in ServerMessage \cup ClientRequests
    <3>1. outbox \in [Node -> SUBSET Parcel]
      BY DEF TypeOK
    <3> QED BY <3>1 DEF Parcel, ServerMessage
  <2>3. seen1 = seen /\ heard1 = heard /\ uncounted1 = uncounted
    BY <1>b, <1>c, <1>8 DEF Transmit
  <2>4. answered1 = answered
    BY <1>b, <1>c, <1>e, <1>g, <2>1, <2>2, SendCounts
  <2>5. asked1 = asked + (IF p = parcel.to /\ parcel.message \in RequestsOf(x)
                          THEN 1 ELSE 0)
    BY <1>b, <1>c, <2>1, <2>2, SendCounts
  <2>6. pending = pending1 + (IF parcel.to = p /\ parcel.message \in RequestsOf(x)
                              THEN 1 ELSE 0)
    BY <1>b, <1>c, <2>1, PendingMoves
  <2>7. pending1 + asked1 = pending + asked
    BY <1>e, <2>5, <2>6
  <2> QED BY <1>d, <1>e, <1>f, <2>3, <2>4, <2>7
<1>9. ASSUME ClientMail PROVE Goal
  <2>1. PICK to \in Node, r \in Request : Send(to, ClientRequest(r))
    BY <1>9 DEF ClientMail
  <2>2. /\ ClientRequest(r) \in ClientRequests
        /\ ClientRequest(r) \notin RequestsOf(x) /\ ClientRequest(r) \notin VotesOf(p)
    BY <1>g DEF ClientRequest, ClientRequests
  <2>3. seen1 = seen /\ heard1 = heard /\ uncounted1 = uncounted
    BY <1>b, <1>c, <1>9 DEF ClientMail
  <2>4. asked1 = asked /\ answered1 = answered
    BY <1>b, <1>c, <1>e, <2>1, <2>2, SendCounts
  <2>5. pending1 = pending
    BY <1>b, <1>c, <1>9, PendingMoves DEF ClientMail
  <2> QED BY <1>d, <1>e, <1>f, <2>3, <2>4, <2>5
<1> HIDE DEF Goal
<1>10. Goal
  BY <1>1, <1>3, <1>4, <1>5, <1>6, <1>7, <1>8, <1>9 DEF Traffic
<1>11. Due(x, p)' \in Nat
  BY <1>d, <1>e
<1> QED
  BY <1>10, <1>11 DEF Goal, Extra

\* A vote that is counted was due, and is so no more.
LEMMA CountedOnce ==
    ASSUME TypeOK, TypeOK', NEW x \in Node, NEW p \in Node, Counts(x, p)
    PROVE  /\ Count(queue[x]["Candidate"], GrantsOf(p)) > 0
           /\ Due(x, p) > 0
           /\ Due(x, p)' < Due(x, p)
<1>a. "Follower" \in Role /\ "Candidate" \in Role
  BY DEF Role
<1>1. /\ queue[x]["Candidate"] # <<>> /\ Take(x, "Candidate")
      /\ Mail(x, "Candidate").type = "RequestVoteResponse"
      /\ UNCHANGED <<inbox, outbox>>
  BY DEF Counts, CandidateWins, CandidateCountsVote, CandidateReceives, Receives
<1>2. queue[x]["Candidate"] \in Seq(ServerMessage)
  BY <1>a DEF TypeOK
<1>3. Mail(x, "Candidate") \in VotesOf(p) /\ Mail(x, "Candidate") \in GrantsOf(p)
  <2>1. Mail(x, "Candidate") \in ServerMessage
    BY <1>1, <1>2 DEF Mail
  <2> QED BY <1>1, <2>1, TypesOfMessages DEF Counts, VotesOf, GrantsOf
<1>4. Count(queue[x]["Candidate"], GrantsOf(p)) > 0
  BY <1>1, <1>2, <1>3, CountIsNatural DEF Mail
<1>b. PICK pending, asked, seen, heard, answered, uncounted :
         /\ pending = Pending(x, p)
         /\ asked = Count(inbox[p], RequestsOf(x))
         /\ seen = Count(queue[p]["Follower"], RequestsOf(x))
         /\ heard = Count(queue[p]["Candidate"], RequestsOf(x))
         /\ answered = Count(inbox[x], VotesOf(p))
         /\ uncounted = Count(queue[x]["Candidate"], VotesOf(p))
  OBVIOUS
<1>c. PICK seen1, heard1, uncounted1 :
         /\ seen1 = Count(queue'[p]["Follower"], RequestsOf(x))
         /\ heard1 = Count(queue'[p]["Candidate"], RequestsOf(x))
         /\ uncounted1 = Count(queue'[x]["Candidate"], VotesOf(p))
  OBVIOUS
<1>5. Pending(x, p)' = Pending(x, p)
  BY <1>1 DEF Pending, Asking
<1>d. /\ Due(x, p) = pending + asked + seen + heard + answered + uncounted
      /\ Due(x, p)' = pending + asked + seen1 + heard1 + answered + uncounted1
  BY <1>b, <1>c, <1>1, <1>5 DEF Due, VotesOf, RequestsOf
<1>e. /\ pending \in Nat /\ asked \in Nat /\ seen \in Nat
      /\ heard \in Nat /\ answered \in Nat /\ uncounted \in Nat
      /\ seen1 \in Nat /\ heard1 \in Nat /\ uncounted1 \in Nat
  BY <1>a, <1>b, <1>c, CountsAreNatural, CountsStayNatural DEF Pending
<1>6. seen1 <= seen
  <2>1. queue'[p]["Follower"] = queue[p]["Follower"]
    BY <1>a, <1>1 DEF Take, TypeOK
  <2> QED BY <1>b, <1>c, <1>e, <2>1
<1>7. heard1 <= heard
  <2>1. heard1 + (IF p = x /\ "Candidate" = "Candidate"
                     /\ Mail(x, "Candidate") \in RequestsOf(x) THEN 1 ELSE 0) = heard
    BY <1>a, <1>b, <1>c, <1>1, TakeCounts
  <2> QED BY <1>e, <2>1
<1>8. uncounted1 + 1 = uncounted
  <2>1. uncounted1 + (IF x = x /\ "Candidate" = "Candidate"
                         /\ Mail(x, "Candidate") \in VotesOf(p) THEN 1 ELSE 0)
           = uncounted
    BY <1>a, <1>b, <1>c, <1>1, TakeCounts
  <2> QED BY <1>3, <2>1
<1> QED
  BY <1>4, <1>d, <1>e, <1>6, <1>7, <1>8

\* D are the voters after a step, if C are those before it.
CountedSince(C, D) ==
    \A x \in Node : D[x] = C[x] \cup {p \in Node : Counts(x, p)}

LEMMA CampaignsFromNothing ==
    ASSUME TypeOK, FirstTerm, MaxTerm = 1, NEW x \in Node, CandidateCampaigns(x)
    PROVE  currentTerm[x] = 0 /\ currentTerm'[x] = 1 /\ ~candidate[x].campaigning
<1>1. /\ currentTerm \in [Node -> Nat] /\ currentTerm[x] < MaxTerm
      /\ currentTerm' = [currentTerm EXCEPT ![x] = @ + 1]
  BY DEF CandidateCampaigns, TypeOK
<1>2. currentTerm[x] = 0 /\ currentTerm'[x] = 1
  BY <1>1
<1> QED
  BY <1>2 DEF FirstTerm

LEMMA CountsWhileCampaigning ==
    ASSUME NEW x, NEW p, Counts(x, p)
    PROVE  candidate[x].campaigning
  BY DEF Counts, CandidateWins, CandidateCountsVote, CandidateReceives, Polling

LEMMA NothingBeforeElections ==
    ASSUME TypeOK, NEW C \in [Node -> SUBSET Node], AskedOnce(C),
           NEW x \in Node, NEW p \in Node, x = p \/ currentTerm[x] = 0
    PROVE  Due(x, p) = 0 /\ p \notin C[x]
<1>1. Due(x, p) \in Nat
  BY DueIsNatural
<1>2. Due(x, p) + (IF p \in C[x] THEN 1 ELSE 0) <= 0
  BY DEF AskedOnce, Elections
<1> QED
  BY <1>1, <1>2

LEMMA AskedOnceKept ==
    ASSUME TypeOK, TypeOK', FirstTerm, MaxTerm = 1, Traffic,
           \A n \in Node : Advances(n),
           NEW C \in [Node -> SUBSET Node], NEW D \in [Node -> SUBSET Node],
           AskedOnce(C), CountedSince(C, D)
    PROVE  AskedOnce(D)'
<1> SUFFICES ASSUME NEW x \in Node, NEW p \in Node
             PROVE  Due(x, p)' + (IF p \in D[x] THEN 1 ELSE 0)
                       <= IF x = p THEN 0 ELSE currentTerm'[x]
  BY DEF AskedOnce, Elections
<1>1. PICK due, after : due = Due(x, p) /\ after = Due(x, p)'
  OBVIOUS
<1>2. due \in Nat /\ after \in Nat
  BY <1>1, DueIsNatural, DueMoves
<1>3. due + (IF p \in C[x] THEN 1 ELSE 0) <= IF x = p THEN 0 ELSE currentTerm[x]
  BY <1>1 DEF AskedOnce, Elections
<1>4. currentTerm[x] \in Nat /\ currentTerm'[x] \in Nat
      /\ currentTerm[x] <= currentTerm'[x]
  <2>1. /\ currentTerm[x] \in Nat /\ currentTerm[x] <= 1
        /\ currentTerm'[x] \in {currentTerm[x], 1}
    BY DEF TypeOK, Advances, FirstTerm
  <2> QED BY <2>1
<1>5. p \in D[x] <=> p \in C[x] \/ Counts(x, p)
  BY DEF CountedSince
<1>6. CASE Counts(x, p)
  <2>1. after < due
    BY <1>1, <1>6, CountedOnce
  <2> QED BY <1>1, <1>2, <1>3, <1>4, <1>5, <2>1
<1>7. CASE ~Counts(x, p) /\ CandidateCampaigns(x)
  <2>1. after <= due + (IF x # p THEN 1 ELSE 0)
    BY <1>1, <1>7, DueMoves
  <2>2. currentTerm[x] = 0 /\ currentTerm'[x] = 1
    BY <1>7, CampaignsFromNothing
  <2> QED BY <1>1, <1>2, <1>3, <1>5, <1>7, <2>1, <2>2
<1>8. CASE ~Counts(x, p) /\ ~CandidateCampaigns(x)
  <2>1. after <= due
    BY <1>1, <1>2, <1>8, DueMoves
  <2> QED BY <1>1, <1>2, <1>3, <1>4, <1>5, <1>8, <2>1
<1> QED
  BY <1>6, <1>7, <1>8

LEMMA AskedOnceInitially ==
    ASSUME Init, TypeOK, NEW C \in [Node -> SUBSET Node], \A x \in Node : C[x] = {}
    PROVE  AskedOnce(C)
<1>1. \A M : Count(<<>>, M) = 0
  BY FS_EmptySet DEF Count
<1>2. \A n \in Node : /\ currentTerm[n] = 0 /\ outbox[n] = {} /\ inbox[n] = <<>>
                      /\ \A role \in Role : queue[n][role] = <<>>
  BY DEF Init
<1>3. ASSUME NEW x \in Node, NEW p \in Node PROVE Due(x, p) = 0
  <2>1. Pending(x, p) = 0
    BY <1>2 DEF Pending, Asking
  <2> QED BY <1>1, <1>2, <2>1 DEF Due, Role
<1> QED
  BY <1>2, <1>3 DEF AskedOnce, Elections

-----------------------------------------------------------------------------
(***************************************************************************)
(* The number of votes counted.                                            *)
(***************************************************************************)
Tallied(C) ==
    \A x \in Node :
        /\ candidate[x].campaigning => candidate[x].votes = Cardinality(C[x])
        /\ state[x] = "Leader" => Majority(Cardinality(C[x]), x)

LEMMA TalliedKept ==
    ASSUME TypeOK, TypeOK', FirstTerm, MaxTerm = 1, \A n \in Node : Advances(n),
           NEW C \in [Node -> SUBSET Node], NEW D \in [Node -> SUBSET Node],
           AskedOnce(C), Tallied(C), CountedSince(C, D)
    PROVE  Tallied(D)'
<1> SUFFICES ASSUME NEW x \in Node
             PROVE  /\ candidate'[x].campaigning =>
                          candidate'[x].votes = Cardinality(D[x])
                    /\ state'[x] = "Leader" => Majority(Cardinality(D[x]), x)
  BY DEF Tallied, Majority, Peers
<1>1. IsFiniteSet(C[x]) /\ Cardinality(C[x]) \in Nat
      /\ Cardinality(Peers(x)) \in Nat
  <2>1. IsFiniteSet(C[x]) /\ IsFiniteSet(Peers(x))
    BY NodeAssumption, FS_Subset DEF Peers
  <2> QED BY <2>1, FS_CardinalityType
<1>2. candidate[x].votes \in Nat
  BY DEF TypeOK
<1>3. CASE \A p \in Node : ~Counts(x, p)
  <2>1. D[x] = C[x]
    BY <1>3 DEF CountedSince
  <2>2. \A p : ~Counts(x, p)
    <3>1. ASSUME NEW p, Counts(x, p) PROVE p \in Node
      <4>1. /\ Mail(x, "Candidate") \in ServerMessage
            /\ Mail(x, "Candidate").from = p
        BY <3>1, TakeTyped DEF Counts, CandidateWins, CandidateCountsVote,
           CandidateReceives, Receives, TypeOK, Role
      <4> QED BY <4>1, TypesOfMessages
    <3> QED BY <1>3, <3>1
  <2>3. ASSUME candidate'[x].campaigning
        PROVE  candidate'[x].votes = Cardinality(D[x])
    <3>1. CASE CandidateCampaigns(x)
      <4>1. candidate'[x].votes = 0
        BY <3>1 DEF CandidateCampaigns, TypeOK
      <4>2. C[x] = {}
        BY <3>1, CampaignsFromNothing, NothingBeforeElections
      <4> QED BY <2>1, <4>1, <4>2, FS_EmptySet
    <3>2. CASE ~CandidateCampaigns(x)
      BY <2>1, <2>2, <2>3, <3>2 DEF Advances, Tallied
    <3> QED BY <3>1, <3>2
  <2>4. ASSUME state'[x] = "Leader" PROVE Majority(Cardinality(D[x]), x)
    <3>1. ~CandidateWins(x)
      BY <2>2 DEF Counts, CandidateWins
    <3> QED BY <2>1, <2>4, <3>1 DEF Advances, Tallied
  <2> QED BY <2>3, <2>4
<1>4. ASSUME NEW p \in Node, Counts(x, p)
      PROVE  /\ candidate'[x].campaigning =>
                   candidate'[x].votes = Cardinality(D[x])
             /\ state'[x] = "Leader" => Majority(Cardinality(D[x]), x)
  <2>1. D[x] = C[x] \cup {p}
    BY <1>4 DEF CountedSince, Counts
  <2>2. p \notin C[x]
    <3>1. Due(x, p) > 0 /\ Due(x, p) \in Nat
      BY <1>4, CountedOnce, DueIsNatural
    <3>2. currentTerm[x] \in Nat /\ currentTerm[x] <= 1
      BY DEF TypeOK, FirstTerm
    <3>3. Due(x, p) + (IF p \in C[x] THEN 1 ELSE 0) <= Elections(x, p)
      BY DEF AskedOnce
    <3> QED BY <3>1, <3>2, <3>3 DEF Elections
  <2>3. Cardinality(D[x]) = Cardinality(C[x]) + 1
    BY <1>1, <2>1, <2>2, FS_AddElement
  <2>4. candidate[x].campaigning /\ candidate[x].votes = Cardinality(C[x])
    BY <1>4, CountsWhileCampaigning DEF Tallied
  <2>5. ASSUME candidate'[x].campaigning
        PROVE  candidate'[x].votes = candidate[x].votes + 1
    <3>1. CandidateCountsVote(x)
      BY <1>4, <2>5 DEF Counts, CandidateWins, IdleCandidate, TypeOK
    <3>2. candidate' = [candidate EXCEPT ![x].votes = @ + 1]
      BY <1>4, <3>1 DEF Counts, CandidateCountsVote
    <3> QED BY <3>2 DEF TypeOK
  <2>6. ASSUME state'[x] = "Leader" PROVE Majority(Cardinality(D[x]), x)
    <3>1. CASE CandidateWins(x)
      BY <2>3, <2>4, <3>1 DEF CandidateWins
    <3>2. CASE ~CandidateWins(x)
      <4>1. Majority(Cardinality(C[x]), x)
        BY <2>6, <3>2 DEF Advances, Tallied
      <4> QED BY <1>1, <2>3, <4>1 DEF Majority
    <3> QED BY <3>1, <3>2
  <2> QED BY <2>3, <2>4, <2>5, <2>6
<1> QED
  BY <1>3, <1>4

-----------------------------------------------------------------------------
(***************************************************************************)
(* Who has whose vote.                                                     *)
(***************************************************************************)
\* The vote p grants x is in the mailbox of x, or is counted or will be.
InMail(x, p) == Count(inbox[x], GrantsOf(p)) > 0

InHand(C, x, p) == p \in C[x] \/ Count(queue[x]["Candidate"], GrantsOf(p)) > 0

\* The vote of p may still decide an election of x: a vote in the mailbox of a
\* server that is no longer a candidate goes to a queue where no one counts it.
Has(C, x, p) == InHand(C, x, p) \/ (state[x] = "Candidate" /\ InMail(x, p))

\* What it takes to grant a vote.
LEMMA GrantFacts ==
    ASSUME TypeOK, FirstTerm, NEW p \in Node, NEW x, Grants(p, x)
    PROVE  /\ x \in Node
           /\ Due(x, p) > 0
           /\ state' = [state EXCEPT ![p] = "Follower"]
           /\ currentTerm'[p] = 1
           /\ votedFor'[p] = x
           /\ p \notin Impatient => votedFor[p] \in {NoVote, x}
<1>a. /\ "Follower" \in Role /\ "Candidate" \in Role
      /\ DOMAIN currentTerm = Node /\ DOMAIN votedFor = Node
  BY DEF TypeOK, Role
<1>1. ASSUME NEW role \in {"Follower", "Candidate"},
             Receives(p, role, "RequestVote"), Take(p, role), Mail(p, role).from = x
      PROVE  x \in Node /\ Mail(p, role).term = 1 /\ Due(x, p) > 0
  <2>1. role \in Role
    BY DEF Role
  <2>2. x \in Node /\ Mail(p, role).term = 1
    BY <1>1, <2>1, RequestsOfFirstTerm
  <2>3. queue[p][role] \in Seq(ServerMessage) /\ queue[p][role] # <<>>
    BY <1>1, <2>1 DEF TypeOK, Receives
  <2>4. Mail(p, role) \in RequestsOf(x)
    <3>1. Mail(p, role) \in ServerMessage
      BY <2>3 DEF Mail
    <3> QED BY <1>1, <3>1, TypesOfMessages DEF RequestsOf, Receives
  <2>5. Count(queue[p][role], RequestsOf(x)) > 0
    BY <2>3, <2>4, CountIsNatural DEF Mail
  <2>6. Count(queue[p][role], RequestsOf(x)) \in Nat /\ Due(x, p) \in Nat
        /\ Due(x, p) >= Count(queue[p][role], RequestsOf(x))
    BY <2>1, <2>2, CountsAreNatural, DueIsNatural
  <2> QED BY <2>2, <2>5, <2>6
<1>2. CASE FollowerGrantsVote(p) /\ Mail(p, "Follower").from = x
  <2>1. x \in Node /\ Mail(p, "Follower").term = 1 /\ Due(x, p) > 0
    BY <1>1, <1>2 DEF FollowerGrantsVote, FollowerReceives
  <2>2. /\ state' = [state EXCEPT ![p] = "Follower"]
        /\ currentTerm' = [currentTerm EXCEPT ![p] = Mail(p, "Follower").term]
        /\ votedFor' = [votedFor EXCEPT ![p] = x]
        /\ votedFor[p] \in {NoVote, x}
    BY <1>2 DEF FollowerGrantsVote, SwitchTo, WouldVote
  <2> QED BY <1>a, <2>1, <2>2
<1>3. CASE CandidateGrantsVote(p) /\ Mail(p, "Candidate").from = x
  <2>1. x \in Node /\ Mail(p, "Candidate").term = 1 /\ Due(x, p) > 0
    BY <1>1, <1>3 DEF CandidateGrantsVote, CandidateReceives
  <2>2. /\ state' = [state EXCEPT ![p] = "Follower"]
        /\ currentTerm' = [currentTerm EXCEPT ![p] = Mail(p, "Candidate").term]
        /\ votedFor' = [votedFor EXCEPT ![p] = x]
    BY <1>3 DEF CandidateGrantsVote, CandidateYields, SwitchTo
  <2>3. p \in Impatient
    BY <1>3 DEF CandidateGrantsVote, CandidateReceives, Polling, FirstTerm
  <2> QED BY <1>a, <2>1, <2>2, <2>3
<1> QED
  BY <1>2, <1>3 DEF Grants

\* A vote in a mailbox was there before, or has just been granted.
LEMMA GrantsArrive ==
    ASSUME TypeOK, TypeOK', FirstTerm, Traffic, NEW x \in Node, NEW p \in Node,
           InMail(x, p)'
    PROVE  InMail(x, p) \/ Grants(p, x)
<1> DEFINE Goal == InMail(x, p) \/ Grants(p, x)
<1>a. PICK before, after : /\ before = Count(inbox[x], GrantsOf(p))
                           /\ after = Count(inbox'[x], GrantsOf(p))
  OBVIOUS
<1>b. after > 0 /\ (before > 0 => InMail(x, p))
  BY <1>a DEF InMail, GrantsOf, VotesOf
<1>c. before \in Nat /\ after \in Nat
  BY <1>a, CountsAreNatural, CountsStayNatural
<1>d. /\ GrantsOf(p) \subseteq VotesOf(p)
      /\ GrantsOf(p) \cap ClientRequests = {}
      /\ GrantsOf(p) \cap (VoteRequests \cup AppendRequests) = {}
  BY KindsDiffer DEF GrantsOf
<1>1. ASSUME UNCHANGED inbox PROVE Goal
  BY <1>1, <1>a, <1>b
<1>2. ASSUME NEW s \in Node, NEW role \in {"Follower", "Candidate"}, Replies(s, role)
      PROVE  Goal
  <2>1. PICK m : m = Mail(s, role)
    OBVIOUS
  <2>2. PICK answer \in VoteResponses \cup AppendResponses :
           /\ answer.from = s
           /\ Send(m.from, answer)
           /\ answer \in VoteResponses /\ answer.granted => Grants(s, m.from)
    BY <1>2, <2>1 DEF Replies
  <2>3. m.from \in Node
    <3>1. queue[s][role] \in Seq(ServerMessage) /\ queue[s][role] # <<>>
      <4>1. role \in Role
        BY DEF Role
      <4> QED BY <1>2, <4>1 DEF TypeOK, Replies, Takes
    <3>2. m \in ServerMessage
      BY <2>1, <3>1 DEF Mail
    <3> QED BY <3>2, TypesOfMessages
  <2>4. answer \in ServerMessage \cup ClientRequests
    BY DEF ServerMessage
  <2>5. after = before + (IF x = m.from /\ answer \in GrantsOf(p) THEN 1 ELSE 0)
    BY <1>a, <2>2, <2>3, <2>4, SendCounts
  <2>6. CASE x = m.from /\ answer \in GrantsOf(p)
    BY <2>2, <2>6 DEF GrantsOf, VotesOf
  <2>7. CASE ~(x = m.from /\ answer \in GrantsOf(p))
    BY <1>b, <1>c, <2>5, <2>7
  <2> QED BY <2>6, <2>7
<1>3. ASSUME NEW n \in Node, RootStep(n) PROVE Goal
  <2>1. after + (IF x = n /\ Head(inbox[n]) \in GrantsOf(p) THEN 1 ELSE 0) = before
    BY <1>a, <1>d, <1>3, RouteCounts DEF Role
  <2> QED BY <1>b, <1>c, <2>1
<1>4. ASSUME NEW n \in Node, Transmit(n) PROVE Goal
  <2>1. PICK parcel \in outbox[n] : Send(parcel.to, parcel.message)
    BY <1>4 DEF Transmit
  <2>2. outbox \in [Node -> SUBSET Parcel]
    BY DEF TypeOK
  <2>3. /\ parcel.to \in Node
        /\ parcel.message \in VoteRequests \cup AppendRequests
        /\ parcel.message \in ServerMessage \cup ClientRequests
    BY <2>2 DEF Parcel, ServerMessage
  <2>4. after = before
    BY <1>a, <1>c, <1>d, <2>1, <2>3, SendCounts
  <2> QED BY <1>b, <2>4
<1>5. ASSUME ClientMail PROVE Goal
  <2>1. PICK to \in Node, r \in Request : Send(to, ClientRequest(r))
    BY <1>5 DEF ClientMail
  <2>2. ClientRequest(r) \in ClientRequests
    BY DEF ClientRequest, ClientRequests
  <2>3. after = before
    BY <1>a, <1>c, <1>d, <2>1, <2>2, SendCounts
  <2> QED BY <1>b, <2>3
<1> HIDE DEF Goal
<1>6. ASSUME NEW s \in Node, CandidateCampaigns(s) \/ Beats(s) PROVE Goal
  BY <1>1, <1>6 DEF CandidateCampaigns, Beats
<1>7. Goal
  BY <1>1, <1>2, <1>3, <1>4, <1>5, <1>6 DEF Traffic, Unposted
<1> QED
  BY <1>7 DEF Goal

\* A vote in the candidate actor's queue was there before, or the root actor
\* has put it there while the server is a candidate.
LEMMA GrantsAreQueued ==
    ASSUME TypeOK, TypeOK', FirstTerm, Traffic, NEW x \in Node, NEW p \in Node,
           Count(queue'[x]["Candidate"], GrantsOf(p)) > 0
    PROVE  \/ Count(queue[x]["Candidate"], GrantsOf(p)) > 0
           \/ state[x] = "Candidate" /\ InMail(x, p)
<1> DEFINE Goal == \/ Count(queue[x]["Candidate"], GrantsOf(p)) > 0
                   \/ state[x] = "Candidate" /\ InMail(x, p)
<1>a. PICK before, after : /\ before = Count(queue[x]["Candidate"], GrantsOf(p))
                           /\ after = Count(queue'[x]["Candidate"], GrantsOf(p))
  OBVIOUS
<1>b. after > 0 /\ before \in Nat /\ after \in Nat /\ "Candidate" \in Role
  BY <1>a, CountsAreNatural, CountsStayNatural DEF Role
<1>c. GrantsOf(p) \cap ClientRequests = {}
  BY KindsDiffer DEF GrantsOf
<1>1. ASSUME UNCHANGED queue PROVE Goal
  BY <1>1
<1>2. ASSUME NEW s \in Node, NEW role \in Role, Takes(s, role) PROVE Goal
  <2>1. after + (IF x = s /\ "Candidate" = role /\ Mail(s, role) \in GrantsOf(p)
                 THEN 1 ELSE 0) = before
    <3>1. queue[s][role] # <<>> /\ Take(s, role)
      BY <1>2 DEF Takes
    <3>2. \A r \in Role :
             Count(queue'[x][r], GrantsOf(p))
                + (IF x = s /\ r = role /\ Mail(s, role) \in GrantsOf(p)
                   THEN 1 ELSE 0)
             = Count(queue[x][r], GrantsOf(p))
      BY <3>1, TakeCounts
    <3> QED BY <1>a, <1>b, <3>2
  <2> QED BY <1>a, <1>b, <2>1
<1>3. ASSUME NEW n \in Node, RootStep(n) PROVE Goal
  <2>1. after = before + (IF x = n /\ "Candidate" = state[n]
                             /\ Head(inbox[n]) \in GrantsOf(p) THEN 1 ELSE 0)
    BY <1>a, <1>b, <1>c, <1>3, RouteCounts
  <2>2. CASE x = n /\ "Candidate" = state[n] /\ Head(inbox[n]) \in GrantsOf(p)
    <3>1. inbox[x] \in Seq(ServerMessage \cup ClientRequests) /\ inbox[x] # <<>>
      BY <1>3, <2>2 DEF TypeOK, RootStep, RootRoutesServerMessage,
         RootRoutesClientMessage
    <3>2. Count(inbox[x], GrantsOf(p)) > 0
      BY <2>2, <3>1, CountIsNatural
    <3> QED BY <2>2, <3>2 DEF InMail
  <2>3. CASE ~(x = n /\ "Candidate" = state[n] /\ Head(inbox[n]) \in GrantsOf(p))
    BY <1>a, <1>b, <2>1, <2>3
  <2> QED BY <2>2, <2>3
<1> HIDE DEF Goal
<1>4. ASSUME NEW s \in Node, \/ CandidateCampaigns(s) \/ Beats(s) \/ Transmit(s)
      PROVE  Goal
  BY <1>1, <1>4 DEF CandidateCampaigns, Beats, Transmit
<1>5. Goal
  BY <1>1, <1>2, <1>3, <1>4 DEF Traffic, Unposted, ClientMail, Replies, Role
<1> QED
  BY <1>5 DEF Goal

\* Whose vote may still count, and who has given one.
Cast(C, x, p) == InMail(x, p) \/ InHand(C, x, p)

\* A server that has voted stands no more.
VotersSettle(C) == \A x, p \in Node : Cast(C, x, p) => Settled(p)

\* No two servers have each other's vote.
NoSwap(C) == \A x, p \in Node : ~(Has(C, x, p) /\ Has(C, p, x))

\* A server whose timer never expires votes once: its vote is taken, by the
\* server that has it or by a leader it follows since.
VoteTaken(C) ==
    \A x \in Node, p \in Node \ Impatient : Has(C, x, p) =>
        votedFor[p] \in Node /\ (votedFor[p] = x \/ Settled(votedFor[p]))

VotesOnce(C) ==
    \A x, y \in Node, p \in Node \ Impatient : Has(C, x, p) /\ Has(C, y, p) => x = y

Pledged(C) == VotersSettle(C) /\ NoSwap(C) /\ VoteTaken(C) /\ VotesOnce(C)

LEMMA HandAfter ==
    ASSUME TypeOK, TypeOK', FirstTerm, Traffic,
           NEW C \in [Node -> SUBSET Node], NEW D \in [Node -> SUBSET Node],
           CountedSince(C, D), NEW x \in Node, NEW p \in Node, InHand(D, x, p)'
    PROVE  InHand(C, x, p) \/ (state[x] = "Candidate" /\ InMail(x, p))
<1>1. p \in D[x] \/ Count(queue'[x]["Candidate"], GrantsOf(p)) > 0
  BY DEF InHand, GrantsOf, VotesOf
<1>2. CASE p \in D[x]
  <2>1. p \in C[x] \/ Counts(x, p)
    BY <1>2 DEF CountedSince
  <2> QED BY <2>1, CountedOnce DEF InHand
<1>3. CASE Count(queue'[x]["Candidate"], GrantsOf(p)) > 0
  BY <1>3, GrantsAreQueued DEF InHand
<1> QED
  BY <1>1, <1>2, <1>3

LEMMA CastAfter ==
    ASSUME TypeOK, TypeOK', FirstTerm, Traffic,
           NEW C \in [Node -> SUBSET Node], NEW D \in [Node -> SUBSET Node],
           CountedSince(C, D), NEW x \in Node, NEW p \in Node, Cast(D, x, p)'
    PROVE  Cast(C, x, p) \/ Grants(p, x)
<1>1. InMail(x, p)' \/ InHand(D, x, p)'
  BY DEF Cast
<1> QED
  BY <1>1, HandAfter, GrantsArrive DEF Cast

\* A vote a candidate obtains is granted while it is a candidate: it asks for
\* none before.
LEMMA HasAfter ==
    ASSUME TypeOK, TypeOK', FirstTerm, Traffic, \A n \in Node : Advances(n),
           NEW C \in [Node -> SUBSET Node], NEW D \in [Node -> SUBSET Node],
           AskedOnce(C), CountedSince(C, D), NEW x \in Node, NEW p \in Node,
           Has(D, x, p)'
    PROVE  Has(C, x, p) \/ (Grants(p, x) /\ state[x] = "Candidate")
<1>1. CASE InHand(D, x, p)'
  BY <1>1, HandAfter DEF Has
<1>2. CASE state'[x] = "Candidate" /\ InMail(x, p)'
  <2>1. InMail(x, p) \/ Grants(p, x)
    BY <1>2, GrantsArrive
  <2>2. state[x] = "Candidate" \/ currentTerm[x] = 0
    BY <1>2 DEF Advances
  <2>3. ASSUME currentTerm[x] = 0 PROVE ~InMail(x, p) /\ ~Grants(p, x)
    <3>1. Due(x, p) = 0
      BY <2>3, NothingBeforeElections
    <3>2. ~Grants(p, x)
      BY <3>1, GrantFacts
    <3>3. /\ Count(inbox[x], VotesOf(p)) \in Nat /\ Count(inbox[x], VotesOf(p)) <= 0
      BY <3>1, DueIsNatural, CountsAreNatural
    <3>4. Count(inbox[x], GrantsOf(p)) \in Nat
          /\ Count(inbox[x], GrantsOf(p)) <= Count(inbox[x], VotesOf(p))
      <4>1. inbox[x] \in Seq(ServerMessage \cup ClientRequests)
        BY DEF TypeOK
      <4>2. {i \in DOMAIN inbox[x] : inbox[x][i] \in GrantsOf(p)}
               \in SUBSET {i \in DOMAIN inbox[x] : inbox[x][i] \in VotesOf(p)}
        BY DEF GrantsOf
      <4>3. IsFiniteSet({i \in DOMAIN inbox[x] : inbox[x][i] \in VotesOf(p)})
        BY <4>1, CountIsNatural
      <4>4. Count(inbox[x], GrantsOf(p)) \in Nat
        BY CountsAreNatural
      <4> QED BY <4>2, <4>3, <4>4, FS_Subset DEF Count
    <3> QED BY <3>2, <3>3, <3>4 DEF InMail
  <2> QED BY <2>1, <2>2, <2>3 DEF Has
<1> QED
  BY <1>1, <1>2 DEF Has

\* One server grants one vote at a time, and then is no candidate.
LEMMA OneGrantAtATime ==
    ASSUME TypeOK, FirstTerm, NEW p \in Node, NEW x, Grants(p, x)
    PROVE  /\ \A y : Grants(p, y) => y = x
           /\ \A q \in Node : \A y : Grants(q, y) /\ state[q] = "Candidate" => q = p
<1>1. votedFor'[p] = x /\ state' = [state EXCEPT ![p] = "Follower"]
      /\ DOMAIN state = Node
  BY GrantFacts DEF TypeOK
<1>2. \A y : Grants(p, y) => votedFor'[p] = y
  BY GrantFacts
<1>3. ASSUME NEW q \in Node, NEW y, Grants(q, y), state[q] = "Candidate", q # p
      PROVE  FALSE
  <2>1. state' = [state EXCEPT ![q] = "Follower"]
    BY <1>3, GrantFacts
  <2>2. state'[q] = "Follower" /\ state'[q] = state[q]
    BY <1>1, <1>3, <2>1
  <2> QED BY <1>3, <2>2
<1> QED
  BY <1>1, <1>2, <1>3

LEMMA PledgedKept ==
    ASSUME TypeOK, TypeOK', FirstTerm, Traffic, \A n \in Node : Advances(n),
           NEW C \in [Node -> SUBSET Node], NEW D \in [Node -> SUBSET Node],
           AskedOnce(C), CountedSince(C, D), Pledged(C)
    PROVE  Pledged(D)'
<1>1. ASSUME NEW x \in Node, NEW p \in Node, Cast(D, x, p)' PROVE Settled(p)'
  <2>1. CASE Cast(C, x, p)
    <3>1. Settled(p)
      BY <2>1 DEF Pledged, VotersSettle
    <3> QED BY <3>1, SettledStays
  <2>2. CASE Grants(p, x)
    <3>1. state' = [state EXCEPT ![p] = "Follower"] /\ currentTerm'[p] = 1
          /\ DOMAIN state = Node
      BY <2>2, GrantFacts DEF TypeOK
    <3> QED BY <3>1 DEF Settled
  <2> QED BY <1>1, <2>1, <2>2, CastAfter
<1>2. ASSUME NEW x \in Node, NEW p \in Node, Grants(p, x), state[x] = "Candidate",
             Has(D, p, x)'
      PROVE  FALSE
  <2>1. CASE Has(C, p, x)
    <3>1. Settled(x)
      BY <2>1 DEF Has, Cast, Pledged, VotersSettle
    <3> QED BY <1>2, <3>1 DEF Settled
  <2>2. CASE Grants(x, p)
    <3>1. x = p
      BY <1>2, <2>2, OneGrantAtATime
    <3>2. Due(x, p) = 0
      BY <3>1, NothingBeforeElections
    <3> QED BY <1>2, <3>2, GrantFacts
  <2> QED BY <1>2, <2>1, <2>2, HasAfter
<1>3. ASSUME NEW x \in Node, NEW p \in Node, Has(D, x, p)', Has(D, p, x)'
      PROVE  FALSE
  <2>1. Has(C, x, p) \/ (Grants(p, x) /\ state[x] = "Candidate")
    BY <1>3, HasAfter
  <2>2. Has(C, p, x) \/ (Grants(x, p) /\ state[p] = "Candidate")
    BY <1>3, HasAfter
  <2>3. ~(Has(C, x, p) /\ Has(C, p, x))
    BY DEF Pledged, NoSwap
  <2> QED BY <1>2, <1>3, <2>1, <2>2, <2>3
<1>4. ASSUME NEW x \in Node, NEW p \in Node \ Impatient, Has(D, x, p)'
      PROVE  \E v \in Node : votedFor'[p] = v /\ (v = x \/ Settled(v)')
  <2>1. PICK v : v = votedFor'[p]
    OBVIOUS
  <2>2. CASE Grants(p, x)
    BY <2>2, GrantFacts
  <2>3. CASE Has(C, x, p)
    <3>1. votedFor[p] \in Node /\ (votedFor[p] = x \/ Settled(votedFor[p]))
      BY <2>3 DEF Pledged, VoteTaken
    <3>2. CASE v = votedFor[p]
      <4>1. v \in Node /\ (v = x \/ Settled(v))
        BY <3>1, <3>2
      <4> QED BY <2>1, <4>1, SettledStays
    <3>3. CASE Grants(p, v)
      <4>1. votedFor[p] \in {NoVote, v}
        BY <3>3, GrantFacts
      <4>2. v = votedFor[p]
        BY <3>1, <4>1, NodeAssumption
      <4> QED BY <3>2, <4>2
    <3>4. CASE v \in Node /\ Settled(v)
      BY <2>1, <3>4, SettledStays
    <3>5. \/ v = votedFor[p]
          \/ Grants(p, v)
          \/ v \in Node /\ Settled(v)
      BY <2>1 DEF Advances
    <3> QED BY <3>2, <3>3, <3>4, <3>5
  <2> QED BY <1>4, <2>2, <2>3, HasAfter
<1>5. ASSUME NEW x \in Node, NEW y \in Node, NEW p \in Node \ Impatient,
             Grants(p, x), state[x] = "Candidate", Has(D, y, p)'
      PROVE  x = y
  <2>1. CASE Grants(p, y)
    BY <1>5, <2>1, OneGrantAtATime
  <2>2. CASE Has(C, y, p)
    <3>1. votedFor[p] \in Node /\ (votedFor[p] = y \/ Settled(votedFor[p]))
      BY <2>2 DEF Pledged, VoteTaken
    <3>2. votedFor[p] \in {NoVote, x}
      BY <1>5, GrantFacts
    <3>3. votedFor[p] = x
      BY <3>1, <3>2, NodeAssumption
    <3> QED BY <1>5, <3>1, <3>3 DEF Settled
  <2> QED BY <1>5, <2>1, <2>2, HasAfter
<1>6. ASSUME NEW x \in Node, NEW y \in Node, NEW p \in Node \ Impatient,
             Has(D, x, p)', Has(D, y, p)'
      PROVE  x = y
  <2>1. Has(C, x, p) \/ (Grants(p, x) /\ state[x] = "Candidate")
    BY <1>6, HasAfter
  <2>2. Has(C, y, p) \/ (Grants(p, y) /\ state[y] = "Candidate")
    BY <1>6, HasAfter
  <2>3. Has(C, x, p) /\ Has(C, y, p) => x = y
    BY DEF Pledged, VotesOnce
  <2> QED BY <1>5, <1>6, <2>1, <2>2, <2>3
<1>7. VotersSettle(D)'
  BY <1>1 DEF VotersSettle
<1>8. NoSwap(D)'
  BY <1>3 DEF NoSwap
<1>9. VoteTaken(D)'
  BY <1>4 DEF VoteTaken, Settled
<1>10. VotesOnce(D)'
  BY <1>6 DEF VotesOnce
<1> QED
  BY <1>7, <1>8, <1>9, <1>10 DEF Pledged

LEMMA PledgedInitially ==
    ASSUME Init, NEW C \in [Node -> SUBSET Node], \A x \in Node : C[x] = {}
    PROVE  Pledged(C)
<1>1. \A M : Count(<<>>, M) = 0
  BY FS_EmptySet DEF Count
<1>2. \A n \in Node : inbox[n] = <<>> /\ queue[n]["Candidate"] = <<>>
  BY DEF Init, Role
<1>3. ASSUME NEW x \in Node, NEW p \in Node PROVE ~Cast(C, x, p) /\ ~Has(C, x, p)
  BY <1>1, <1>2 DEF Cast, Has, InMail, InHand
<1> QED
  BY <1>3 DEF Pledged, VotersSettle, NoSwap, VoteTaken, VotesOnce

-----------------------------------------------------------------------------
(***************************************************************************)
(* Majorities that cannot both be had.                                     *)
(***************************************************************************)
Elected(C) == FirstTerm /\ AskedOnce(C) /\ Tallied(C) /\ Pledged(C)

Electorate == \E C \in [Node -> SUBSET Node] : Elected(C)

\* So few servers stand that two majorities would share one that does not.
FewStand ==
    \/ Cardinality(Impatient) <= 2
    \/ Cardinality(Impatient) <= 3 /\ Cardinality(Node) % 2 = 1

LEMMA ElectorateKept ==
    ASSUME TypeOK, TypeOK', MaxTerm = 1, Traffic, Electorate,
           FirstTerm => \A n \in Node : Advances(n)
    PROVE  Electorate'
<1>1. PICK C \in [Node -> SUBSET Node] : Elected(C)
  BY DEF Electorate
<1>2. PICK D \in [Node -> SUBSET Node] : CountedSince(C, D)
  <2> DEFINE D == [x \in Node |-> C[x] \cup {p \in Node : Counts(x, p)}]
  <2>1. D \in [Node -> SUBSET Node] /\ CountedSince(C, D)
    BY DEF CountedSince
  <2> QED BY <2>1
<1>3. /\ FirstTerm /\ AskedOnce(C) /\ Tallied(C) /\ Pledged(C)
      /\ \A n \in Node : Advances(n)
  BY <1>1 DEF Elected
<1>4. FirstTerm' /\ AskedOnce(D)' /\ Tallied(D)' /\ Pledged(D)'
  BY <1>2, <1>3, FirstTermKept, AskedOnceKept, TalliedKept, PledgedKept
<1> QED
  BY <1>4 DEF Electorate, Elected

LEMMA ElectorateInitially == ASSUME Init, TypeOK PROVE Electorate
<1> DEFINE C == [x \in Node |-> {}]
<1>1. C \in [Node -> SUBSET Node] /\ \A x \in Node : C[x] = {}
  OBVIOUS
<1> HIDE DEF C
<1>2. Tallied(C)
  BY DEF Tallied, Init, IdleCandidate
<1>3. Elected(C)
  BY <1>1, <1>2, FirstTermInitially, AskedOnceInitially, PledgedInitially DEF Elected
<1> QED
  BY <1>1, <1>3 DEF Electorate

\* Who has voted for two leaders stands itself, and is neither of them; and one
\* of the two has not the vote of the other, nor its own.
LEMMA MajoritiesMeet ==
    ASSUME FewStand, NEW A \in SUBSET Node, NEW B \in SUBSET Node,
           NEW l \in Impatient, NEW k \in Impatient, l # k,
           A \cap B \subseteq Impatient \ {l, k},
           l \notin A \cup B,
           Majority(Cardinality(A), l), Majority(Cardinality(B), k)
    PROVE  FALSE
<1>1. /\ IsFiniteSet(Node) /\ IsFiniteSet(Impatient)
      /\ IsFiniteSet(A) /\ IsFiniteSet(B)
      /\ l \in Node /\ k \in Node
  BY NodeAssumption, BoundAssumption, FS_Subset
<1>2. /\ Cardinality(Peers(l)) = Cardinality(Node) - 1
      /\ Cardinality(Peers(k)) = Cardinality(Node) - 1
  BY <1>1, FS_RemoveElement DEF Peers
<1>3. PICK rest : rest = Impatient \ {l, k}
  OBVIOUS
<1>4. IsFiniteSet(rest) /\ Cardinality(rest) = Cardinality(Impatient) - 2
  <2>1. PICK others : others = Impatient \ {l}
    OBVIOUS
  <2>2. /\ IsFiniteSet(others) /\ k \in others /\ rest = others \ {k}
        /\ Cardinality(others) = Cardinality(Impatient) - 1
    BY <1>1, <1>3, <2>1, FS_RemoveElement
  <2>3. IsFiniteSet(rest) /\ Cardinality(rest) = Cardinality(others) - 1
    BY <2>2, FS_RemoveElement
  <2>4. Cardinality(Impatient) \in Nat
    BY <1>1, FS_CardinalityType
  <2>5. Cardinality(rest) = Cardinality(Impatient) - 2
    BY ONLY <2>2, <2>3, <2>4
  <2> QED BY <2>3, <2>5
<1>5. Cardinality(A \cap B) <= Cardinality(Impatient) - 2
  BY <1>3, <1>4, FS_Subset
<1>6. Cardinality(A \cup B) <= Cardinality(Node) - 1
  <2>1. A \cup B \in SUBSET Peers(l)
    BY DEF Peers
  <2>2. IsFiniteSet(Peers(l))
    BY <1>1, FS_RemoveElement DEF Peers
  <2> QED BY <1>2, <2>1, <2>2, FS_Subset
<1>7. Cardinality(A \cup B) = Cardinality(A) + Cardinality(B) - Cardinality(A \cap B)
  BY <1>1, FS_Union
<1>8. /\ Cardinality(A) \in Nat /\ Cardinality(B) \in Nat
      /\ Cardinality(A \cap B) \in Nat
      /\ Cardinality(Node) \in Nat /\ Cardinality(Impatient) \in Nat
  BY <1>1, FS_Intersection, FS_CardinalityType
<1>9. /\ Cardinality(A) * 2 > Cardinality(Node) - 1
      /\ Cardinality(B) * 2 > Cardinality(Node) - 1
  BY <1>2 DEF Majority
<1>10. PICK a, b, n, i : /\ a = Cardinality(A) /\ b = Cardinality(B)
                        /\ n = Cardinality(Node) /\ i = Cardinality(Impatient)
  OBVIOUS
<1>11. /\ a \in Nat /\ b \in Nat /\ n \in Nat /\ i \in Nat
       /\ a * 2 > n - 1 /\ b * 2 > n - 1
       /\ a + b <= n - 1 + (i - 2)
  <2>1. a + b = Cardinality(A \cup B) + Cardinality(A \cap B)
    BY <1>7, <1>8, <1>10
  <2>2. Cardinality(A \cup B) \in Nat
    BY <1>1, FS_Union, FS_CardinalityType
  <2>3. PICK u, v : u = Cardinality(A \cup B) /\ v = Cardinality(A \cap B)
    OBVIOUS
  <2>4. /\ a \in Nat /\ b \in Nat /\ n \in Nat /\ i \in Nat /\ u \in Nat /\ v \in Nat
    BY <1>8, <1>10, <2>2, <2>3
  <2>5. a + b = u + v /\ v <= i - 2 /\ u <= n - 1
    BY <1>6, <1>10, <1>5, <2>1, <2>3
  <2>6. a * 2 > n - 1 /\ b * 2 > n - 1
    BY <1>9, <1>10
  <2> QED BY <2>4, <2>5, <2>6
<1>12. i <= 2 \/ (i <= 3 /\ n % 2 = 1)
  BY <1>10 DEF FewStand
<1>13. CASE i <= 2
  BY <1>11, <1>13
<1>14. CASE i <= 3 /\ n % 2 = 1
  <2>1. a * 2 >= n + 1 /\ b * 2 >= n + 1
    BY <1>11, <1>14
  <2> QED BY <1>11, <1>14, <2>1
<1> QED
  BY <1>12, <1>13, <1>14

LEMMA OneIsElected ==
    ASSUME TypeOK, FewStand, Electorate
    PROVE  OneLeader
<1>1. PICK C \in [Node -> SUBSET Node] : Elected(C)
  BY DEF Electorate
<1> SUFFICES ASSUME NEW l \in Node, NEW k \in Node, l # k,
                    state[l] = "Leader", state[k] = "Leader"
             PROVE  FALSE
  BY DEF OneLeader
<1>2. l \in Impatient /\ k \in Impatient
  BY <1>1 DEF Elected, FirstTerm
<1>3. Majority(Cardinality(C[l]), l) /\ Majority(Cardinality(C[k]), k)
  BY <1>1 DEF Elected, Tallied
<1>4. l \notin C[l] /\ k \notin C[k]
  BY <1>1, NothingBeforeElections DEF Elected
<1>5. C[l] \cap C[k] \subseteq Impatient
  BY <1>1 DEF Elected, Pledged, VotesOnce, Has, InHand
<1>6. ~(k \in C[l] /\ l \in C[k])
  BY <1>1 DEF Elected, Pledged, NoSwap, Has, InHand
<1>7. CASE l \notin C[k]
  BY <1>2, <1>3, <1>4, <1>5, <1>7, MajoritiesMeet
<1>8. CASE k \notin C[l]
  BY <1>2, <1>3, <1>4, <1>5, <1>8, MajoritiesMeet
<1> QED
  BY <1>6, <1>7, <1>8

\* If no more than two servers stand in the first term, or three of an odd
\* number, no two servers lead at once, however many servers there are
\* (candidate.rs:38-49, 135): two majorities of peers share a server that
\* cannot have voted for both.
THEOREM FirstTermLeaderIsAlone ==
    ASSUME MaxTerm = 1, FewStand
    PROVE  Spec => []OneLeader
<1> DEFINE I == Inv /\ Electorate
<1>1. Init => I
  BY InvInitially, ElectorateInitially DEF Inv
<1>2. I /\ [Next]_vars => I'
  <2> SUFFICES ASSUME Inv, Electorate, [Next]_vars PROVE Inv' /\ Electorate'
    OBVIOUS
  <2>1. Inv' /\ TypeOK /\ TypeOK'
    BY InvKept DEF Inv
  <2> QED BY <2>1, TrafficOfStep, StepAdvances, ElectorateKept
<1>3. I => OneLeader
  BY OneIsElected DEF Inv
<1> QED
  BY <1>1, <1>2, <1>3, PTL DEF Spec
-----------------------------------------------------------------------------
(***************************************************************************)
(* The leader of the first term stays.  What could depose it is a follower *)
(* actor of its own that lingers and grants a vote.  The vote it could     *)
(* grant is the one its server has given already, and the server that has  *)
(* it asks for none twice.                                                 *)
(***************************************************************************)
\* The requests of x for the vote of p that p has yet to answer.
Unanswered(x, p) ==
    Pending(x, p)
    + Count(inbox[p], RequestsOf(x))
    + Count(queue[p]["Follower"], RequestsOf(x))
    + Count(queue[p]["Candidate"], RequestsOf(x))

LEMMA DueSplits ==
    ASSUME TypeOK, NEW x \in Node, NEW p \in Node
    PROVE  /\ Unanswered(x, p) \in Nat
           /\ Due(x, p) \in Nat
           /\ Unanswered(x, p) <= Due(x, p)
           /\ Unanswered(x, p) + Count(inbox[x], VotesOf(p)) <= Due(x, p)
           /\ Unanswered(x, p) >= Count(queue[p]["Follower"], RequestsOf(x))
<1>1. PICK pending, asked, seen, heard, answered, uncounted :
         /\ pending = Pending(x, p)
         /\ asked = Count(inbox[p], RequestsOf(x))
         /\ seen = Count(queue[p]["Follower"], RequestsOf(x))
         /\ heard = Count(queue[p]["Candidate"], RequestsOf(x))
         /\ answered = Count(inbox[x], VotesOf(p))
         /\ uncounted = Count(queue[x]["Candidate"], VotesOf(p))
  OBVIOUS
<1>2. /\ pending \in Nat /\ asked \in Nat /\ seen \in Nat
      /\ heard \in Nat /\ answered \in Nat /\ uncounted \in Nat
  BY <1>1, CountsAreNatural DEF Pending, Role
<1>3. /\ Due(x, p) = pending + asked + seen + heard + answered + uncounted
      /\ Unanswered(x, p) = pending + asked + seen + heard
  BY <1>1 DEF Due, Unanswered
<1> QED
  BY <1>1, <1>2, <1>3

LEMMA DueSplitsAfter ==
    ASSUME TypeOK', NEW x \in Node, NEW p \in Node
    PROVE  /\ Unanswered(x, p)' \in Nat
           /\ Unanswered(x, p)' <= Due(x, p)'
           /\ Unanswered(x, p)' + Count(inbox'[x], VotesOf(p)) <= Due(x, p)'
<1>1. PICK pending, asked, seen, heard, answered, uncounted :
         /\ pending = Pending(x, p)'
         /\ asked = Count(inbox'[p], RequestsOf(x))
         /\ seen = Count(queue'[p]["Follower"], RequestsOf(x))
         /\ heard = Count(queue'[p]["Candidate"], RequestsOf(x))
         /\ answered = Count(inbox'[x], VotesOf(p))
         /\ uncounted = Count(queue'[x]["Candidate"], VotesOf(p))
  OBVIOUS
<1>2. /\ pending \in Nat /\ asked \in Nat /\ seen \in Nat
      /\ heard \in Nat /\ answered \in Nat /\ uncounted \in Nat
  BY <1>1, CountsStayNatural DEF Pending, Role
<1>3. /\ Due(x, p)' = pending + asked + seen + heard + answered + uncounted
      /\ Unanswered(x, p)' = pending + asked + seen + heard
  BY <1>1 DEF Due, Unanswered, RequestsOf, VotesOf
<1> QED
  BY <1>1, <1>2, <1>3

\* Only the start of an election adds a request to be answered.
LEMMA UnansweredMoves ==
    ASSUME TypeOK, TypeOK', FirstTerm, Traffic, NEW x \in Node, NEW p \in Node,
           ~CandidateCampaigns(x)
    PROVE  Unanswered(x, p)' <= Unanswered(x, p)
<1> DEFINE Goal == Unanswered(x, p)' <= Unanswered(x, p)
<1>a. "Follower" \in Role /\ "Candidate" \in Role
  BY DEF Role
<1>b. PICK pending, asked, seen, heard :
         /\ pending = Pending(x, p)
         /\ asked = Count(inbox[p], RequestsOf(x))
         /\ seen = Count(queue[p]["Follower"], RequestsOf(x))
         /\ heard = Count(queue[p]["Candidate"], RequestsOf(x))
  OBVIOUS
<1>c. PICK pending1, asked1, seen1, heard1 :
         /\ pending1 = Pending(x, p)'
         /\ asked1 = Count(inbox'[p], RequestsOf(x))
         /\ seen1 = Count(queue'[p]["Follower"], RequestsOf(x))
         /\ heard1 = Count(queue'[p]["Candidate"], RequestsOf(x))
  OBVIOUS
<1>d. /\ Unanswered(x, p) = pending + asked + seen + heard
      /\ Unanswered(x, p)' = pending1 + asked1 + seen1 + heard1
  BY <1>b, <1>c DEF Unanswered, RequestsOf
<1>e. /\ pending \in Nat /\ asked \in Nat /\ seen \in Nat /\ heard \in Nat
      /\ pending1 \in Nat /\ asked1 \in Nat /\ seen1 \in Nat /\ heard1 \in Nat
  BY <1>a, <1>b, <1>c, CountsAreNatural, CountsStayNatural DEF Pending
<1>f. RequestsOf(x) \cap ClientRequests = {}
      /\ RequestsOf(x) \cap (VoteResponses \cup AppendResponses) = {}
  BY KindsDiffer DEF RequestsOf
<1>1. ASSUME UNCHANGED <<inbox, queue>>, pending1 <= pending PROVE Goal
  <2>1. asked1 = asked /\ seen1 = seen /\ heard1 = heard
    BY <1>b, <1>c, <1>1
  <2> QED BY <1>d, <1>e, <1>1, <2>1
<1>2. ASSUME Unposted PROVE Goal
  <2>1. pending1 = pending
    BY <1>b, <1>c, <1>2, PendingMoves DEF Unposted
  <2> QED BY <1>1, <1>2, <1>e, <2>1 DEF Unposted
<1>3. ASSUME NEW s \in Node, CandidateCampaigns(s) PROVE Goal
  <2>1. pending1 <= pending + (IF s = x /\ x # p THEN 1 ELSE 0)
    BY <1>b, <1>c, <1>3, PendingMoves
  <2>2. s # x
    BY <1>3
  <2>3. pending1 <= pending
    BY <1>e, <2>1, <2>2
  <2> QED BY <1>1, <1>3, <2>3 DEF CandidateCampaigns
<1>4. ASSUME NEW s \in Node, Beats(s) PROVE Goal
  <2>1. pending1 = pending
    BY <1>b, <1>c, <1>4, PendingMoves
  <2> QED BY <1>1, <1>4, <1>e, <2>1 DEF Beats
<1>5. ASSUME NEW s \in Node, NEW role \in Role, Takes(s, role), UNCHANGED outbox,
             asked1 = asked
      PROVE  Goal
  <2>1. \A r \in Role :
           Count(queue'[p][r], RequestsOf(x))
              + (IF p = s /\ r = role /\ Mail(s, role) \in RequestsOf(x)
                 THEN 1 ELSE 0)
           = Count(queue[p][r], RequestsOf(x))
    BY <1>5, TakeCounts DEF Takes
  <2>2. seen1 <= seen /\ heard1 <= heard
    BY <1>a, <1>b, <1>c, <1>e, <2>1
  <2>3. pending1 = pending
    BY <1>b, <1>c, <1>5, PendingMoves
  <2> QED BY <1>d, <1>e, <1>5, <2>2, <2>3
<1>6. ASSUME NEW s \in Node, NEW role \in Role, Takes(s, role),
             UNCHANGED <<inbox, outbox>>
      PROVE  Goal
  BY <1>5, <1>6, <1>b, <1>c
<1>7. ASSUME NEW s \in Node, NEW role \in {"Follower", "Candidate"}, Replies(s, role)
      PROVE  Goal
  <2>1. role \in Role /\ Takes(s, role) /\ UNCHANGED outbox
    BY <1>7 DEF Replies, Role
  <2>2. PICK answer \in VoteResponses \cup AppendResponses :
           Send(Mail(s, role).from, answer)
    BY <1>7 DEF Replies
  <2>3. Mail(s, role).from \in Node
    <3>1. queue[s][role] \in Seq(ServerMessage) /\ queue[s][role] # <<>>
      BY <2>1 DEF TypeOK, Takes
    <3>2. Mail(s, role) \in ServerMessage
      BY <3>1 DEF Mail
    <3> QED BY <3>2, TypesOfMessages
  <2>4. answer \in ServerMessage \cup ClientRequests /\ answer \notin RequestsOf(x)
    BY <1>f DEF ServerMessage
  <2>5. asked1 = asked
    BY <1>b, <1>c, <1>e, <2>2, <2>3, <2>4, SendCounts
  <2> QED BY <1>5, <2>1, <2>5
<1>8. ASSUME NEW n \in Node, RootStep(n) PROVE Goal
  <2>1. /\ asked1 + (IF p = n /\ Head(inbox[n]) \in RequestsOf(x) THEN 1 ELSE 0)
              = asked
        /\ seen1 = seen + (IF p = n /\ "Follower" = state[n]
                              /\ Head(inbox[n]) \in RequestsOf(x) THEN 1 ELSE 0)
        /\ heard1 = heard + (IF p = n /\ "Candidate" = state[n]
                                /\ Head(inbox[n]) \in RequestsOf(x) THEN 1 ELSE 0)
    BY <1>a, <1>b, <1>c, <1>f, <1>8, RouteCounts
  <2>2. pending1 = pending
    BY <1>b, <1>c, <1>8, PendingMoves DEF RootStep, RootRoutesServerMessage,
       RootRoutesClientMessage
  <2>3. asked1 + seen1 + heard1 <= asked + seen + heard
    BY <1>e, <2>1
  <2> QED BY <1>d, <1>e, <2>2, <2>3
<1>9. ASSUME NEW n \in Node, Transmit(n) PROVE Goal
  <2>1. PICK parcel \in outbox[n] :
           /\ outbox' = [outbox EXCEPT ![n] = @ \ {parcel}]
           /\ Send(parcel.to, parcel.message)
    BY <1>9 DEF Transmit
  <2>2. parcel.to \in Node /\ parcel.message \in ServerMessage \cup ClientRequests
    <3>1. outbox \in [Node -> SUBSET Parcel]
      BY DEF TypeOK
    <3> QED BY <3>1 DEF Parcel, ServerMessage
  <2>3. seen1 = seen /\ heard1 = heard
    BY <1>b, <1>c, <1>9 DEF Transmit
  <2>4. asked1 = asked + (IF p = parcel.to /\ parcel.message \in RequestsOf(x)
                          THEN 1 ELSE 0)
    BY <1>b, <1>c, <2>1, <2>2, SendCounts
  <2>5. pending = pending1 + (IF parcel.to = p /\ parcel.message \in RequestsOf(x)
                              THEN 1 ELSE 0)
    BY <1>b, <1>c, <2>1, PendingMoves
  <2>6. pending1 + asked1 = pending + asked
    BY <1>e, <2>4, <2>5
  <2> QED BY <1>d, <1>e, <2>3, <2>6
<1>10. ASSUME ClientMail PROVE Goal
  <2>1. PICK to \in Node, r \in Request : Send(to, ClientRequest(r))
    BY <1>10 DEF ClientMail
  <2>2. /\ ClientRequest(r) \in ServerMessage \cup ClientRequests
        /\ ClientRequest(r) \notin RequestsOf(x)
    BY <1>f DEF ClientRequest, ClientRequests
  <2>3. seen1 = seen /\ heard1 = heard
    BY <1>b, <1>c, <1>10 DEF ClientMail
  <2>4. asked1 = asked
    BY <1>b, <1>c, <1>e, <2>1, <2>2, SendCounts
  <2>5. pending1 = pending
    BY <1>b, <1>c, <1>10, PendingMoves DEF ClientMail
  <2> QED BY <1>d, <1>e, <2>3, <2>4, <2>5
<1> HIDE DEF Goal
<1>11. Goal
  BY <1>2, <1>3, <1>4, <1>6, <1>7, <1>8, <1>9, <1>10 DEF Traffic
<1> QED
  BY <1>11 DEF Goal

\* A request whose vote is granted was the only one.
LEMMA GrantAnswers ==
    ASSUME TypeOK, TypeOK', FirstTerm, Traffic,
           NEW C \in [Node -> SUBSET Node], AskedOnce(C),
           NEW p \in Node, NEW x, Grants(p, x)
    PROVE  x \in Node /\ x # p /\ currentTerm[x] = 1 /\ Unanswered(x, p)' = 0
<1>1. x \in Node /\ Due(x, p) > 0 /\ Due(x, p) \in Nat
  BY GrantFacts, DueIsNatural
<1>2. x # p /\ currentTerm[x] = 1
  <2>1. currentTerm[x] \in Nat /\ currentTerm[x] <= 1
    BY <1>1 DEF TypeOK, FirstTerm
  <2> QED BY <1>1, <2>1, NothingBeforeElections
<1>3. PICK answer \in VotesOf(p) : Send(x, answer)
  <2>1. follower[p].term \in Nat /\ candidate[p].term \in Nat
    BY DEF TypeOK
  <2>2. PICK term \in Nat : Send(x, RequestVoteResponse(p, term, TRUE))
    <3>1. CASE FollowerGrantsVote(p) /\ Mail(p, "Follower").from = x
      BY <2>1, <3>1 DEF FollowerGrantsVote
    <3>2. CASE CandidateGrantsVote(p) /\ Mail(p, "Candidate").from = x
      BY <2>1, <3>2 DEF CandidateGrantsVote, CandidateYields
    <3> QED BY <3>1, <3>2 DEF Grants
  <2>3. RequestVoteResponse(p, term, TRUE) \in VotesOf(p)
    BY DEF RequestVoteResponse, VotesOf, VoteResponses
  <2> QED BY <2>2, <2>3
<1>4. Count(inbox'[x], VotesOf(p)) = Count(inbox[x], VotesOf(p)) + 1
  <2>1. answer \in ServerMessage \cup ClientRequests
    BY DEF VotesOf, ServerMessage
  <2>2. Count(inbox'[x], VotesOf(p)) =
           Count(inbox[x], VotesOf(p))
           + (IF x = x /\ answer \in VotesOf(p) THEN 1 ELSE 0)
    BY <1>1, <1>3, <2>1, SendCounts
  <2> QED BY <2>2
<1>5. Count(inbox[x], VotesOf(p)) \in Nat
  BY <1>1, CountsAreNatural
<1>6. ~CandidateCampaigns(x)
  BY <1>4, <1>5 DEF CandidateCampaigns
<1>7. Due(x, p)' <= Due(x, p) /\ Due(x, p)' \in Nat
  <2>1. /\ Due(x, p)' \in Nat
        /\ Due(x, p)' <= Due(x, p)
                         + (IF CandidateCampaigns(x) /\ x # p THEN 1 ELSE 0)
    BY <1>1, DueMoves
  <2> QED BY <1>1, <1>6, <2>1
<1>8. Due(x, p) <= 1
  <2>1. Due(x, p) + (IF p \in C[x] THEN 1 ELSE 0) <= 1
    BY <1>1, <1>2 DEF AskedOnce, Elections
  <2> QED BY <1>1, <2>1
<1>9. /\ Unanswered(x, p)' \in Nat
      /\ Unanswered(x, p)' + Count(inbox'[x], VotesOf(p)) <= Due(x, p)'
  BY <1>1, DueSplitsAfter
<1>10. Unanswered(x, p)' = 0
  <2>1. PICK u, v, w, d : /\ u = Unanswered(x, p)' /\ d = Due(x, p)
                          /\ v = Count(inbox[x], VotesOf(p)) /\ w = Due(x, p)'
    OBVIOUS
  <2>2. /\ u \in Nat /\ v \in Nat /\ w \in Nat /\ d \in Nat
        /\ u + (v + 1) <= w /\ w <= d /\ d <= 1
    BY <1>1, <1>4, <1>5, <1>7, <1>8, <1>9, <2>1
  <2> QED BY <2>1, <2>2
<1> QED
  BY <1>1, <1>2, <1>10

\* What a step does to the vote of a server, and to a leader.
Ballot(n) ==
    /\ \/ votedFor'[n] = votedFor[n] /\ currentTerm'[n] = currentTerm[n]
       \/ Grants(n, votedFor'[n])
       \/ CandidateCampaigns(n) /\ votedFor'[n] = n
       \/ \E m \in AppendsInFlight : votedFor'[n] = m.from
    /\ state[n] = "Leader" =>
          state'[n] = "Leader" \/ FollowerGrantsVote(n)

LEMMA FollowerBallot ==
    ASSUME TypeOK, FirstTerm, MaxTerm = 1, NEW s \in Node, FollowerStep(s),
           NEW n \in Node
    PROVE  Ballot(n)
<1>a. /\ state \in [Node -> Role] /\ currentTerm \in [Node -> Nat]
      /\ DOMAIN votedFor = Node
      /\ "Follower" \in Role
  BY DEF TypeOK, Role
<1>1. CASE FollowerTimesOut(s)
  <2>1. state' = [state EXCEPT ![s] = "Candidate"] /\ UNCHANGED persistentVars
    BY <1>1 DEF FollowerTimesOut, SwitchTo
  <2>2. state[s] # "Leader"
    BY <1>1, <1>a DEF FollowerTimesOut, FirstTerm
  <2> QED BY <1>a, <2>1, <2>2 DEF Ballot, persistentVars
<1>2. CASE \/ FollowerSeesChange(s) \/ FollowerRefusesVote(s)
           \/ FollowerRejectsStaleLeader(s) \/ FollowerDropsVote(s)
           \/ FollowerPanics(s)
  <2>1. state' = state /\ UNCHANGED persistentVars
    BY <1>2, <1>a DEF FollowerSeesChange, FollowerRefusesVote,
       FollowerRejectsStaleLeader, FollowerDropsVote, FollowerPanics, Panic, Keep,
       SwitchTo, roleVars
  <2> QED BY <2>1 DEF Ballot, persistentVars
<1>3. CASE FollowerGrantsVote(s)
  <2>1. /\ state' = [state EXCEPT ![s] = "Follower"]
        /\ currentTerm' = [currentTerm EXCEPT ![s] = Mail(s, "Follower").term]
        /\ votedFor' = [votedFor EXCEPT ![s] = Mail(s, "Follower").from]
    BY <1>3 DEF FollowerGrantsVote, SwitchTo
  <2>2. CASE n = s
    <3>1. votedFor'[s] = Mail(s, "Follower").from
      BY <1>a, <2>1
    <3> QED BY <1>3, <2>2, <3>1 DEF Ballot, Grants
  <2>3. CASE n # s
    BY <1>a, <2>1, <2>3 DEF Ballot
  <2> QED BY <2>2, <2>3
<1>4. CASE FollowerFollowsLeader(s)
  <2>1. Mail(s, "Follower") \in AppendsInFlight
    BY <1>4, <1>a, TakeInFlight, TakeTyped DEF FollowerFollowsLeader,
       FollowerReceives, Receives, AppendsInFlight
  <2>2. /\ state' = [state EXCEPT ![s] = state[s]]
        /\ currentTerm' = [currentTerm EXCEPT ![s] = Mail(s, "Follower").term]
        /\ votedFor' = [votedFor EXCEPT ![s] = Mail(s, "Follower").from]
    BY <1>4 DEF FollowerFollowsLeader, Keep, SwitchTo
  <2>3. state'[n] = state[n]
    BY <1>a, <2>2
  <2>4. CASE n = s
    <3>1. votedFor'[s] = Mail(s, "Follower").from
      BY <1>a, <2>2
    <3> QED BY <2>1, <2>3, <2>4, <3>1 DEF Ballot
  <2>5. CASE n # s
    BY <1>a, <2>2, <2>3, <2>5 DEF Ballot
  <2> QED BY <2>4, <2>5
<1> QED
  BY <1>1, <1>2, <1>3, <1>4 DEF FollowerStep

LEMMA CandidateBallot ==
    ASSUME TypeOK, ElectionOver, NEW s \in Node, CandidateStep(s), NEW n \in Node
    PROVE  Ballot(n)
<1>a. /\ state \in [Node -> Role] /\ currentTerm \in [Node -> Nat]
      /\ DOMAIN votedFor = Node
      /\ "Candidate" \in Role
  BY DEF TypeOK, Role
<1>1. CASE CandidateCampaigns(s)
  <2>1. /\ state' = [state EXCEPT ![s] = state[s]]
        /\ currentTerm' = [currentTerm EXCEPT ![s] = @ + 1]
        /\ votedFor' = [votedFor EXCEPT ![s] = s]
    BY <1>1 DEF CandidateCampaigns, Keep, SwitchTo
  <2>2. state'[n] = state[n]
    BY <1>a, <2>1
  <2>3. CASE n = s
    <3>1. votedFor'[s] = s
      BY <1>a, <2>1
    <3> QED BY <1>1, <2>2, <2>3, <3>1 DEF Ballot
  <2>4. CASE n # s
    BY <1>a, <2>1, <2>2, <2>4 DEF Ballot
  <2> QED BY <2>3, <2>4
<1>2. CASE CandidateStandsDown(s)
  <2>1. state' = [state EXCEPT ![s] = state[s]] /\ UNCHANGED persistentVars
    BY <1>2 DEF CandidateStandsDown, Keep, SwitchTo
  <2>2. state'[n] = state[n]
    BY <1>a, <2>1
  <2> QED BY <2>1, <2>2 DEF Ballot, persistentVars
<1>3. ASSUME NEW type, CandidateReceives(s, type)
      PROVE  /\ state[s] # "Leader"
             /\ Mail(s, "Candidate") \in InFlight
             /\ Mail(s, "Candidate").type = type
  BY <1>3, <1>a, TakeInFlight DEF CandidateReceives, Polling, ElectionOver, Receives
<1>4. CASE CandidateGrantsVote(s) \/ CandidateFollowsLeader(s)
  <2>1. /\ state' = [state EXCEPT ![s] = "Follower"]
        /\ currentTerm' = [currentTerm EXCEPT ![s] = Mail(s, "Candidate").term]
        /\ votedFor' = [votedFor EXCEPT ![s] = Mail(s, "Candidate").from]
    BY <1>4 DEF CandidateGrantsVote, CandidateFollowsLeader, CandidateYields, SwitchTo
  <2>2. state[s] # "Leader"
    BY <1>3, <1>4 DEF CandidateGrantsVote, CandidateFollowsLeader
  <2>3. CASE n = s
    <3>1. votedFor'[s] = Mail(s, "Candidate").from
      BY <1>a, <2>1
    <3>2. CandidateFollowsLeader(s) => Mail(s, "Candidate") \in AppendsInFlight
      BY <1>3 DEF CandidateFollowsLeader, AppendsInFlight
    <3> QED BY <1>4, <2>2, <2>3, <3>1, <3>2 DEF Ballot, Grants
  <2>4. CASE n # s
    BY <1>a, <2>1, <2>4 DEF Ballot
  <2> QED BY <2>3, <2>4
<1>5. CASE \/ CandidateRejectsStaleLeader(s) \/ CandidateRefusesVote(s)
           \/ CandidateCountsVote(s) \/ CandidatePanics(s)
  <2>1. UNCHANGED <<state, currentTerm, votedFor>>
    BY <1>5 DEF CandidateRejectsStaleLeader, CandidateRefusesVote, CandidateRefuses,
       CandidateCountsVote, CandidatePanics, Panic, roleVars, persistentVars
  <2> QED BY <2>1 DEF Ballot
<1>6. CASE CandidateWins(s)
  <2>1. /\ state' = [state EXCEPT ![s] = "Leader"]
        /\ UNCHANGED <<currentTerm, votedFor>>
    BY <1>6 DEF CandidateWins, SwitchTo, persistentVars
  <2> QED BY <1>a, <2>1 DEF Ballot
<1> QED
  BY <1>1, <1>2, <1>4, <1>5, <1>6 DEF CandidateStep

LEMMA StepBallot ==
    ASSUME TypeOK, FirstTerm, MaxTerm = 1, ElectionOver, [Next]_vars, NEW n \in Node
    PROVE  Ballot(n)
<1>1. ASSUME NEW s \in Node, LeaderStep(s) PROVE Ballot(n)
  <2>1. UNCHANGED <<state, currentTerm, votedFor>>
    BY <1>1 DEF LeaderStep, LeaderTakesOffice, LeaderOverlooksChange, LeaderBeats,
       LeaderStandsDown, LeaderRecordsSuccess, LeaderRecordsFailure,
       LeaderDropsVote, LeaderPanics, Panic, Keep, SwitchTo, TypeOK, roleVars,
       persistentVars, actorVars
  <2> QED BY <2>1 DEF Ballot
<1>2. CASE \/ \E s \in Node : RootStep(s) \/ ClientRequestStep(s) \/ Transmit(s)
           \/ \E r \in Request : ClientSends(r)
           \/ UNCHANGED vars
  <2>1. UNCHANGED <<state, currentTerm, votedFor>>
    BY <1>2 DEF RootStep, RootRoutesServerMessage, RootRoutesClientMessage,
       ClientRequestStep, LeaderAnswers, ServerForwards, ServerKnowsNoLeader, Panic,
       Transmit, ClientSends, vars, roleVars, persistentVars, actorVars
  <2> QED BY <2>1 DEF Ballot
<1> QED
  BY <1>1, <1>2, FollowerBallot, CandidateBallot DEF Next, ServerStep, Halted

\* Only leaders have requests for entries on their way.
LeadersOnly == \A m \in AppendsInFlight : state[m.from] = "Leader"

\* A server of the first term has voted, and the server that has its vote leads
\* already or has no request left with it.
VotesAnswered ==
    \A s \in Node :
        /\ currentTerm[s] = 1 => votedFor[s] \in Node
        /\ \A y \in Node : votedFor[s] = y =>
              /\ currentTerm[y] = 1
              /\ state[y] = "Leader" \/ Unanswered(y, s) = 0

\* An answer to a leader reaches no other actor of its server.
AnswersFindLeader ==
    \A x \in Node :
        /\ \A m \in Range(inbox[x]) :
              m.type = "AppendEntriesResponse" => state[x] = "Leader"
        /\ \A role \in Role : \A m \in Range(queue[x][role]) :
              m.type = "AppendEntriesResponse" => role = "Leader"

Steady == LeadersOnly /\ VotesAnswered /\ AnswersFindLeader

LeaderStays(n) == state[n] = "Leader" => state'[n] = "Leader"

LEMMA LeaderIsNotDeposed ==
    ASSUME TypeOK, TypeOK', FirstTerm, Traffic,
           NEW C \in [Node -> SUBSET Node], AskedOnce(C), OneLeader, VotesAnswered,
           NEW n \in Node, Ballot(n)
    PROVE  LeaderStays(n)
<1> SUFFICES ASSUME state[n] = "Leader", FollowerGrantsVote(n)
             PROVE  FALSE
  BY DEF Ballot, LeaderStays
<1>1. PICK y : y = Mail(n, "Follower").from
  OBVIOUS
<1>2. Grants(n, y)
  BY <1>1 DEF Grants
<1>3. y \in Node /\ y # n
  BY <1>2, GrantAnswers
<1>4. votedFor[n] = y
  <2>1. currentTerm[n] = 1
    BY DEF FirstTerm
  <2>2. votedFor[n] \in {NoVote, y}
    BY <1>1 DEF FollowerGrantsVote, WouldVote
  <2> QED BY <2>1, <2>2, NodeAssumption DEF VotesAnswered
<1>5. Unanswered(y, n) # 0
  <2>1. /\ "Follower" \in Role
        /\ queue[n]["Follower"] \in Seq(ServerMessage) /\ queue[n]["Follower"] # <<>>
        /\ Mail(n, "Follower").type = "RequestVote"
    BY DEF FollowerGrantsVote, FollowerReceives, Receives, TypeOK, Role
  <2>2. Mail(n, "Follower") \in RequestsOf(y)
    <3>1. Mail(n, "Follower") \in ServerMessage
      BY <2>1 DEF Mail
    <3> QED BY <1>1, <2>1, <3>1, TypesOfMessages DEF RequestsOf
  <2>3. Count(queue[n]["Follower"], RequestsOf(y)) > 0
        /\ Count(queue[n]["Follower"], RequestsOf(y)) \in Nat
    BY <2>1, <2>2, CountIsNatural DEF Mail
  <2> QED BY <1>3, <2>3, DueSplits
<1>6. state[y] = "Leader"
  BY <1>3, <1>4, <1>5 DEF VotesAnswered
<1> QED
  BY <1>3, <1>6 DEF OneLeader

LEMMA LeadersOnlyKept ==
    ASSUME TypeOK, FirstTerm, MaxTerm = 1, Traffic, LeadersOnly,
           \A n \in Node : LeaderStays(n)
    PROVE  LeadersOnly'
<1> SUFFICES ASSUME NEW m \in InFlight', m.type = "AppendEntries"
             PROVE  state'[m.from] = "Leader"
  BY DEF LeadersOnly, AppendsInFlight
<1>1. CASE m \in InFlight
  <2>1. m.from \in Node
    BY <1>1, AppendsTyped DEF AppendRequests
  <2> QED BY <1>1, <2>1 DEF LeadersOnly, AppendsInFlight, LeaderStays
<1>2. CASE m.from \in Node /\ state[m.from] = "Leader"
  BY <1>2 DEF LeaderStays
<1> QED
  BY <1>1, <1>2, RequestsAfter

LEMMA VotesAnsweredKept ==
    ASSUME TypeOK, TypeOK', FirstTerm, MaxTerm = 1, Traffic,
           NEW C \in [Node -> SUBSET Node], AskedOnce(C), LeadersOnly, VotesAnswered,
           \A n \in Node : Advances(n) /\ Ballot(n) /\ LeaderStays(n)
    PROVE  VotesAnswered'
<1>1. ASSUME NEW y \in Node, currentTerm[y] = 1 PROVE currentTerm'[y] = 1
  BY <1>1 DEF Advances
<1>2. ASSUME NEW m \in AppendsInFlight
      PROVE  m.from \in Node /\ currentTerm[m.from] = 1 /\ state'[m.from] = "Leader"
  <2>1. m.from \in Node /\ state[m.from] = "Leader"
    BY AppendsTyped DEF AppendsInFlight, AppendRequests, LeadersOnly
  <2> QED BY <2>1 DEF LeaderStays, FirstTerm
<1>3. ASSUME NEW s \in Node, CandidateCampaigns(s)
      PROVE  currentTerm'[s] = 1 /\ Unanswered(s, s)' = 0
  <2>1. currentTerm'[s] = 1
    BY <1>3, CampaignsFromNothing
  <2>2. Due(s, s) = 0
    BY NothingBeforeElections
  <2>3. /\ Due(s, s)' \in Nat
        /\ Due(s, s)' <= Due(s, s) + (IF CandidateCampaigns(s) /\ s # s THEN 1 ELSE 0)
    BY DueMoves
  <2>4. Unanswered(s, s)' \in Nat /\ Unanswered(s, s)' <= Due(s, s)'
    BY DueSplitsAfter
  <2> QED BY <2>1, <2>2, <2>3, <2>4
<1>4. ASSUME NEW s \in Node, currentTerm'[s] = 1 PROVE votedFor'[s] \in Node
  <2>1. \/ votedFor'[s] = votedFor[s] /\ currentTerm'[s] = currentTerm[s]
        \/ Grants(s, votedFor'[s])
        \/ votedFor'[s] = s
        \/ \E m \in AppendsInFlight : votedFor'[s] = m.from
    BY DEF Ballot
  <2>2. Grants(s, votedFor'[s]) => votedFor'[s] \in Node
    BY GrantAnswers
  <2> QED BY <1>2, <1>4, <2>1, <2>2 DEF VotesAnswered
<1>5. ASSUME NEW s \in Node, NEW y \in Node, votedFor'[s] = y
      PROVE  /\ currentTerm'[y] = 1
             /\ state'[y] = "Leader" \/ Unanswered(y, s)' = 0
  <2>1. CASE votedFor[s] = y
    <3>1. currentTerm[y] = 1 /\ (state[y] = "Leader" \/ Unanswered(y, s) = 0)
      BY <2>1 DEF VotesAnswered
    <3>2. ~CandidateCampaigns(y)
      BY <3>1, CampaignsFromNothing
    <3>3. Unanswered(y, s)' <= Unanswered(y, s) /\ Unanswered(y, s)' \in Nat
      BY <3>2, UnansweredMoves, DueSplitsAfter
    <3>4. Unanswered(y, s) = 0 => Unanswered(y, s)' = 0
      BY <3>3
    <3> QED BY <1>1, <3>1, <3>4 DEF LeaderStays
  <2>2. CASE Grants(s, y)
    BY <1>1, <2>2, GrantAnswers
  <2>3. CASE CandidateCampaigns(s) /\ y = s
    BY <1>3, <2>3
  <2>4. CASE \E m \in AppendsInFlight : y = m.from
    BY <1>1, <1>2, <2>4
  <2> QED BY <1>5, <2>1, <2>2, <2>3, <2>4 DEF Ballot
<1> QED
  BY <1>4, <1>5 DEF VotesAnswered

LEMMA AnswersFindLeaderKept ==
    ASSUME TypeOK, Traffic, LeadersOnly, AnswersFindLeader,
           \A n \in Node : LeaderStays(n)
    PROVE  AnswersFindLeader'
<1> DEFINE Stray(m) == m.type = "AppendEntriesResponse"
           Mailed(q, x) == \A m \in Range(q) : Stray(m) => state'[x] = "Leader"
           Queued(q, r) == \A m \in Range(q) : Stray(m) => r = "Leader"
           Goal == \A x \in Node : /\ Mailed(inbox'[x], x)
                                   /\ \A r \in Role : Queued(queue'[x][r], r)
<1>a. /\ \A x \in Node : inbox[x] \in Seq(ServerMessage \cup ClientRequests)
      /\ \A x \in Node : \A r \in Role : queue[x][r] \in Seq(ServerMessage)
      /\ DOMAIN inbox = Node /\ DOMAIN queue = Node
      /\ \A x \in Node : DOMAIN queue[x] = Role
      /\ \A x \in Node : state[x] \in Role
  BY DEF TypeOK
<1>b. /\ \A x \in Node : Mailed(inbox[x], x)
      /\ \A x \in Node : \A r \in Role : Queued(queue[x][r], r)
  BY DEF AnswersFindLeader, LeaderStays
<1>c. ASSUME NEW to \in Node, NEW m \in ServerMessage \cup ClientRequests, Send(to, m),
             Stray(m) => state'[to] = "Leader"
      PROVE  \A x \in Node : Mailed(inbox'[x], x)
  <2>1. ASSUME NEW x \in Node PROVE Mailed(inbox'[x], x)
    <3>1. inbox'[x] = IF x = to THEN Append(inbox[x], m) ELSE inbox[x]
      BY <1>a, <1>c DEF Send
    <3>2. Range(Append(inbox[x], m)) \subseteq Range(inbox[x]) \cup {m}
      BY <1>a, RangeOfAppend
    <3> QED BY <1>b, <1>c, <3>1, <3>2
  <2> QED BY <2>1
<1>d. ASSUME NEW s \in Node, NEW role \in Role, Takes(s, role)
      PROVE  \A x \in Node : \A r \in Role : Queued(queue'[x][r], r)
  <2>1. ASSUME NEW x \in Node, NEW r \in Role PROVE Queued(queue'[x][r], r)
    <3>1. queue'[x][r] = IF x = s /\ r = role THEN Tail(queue[x][r]) ELSE queue[x][r]
      BY <1>a, <1>d DEF Takes, Take
    <3>2. x = s /\ r = role => Range(Tail(queue[x][r])) \subseteq Range(queue[x][r])
      BY <1>a, <1>d, RangeOfTail DEF Takes
    <3> QED BY <1>b, <3>1, <3>2
  <2> QED BY <2>1
<1> HIDE DEF Mailed, Queued
<1>1. ASSUME UNCHANGED <<inbox, queue>> PROVE Goal
  BY <1>1, <1>b
<1>2. ASSUME NEW s \in Node, NEW role \in Role, Takes(s, role),
             UNCHANGED <<inbox, outbox>>
      PROVE  Goal
  BY <1>2, <1>b, <1>d
<1>3. ASSUME NEW s \in Node, NEW role \in Role, Replies(s, role) PROVE Goal
  <2>1. PICK answer \in VoteResponses \cup AppendResponses :
           /\ Send(Mail(s, role).from, answer)
           /\ answer \in AppendResponses => Mail(s, role) \in AppendRequests
    BY <1>3 DEF Replies
  <2>2. Takes(s, role) /\ queue[s][role] # <<>>
    BY <1>3 DEF Replies, Takes
  <2>3. Mail(s, role) \in InFlight /\ Mail(s, role) \in ServerMessage
    <3>1. Mail(s, role) \in ServerMessage
      BY <1>a, <2>2 DEF Mail
    <3> QED BY <2>2, <3>1, TakeInFlight DEF Takes
  <2>4. Mail(s, role).from \in Node
    BY <2>3, TypesOfMessages
  <2>5. answer.type = "AppendEntriesResponse" =>
           state'[Mail(s, role).from] = "Leader"
    <3>1. ASSUME answer.type = "AppendEntriesResponse"
          PROVE  state'[Mail(s, role).from] = "Leader"
      <4>1. answer \in AppendResponses
        BY <3>1 DEF VoteResponses
      <4>2. Mail(s, role) \in AppendsInFlight
        BY <2>1, <2>3, <4>1 DEF AppendsInFlight, AppendRequests
      <4> QED BY <2>4, <4>2 DEF LeadersOnly, LeaderStays
    <3> QED BY <3>1
  <2>6. answer \in ServerMessage \cup ClientRequests
    BY DEF ServerMessage
  <2> QED BY <1>c, <1>d, <2>1, <2>2, <2>4, <2>5, <2>6
<1>4. ASSUME NEW n \in Node, RootStep(n) PROVE Goal
  <2>1. inbox[n] # <<>> /\ inbox' = [inbox EXCEPT ![n] = Tail(@)]
    BY <1>4 DEF RootStep, RootRoutesServerMessage, RootRoutesClientMessage
  <2>2. /\ Range(Tail(inbox[n])) \subseteq Range(inbox[n])
        /\ Head(inbox[n]) \in Range(inbox[n])
    BY <1>a, <2>1, RangeOfTail
  <2>3. ASSUME NEW x \in Node PROVE Mailed(inbox'[x], x)
    <3>1. inbox'[x] = IF x = n THEN Tail(inbox[x]) ELSE inbox[x]
      BY <1>a, <2>1
    <3> QED BY <1>b, <2>2, <3>1 DEF Mailed
  <2>4. ASSUME NEW x \in Node, NEW r \in Role PROVE Queued(queue'[x][r], r)
    <3>1. CASE UNCHANGED queue
      BY <1>b, <3>1
    <3>2. CASE RootRoutesServerMessage(n)
      <4>1. PICK m : m = Head(inbox[n])
        OBVIOUS
      <4>2. m \in ServerMessage
        <5>1. m \in ServerMessage \cup ClientRequests
          BY <1>a, <2>1, <4>1
        <5> QED BY <3>2, <4>1, <5>1 DEF RootRoutesServerMessage, FromClient,
               ClientRequests
      <4>3. queue'[x][r] = IF x = n /\ r = state[n] THEN Append(queue[x][r], m)
                           ELSE queue[x][r]
        BY <1>a, <3>2, <4>1 DEF RootRoutesServerMessage
      <4>4. Range(Append(queue[x][r], m)) \subseteq Range(queue[x][r]) \cup {m}
        BY <1>a, <4>2, RangeOfAppend
      <4>5. Stray(m) => state[n] = "Leader"
        BY <2>2, <4>1 DEF AnswersFindLeader
      <4> QED BY <1>b, <4>3, <4>4, <4>5 DEF Queued
    <3> QED BY <1>4, <3>1, <3>2 DEF RootStep, RootRoutesClientMessage
  <2> QED BY <2>3, <2>4
<1>5. ASSUME NEW n \in Node, Transmit(n) PROVE Goal
  <2>1. PICK parcel \in outbox[n] : Send(parcel.to, parcel.message)
    BY <1>5 DEF Transmit
  <2>2. outbox \in [Node -> SUBSET Parcel] /\ UNCHANGED queue
    BY <1>5 DEF TypeOK, Transmit
  <2>3. /\ parcel.to \in Node
        /\ parcel.message \in ServerMessage \cup ClientRequests
        /\ parcel.message.type # "AppendEntriesResponse"
    BY <2>2 DEF Parcel, ServerMessage, VoteRequests, AppendRequests
  <2> QED BY <1>b, <1>c, <2>1, <2>2, <2>3
<1>6. ASSUME ClientMail PROVE Goal
  <2>1. PICK to \in Node, r \in Request : Send(to, ClientRequest(r))
    BY <1>6 DEF ClientMail
  <2>2. /\ ClientRequest(r) \in ServerMessage \cup ClientRequests
        /\ ClientRequest(r).type # "AppendEntriesResponse"
    BY DEF ClientRequest, ClientRequests
  <2>3. UNCHANGED queue
    BY <1>6 DEF ClientMail
  <2> QED BY <1>b, <1>c, <2>1, <2>2, <2>3
<1>7. Goal
  <2> HIDE DEF Goal
  <2>1. ASSUME NEW s \in Node, CandidateCampaigns(s) \/ Beats(s) PROVE Goal
    BY <1>1, <2>1 DEF CandidateCampaigns, Beats
  <2> QED BY <1>1, <1>2, <1>3, <1>4, <1>5, <1>6, <2>1 DEF Traffic, Unposted, Role
<1> QED
  BY <1>7 DEF AnswersFindLeader, Mailed, Queued

LEMMA SteadyKept ==
    ASSUME TypeOK, TypeOK', MaxTerm = 1, FewStand, Traffic, Electorate, Steady,
           \A n \in Node : Advances(n) /\ Ballot(n)
    PROVE  (\A n \in Node : LeaderStays(n)) /\ Steady'
<1>1. PICK C \in [Node -> SUBSET Node] : FirstTerm /\ AskedOnce(C)
  BY DEF Electorate, Elected
<1>2. OneLeader
  BY OneIsElected
<1>3. LeadersOnly /\ VotesAnswered /\ AnswersFindLeader
  BY DEF Steady
<1>4. \A n \in Node : LeaderStays(n)
  BY <1>1, <1>2, <1>3, LeaderIsNotDeposed
<1>5. LeadersOnly'
  BY <1>1, <1>3, <1>4, LeadersOnlyKept
<1>6. VotesAnswered'
  BY <1>1, <1>3, <1>4, VotesAnsweredKept
<1>7. AnswersFindLeader'
  BY <1>3, <1>4, AnswersFindLeaderKept
<1> QED
  BY <1>4, <1>5, <1>6, <1>7 DEF Steady

LEMMA SteadyInitially == ASSUME Init PROVE Steady /\ ElectionOver
<1>1. LeadersOnly
  BY NothingInFlightInitially DEF LeadersOnly, AppendsInFlight
<1>2. VotesAnswered
  BY NodeAssumption DEF Init, VotesAnswered
<1>3. AnswersFindLeader
  BY DEF Init, AnswersFindLeader, Range
<1>4. ElectionOver
  BY DEF Init, ElectionOver
<1> QED
  BY <1>1, <1>2, <1>3, <1>4 DEF Steady

\* Only a follower or a candidate dies of an answer it did not ask for.
LEMMA NobodyStrays ==
    ASSUME TypeOK, AnswersFindLeader, NoStrayAnswer, [Next]_vars
    PROVE  NoStrayAnswer'
<1>1. ASSUME NEW s \in Node, NEW role \in Role, role # "Leader",
             Receives(s, role, "AppendEntriesResponse")
      PROVE  FALSE
  <2>1. queue[s][role] \in Seq(ServerMessage) /\ queue[s][role] # <<>>
    BY <1>1 DEF TypeOK, Receives
  <2>2. Mail(s, role) \in Range(queue[s][role])
    BY <2>1, RangeOfTail DEF Mail
  <2> QED BY <1>1, <2>2 DEF AnswersFindLeader, Receives
<1>2. ASSUME NEW s \in Node, FollowerStep(s) PROVE NoStrayAnswer'
  <2>1. ~FollowerPanics(s)
    BY <1>1 DEF FollowerPanics, FollowerReceives, Role
  <2> QED BY <1>2, <2>1 DEF FollowerStep, FollowerTimesOut, FollowerSeesChange,
         FollowerGrantsVote, FollowerRefusesVote, FollowerFollowsLeader,
         FollowerRejectsStaleLeader, FollowerDropsVote, NoStrayAnswer
<1>3. ASSUME NEW s \in Node, CandidateStep(s) PROVE NoStrayAnswer'
  <2>1. ~CandidatePanics(s)
    BY <1>1 DEF CandidatePanics, CandidateReceives, Role
  <2> QED BY <1>3, <2>1 DEF CandidateStep, CandidateCampaigns, CandidateStandsDown,
         CandidateFollowsLeader, CandidateRejectsStaleLeader, CandidateGrantsVote,
         CandidateYields, CandidateRefusesVote, CandidateRefuses, CandidateWins,
         CandidateCountsVote, NoStrayAnswer
<1>4. ASSUME NEW s \in Node, LeaderStep(s) PROVE NoStrayAnswer'
  BY <1>4 DEF LeaderStep, LeaderTakesOffice, LeaderOverlooksChange, LeaderBeats,
     LeaderStandsDown, LeaderRecordsSuccess, LeaderRecordsFailure, LeaderDropsVote,
     LeaderPanics, Panic, NoStrayAnswer
<1>5. CASE \/ \E s \in Node : RootStep(s) \/ ClientRequestStep(s) \/ Transmit(s)
           \/ \E r \in Request : ClientSends(r)
           \/ UNCHANGED vars
  BY <1>5 DEF RootStep, RootRoutesServerMessage, RootRoutesClientMessage,
     ClientRequestStep, LeaderAnswers, ServerForwards, ServerKnowsNoLeader, Panic,
     Transmit, ClientSends, vars, NoStrayAnswer
<1> QED
  BY <1>2, <1>3, <1>4, <1>5 DEF Next, ServerStep, Halted

\* Everything the first term rests on, and what a step makes of it.
Reign == Electorate /\ ElectionOver /\ Steady

LEMMA ReignKept ==
    ASSUME TypeOK, TypeOK', MaxTerm = 1, FewStand, Reign, [Next]_vars
    PROVE  Reign' /\ \A n \in Node : LeaderStays(n)
<1>1. FirstTerm /\ Electorate /\ ElectionOver /\ Steady
  BY DEF Reign, Electorate, Elected
<1>2. Traffic /\ \A n \in Node : Advances(n) /\ Ballot(n)
  BY <1>1, TrafficOfStep, StepAdvances, StepBallot
<1>3. Electorate' /\ ElectionOver'
  BY <1>1, <1>2, ElectorateKept, ElectionOverKept
<1> QED
  BY <1>1, <1>2, <1>3, SteadyKept DEF Reign

\* In the first term a leader stays in office: its lingering follower actor is
\* asked no more for the vote its server has given, and no other server leads
\* that could ask for one (follower.rs:151, candidate.rs:50-84).
THEOREM FirstTermLeaderStays ==
    ASSUME MaxTerm = 1, FewStand
    PROVE  Spec => [][\A s \in Node :
                          state[s] = "Leader" => state'[s] = "Leader"]_vars
<1> DEFINE A == \A s \in Node : state[s] = "Leader" => state'[s] = "Leader"
           I == Inv /\ Reign
<1>1. Init => I
  BY InvInitially, ElectorateInitially, SteadyInitially DEF Inv, Reign
<1>2. I /\ [Next]_vars => I' /\ A
  <2> SUFFICES ASSUME Inv, Reign, [Next]_vars PROVE Inv' /\ Reign' /\ A
    OBVIOUS
  <2>1. Inv' /\ TypeOK /\ TypeOK'
    BY InvKept DEF Inv
  <2> QED BY <2>1, ReignKept DEF LeaderStays
<1>3. Spec => [][A]_vars
  BY <1>1, <1>2, PTL DEF Spec
<1> QED
  BY <1>3

\* In the first term every answer to a request for entries finds the leader that
\* made it still in office, so that no other actor of its server, for which it is
\* unreachable!(), ever takes it (root.rs:25-34, follower.rs:189,
\* candidate.rs:199).
THEOREM FirstTermNobodyStrays ==
    ASSUME MaxTerm = 1, FewStand
    PROVE  Spec => []NoStrayAnswer
<1> DEFINE I == Inv /\ Reign /\ NoStrayAnswer
<1>1. Init => I
  BY InvInitially, ElectorateInitially, SteadyInitially DEF Inv, Reign, Init,
     NoStrayAnswer
<1>2. I /\ [Next]_vars => I'
  <2> SUFFICES ASSUME Inv, Reign, NoStrayAnswer, [Next]_vars
               PROVE  Inv' /\ Reign' /\ NoStrayAnswer'
    OBVIOUS
  <2>1. Inv' /\ TypeOK /\ TypeOK'
    BY InvKept DEF Inv
  <2>2. Reign' /\ AnswersFindLeader
    BY <2>1, ReignKept DEF Reign, Steady
  <2> QED BY <2>1, <2>2, NobodyStrays
<1>3. I => NoStrayAnswer
  OBVIOUS
<1> QED
  BY <1>1, <1>2, <1>3, PTL DEF Spec
=============================================================================
