------------------------- MODULE LoneCandidateProofs -------------------------
(***************************************************************************)
(* Theorems about a cluster in which one server alone stands for election: *)
(* its election timer is the only one that expires.  However many servers  *)
(* there are, however many elections it abandons and in whatever order     *)
(* messages are handled, every message under way is its request or an      *)
(* answer to it, so nobody else is ever a candidate, no message reaches an *)
(* actor that does not expect it, and it leads for good once it has won.   *)
(***************************************************************************)
EXTENDS MessageProofs

(***************************************************************************)
(* The invariant.                                                          *)
(***************************************************************************)
\* What a lone candidate x sends: requests for votes, and entries once it leads.
Asked(x) ==
    {m \in VoteRequests \cup AppendRequests :
        m.from = x /\ (m.type = "AppendEntries" => state[x] = "Leader")}

\* What it is sent: votes, and acknowledgements once it leads.
Answered(x) ==
    {m \in VoteResponses \cup AppendResponses :
        m.from \in Peers(x)
        /\ (m.type = "AppendEntriesResponse" => state[x] = "Leader")}

VoteAnswers(x) == {m \in VoteResponses : m.from \in Peers(x)}

\* A server that does not stand for election follows x or no one, has nothing
\* to send of its own accord and is sent only requests of x.
Docile(x, p) ==
    /\ state[p] = "Follower"
    /\ outbox[p] = {}
    /\ votedFor[p] \in {NoVote, x}
    /\ inbox[p] \in Seq(Asked(x) \cup ClientRequests)
    /\ queue[p]["Follower"] \in Seq(Asked(x))
    /\ queue[p]["Candidate"] = <<>>
    /\ queue[p]["Leader"] = <<>>

\* The candidate itself asks its peers and is sent their answers, each in a
\* queue whose actor expects it; it never follows once it has stood.
Lonely(x) ==
    /\ \A parcel \in outbox[x] : parcel.to \in Peers(x) /\ parcel.message \in Asked(x)
    /\ inbox[x] \in Seq(Answered(x) \cup ClientRequests)
    /\ queue[x]["Follower"] \in Seq(VoteAnswers(x))
    /\ queue[x]["Candidate"] \in Seq(VoteAnswers(x))
    /\ queue[x]["Leader"] \in Seq(Answered(x))
    /\ follower[x].watching => state[x] = "Follower"
    /\ candidate[x].campaigning => state[x] = "Candidate"
    /\ Sending(x, "RequestVote") => candidate[x].campaigning
    /\ panicked \in {"no", "no leader known"}

Alone(x) == Lonely(x) /\ \A p \in Peers(x) : Docile(x, p)

-----------------------------------------------------------------------------
(***************************************************************************)
(* What a step does to the roles and what it does to the messages.         *)
(***************************************************************************)
\* The lone candidate begins an election.
Asks(x) ==
    /\ state[x] = "Candidate"
    /\ ~Sending(x, "RequestVote")
    /\ currentTerm[x] < MaxTerm
    /\ currentTerm'[x] = currentTerm[x] + 1
    /\ candidate'[x].campaigning
    /\ outbox' = [outbox EXCEPT ![x] = @ \cup
           {[to |-> p, message |-> RequestVote(x, currentTerm[x] + 1)] :
                p \in Peers(x)}]
    /\ UNCHANGED <<inbox, queue>>

\* The peers follow, the candidate goes from follower to candidate to leader.
RolesAdvance(x) ==
    /\ \A p \in Peers(x) :
          state'[p] = "Follower" /\ votedFor'[p] \in {votedFor[p], x}
    /\ state[x] = "Leader" => state'[x] = "Leader"
    /\ state'[x] = "Follower" => state[x] = "Follower"
    /\ follower'[x].watching => state'[x] = "Follower"
    /\ candidate'[x].campaigning => state'[x] = "Candidate"
    /\ Sending(x, "RequestVote") => candidate'[x].campaigning
    /\ currentTerm'[x] = currentTerm[x] \/ Asks(x)
    /\ \/ panicked' = panicked
       \/ /\ panicked' = "no leader known"
          /\ \E s \in Node : ServerKnowsNoLeader(s)

Unposted == UNCHANGED <<inbox, queue, outbox>>

\* A peer answers the request at the head of its queue.
PeerAnswers(x, p) ==
    LET m == Mail(p, "Follower") IN
    /\ queue[p]["Follower"] # <<>>
    /\ Take(p, "Follower")
    /\ \E answer \in VoteResponses \cup AppendResponses :
          /\ answer.from = p
          /\ answer.type = "RequestVoteResponse" <=> m.type = "RequestVote"
          /\ Send(x, answer)
    /\ UNCHANGED outbox

\* The candidate takes an answer from one of its queues.
TakesAnswer(x) ==
    /\ \E role \in Role : queue[x][role] # <<>> /\ Take(x, role)
    /\ UNCHANGED <<inbox, outbox>>

\* The leader begins a round of heartbeats.
Beats(x) ==
    /\ state[x] = "Leader"
    /\ \E next : Heartbeat(x, next)
    /\ UNCHANGED <<inbox, queue>>

\* A request of a client is put in a mailbox.
ClientMail ==
    /\ \E n \in Node, r \in Request : Send(n, ClientRequest(r))
    /\ UNCHANGED <<queue, outbox>>

Moves(x) ==
    \/ Unposted
    \/ \E p \in Peers(x) : PeerAnswers(x, p)
    \/ TakesAnswer(x)
    \/ Asks(x)
    \/ Beats(x)
    \/ \E n \in Node : RootStep(n)
    \/ Transmit(x)
    \/ ClientMail

-----------------------------------------------------------------------------
\* The messages in the queue of a peer, and of the candidate.
LEMMA PeersMail ==
    ASSUME NEW x \in Node, Alone(x), NEW p \in Peers(x),
           queue[p]["Follower"] # <<>>
    PROVE  /\ Mail(p, "Follower") \in Asked(x)
           /\ Mail(p, "Follower").from = x
           /\ Mail(p, "Follower").type \in {"RequestVote", "AppendEntries"}
<1>1. queue[p]["Follower"] \in Seq(Asked(x))
  BY DEF Alone, Docile
<1>2. Mail(p, "Follower") \in Asked(x)
  BY <1>1 DEF Mail
<1> QED
  BY <1>2 DEF Asked, VoteRequests, AppendRequests

LEMMA LoneMail ==
    ASSUME NEW x \in Node, Alone(x), NEW role \in {"Follower", "Candidate", "Leader"},
           queue[x][role] # <<>>
    PROVE  /\ Mail(x, role).type \in {"RequestVoteResponse", "AppendEntriesResponse"}
           /\ role # "Leader" => Mail(x, role).type = "RequestVoteResponse"
<1>1. queue[x][role] \in Seq(Answered(x))
      /\ (role # "Leader" => queue[x][role] \in Seq(VoteAnswers(x)))
  <2>1. CASE role = "Leader"
    BY <2>1 DEF Alone, Lonely
  <2>2. CASE role # "Leader"
    <3>1. queue[x][role] \in Seq(VoteAnswers(x))
      BY <2>2 DEF Alone, Lonely
    <3>2. VoteAnswers(x) \subseteq Answered(x)
      BY DEF VoteAnswers, Answered, VoteResponses
    <3> QED BY <3>1, <3>2
  <2> QED BY <2>1, <2>2
<1>2. Mail(x, role) \in Answered(x)
      /\ (role # "Leader" => Mail(x, role) \in VoteAnswers(x))
  BY <1>1 DEF Mail
<1> QED
  BY <1>2 DEF Answered, VoteAnswers, VoteResponses, AppendResponses

\* A step of one server's follower actor changes no other server's role, term or
\* vote, and none of the other actors.
LEMMA FollowerActsAtHome ==
    ASSUME TypeOK, NEW s \in Node, FollowerStep(s)
    PROVE  /\ \A n \in Node \ {s} :
                 /\ state'[n] = state[n] /\ votedFor'[n] = votedFor[n]
                 /\ currentTerm'[n] = currentTerm[n] /\ follower'[n] = follower[n]
           /\ UNCHANGED <<candidate, outbox>>
<1>1. \A n \in Node \ {s} : state'[n] = state[n]
  BY DEF FollowerStep, FollowerTimesOut, FollowerSeesChange, FollowerGrantsVote,
     FollowerRefusesVote, FollowerFollowsLeader, FollowerRejectsStaleLeader,
     FollowerDropsVote, FollowerPanics, Panic, roleVars, Keep, SwitchTo, TypeOK
<1>2. \A n \in Node \ {s} :
         votedFor'[n] = votedFor[n] /\ currentTerm'[n] = currentTerm[n]
  BY DEF FollowerStep, FollowerTimesOut, FollowerSeesChange, FollowerGrantsVote,
     FollowerRefusesVote, FollowerFollowsLeader, FollowerRejectsStaleLeader,
     FollowerDropsVote, FollowerPanics, Panic, persistentVars, TypeOK
<1>3. \A n \in Node \ {s} : follower'[n] = follower[n]
  BY DEF FollowerStep, FollowerTimesOut, FollowerSeesChange, FollowerGrantsVote,
     FollowerRefusesVote, FollowerFollowsLeader, FollowerRejectsStaleLeader,
     FollowerDropsVote, FollowerPanics, Panic, actorVars, FollowerLoops, TypeOK
<1>4. UNCHANGED <<candidate, outbox>>
  BY DEF FollowerStep, FollowerTimesOut, FollowerSeesChange, FollowerGrantsVote,
     FollowerRefusesVote, FollowerFollowsLeader, FollowerRejectsStaleLeader,
     FollowerDropsVote, FollowerPanics, Panic, actorVars, channelVars
<1> QED
  BY <1>1, <1>2, <1>3, <1>4

\* The follower actor of a peer (follower.rs): it never expires, and answers x.
LEMMA PeerFollows ==
    ASSUME Inv, NEW x \in Node, Impatient = {x}, Alone(x),
           NEW p \in Peers(x), FollowerStep(p)
    PROVE  RolesAdvance(x) /\ Moves(x)
<1> DEFINE m == Mail(p, "Follower")
<1>a. TypeOK /\ p \in Node /\ p # x /\ state[p] = "Follower"
  BY DEF Inv, Peers, Alone, Docile
<1>1. /\ \A n \in Node \ {p} :
            /\ state'[n] = state[n] /\ votedFor'[n] = votedFor[n]
            /\ currentTerm'[n] = currentTerm[n] /\ follower'[n] = follower[n]
      /\ UNCHANGED <<candidate, outbox>>
  BY <1>a, FollowerActsAtHome
<1>2. ASSUME state'[p] = "Follower", votedFor'[p] \in {votedFor[p], x},
             panicked' = panicked
      PROVE  RolesAdvance(x)
  BY <1>1, <1>2, <1>a DEF RolesAdvance, Alone, Lonely, Docile, Peers
<1>3. ASSUME Keep(p, {"Follower"}) \/ SwitchTo(p, "Follower", {"Follower"})
      PROVE  state'[p] = "Follower"
  BY <1>3, <1>a DEF Keep, SwitchTo, TypeOK
<1>4. ASSUME NEW type, FollowerReceives(p, type)
      PROVE  /\ m.from = x /\ m.type = type /\ type \in {"RequestVote", "AppendEntries"}
             /\ queue[p]["Follower"] # <<>> /\ Take(p, "Follower")
  BY <1>4, PeersMail DEF FollowerReceives, Receives
<1>5. follower[p].term \in Nat
  BY <1>a DEF TypeOK
<1>6. ASSUME NEW ok \in BOOLEAN, FollowerReceives(p, "RequestVote"),
             Send(m.from, RequestVoteResponse(p, follower[p].term, ok))
      PROVE  Moves(x)
  <2> DEFINE answer == RequestVoteResponse(p, follower[p].term, ok)
  <2>1. /\ answer \in VoteResponses /\ answer.from = p
        /\ answer.type = "RequestVoteResponse"
    BY <1>5, <1>6, <1>a DEF RequestVoteResponse, VoteResponses
  <2>2. Send(x, answer) /\ m.type = "RequestVote"
        /\ queue[p]["Follower"] # <<>> /\ Take(p, "Follower")
    BY <1>4, <1>6
  <2> HIDE DEF answer
  <2>3. UNCHANGED outbox
    BY <1>1
  <2>4. PeerAnswers(x, p)
    BY ONLY <2>1, <2>2, <2>3 DEF PeerAnswers
  <2> QED BY <2>4 DEF Moves
<1>7. ASSUME NEW ok \in BOOLEAN, FollowerReceives(p, "AppendEntries"),
             Send(m.from, AppendEntriesResponse(p, follower[p].term, ok))
      PROVE  Moves(x)
  <2> DEFINE answer == AppendEntriesResponse(p, follower[p].term, ok)
  <2>1. /\ answer \in AppendResponses /\ answer.from = p
        /\ answer.type = "AppendEntriesResponse"
    BY <1>5, <1>7, <1>a DEF AppendEntriesResponse, AppendResponses
  <2>2. Send(x, answer) /\ m.type = "AppendEntries"
        /\ queue[p]["Follower"] # <<>> /\ Take(p, "Follower")
    BY <1>4, <1>7
  <2> HIDE DEF answer
  <2>3. UNCHANGED outbox
    BY <1>1
  <2>4. PeerAnswers(x, p)
    BY ONLY <2>1, <2>2, <2>3 DEF PeerAnswers
  <2> QED BY <2>4 DEF Moves
<1>8. CASE FollowerTimesOut(p)
  BY <1>8, <1>a DEF FollowerTimesOut
<1>9. CASE FollowerSeesChange(p)
  <2>1. votedFor' = votedFor /\ panicked' = panicked /\ Unposted
    BY <1>9 DEF FollowerSeesChange, persistentVars, channelVars, Unposted
  <2> QED BY <1>2, <1>3, <1>9, <2>1 DEF FollowerSeesChange, Moves
<1>10. CASE FollowerGrantsVote(p)
  <2>1. votedFor'[p] = x /\ panicked' = panicked /\ Moves(x)
    BY <1>4, <1>6, <1>10, <1>a DEF FollowerGrantsVote, TypeOK
  <2> QED BY <1>2, <1>3, <1>10, <2>1 DEF FollowerGrantsVote
<1>11. CASE FollowerRefusesVote(p)
  <2>1. votedFor' = votedFor /\ panicked' = panicked /\ Moves(x)
    BY <1>6, <1>11 DEF FollowerRefusesVote, persistentVars
  <2> QED BY <1>2, <1>3, <1>11, <2>1 DEF FollowerRefusesVote
<1>12. CASE FollowerFollowsLeader(p)
  <2>1. Consistent(p, m) \in BOOLEAN
    BY DEF Consistent, Holds
  <2>2. votedFor'[p] = x /\ panicked' = panicked /\ Moves(x)
    BY <1>4, <1>7, <1>12, <1>a, <2>1 DEF FollowerFollowsLeader, TypeOK
  <2> QED BY <1>2, <1>3, <1>12, <2>2 DEF FollowerFollowsLeader
<1>13. CASE FollowerRejectsStaleLeader(p)
  <2>1. votedFor' = votedFor /\ panicked' = panicked /\ Moves(x)
    BY <1>7, <1>13 DEF FollowerRejectsStaleLeader, persistentVars
  <2> QED BY <1>2, <1>3, <1>13, <2>1 DEF FollowerRejectsStaleLeader
<1>14. CASE FollowerDropsVote(p) \/ FollowerPanics(p)
  BY <1>4, <1>14 DEF FollowerDropsVote, FollowerPanics
<1> QED
  BY <1>8, <1>9, <1>10, <1>11, <1>12, <1>13, <1>14 DEF FollowerStep

\* Its own follower actor (follower.rs): it hands over to the candidate actor and
\* drops votes that come too early; nobody asks it for anything.
LEMMA LoneFollower ==
    ASSUME Inv, NEW x \in Node, Alone(x), FollowerStep(x)
    PROVE  RolesAdvance(x) /\ Moves(x)
<1>a. TypeOK /\ \A p \in Peers(x) : p \in Node /\ p # x
  BY DEF Inv, Peers
<1>1. /\ \A n \in Node \ {x} :
            /\ state'[n] = state[n] /\ votedFor'[n] = votedFor[n]
            /\ currentTerm'[n] = currentTerm[n] /\ follower'[n] = follower[n]
      /\ UNCHANGED <<candidate, outbox>>
  BY <1>a, FollowerActsAtHome
<1>2. ASSUME NEW type, FollowerReceives(x, type)
      PROVE  /\ type = "RequestVoteResponse"
             /\ queue[x]["Follower"] # <<>> /\ Take(x, "Follower")
  BY <1>2, LoneMail DEF FollowerReceives, Receives
<1>3. ASSUME FollowerLoops(x)
      PROVE  follower'[x].watching => state'[x] = "Follower"
  BY <1>3, <1>a DEF FollowerLoops, IdleFollower, TypeOK
<1>4. CASE FollowerTimesOut(x)
  <2>1. /\ state[x] = "Follower" /\ state'[x] = "Candidate"
        /\ currentTerm' = currentTerm /\ panicked' = panicked /\ Unposted
    BY <1>4, <1>a DEF FollowerTimesOut, SwitchTo, TypeOK, persistentVars, channelVars,
       Unposted, Alone, Lonely
  <2>2. FollowerLoops(x)
    BY <1>4 DEF FollowerTimesOut
  <2>3. ~candidate[x].campaigning
    BY <2>1 DEF Alone, Lonely
  <2> QED
    BY <1>1, <1>3, <1>a, <2>1, <2>2, <2>3 DEF RolesAdvance, Moves, Alone, Lonely, Docile
<1>5. ASSUME Keep(x, {"Follower"}), FollowerLoops(x), UNCHANGED persistentVars,
             panicked' = panicked
      PROVE  RolesAdvance(x)
  <2>1. state'[x] = state[x] /\ currentTerm' = currentTerm
    BY <1>5, <1>a DEF Keep, SwitchTo, TypeOK, persistentVars
  <2>2. /\ \A p \in Peers(x) : state[p] = "Follower"
        /\ candidate[x].campaigning => state[x] = "Candidate"
        /\ Sending(x, "RequestVote") => candidate[x].campaigning
        /\ panicked \in {"no", "no leader known"}
    BY DEF Alone, Lonely, Docile
  <2> QED
    BY <1>1, <1>3, <1>5, <1>a, <2>1, <2>2 DEF RolesAdvance
<1>6. CASE FollowerSeesChange(x)
  <2>1. Unposted /\ panicked' = panicked
    BY <1>6 DEF FollowerSeesChange, channelVars, Unposted
  <2> QED BY <1>5, <1>6, <2>1 DEF FollowerSeesChange, Moves
<1>7. CASE FollowerDropsVote(x)
  <2>1. TakesAnswer(x) /\ panicked' = panicked
    BY <1>2, <1>7 DEF FollowerDropsVote, TakesAnswer, Role
  <2> QED BY <1>5, <1>7, <2>1 DEF FollowerDropsVote, Moves
<1>8. CASE ~(FollowerTimesOut(x) \/ FollowerSeesChange(x) \/ FollowerDropsVote(x))
  <2>1. /\ ~FollowerReceives(x, "RequestVote") /\ ~FollowerReceives(x, "AppendEntries")
        /\ ~FollowerReceives(x, "AppendEntriesResponse")
    BY <1>2
  <2> QED BY <2>1, <1>8 DEF FollowerStep, FollowerGrantsVote, FollowerRefusesVote,
     FollowerFollowsLeader, FollowerRejectsStaleLeader, FollowerPanics
<1> QED
  BY <1>4, <1>6, <1>7, <1>8

\* The candidate actor of a peer (candidate.rs) has no election to fight and no
\* message to take: at most it learns that it need not stand.
LEMMA PeerNeverStands ==
    ASSUME Inv, NEW x \in Node, Alone(x), NEW p \in Peers(x), CandidateStep(p)
    PROVE  RolesAdvance(x) /\ Moves(x)
<1>a. /\ TypeOK /\ p \in Node /\ p # x
      /\ state[p] = "Follower" /\ queue[p]["Candidate"] = <<>>
  BY DEF Inv, Peers, Alone, Docile
<1>1. CandidateStandsDown(p)
  BY <1>a DEF CandidateStep, CandidateCampaigns, CandidateFollowsLeader,
     CandidateRejectsStaleLeader, CandidateGrantsVote, CandidateRefusesVote,
     CandidateWins, CandidateCountsVote, CandidatePanics, CandidateReceives, Receives
<1>2. /\ state' = state /\ candidate'[x] = candidate[x]
      /\ UNCHANGED <<currentTerm, votedFor, follower, panicked>> /\ Unposted
  BY <1>1, <1>a DEF CandidateStandsDown, Keep, SwitchTo, TypeOK, persistentVars,
     channelVars, Unposted
<1> QED
  BY <1>2 DEF RolesAdvance, Moves, Alone, Lonely, Docile

\* Its own candidate actor (candidate.rs): it asks, counts and wins; no one asks
\* anything of it, so it never yields.
LEMMA LoneCandidate ==
    ASSUME Inv, NEW x \in Node, Alone(x), CandidateStep(x)
    PROVE  RolesAdvance(x) /\ Moves(x)
<1>a. /\ TypeOK
      /\ \A p \in Peers(x) : p \in Node /\ p # x /\ state[p] = "Follower"
      /\ follower[x].watching => state[x] = "Follower"
      /\ candidate[x].campaigning => state[x] = "Candidate"
      /\ Sending(x, "RequestVote") => candidate[x].campaigning
      /\ panicked \in {"no", "no leader known"}
  BY DEF Inv, Peers, Alone, Lonely, Docile
<1>1. ASSUME NEW type, CandidateReceives(x, type)
      PROVE  /\ type = "RequestVoteResponse" /\ Polling(x)
             /\ queue[x]["Candidate"] # <<>> /\ Take(x, "Candidate")
  BY <1>1, LoneMail DEF CandidateReceives, Receives
<1>2. CASE CandidateCampaigns(x)
  <2>1. ~Sending(x, "RequestVote")
    <3>1. candidate[x].campaigning => Polling(x)
      BY <1>2 DEF CandidateCampaigns, CandidateLoops
    <3>2. Sending(x, "RequestVote") => candidate[x].campaigning
      BY DEF Alone, Lonely
    <3> QED BY <3>1, <3>2 DEF Polling
  <2>2. /\ state' = state /\ state[x] = "Candidate" /\ currentTerm[x] < MaxTerm
        /\ currentTerm'[x] = currentTerm[x] + 1
        /\ \A p \in Peers(x) : votedFor'[p] = votedFor[p]
        /\ candidate'[x].campaigning
        /\ UNCHANGED <<follower, panicked, inbox, queue>>
        /\ outbox' = [outbox EXCEPT ![x] = @ \cup
              {[to |-> p, message |-> RequestVote(x, currentTerm[x] + 1)] :
                  p \in Peers(x)}]
    BY <1>2, <1>a DEF CandidateCampaigns, Keep, SwitchTo, TypeOK
  <2>3. Asks(x)
    BY <2>1, <2>2 DEF Asks
  <2> QED BY <2>2, <2>3, <1>a DEF RolesAdvance, Moves
<1>3. CASE CandidateStandsDown(x)
  <2>1. /\ state' = state /\ ~candidate'[x].campaigning
        /\ UNCHANGED <<currentTerm, votedFor, follower, panicked>> /\ Unposted
        /\ candidate[x].campaigning => ~Sending(x, "RequestVote")
    BY <1>3, <1>a DEF CandidateStandsDown, Keep, SwitchTo, TypeOK, persistentVars,
       channelVars, Unposted, IdleCandidate, CandidateLoops, Polling
  <2> QED BY <2>1, <1>a DEF RolesAdvance, Moves
<1>4. CASE CandidateWins(x)
  <2>1. /\ TakesAnswer(x) /\ Polling(x)
    BY <1>1, <1>4 DEF CandidateWins, TakesAnswer, Role
  <2>2. /\ state'[x] = "Leader" /\ \A p \in Peers(x) : state'[p] = state[p]
        /\ ~candidate'[x].campaigning
        /\ UNCHANGED <<currentTerm, votedFor, follower, panicked>>
    BY <1>4, <1>a DEF CandidateWins, SwitchTo, TypeOK, persistentVars, IdleCandidate
  <2> QED BY <2>1, <2>2, <1>a DEF RolesAdvance, Moves, Polling
<1>5. CASE CandidateCountsVote(x)
  <2>1. TakesAnswer(x)
    BY <1>1, <1>5 DEF CandidateCountsVote, TakesAnswer, Role
  <2>2. PICK v : candidate' = [candidate EXCEPT ![x].votes = v]
    BY <1>5 DEF CandidateCountsVote
  <2>3. candidate'[x].campaigning = candidate[x].campaigning
    BY <2>2, <1>a DEF TypeOK
  <2>4. UNCHANGED <<state, currentTerm, votedFor, follower, panicked>>
    BY <1>5 DEF CandidateCountsVote, roleVars, persistentVars
  <2> QED BY <2>1, <2>3, <2>4, <1>a DEF RolesAdvance, Moves
<1>6. CASE ~(\/ CandidateCampaigns(x) \/ CandidateStandsDown(x) \/ CandidateWins(x)
             \/ CandidateCountsVote(x))
  <2>1. /\ ~CandidateReceives(x, "RequestVote")
        /\ ~CandidateReceives(x, "AppendEntries")
        /\ ~CandidateReceives(x, "AppendEntriesResponse")
    BY <1>1
  <2> QED
    BY <1>6, <2>1 DEF CandidateStep, CandidateFollowsLeader,
       CandidateRejectsStaleLeader, CandidateGrantsVote, CandidateRefusesVote,
       CandidatePanics
<1> QED
  BY <1>2, <1>3, <1>4, <1>5, <1>6

\* The leader actors (leader.rs): only the lone candidate's has an office, and
\* no rival asks anything of it.
LEMMA LoneLeader ==
    ASSUME Inv, NEW x \in Node, Alone(x), NEW s \in Node, LeaderStep(s)
    PROVE  RolesAdvance(x) /\ Moves(x)
<1>a. /\ TypeOK
      /\ \A p \in Peers(x) : p \in Node /\ p # x /\ state[p] = "Follower"
      /\ \A p \in Peers(x) : queue[p]["Leader"] = <<>>
      /\ follower[x].watching => state[x] = "Follower"
      /\ candidate[x].campaigning => state[x] = "Candidate"
      /\ Sending(x, "RequestVote") => candidate[x].campaigning
      /\ panicked \in {"no", "no leader known"}
  BY DEF Inv, Peers, Alone, Lonely, Docile
<1>b. s = x \/ s \in Peers(x)
  BY DEF Peers
<1>1. ASSUME UNCHANGED <<state, currentTerm, votedFor, follower, candidate, panicked>>
      PROVE  RolesAdvance(x)
  BY <1>1, <1>a DEF RolesAdvance
<1>2. ASSUME NEW type, LeaderReceives(s, type)
      PROVE  /\ s = x /\ type \in {"RequestVoteResponse", "AppendEntriesResponse"}
             /\ queue[x]["Leader"] # <<>> /\ Take(x, "Leader")
  BY <1>2, <1>a, <1>b, LoneMail DEF LeaderReceives, Receives
<1>3. CASE LeaderTakesOffice(s) \/ LeaderBeats(s)
  <2>1. /\ UNCHANGED <<state, currentTerm, votedFor, follower, candidate, panicked>>
        /\ state[s] = "Leader" /\ UNCHANGED <<inbox, queue>>
        /\ \E next : Heartbeat(s, next)
    BY <1>3, <1>a DEF LeaderTakesOffice, LeaderBeats, Keep, SwitchTo, TypeOK,
       persistentVars, actorVars
  <2>2. s = x
    BY <2>1, <1>a, <1>b
  <2>3. Beats(x)
    BY <2>1, <2>2 DEF Beats
  <2> QED BY <1>1, <2>1, <2>3 DEF Moves
<1>4. CASE LeaderOverlooksChange(s) \/ LeaderStandsDown(s)
  <2>1. /\ UNCHANGED <<state, currentTerm, votedFor, follower, candidate, panicked>>
        /\ Unposted
    BY <1>4, <1>a DEF LeaderOverlooksChange, LeaderStandsDown, Keep, SwitchTo, TypeOK,
       persistentVars, channelVars, actorVars, Unposted
  <2> QED BY <1>1, <2>1 DEF Moves
<1>5. CASE LeaderRecordsSuccess(s) \/ LeaderRecordsFailure(s) \/ LeaderDropsVote(s)
  <2>1. TakesAnswer(x)
    BY <1>2, <1>5 DEF LeaderRecordsSuccess, LeaderRecordsFailure, LeaderDropsVote,
       TakesAnswer, Role
  <2>2. UNCHANGED <<state, currentTerm, votedFor, follower, candidate, panicked>>
    BY <1>5 DEF LeaderRecordsSuccess, LeaderRecordsFailure, LeaderDropsVote, roleVars,
       persistentVars, actorVars
  <2> QED BY <1>1, <2>1, <2>2 DEF Moves
<1>6. CASE LeaderPanics(s)
  <2>1. ~LeaderReceives(s, "RequestVote") /\ ~LeaderReceives(s, "AppendEntries")
    BY <1>2
  <2> QED BY <1>6, <2>1 DEF LeaderPanics
<1> QED
  BY <1>3, <1>4, <1>5, <1>6 DEF LeaderStep

\* What moves no role: root actors, clients and the tasks that send requests.
LEMMA RolesUntouched ==
    ASSUME NEW x \in Node, Alone(x),
           UNCHANGED <<state, currentTerm, votedFor, follower, candidate>>,
           \/ panicked' = panicked
           \/ /\ panicked' = "no leader known"
              /\ \E s \in Node : ServerKnowsNoLeader(s)
    PROVE  RolesAdvance(x)
  BY DEF RolesAdvance, Alone, Lonely, Docile

LEMMA OthersMove ==
    ASSUME Inv, NEW x \in Node, Alone(x),
           \/ \E s \in Node : \/ RootStep(s) \/ ClientRequestStep(s) \/ Transmit(s)
           \/ \E r \in Request : ClientSends(r)
           \/ UNCHANGED vars
    PROVE  RolesAdvance(x) /\ Moves(x)
<1>a. TypeOK /\ \A p \in Peers(x) : p \in Node /\ outbox[p] = {}
  BY DEF Inv, Peers, Alone, Docile
<1>1. RolesAdvance(x)
  <2>1. /\ UNCHANGED <<state, currentTerm, votedFor, follower, candidate>>
        /\ \/ panicked' = panicked
           \/ /\ panicked' = "no leader known"
              /\ \E s \in Node : ServerKnowsNoLeader(s)
    BY DEF RootStep, RootRoutesServerMessage, RootRoutesClientMessage,
       ClientRequestStep, LeaderAnswers, ServerForwards, ServerKnowsNoLeader, Panic,
       Transmit, ClientSends, vars, roleVars, persistentVars, actorVars
  <2> QED BY <2>1, RolesUntouched
<1>2. ASSUME NEW s \in Node, ClientRequestStep(s) PROVE Moves(x)
  <2>1. CASE LeaderAnswers(s) \/ ServerKnowsNoLeader(s)
    BY <2>1 DEF LeaderAnswers, ServerKnowsNoLeader, Panic, Moves, Unposted
  <2>2. CASE ServerForwards(s)
    <3>1. clientQueue[s] \in Seq(Request) /\ clientQueue[s] # <<>>
      BY <2>2, <1>a DEF ServerForwards, TakesRequest, TypeOK
    <3>2. Head(clientQueue[s]) \in Request
      BY <3>1
    <3>3. ClientMail
      BY <2>2, <3>2 DEF ServerForwards, ClientMail, Peers
    <3> QED BY <3>3 DEF Moves
  <2> QED BY <1>2, <2>1, <2>2 DEF ClientRequestStep
<1>3. ASSUME NEW s \in Node, Transmit(s) PROVE Moves(x)
  BY <1>3, <1>a DEF Transmit, Moves, Peers
<1>4. ASSUME NEW r \in Request, ClientSends(r) PROVE Moves(x)
  BY <1>4 DEF ClientSends, Moves, ClientMail
<1>5. CASE UNCHANGED vars
  BY <1>1, <1>5 DEF vars, channelVars, Moves, Unposted
<1>6. ASSUME NEW s \in Node, RootStep(s) PROVE Moves(x)
  BY <1>6 DEF Moves
<1> QED
  BY <1>1, <1>2, <1>3, <1>4, <1>5, <1>6

LEMMA MovesOfAlone ==
    ASSUME Inv, NEW x \in Node, Impatient = {x}, Alone(x), [Next]_vars
    PROVE  RolesAdvance(x) /\ Moves(x)
<1>1. ASSUME NEW s \in Node, ServerStep(s) PROVE RolesAdvance(x) /\ Moves(x)
  <2>1. s = x \/ s \in Peers(x)
    BY DEF Peers
  <2> QED
    BY <1>1, <2>1, PeerFollows, LoneFollower, PeerNeverStands, LoneCandidate,
       LoneLeader, OthersMove DEF ServerStep
<1>2. CASE (\E r \in Request : ClientSends(r)) \/ UNCHANGED vars
  BY <1>2, OthersMove
<1> QED
  BY <1>1, <1>2 DEF Next, Halted

-----------------------------------------------------------------------------
(***************************************************************************)
(* The invariant is kept.                                                  *)
(***************************************************************************)
LEMMA SeqWidens ==
    ASSUME NEW S, NEW T, S \subseteq T
    PROVE  Seq(S) \subseteq Seq(T)
  OBVIOUS

\* The moves of a sequence of messages from one step to the next.
LEMMA SeqMoves ==
    ASSUME NEW S, NEW q \in Seq(S)
    PROVE  /\ \A e \in S : Append(q, e) \in Seq(S)
           /\ q # <<>> => Head(q) \in S /\ Tail(q) \in Seq(S)
  OBVIOUS

\* Winning widens what may be under way.
LEMMA MessagesWiden ==
    ASSUME NEW x \in Node, RolesAdvance(x)
    PROVE  Asked(x) \subseteq Asked(x)' /\ Answered(x) \subseteq Answered(x)'
  BY DEF RolesAdvance, Asked, Answered

\* Channels that keep what they held, lose their head or gain a message that
\* was due: what each of the invariants below says of a channel survives.
LEMMA InboxesKept ==
    ASSUME Inv, NEW x \in Node, Alone(x), Moves(x), RolesAdvance(x)
    PROVE  /\ inbox'[x] \in Seq(Answered(x) \cup ClientRequests)
           /\ \A p \in Peers(x) : inbox'[p] \in Seq(Asked(x) \cup ClientRequests)
<1> DEFINE Due(n) == IF n = x THEN Answered(x) \cup ClientRequests
                              ELSE Asked(x) \cup ClientRequests
<1>a. /\ TypeOK /\ \A p \in Peers(x) : p \in Node /\ p # x
      /\ \A n \in Node : n = x \/ n \in Peers(x)
  BY DEF Inv, Peers
<1>b. \A n \in Node : inbox[n] \in Seq(Due(n))
  BY <1>a DEF Alone, Lonely, Docile
<1> SUFFICES ASSUME NEW n \in Node PROVE inbox'[n] \in Seq(Due(n))
  BY <1>a
<1>1. ASSUME NEW to \in Node, NEW m \in Due(to), Send(to, m)
      PROVE  inbox'[n] \in Seq(Due(n))
  <2>1. inbox'[n] = IF n = to THEN Append(inbox[n], m) ELSE inbox[n]
    BY <1>1, <1>a DEF Send, TypeOK
  <2> HIDE DEF Due
  <2> QED BY <1>1, <1>b, <2>1, SeqMoves
<1>2. CASE UNCHANGED inbox
  BY <1>2, <1>b
<1>3. ASSUME NEW p \in Peers(x), PeerAnswers(x, p) PROVE inbox'[n] \in Seq(Due(n))
  <2>1. PICK answer \in VoteResponses \cup AppendResponses :
           /\ answer.from = p
           /\ answer.type = "RequestVoteResponse" <=>
                 Mail(p, "Follower").type = "RequestVote"
           /\ Send(x, answer)
    BY <1>3 DEF PeerAnswers
  <2>2. Mail(p, "Follower") \in Asked(x)
    BY <1>3, PeersMail DEF PeerAnswers
  <2>3. answer.type = "AppendEntriesResponse" => state[x] = "Leader"
    BY <2>1, <2>2, <1>3, PeersMail DEF Asked, PeerAnswers
  <2>4. answer \in Due(x)
    BY <2>1, <2>3 DEF Answered
  <2> HIDE DEF Due
  <2> QED BY <1>1, <2>1, <2>4
<1>4. ASSUME NEW s \in Node, RootStep(s) PROVE inbox'[n] \in Seq(Due(n))
  <2>1. /\ inbox[s] # <<>>
        /\ inbox'[n] = IF n = s THEN Tail(inbox[n]) ELSE inbox[n]
    BY <1>4, <1>a DEF RootStep, RootRoutesServerMessage, RootRoutesClientMessage, TypeOK
  <2> HIDE DEF Due
  <2> QED BY <1>b, <2>1, SeqMoves
<1>5. CASE Transmit(x)
  <2>1. PICK parcel \in outbox[x] : Send(parcel.to, parcel.message)
    BY <1>5 DEF Transmit
  <2>2. parcel.to \in Peers(x) /\ parcel.message \in Asked(x)
    BY DEF Alone, Lonely
  <2>3. parcel.message \in Due(parcel.to) /\ parcel.to \in Node
    BY <1>a, <2>2
  <2> HIDE DEF Due
  <2> QED BY <1>1, <2>1, <2>3
<1>6. CASE ClientMail
  <2>1. PICK to \in Node, r \in Request : Send(to, ClientRequest(r))
    BY <1>6 DEF ClientMail
  <2>2. ClientRequest(r) \in Due(to)
    BY DEF ClientRequest, ClientRequests
  <2> HIDE DEF Due
  <2> QED BY <1>1, <2>1, <2>2
<1> HIDE DEF Due
<1> QED
  BY <1>2, <1>3, <1>4, <1>5, <1>6 DEF Moves, Unposted, TakesAnswer, Asks, Beats

LEMMA QueuesKept ==
    ASSUME Inv, NEW x \in Node, Alone(x), Moves(x), RolesAdvance(x)
    PROVE  /\ queue'[x]["Follower"] \in Seq(VoteAnswers(x))
           /\ queue'[x]["Candidate"] \in Seq(VoteAnswers(x))
           /\ queue'[x]["Leader"] \in Seq(Answered(x))
           /\ \A p \in Peers(x) : /\ queue'[p]["Follower"] \in Seq(Asked(x))
                                  /\ queue'[p]["Candidate"] = <<>>
                                  /\ queue'[p]["Leader"] = <<>>
<1> DEFINE Due(n, role) ==
              IF n = x THEN (IF role = "Leader" THEN Answered(x) ELSE VoteAnswers(x))
                       ELSE (IF role = "Follower" THEN Asked(x) ELSE {})
<1>a. /\ TypeOK /\ \A p \in Peers(x) : p \in Node /\ p # x
      /\ \A n \in Node : n = x \/ n \in Peers(x)
      /\ \A p \in Peers(x) : state[p] = "Follower"
  BY DEF Inv, Peers, Alone, Docile
<1>b. \A n \in Node, role \in Role : queue[n][role] \in Seq(Due(n, role))
  <2>1. <<>> \in Seq({})
    OBVIOUS
  <2> QED BY <1>a, <2>1 DEF Alone, Lonely, Docile, Role
<1> SUFFICES ASSUME NEW n \in Node, NEW role \in Role
             PROVE  queue'[n][role] \in Seq(Due(n, role))
  <2>1. \A q \in Seq({}) : q = <<>>
    OBVIOUS
  <2> QED BY <1>a, <2>1 DEF Role
<1>1. CASE UNCHANGED queue
  BY <1>1, <1>b
<1>2. ASSUME NEW s \in Node, NEW r \in Role, queue[s][r] # <<>>, Take(s, r)
      PROVE  queue'[n][role] \in Seq(Due(n, role))
  <2>1. queue'[n][role] = IF n = s /\ role = r THEN Tail(queue[n][role])
                          ELSE queue[n][role]
    BY <1>2, <1>a DEF Take, TypeOK
  <2> HIDE DEF Due
  <2> QED BY <1>2, <1>b, <2>1, SeqMoves
<1>3. ASSUME NEW s \in Node, RootRoutesServerMessage(s)
      PROVE  queue'[n][role] \in Seq(Due(n, role))
  <2>1. /\ inbox[s] # <<>> /\ ~FromClient(Head(inbox[s]))
        /\ queue'[n][role] = IF n = s /\ role = state[s]
                             THEN Append(queue[n][role], Head(inbox[s]))
                             ELSE queue[n][role]
    BY <1>3, <1>a DEF RootRoutesServerMessage, TypeOK
  <2>2. Head(inbox[s]) \notin ClientRequests
    BY <2>1 DEF FromClient, ClientRequests
  <2>3. Head(inbox[s]) \in Due(s, state[s])
    <3>1. CASE s = x
      <4>1. inbox[x] \in Seq(Answered(x) \cup ClientRequests)
        BY DEF Alone, Lonely
      <4>2. Head(inbox[x]) \in Answered(x)
        BY <4>1, <2>1, <2>2, <3>1
      <4>3. state[x] # "Leader" => Head(inbox[x]) \in VoteAnswers(x)
        BY <4>2 DEF Answered, VoteAnswers, AppendResponses
      <4> QED BY <3>1, <4>2, <4>3
    <3>2. CASE s \in Peers(x)
      <4>1. inbox[s] \in Seq(Asked(x) \cup ClientRequests)
        BY <3>2 DEF Alone, Docile
      <4>2. Head(inbox[s]) \in Asked(x)
        BY <4>1, <2>1, <2>2
      <4> QED BY <3>2, <4>2, <1>a
    <3> QED BY <1>a, <3>1, <3>2
  <2> HIDE DEF Due
  <2> QED BY <1>b, <2>1, <2>3, SeqMoves
<1>4. ASSUME NEW p \in Peers(x), PeerAnswers(x, p)
      PROVE  queue'[n][role] \in Seq(Due(n, role))
  <2> HIDE DEF Due
  <2> QED BY <1>2, <1>4, <1>a DEF PeerAnswers, Role
<1>5. CASE TakesAnswer(x)
  BY <1>2, <1>5 DEF TakesAnswer
<1> HIDE DEF Due
<1> QED
  BY <1>1, <1>3, <1>4, <1>5 DEF Moves, Unposted, Asks, Beats, RootStep,
     RootRoutesClientMessage, Transmit, ClientMail

LEMMA OutboxesKept ==
    ASSUME Inv, NEW x \in Node, Alone(x), Moves(x), RolesAdvance(x),
           outbox' \in [Node -> SUBSET Parcel]
    PROVE  /\ \A parcel \in outbox'[x] :
                 parcel.to \in Peers(x) /\ parcel.message \in Asked(x)
           /\ \A p \in Peers(x) : outbox'[p] = {}
           /\ Sending(x, "RequestVote")' => candidate'[x].campaigning
<1>a. /\ TypeOK /\ \A p \in Peers(x) : p \in Node /\ p # x /\ outbox[p] = {}
      /\ \A parcel \in outbox[x] :
            parcel.to \in Peers(x) /\ parcel.message \in Asked(x)
      /\ Sending(x, "RequestVote") => candidate'[x].campaigning
  BY DEF Inv, Peers, Alone, Lonely, Docile, RolesAdvance
<1>1. CASE outbox'[x] \subseteq outbox[x] /\ \A p \in Peers(x) : outbox'[p] = outbox[p]
  BY <1>1, <1>a DEF Sending
<1>2. CASE Transmit(x)
  <2>1. outbox'[x] \subseteq outbox[x] /\ \A p \in Peers(x) : outbox'[p] = outbox[p]
    BY <1>2, <1>a DEF Transmit, TypeOK
  <2> QED BY <1>1, <2>1
<1>3. CASE Asks(x)
  <2>1. /\ currentTerm[x] + 1 \in Nat
        /\ outbox'[x] = outbox[x] \cup
              {[to |-> p, message |-> RequestVote(x, currentTerm[x] + 1)] :
                  p \in Peers(x)}
        /\ \A p \in Peers(x) : outbox'[p] = outbox[p]
        /\ candidate'[x].campaigning
    BY <1>3, <1>a DEF Asks, TypeOK
  <2>2. RequestVote(x, currentTerm[x] + 1) \in Asked(x)
    BY <2>1 DEF RequestVote, VoteRequests, Asked
  <2> QED BY <1>a, <2>1, <2>2
<1>4. CASE Beats(x)
  <2>1. PICK next : Heartbeat(x, next)
    BY <1>4 DEF Beats
  <2>2. /\ outbox'[x] = outbox[x] \cup
              {[to |-> p, message |-> AppendEntriesFor(x, p, next)] : p \in Peers(x)}
        /\ \A p \in Peers(x) : outbox'[p] = outbox[p]
    BY <2>1, <1>a DEF Heartbeat, TypeOK
  <2>3. ASSUME NEW p \in Peers(x)
        PROVE  /\ AppendEntriesFor(x, p, next) \in Asked(x)
               /\ AppendEntriesFor(x, p, next).type # "RequestVote"
    <3>1. [to |-> p, message |-> AppendEntriesFor(x, p, next)] \in Parcel
      BY <2>2
    <3>2. AppendEntriesFor(x, p, next) \in VoteRequests \cup AppendRequests
      BY <3>1 DEF Parcel
    <3>3. /\ AppendEntriesFor(x, p, next).type = "AppendEntries"
          /\ AppendEntriesFor(x, p, next).from = x
      BY DEF AppendEntriesFor, AppendEntries
    <3> QED BY <3>2, <3>3, <1>4 DEF Asked, Beats
  <2>4. \A parcel \in outbox'[x] :
           /\ parcel.to \in Peers(x) /\ parcel.message \in Asked(x)
           /\ parcel.message.type = "RequestVote" => parcel \in outbox[x]
    BY <1>a, <2>2, <2>3
  <2> QED BY <1>a, <2>2, <2>4 DEF Sending
<1> QED
  BY <1>1, <1>2, <1>3, <1>4 DEF Moves, Unposted, PeerAnswers, TakesAnswer, RootStep,
     RootRoutesServerMessage, RootRoutesClientMessage, ClientMail

LEMMA AloneAfter ==
    ASSUME Inv, outbox' \in [Node -> SUBSET Parcel],
           NEW x \in Node, Alone(x), RolesAdvance(x), Moves(x)
    PROVE  Alone(x)'
<1>1. /\ Seq(Asked(x) \cup ClientRequests) \subseteq Seq(Asked(x)' \cup ClientRequests)
      /\ Seq(Asked(x)) \subseteq Seq(Asked(x)')
      /\ Seq(Answered(x) \cup ClientRequests)
            \subseteq Seq(Answered(x)' \cup ClientRequests)
      /\ Seq(Answered(x)) \subseteq Seq(Answered(x)')
      /\ Asked(x) \subseteq Asked(x)'
  <2>1. /\ Asked(x) \cup ClientRequests \subseteq Asked(x)' \cup ClientRequests
        /\ Answered(x) \cup ClientRequests \subseteq Answered(x)' \cup ClientRequests
        /\ Asked(x) \subseteq Asked(x)' /\ Answered(x) \subseteq Answered(x)'
    BY MessagesWiden
  <2> QED BY <2>1, SeqWidens
<1>2. Lonely(x)'
  <2>1. VoteAnswers(x)' = VoteAnswers(x)
    BY DEF VoteAnswers
  <2>2. /\ \A parcel \in outbox'[x] :
              parcel.to \in Peers(x) /\ parcel.message \in Asked(x)'
        /\ inbox'[x] \in Seq(Answered(x)' \cup ClientRequests)
        /\ queue'[x]["Follower"] \in Seq(VoteAnswers(x))
        /\ queue'[x]["Candidate"] \in Seq(VoteAnswers(x))
        /\ queue'[x]["Leader"] \in Seq(Answered(x)')
        /\ Sending(x, "RequestVote")' => candidate'[x].campaigning
    BY <1>1, InboxesKept, QueuesKept, OutboxesKept
  <2>3. panicked' \in {"no", "no leader known"}
    BY DEF Alone, Lonely, RolesAdvance
  <2> QED BY <2>1, <2>2, <2>3 DEF Lonely, RolesAdvance
<1>3. ASSUME NEW p \in Peers(x) PROVE Docile(x, p)'
  <2>1. /\ inbox'[p] \in Seq(Asked(x)' \cup ClientRequests)
        /\ queue'[p]["Follower"] \in Seq(Asked(x)')
        /\ queue'[p]["Candidate"] = <<>> /\ queue'[p]["Leader"] = <<>>
        /\ outbox'[p] = {}
    BY <1>1, <1>3, InboxesKept, QueuesKept, OutboxesKept
  <2>2. state'[p] = "Follower" /\ votedFor'[p] \in {NoVote, x}
    BY DEF RolesAdvance, Alone, Docile
  <2> QED BY <2>1, <2>2 DEF Docile
<1> QED
  BY <1>2, <1>3 DEF Alone, Peers

LEMMA AloneKept ==
    ASSUME Inv, NEW x \in Node, Impatient = {x}, Alone(x), [Next]_vars
    PROVE  Alone(x)'
<1>1. outbox' \in [Node -> SUBSET Parcel]
  BY InvKept DEF Inv, TypeOK
<1> QED
  BY <1>1, MovesOfAlone, AloneAfter

LEMMA AloneInitially == ASSUME NEW x \in Node, Init PROVE Alone(x)
<1>1. \A S : <<>> \in Seq(S)
  OBVIOUS
<1>2. \A n \in Node :
         /\ state[n] = "Follower" /\ outbox[n] = {} /\ votedFor[n] = NoVote
         /\ inbox[n] = <<>> /\ \A role \in Role : queue[n][role] = <<>>
         /\ ~candidate[n].campaigning
  BY DEF Init, IdleCandidate
<1>3. panicked = "no"
  BY DEF Init
<1> QED
  BY <1>1, <1>2, <1>3 DEF Alone, Lonely, Docile, Peers, Sending, Role

-----------------------------------------------------------------------------
(***************************************************************************)
(* What follows for a cluster with a lone candidate.                       *)
(***************************************************************************)
\* A process that has died takes no step.
LEMMA NothingAfterPanic ==
    ASSUME ~Running, [Next]_vars
    PROVE  UNCHANGED vars
<1>1. ASSUME NEW s \in Node, ServerStep(s) PROVE FALSE
  <2>1. ~RootStep(s)
    BY DEF RootStep, RootRoutesServerMessage, RootRoutesClientMessage
  <2>2. ~FollowerStep(s)
    BY DEF FollowerStep, FollowerTimesOut, FollowerSeesChange, FollowerReceives,
       FollowerGrantsVote, FollowerRefusesVote, FollowerFollowsLeader,
       FollowerRejectsStaleLeader, FollowerDropsVote, FollowerPanics
  <2>3. ~CandidateStep(s)
    BY DEF CandidateStep, CandidateCampaigns, CandidateStandsDown,
       CandidateReceives, CandidateFollowsLeader, CandidateRejectsStaleLeader,
       CandidateGrantsVote, CandidateRefusesVote, CandidateWins,
       CandidateCountsVote, CandidatePanics
  <2>4. ~LeaderStep(s)
    BY DEF LeaderStep, LeaderTakesOffice, LeaderOverlooksChange, LeaderBeats,
       LeaderStandsDown, LeaderReceives, LeaderRecordsSuccess,
       LeaderRecordsFailure, LeaderDropsVote, LeaderPanics
  <2>5. ~ClientRequestStep(s) /\ ~Transmit(s)
    BY DEF ClientRequestStep, TakesRequest, LeaderAnswers, ServerForwards,
       ServerKnowsNoLeader, Transmit
  <2> QED BY <1>1, <2>1, <2>2, <2>3, <2>4, <2>5 DEF ServerStep
<1>2. ASSUME NEW r \in Request, ClientSends(r) PROVE FALSE
  BY <1>2 DEF ClientSends
<1> QED
  BY <1>1, <1>2 DEF Next, Halted

\* A server that panics at a client's request knows no leader to pass it to, so
\* the leader is not established.
LEMMA EstablishedAreKnown ==
    ASSUME NEW x \in Node, Alone(x), NEW l \in Node, Established(l),
           NEW s \in Node, ServerKnowsNoLeader(s)
    PROVE  FALSE
<1>1. l = x
  BY DEF Alone, Docile, Established, Peers
<1>2. state[s] # "Leader" /\ votedFor[s] \notin Peers(s)
  BY DEF ServerKnowsNoLeader
<1> QED BY <1>1, <1>2 DEF Established, Peers

LEMMA OnlyEarlyPanics ==
    ASSUME NEW x \in Node, Alone(x), RolesAdvance(x), NoRivalNoPanic,
           ~Running => UNCHANGED vars
    PROVE  NoRivalNoPanic'
<1>1. CASE ~Running
  BY <1>1 DEF NoRivalNoPanic, Running, Established, vars, roleVars,
     persistentVars
<1>2. CASE Running /\ panicked' = panicked
  BY <1>2 DEF NoRivalNoPanic, Running
<1>3. CASE \E s \in Node : ServerKnowsNoLeader(s)
  <2>1. PICK s \in Node : ServerKnowsNoLeader(s)
    BY <1>3
  <2>2. panicked' = "no leader known" /\ UNCHANGED <<state, votedFor>>
    BY <2>1 DEF ServerKnowsNoLeader, Panic, roleVars, persistentVars
  <2>3. \A l \in Node : ~Established(l)
    BY <2>1, EstablishedAreKnown
  <2> QED BY <2>2, <2>3 DEF NoRivalNoPanic, Established
<1> QED
  BY <1>1, <1>2, <1>3 DEF RolesAdvance

\* The one way for the process to die is a client's request in a server that
\* knows no leader (client_request.rs:60, 65), and only while the election is not
\* settled.  Whatever elections were abandoned, no vote and no acknowledgement
\* reaches an actor that panics at it (follower.rs:189, candidate.rs:199).
THEOREM OnlyEarlyRequestsPanic ==
    ASSUME NEW x \in Node, Impatient = {x}
    PROVE  Spec => []NoRivalNoPanic
<1> DEFINE I == Inv /\ Alone(x) /\ NoRivalNoPanic
<1>1. Init => I
  BY InvInitially, AloneInitially DEF Init, NoRivalNoPanic
<1>2. I /\ [Next]_vars => I'
  BY InvKept, AloneKept, MovesOfAlone, NothingAfterPanic, OnlyEarlyPanics
<1> QED
  BY <1>1, <1>2, PTL DEF Spec

LEMMA EstablishedStays ==
    ASSUME NEW x \in Node, Alone(x), RolesAdvance(x),
           NEW l \in Node, Established(l), Running
    PROVE  Established(l)' /\ Running' /\ currentTerm'[l] = currentTerm[l]
<1>1. l = x
  BY DEF Alone, Docile, Established, Peers
<1>2. currentTerm'[x] = currentTerm[x]
  BY <1>1 DEF Established, RolesAdvance, Asks
<1>3. Established(x)'
  BY <1>1 DEF Established, RolesAdvance, Peers
<1>4. Running'
  BY EstablishedAreKnown DEF RolesAdvance, Running
<1> QED
  BY <1>1, <1>2, <1>3, <1>4

\* Once every peer has taken the candidate for its leader it stays so, in the same
\* term, and from then on every client's request has somewhere to go: no late
\* vote, request or acknowledgement of an abandoned election undoes the victory,
\* and no request brings the process down any more (client_request.rs:60).
THEOREM LoneLeaderIsForGood ==
    ASSUME NEW x \in Node, Impatient = {x}
    PROVE  Spec => EstablishedForGood
<1> DEFINE I == Inv /\ Alone(x)
           A == \A l \in Node : Established(l) /\ Running =>
                   /\ Established(l)' /\ Running'
                   /\ currentTerm'[l] = currentTerm[l]
<1>1. Init => I
  BY InvInitially, AloneInitially
<1>2. I /\ [Next]_vars => I'
  BY InvKept, AloneKept
<1>3. I /\ [Next]_vars => A
  BY EstablishedStays, MovesOfAlone
<1> QED
  BY <1>1, <1>2, <1>3, PTL DEF Spec, EstablishedForGood

-----------------------------------------------------------------------------
(***************************************************************************)
(* What the followers of a lone leader take for committed.  The leader     *)
(* never claims more than its log holds, and a request with entries goes   *)
(* to the end of that log, so a follower never adopts less than it is told.*)
(***************************************************************************)
\* A request with entries has the last of them at or past the leader's index.
Covered(m) == m.entries # <<>> => m.leaderCommit <= LastIndexOr(m.entries, 0)

Modest(x) ==
    /\ commitIndex[x] <= Len(log[x])
    /\ \A m \in InFlight : m.type = "AppendEntries" => Covered(m)

LEMMA AppendsOfLone ==
    ASSUME NEW x \in Node, Alone(x)', NEW m \in InFlight', m.type = "AppendEntries"
    PROVE  m.from = x
<1>1. /\ \A parcel \in outbox'[x] : parcel.message \in Asked(x)'
      /\ inbox'[x] \in Seq(Answered(x)' \cup ClientRequests)
      /\ queue'[x]["Follower"] \in Seq(VoteAnswers(x)')
      /\ queue'[x]["Candidate"] \in Seq(VoteAnswers(x)')
      /\ queue'[x]["Leader"] \in Seq(Answered(x)')
  BY DEF Alone, Lonely
<1>2. \A n \in Node \ {x} :
         /\ outbox'[n] = {}
         /\ inbox'[n] \in Seq(Asked(x)' \cup ClientRequests)
         /\ queue'[n]["Follower"] \in Seq(Asked(x)')
         /\ queue'[n]["Candidate"] = <<>> /\ queue'[n]["Leader"] = <<>>
  BY DEF Alone, Docile, Peers
<1>3. /\ \A k \in Asked(x)' : k.from = x
      /\ \A k \in Answered(x)' \cup VoteAnswers(x)' \cup ClientRequests :
            k.type # "AppendEntries"
  BY DEF Asked, Answered, VoteAnswers, VoteResponses, AppendResponses, ClientRequests
<1>4. CASE \E n \in Node : \E parcel \in outbox'[n] : m = parcel.message
  BY <1>1, <1>2, <1>3, <1>4
<1>5. CASE \E n \in Node : m \in Range(inbox'[n])
  <2>1. PICK n \in Node : m \in Range(inbox'[n])
    BY <1>5
  <2>2. inbox'[n] \in Seq(Asked(x)' \cup Answered(x)' \cup ClientRequests)
    <3>1. /\ Asked(x)' \cup ClientRequests
                \subseteq Asked(x)' \cup Answered(x)' \cup ClientRequests
          /\ Answered(x)' \cup ClientRequests
                \subseteq Asked(x)' \cup Answered(x)' \cup ClientRequests
      OBVIOUS
    <3> QED BY <1>1, <1>2, <3>1, SeqWidens
  <2>3. m \in Asked(x)' \cup Answered(x)' \cup ClientRequests
    BY <2>1, <2>2 DEF Range
  <2> QED BY <1>3, <2>3
<1>6. CASE \E n \in Node : \E role \in Role : m \in Range(queue'[n][role])
  <2>1. PICK n \in Node, role \in Role : m \in Range(queue'[n][role])
    BY <1>6
  <2>2. \/ queue'[n][role] \in Seq(Asked(x)')
        \/ queue'[n][role] \in Seq(Answered(x)')
        \/ queue'[n][role] \in Seq(VoteAnswers(x)')
        \/ queue'[n][role] = <<>>
    BY <1>1, <1>2 DEF Role
  <2>3. m \in Asked(x)' \cup Answered(x)' \cup VoteAnswers(x)'
    BY <2>1, <2>2 DEF Range
  <2> QED BY <1>3, <2>3
<1> QED
  BY <1>4, <1>5, <1>6, InFlightAfterUnfolded

\* A request the lone leader builds covers the index it carries.
LEMMA FreshIsCovered ==
    ASSUME Inv, NEW x \in Node, commitIndex[x] <= Len(log[x]),
           NEW m, FreshAppend(m), m.from = x
    PROVE  Covered(m)
<1>0. PICK s \in Node : \E p \in Peers(s) : \E index \in 1 .. Len(log[s]) + 1 :
         m = AppendEntriesFor(s, p, [q \in {p} |-> index])
  BY DEF FreshAppend
<1>1. PICK p \in Peers(s), index \in 1 .. Len(log[s]) + 1 :
         m = AppendEntriesFor(s, p, [q \in {p} |-> index])
  BY <1>0
<1>2. [q \in {p} |-> index][p] = index
  OBVIOUS
<1>3. /\ s = x
      /\ m.entries = SubSeq(log[x], index, Len(log[x]))
      /\ m.leaderCommit = commitIndex[x]
  BY <1>1, <1>2, AppendEntriesForInLog
<1>4. /\ log[x] \in Seq(LogEntries(Writes)) /\ Len(log[x]) \in Nat
      /\ Numbered(log[x]) /\ index \in 1 .. Len(log[x]) + 1
  BY <1>1, <1>3, LogsNumbered
<1>5. ASSUME m.entries # <<>> PROVE LastIndexOr(m.entries, 0) = Len(log[x])
  <2>1. index <= Len(log[x])
    BY <1>3, <1>4, <1>5
  <2> DEFINE size == Len(log[x]) - index + 1
  <2>2. Len(m.entries) = size /\ m.entries[Len(m.entries)] = log[x][Len(log[x])]
    <3>1. SubSeq(log[x], index, Len(log[x]))
             = [i \in 1 .. size |-> log[x][index + i - 1]]
      BY <1>4, <2>1
    <3>2. size \in 1 .. size /\ index + size - 1 = Len(log[x])
      BY <1>4, <2>1
    <3>3. Len(SubSeq(log[x], index, Len(log[x]))) = size
      BY <1>4, <2>1
    <3> QED BY <1>3, <3>1, <3>2, <3>3
  <2>3. log[x][Len(log[x])].index = Len(log[x])
    BY <1>4, <2>1 DEF Numbered
  <2> QED BY <1>5, <2>2, <2>3 DEF LastIndexOr
<1> QED
  BY <1>3, <1>5 DEF Covered

LEMMA ModestKept ==
    ASSUME Inv, NEW x \in Node, Alone(x), Alone(x)', Modest(x), [Next]_vars
    PROVE  Modest(x)'
<1>a. TypeOK
  BY DEF Inv
<1>1. commitIndex'[x] <= Len(log'[x])
  <2>1. /\ commitIndex[x] \in Nat /\ Len(log[x]) \in Nat /\ Len(log'[x]) \in Nat
        /\ Len(log[x]) <= Len(log'[x])
        /\ commitIndex[x] <= Len(log[x])
    BY <1>a, LogsGrow DEF Grown, TypeOK, Modest
  <2>2. ASSUME NEW s \in Node, LeaderRecordsSuccess(s)
        PROVE  commitIndex'[x] \in Nat /\ commitIndex'[x] <= Len(log[x])
    <3>1. commitIndex' = [commitIndex EXCEPT ![s] = HighestCommittableIndex(nextIndex[s])]
      BY <2>2 DEF LeaderRecordsSuccess
    <3> QED BY <1>a, <2>1, <3>1, HighestInLog DEF TypeOK
  <2>3. ASSUME NEW s \in Node, FollowerFollowsLeader(s)
        PROVE  commitIndex'[x] = commitIndex[x]
    <3>1. s # x
      BY <2>3, LoneMail DEF FollowerFollowsLeader, FollowerReceives, Receives
    <3> QED BY <1>a, <2>3, <3>1 DEF FollowerFollowsLeader, TypeOK
  <2> QED BY <2>1, <2>2, <2>3, WhoSetsCommits
<1>2. ASSUME NEW m \in InFlight', m.type = "AppendEntries" PROVE Covered(m)
  <2>1. CASE m \in InFlight
    BY <1>2, <2>1 DEF Modest
  <2>2. CASE FreshAppend(m)
    <3>1. m.from = x
      BY <1>2, AppendsOfLone
    <3> QED BY <2>2, <3>1, FreshIsCovered DEF Modest
  <2> QED BY <1>2, <2>1, <2>2, AppendsAfterStep
<1> QED
  BY <1>1, <1>2 DEF Modest, Covered

LEMMA ModestInitially == ASSUME NEW x \in Node, Init PROVE Modest(x)
<1>1. commitIndex[x] = 0 /\ log[x] = <<>>
  BY DEF Init
<1> QED
  BY <1>1, NothingInFlightInitially DEF Modest

\* A covered request lowers no commit index.
LEMMA AdoptedFromCovered ==
    ASSUME TypeOK, NEW s \in Node, NEW m \in AppendRequests, Covered(m)
    PROVE  AdoptedCommit(s, m) >= commitIndex[s]
<1>1. commitIndex[s] \in Nat /\ m.leaderCommit \in Nat
  BY DEF TypeOK, AppendRequests
<1>2. LastIndexOr(m.entries, m.leaderCommit) \in Nat
      /\ m.leaderCommit <= LastIndexOr(m.entries, m.leaderCommit)
  <2>1. CASE m.entries = <<>>
    BY <1>1, <2>1 DEF LastIndexOr
  <2>2. CASE m.entries # <<>>
    <3>1. m.entries \in Seq(LogEntries(Writes))
      BY DEF AppendRequests
    <3>2. m.entries[Len(m.entries)] \in LogEntries(Writes)
      BY <2>2, <3>1
    <3> QED BY <2>2, <3>2 DEF Covered, LastIndexOr, LogEntries
  <2> QED BY <2>1, <2>2
<1> QED
  BY <1>1, <1>2 DEF AdoptedCommit

LEMMA FollowerKeepsCommit ==
    ASSUME Inv, NEW x \in Node, Alone(x), Modest(x), [Next]_vars,
           NEW p \in Node, ~leading[p]
    PROVE  commitIndex'[p] >= commitIndex[p]
<1>a. TypeOK /\ commitIndex[p] \in Nat
  BY DEF Inv, TypeOK
<1>1. ASSUME NEW s \in Node, FollowerFollowsLeader(s)
      PROVE  commitIndex'[p] >= commitIndex[p]
  <2> DEFINE m == Mail(s, "Follower")
  <2>1. m \in AppendRequests
    BY <1>a, <1>1, TakeTyped, TypesOfMessages DEF FollowerFollowsLeader,
       FollowerReceives, TypeOK, Role
  <2>2. m \in InFlight /\ m.type = "AppendEntries"
    BY <1>a, <1>1, <2>1, TakeInFlight DEF FollowerFollowsLeader, FollowerReceives,
       Receives, Role, AppendRequests
  <2>3. Covered(m)
    BY <2>2 DEF Modest
  <2>4. commitIndex' = [commitIndex EXCEPT ![s] = AdoptedCommit(s, m)]
    BY <1>1 DEF FollowerFollowsLeader
  <2> HIDE DEF m
  <2>5. AdoptedCommit(s, m) >= commitIndex[s]
    BY <1>a, <2>1, <2>3, AdoptedFromCovered
  <2>6. CASE p = s
    <3>1. commitIndex'[s] = AdoptedCommit(s, m)
      BY <1>a, <2>4 DEF TypeOK
    <3> QED BY <2>5, <2>6, <3>1
  <2>7. CASE p # s
    <3>1. commitIndex'[p] = commitIndex[p]
      BY <1>a, <2>4, <2>7 DEF TypeOK
    <3> QED BY <1>a, <3>1
  <2> QED BY <2>6, <2>7
<1>2. ASSUME NEW s \in Node, LeaderRecordsSuccess(s)
      PROVE  commitIndex'[p] = commitIndex[p]
  <2>1. s # p
    BY <1>2 DEF LeaderRecordsSuccess, LeaderReceives, Listening
  <2> QED BY <1>a, <1>2, <2>1 DEF LeaderRecordsSuccess, TypeOK
<1> QED
  BY <1>a, <1>1, <1>2, WhoSetsCommits

\* Although a leader's own commit index falls and followers store nothing of
\* what they are told, what a follower takes for committed only rises
\* (follower.rs:98-107): the index it adopts is cut at the last entry of the
\* request, which a lone leader never overtakes.
THEOREM FollowersKeepTheirCommits ==
    ASSUME NEW x \in Node, Impatient = {x}
    PROVE  Spec => FollowerCommitMonotonic
<1> DEFINE I == Inv /\ Alone(x) /\ Modest(x)
           A == \A s \in Node : ~leading[s] => commitIndex'[s] >= commitIndex[s]
<1>1. Init => I
  BY InvInitially, AloneInitially, ModestInitially
<1>2. I /\ [Next]_vars => I'
  BY InvKept, AloneKept, ModestKept
<1>3. I /\ [Next]_vars => A
  BY FollowerKeepsCommit
<1> QED
  BY <1>1, <1>2, <1>3, PTL DEF Spec, FollowerCommitMonotonic

-----------------------------------------------------------------------------
(***************************************************************************)
(* Counting the ballots.  In every election the candidate asks each peer   *)
(* once and each request is answered once, so there are never more ballots *)
(* of one peer under way, as a request or as an answer nobody has looked   *)
(* at, than elections have been begun.                                     *)
(***************************************************************************)
\* How many messages of a channel are in the set M.
Count(q, M) == Cardinality({i \in DOMAIN q : q[i] \in M})

LEMMA CountIsNatural ==
    ASSUME NEW S, NEW q \in Seq(S), NEW M
    PROVE  /\ IsFiniteSet({i \in DOMAIN q : q[i] \in M})
           /\ Count(q, M) \in Nat
           /\ q # <<>> /\ Head(q) \in M => Count(q, M) > 0
<1> DEFINE At == {i \in DOMAIN q : q[i] \in M}
<1>1. DOMAIN q = 1 .. Len(q) /\ Len(q) \in Nat
  OBVIOUS
<1>2. IsFiniteSet(At)
  <2>1. At \in SUBSET (1 .. Len(q))
    BY <1>1
  <2>2. IsFiniteSet(1 .. Len(q))
    BY <1>1, FS_Interval
  <2> HIDE DEF At
  <2> QED BY <2>1, <2>2, FS_Subset
<1>3. Cardinality(At) \in Nat
  BY <1>2, FS_CardinalityType
<1>4. ASSUME q # <<>>, Head(q) \in M PROVE Cardinality(At) > 0
  <2>1. 1 \in At
    BY <1>1, <1>4
  <2>2. Cardinality(At) # 0
    BY <1>2, <2>1, FS_EmptySet
  <2> QED BY <1>3, <2>2
<1> QED
  BY <1>2, <1>3, <1>4 DEF Count

LEMMA CountOfAppend ==
    ASSUME NEW S, NEW q \in Seq(S), NEW e \in S, NEW M
    PROVE  Count(Append(q, e), M) = Count(q, M) + (IF e \in M THEN 1 ELSE 0)
<1> DEFINE At == {i \in DOMAIN q : q[i] \in M}
           After == {i \in DOMAIN Append(q, e) : Append(q, e)[i] \in M}
           last == Len(q) + 1
<1>1. /\ DOMAIN q = 1 .. Len(q) /\ Len(q) \in Nat
      /\ DOMAIN Append(q, e) = 1 .. last
      /\ \A i \in 1 .. Len(q) : Append(q, e)[i] = q[i]
      /\ Append(q, e)[last] = e
  OBVIOUS
<1>2. last \notin At
  BY <1>1
<1>3. After = IF e \in M THEN At \cup {last} ELSE At
  BY <1>1
<1>4. IsFiniteSet(At) /\ Cardinality(At) \in Nat
  BY CountIsNatural DEF Count
<1> HIDE DEF At, After, last
<1>5. Cardinality(At \cup {last}) = Cardinality(At) + 1
  BY <1>2, <1>4, FS_AddElement
<1>6. Cardinality(After) = Cardinality(At) + (IF e \in M THEN 1 ELSE 0)
  BY <1>3, <1>4, <1>5
<1> QED
  BY <1>6 DEF Count, At, After

LEMMA CountOfTail ==
    ASSUME NEW S, NEW q \in Seq(S), q # <<>>, NEW M
    PROVE  Count(Tail(q), M) + (IF Head(q) \in M THEN 1 ELSE 0) = Count(q, M)
<1> DEFINE At == {i \in DOMAIN q : q[i] \in M}
           After == {i \in DOMAIN Tail(q) : Tail(q)[i] \in M}
           shift == [i \in After |-> i + 1]
<1>1. /\ DOMAIN q = 1 .. Len(q) /\ Len(q) \in Nat \ {0}
      /\ DOMAIN Tail(q) = 1 .. Len(q) - 1
      /\ \A i \in 1 .. Len(q) - 1 : Tail(q)[i] = q[i + 1]
      /\ Head(q) = q[1] /\ Tail(q) \in Seq(S)
  OBVIOUS
<1>2. shift \in Bijection(After, At \ {1})
  <2>1. shift \in [After -> At \ {1}]
    BY <1>1
  <2>2. \A i, j \in After : shift[i] = shift[j] => i = j
    BY <1>1
  <2>3. \A k \in At \ {1} : \E i \in After : shift[i] = k
    <3>1. ASSUME NEW k \in At \ {1} PROVE k - 1 \in After /\ shift[k - 1] = k
      BY <1>1, <3>1
    <3> QED BY <3>1
  <2> HIDE DEF shift, At, After
  <2> QED BY <2>1, <2>2, <2>3 DEF Bijection, Injection, Surjection, IsInjective
<1>3. IsFiniteSet(At) /\ IsFiniteSet(After)
  BY <1>1, CountIsNatural
<1>4. 1 \in At <=> Head(q) \in M
  BY <1>1
<1> HIDE DEF shift, At, After
<1>5. Cardinality(At \ {1}) = Cardinality(After)
  BY <1>2, <1>3, FS_Bijection DEF ExistsBijection
<1>6. /\ Cardinality(At) \in Nat /\ Cardinality(After) \in Nat
      /\ Cardinality(At \ {1}) = IF 1 \in At THEN Cardinality(At) - 1
                                 ELSE Cardinality(At)
  BY <1>3, FS_RemoveElement, FS_CardinalityType
<1>7. Cardinality(After) + (IF Head(q) \in M THEN 1 ELSE 0) = Cardinality(At)
  BY <1>4, <1>5, <1>6
<1> QED
  BY <1>7 DEF Count, At, After

VotesOf(p) == {m \in VoteResponses : m.from = p}

\* The parcels that ask p for its vote.
Asking(x, p) ==
    {parcel \in outbox[x] : parcel.to = p /\ parcel.message.type = "RequestVote"}

Pending(x, p) == IF Asking(x, p) = {} THEN 0 ELSE 1

\* The ballots of p that are under way in elections of x.
Ballots(x, p) ==
    Pending(x, p)
    + Count(inbox[p], VoteRequests) + Count(queue[p]["Follower"], VoteRequests)
    + Count(inbox[x], VotesOf(p)) + Count(queue[x]["Candidate"], VotesOf(p))

Single(x, p) == \A one, other \in Asking(x, p) : one = other

Tally(x) ==
    /\ currentTerm[x] <= MaxTerm
    /\ state[x] = "Follower" => currentTerm[x] = 0
    /\ \A p \in Peers(x) : Ballots(x, p) <= currentTerm[x] /\ Single(x, p)

LEMMA CountsAreNatural ==
    ASSUME TypeOK, NEW n \in Node, NEW M
    PROVE  /\ Count(inbox[n], M) \in Nat
           /\ \A role \in Role : Count(queue[n][role], M) \in Nat
<1>1. inbox[n] \in Seq(ServerMessage \cup ClientRequests)
      /\ \A role \in Role : queue[n][role] \in Seq(ServerMessage)
  BY DEF TypeOK
<1> QED
  BY <1>1, CountIsNatural

\* A message put in a mailbox.
LEMMA SendCounts ==
    ASSUME TypeOK, NEW to \in Node, NEW m \in ServerMessage \cup ClientRequests,
           Send(to, m), NEW n \in Node, NEW M
    PROVE  Count(inbox'[n], M) =
              Count(inbox[n], M) + (IF n = to /\ m \in M THEN 1 ELSE 0)
<1>1. inbox[n] \in Seq(ServerMessage \cup ClientRequests)
      /\ inbox'[n] = IF n = to THEN Append(inbox[n], m) ELSE inbox[n]
  BY DEF TypeOK, Send
<1>2. Count(inbox[n], M) \in Nat
  BY CountsAreNatural
<1> QED
  BY <1>1, <1>2, CountOfAppend

\* A message taken from a queue.
LEMMA TakeCounts ==
    ASSUME TypeOK, NEW s \in Node, NEW r \in Role, queue[s][r] # <<>>, Take(s, r),
           NEW n \in Node, NEW role \in Role, NEW M
    PROVE  Count(queue'[n][role], M)
              + (IF n = s /\ role = r /\ Mail(s, r) \in M THEN 1 ELSE 0)
           = Count(queue[n][role], M)
<1>1. /\ queue[n][role] \in Seq(ServerMessage)
      /\ queue'[n][role] = IF n = s /\ role = r THEN Tail(queue[n][role])
                           ELSE queue[n][role]
  <2>1. queue \in [Node -> [Role -> Seq(ServerMessage)]]
    BY DEF TypeOK
  <2> QED BY <2>1 DEF Take
<1>2. Count(queue[n][role], M) \in Nat
  BY CountsAreNatural
<1> QED
  BY <1>1, <1>2, CountOfTail DEF Mail

\* A message the root actor takes from the mailbox, and where it puts it.
LEMMA RouteCounts ==
    ASSUME TypeOK, NEW s \in Node, RootStep(s), NEW n \in Node, NEW role \in Role,
           NEW M, M \cap ClientRequests = {}
    PROVE  /\ Count(inbox'[n], M)
                 + (IF n = s /\ Head(inbox[s]) \in M THEN 1 ELSE 0)
              = Count(inbox[n], M)
           /\ Count(queue'[n][role], M) =
                 Count(queue[n][role], M)
                 + (IF n = s /\ role = state[s] /\ Head(inbox[s]) \in M
                    THEN 1 ELSE 0)
<1>1. /\ inbox[n] \in Seq(ServerMessage \cup ClientRequests)
      /\ inbox[s] \in Seq(ServerMessage \cup ClientRequests) /\ inbox[s] # <<>>
      /\ inbox'[n] = IF n = s THEN Tail(inbox[n]) ELSE inbox[n]
      /\ queue[n][role] \in Seq(ServerMessage)
  <2>1. /\ inbox \in [Node -> Seq(ServerMessage \cup ClientRequests)]
        /\ queue \in [Node -> [Role -> Seq(ServerMessage)]]
    BY DEF TypeOK
  <2>2. inbox[s] # <<>> /\ inbox' = [inbox EXCEPT ![s] = Tail(@)]
    BY DEF RootStep, RootRoutesServerMessage, RootRoutesClientMessage
  <2> QED BY <2>1, <2>2
<1>2. Count(inbox[n], M) \in Nat /\ Count(queue[n][role], M) \in Nat
  BY CountsAreNatural
<1>3. Head(inbox[s]) \in ServerMessage \cup ClientRequests
  BY <1>1
<1>4. Count(inbox'[n], M) + (IF n = s /\ Head(inbox[s]) \in M THEN 1 ELSE 0)
         = Count(inbox[n], M)
  BY <1>1, <1>2, CountOfTail
<1>5. CASE RootRoutesServerMessage(s)
  <2>1. /\ queue'[n][role] = IF n = s /\ role = state[s]
                             THEN Append(queue[n][role], Head(inbox[s]))
                             ELSE queue[n][role]
        /\ ~FromClient(Head(inbox[s]))
    BY <1>5 DEF RootRoutesServerMessage, TypeOK
  <2>2. Head(inbox[s]) \in ServerMessage
    BY <1>3, <2>1 DEF FromClient, ClientRequests
  <2> QED BY <1>1, <1>2, <1>4, <2>1, <2>2, CountOfAppend
<1>6. CASE RootRoutesClientMessage(s)
  <2>1. UNCHANGED queue /\ FromClient(Head(inbox[s]))
    BY <1>6 DEF RootRoutesClientMessage
  <2>2. Head(inbox[s]) \in ClientRequests
    BY <1>3, <2>1, TypesOfMessages DEF FromClient
  <2> QED BY <1>2, <1>4, <2>1, <2>2
<1> QED
  BY <1>5, <1>6 DEF RootStep

\* A vote is no request for one, and no answer that is not a vote.
LEMMA KindsDiffer ==
    /\ VoteRequests \cap ClientRequests = {}
    /\ VoteRequests \cap AppendRequests = {}
    /\ VoteResponses \cap VoteRequests = {}
    /\ AppendResponses \cap VoteRequests = {}
    /\ \A p : /\ VotesOf(p) \cap ClientRequests = {}
              /\ VotesOf(p) \cap (VoteRequests \cup AppendRequests) = {}
              /\ VotesOf(p) \cap AppendResponses = {}
  BY DEF VotesOf, VoteRequests, AppendRequests, VoteResponses, AppendResponses,
     ClientRequests

\* The parcels for p after a step that leaves its requests for votes alone.
LEMMA AskingKept ==
    ASSUME NEW x \in Node, NEW p \in Peers(x), Single(x, p),
           \A parcel : parcel \in outbox'[x] /\ parcel.message.type = "RequestVote"
                       <=> parcel \in outbox[x] /\ parcel.message.type = "RequestVote"
    PROVE  Single(x, p)' /\ Pending(x, p)' = Pending(x, p)
<1>1. Asking(x, p)' = Asking(x, p)
  BY DEF Asking
<1> QED
  BY <1>1 DEF Single, Pending

LEMMA CountsStayNatural ==
    ASSUME TypeOK', NEW n \in Node, NEW M
    PROVE  /\ Count(inbox'[n], M) \in Nat
           /\ \A role \in Role : Count(queue'[n][role], M) \in Nat
<1>1. inbox'[n] \in Seq(ServerMessage \cup ClientRequests)
      /\ \A role \in Role : queue'[n][role] \in Seq(ServerMessage)
  BY DEF TypeOK
<1> QED
  BY <1>1, CountIsNatural

LEMMA BallotsAreNatural ==
    ASSUME TypeOK, TypeOK', NEW x \in Node, NEW p \in Peers(x)
    PROVE  Ballots(x, p) \in Nat /\ Ballots(x, p)' \in Nat
<1>1. p \in Node /\ "Follower" \in Role /\ "Candidate" \in Role
  BY DEF Peers, Role
<1>2. Ballots(x, p) \in Nat
  <2>1. /\ Count(inbox[p], VoteRequests) \in Nat
        /\ Count(queue[p]["Follower"], VoteRequests) \in Nat
        /\ Count(inbox[x], VotesOf(p)) \in Nat
        /\ Count(queue[x]["Candidate"], VotesOf(p)) \in Nat
    BY <1>1, CountsAreNatural
  <2>2. Pending(x, p) \in Nat
    BY DEF Pending
  <2> QED BY <2>1, <2>2 DEF Ballots
<1>3. Ballots(x, p)' \in Nat
  <2>1. /\ Count(inbox'[p], VoteRequests) \in Nat
        /\ Count(queue'[p]["Follower"], VoteRequests) \in Nat
        /\ Count(inbox'[x], VotesOf(p)) \in Nat
        /\ Count(queue'[x]["Candidate"], VotesOf(p)) \in Nat
    BY <1>1, CountsStayNatural
  <2>2. Pending(x, p)' \in Nat
    BY DEF Pending
  <2>3. Count(inbox[x], VotesOf(p))' = Count(inbox'[x], VotesOf(p))
        /\ Count(queue[x]["Candidate"], VotesOf(p))'
               = Count(queue'[x]["Candidate"], VotesOf(p))
    BY DEF VotesOf
  <2> QED BY <2>1, <2>2, <2>3 DEF Ballots
<1> QED
  BY <1>2, <1>3

\* No step but the start of an election adds a ballot, and that adds one.
LEMMA BallotsMove ==
    ASSUME TypeOK, TypeOK', NEW x \in Node, Alone(x), Moves(x),
           NEW p \in Peers(x), Single(x, p)
    PROVE  /\ Single(x, p)'
           /\ Ballots(x, p)' <= Ballots(x, p) + (IF Asks(x) THEN 1 ELSE 0)
<1>a. /\ p \in Node /\ p # x /\ state[p] = "Follower" /\ outbox[p] = {}
      /\ \A n \in Node : n = x \/ n \in Peers(x)
      /\ "Follower" \in Role /\ "Candidate" \in Role
  BY DEF Peers, Alone, Docile, Role
<1>b. PICK pending, asked, queued, answered, uncounted :
         /\ pending = Pending(x, p)
         /\ asked = Count(inbox[p], VoteRequests)
         /\ queued = Count(queue[p]["Follower"], VoteRequests)
         /\ answered = Count(inbox[x], VotesOf(p))
         /\ uncounted = Count(queue[x]["Candidate"], VotesOf(p))
  OBVIOUS
<1>c. PICK pendingAfter, askedAfter, queuedAfter, answeredAfter, uncountedAfter :
         /\ pendingAfter = Pending(x, p)'
         /\ askedAfter = Count(inbox'[p], VoteRequests)
         /\ queuedAfter = Count(queue'[p]["Follower"], VoteRequests)
         /\ answeredAfter = Count(inbox'[x], VotesOf(p))
         /\ uncountedAfter = Count(queue'[x]["Candidate"], VotesOf(p))
  OBVIOUS
<1>d. /\ Ballots(x, p) = pending + asked + queued + answered + uncounted
      /\ Ballots(x, p)' = pendingAfter + askedAfter + queuedAfter + answeredAfter
                            + uncountedAfter
  BY <1>b, <1>c DEF Ballots, VotesOf
<1>e. /\ pending \in {0, 1} /\ asked \in Nat /\ queued \in Nat
      /\ answered \in Nat /\ uncounted \in Nat
      /\ pendingAfter \in {0, 1} /\ askedAfter \in Nat /\ queuedAfter \in Nat
      /\ answeredAfter \in Nat /\ uncountedAfter \in Nat
  BY <1>a, <1>b, <1>c, CountsAreNatural, CountsStayNatural DEF Pending
<1>1. CASE Unposted
  <2>1. /\ askedAfter = asked /\ queuedAfter = queued
        /\ answeredAfter = answered /\ uncountedAfter = uncounted
    BY <1>b, <1>c, <1>1 DEF Unposted
  <2>2. Single(x, p)' /\ pendingAfter = pending
    BY <1>b, <1>c, <1>1, AskingKept DEF Unposted
  <2> QED BY <1>d, <1>e, <2>1, <2>2
<1>2. ASSUME NEW q \in Peers(x), PeerAnswers(x, q)
      PROVE  Single(x, p)' /\ Ballots(x, p)' <= Ballots(x, p)
  <2> DEFINE m == Mail(q, "Follower")
  <2>1. PICK answer \in VoteResponses \cup AppendResponses :
           /\ answer.from = q
           /\ answer.type = "RequestVoteResponse" <=> m.type = "RequestVote"
           /\ Send(x, answer)
    BY <1>2 DEF PeerAnswers
  <2>2. /\ m \in Asked(x) /\ q \in Node /\ q # x
        /\ queue[q]["Follower"] # <<>> /\ Take(q, "Follower")
        /\ answer \in ServerMessage \cup ClientRequests
    BY <1>2, PeersMail DEF PeerAnswers, Peers, ServerMessage
  <2>3. m \in VoteRequests <=> answer \in VoteResponses
    BY <2>1, <2>2 DEF Asked, VoteRequests, AppendRequests, VoteResponses,
       AppendResponses
  <2>4. answer \in VotesOf(p) <=> q = p /\ answer \in VoteResponses
    BY <2>1 DEF VotesOf
  <2>5. answer \notin VoteRequests
    BY KindsDiffer
  <2> HIDE DEF m
  <2>6. /\ askedAfter = asked
        /\ answeredAfter = answered + (IF answer \in VotesOf(p) THEN 1 ELSE 0)
    <3>1. Count(inbox'[p], VoteRequests)
             = Count(inbox[p], VoteRequests)
                  + (IF p = x /\ answer \in VoteRequests THEN 1 ELSE 0)
      <4>1. p \in Node /\ Send(x, answer) /\ answer \in ServerMessage \cup ClientRequests
        BY <1>a, <2>1, <2>2
      <4> QED BY <4>1, SendCounts
    <3>2. Count(inbox'[x], VotesOf(p))
             = Count(inbox[x], VotesOf(p))
                  + (IF x = x /\ answer \in VotesOf(p) THEN 1 ELSE 0)
      BY <2>1, <2>2, SendCounts
    <3> QED BY <1>a, <1>b, <1>c, <1>e, <3>1, <3>2
  <2>7. /\ queuedAfter + (IF q = p /\ m \in VoteRequests THEN 1 ELSE 0) = queued
        /\ uncountedAfter = uncounted
    <3>1. Count(queue'[p]["Follower"], VoteRequests)
             + (IF p = q /\ m \in VoteRequests THEN 1 ELSE 0)
             = Count(queue[p]["Follower"], VoteRequests)
      BY <1>a, <2>2, TakeCounts DEF m
    <3>2. queue'[x]["Candidate"] = queue[x]["Candidate"]
      BY <1>a, <2>2 DEF Take, TypeOK
    <3> QED BY <1>b, <1>c, <3>1, <3>2
  <2>8. Single(x, p)' /\ pendingAfter = pending
    BY <1>b, <1>c, <1>2, AskingKept DEF PeerAnswers
  <2> QED BY <1>d, <1>e, <2>3, <2>4, <2>6, <2>7, <2>8
<1>3. CASE TakesAnswer(x)
  <2>1. PICK r \in Role : queue[x][r] # <<>> /\ Take(x, r)
    BY <1>3 DEF TakesAnswer
  <2>2. askedAfter = asked /\ answeredAfter = answered
    BY <1>b, <1>c, <1>3 DEF TakesAnswer
  <2>3. queuedAfter = queued
    BY <1>b, <1>c, <1>a, <2>1 DEF Take, TypeOK
  <2>4. uncountedAfter <= uncounted
    <3>1. Count(queue'[x]["Candidate"], VotesOf(p))
             + (IF "Candidate" = r /\ Mail(x, r) \in VotesOf(p) THEN 1 ELSE 0)
             = Count(queue[x]["Candidate"], VotesOf(p))
      BY <1>a, <2>1, TakeCounts
    <3> QED BY <1>b, <1>c, <1>e, <3>1
  <2>5. Single(x, p)' /\ pendingAfter = pending
    BY <1>b, <1>c, <1>3, AskingKept DEF TakesAnswer
  <2> QED BY <1>d, <1>e, <2>2, <2>3, <2>4, <2>5
<1>4. CASE Asks(x)
  <2>1. /\ askedAfter = asked /\ queuedAfter = queued
        /\ answeredAfter = answered /\ uncountedAfter = uncounted
    BY <1>b, <1>c, <1>4 DEF Asks
  <2>2. pending = 0
    BY <1>b, <1>c, <1>4 DEF Asks, Sending, Pending, Asking
  <2>4. Single(x, p)'
    <3> DEFINE message == RequestVote(x, currentTerm[x] + 1)
    <3>1. outbox'[x] = outbox[x] \cup {[to |-> q, message |-> message] : q \in Peers(x)}
      BY <1>4 DEF Asks, TypeOK
    <3>2. \A parcel \in outbox[x] : parcel.message.type # "RequestVote"
      BY <1>4 DEF Asks, Sending
    <3> HIDE DEF message
    <3>3. \A parcel \in Asking(x, p)' : parcel = [to |-> p, message |-> message]
      BY <3>1, <3>2 DEF Asking
    <3> QED BY <3>3 DEF Single
  <2> QED BY <1>4, <1>d, <1>e, <2>1, <2>2, <2>4
<1>5. CASE Beats(x)
  <2>1. /\ askedAfter = asked /\ queuedAfter = queued
        /\ answeredAfter = answered /\ uncountedAfter = uncounted
    BY <1>b, <1>c, <1>5 DEF Beats
  <2>2. PICK next : Heartbeat(x, next)
    BY <1>5 DEF Beats
  <2>3. outbox'[x] = outbox[x] \cup
           {[to |-> q, message |-> AppendEntriesFor(x, q, next)] : q \in Peers(x)}
    BY <2>2 DEF Heartbeat, TypeOK
  <2>4. \A q : AppendEntriesFor(x, q, next).type = "AppendEntries"
    BY DEF AppendEntriesFor, AppendEntries
  <2>5. Single(x, p)' /\ pendingAfter = pending
    BY <1>b, <1>c, <2>3, <2>4, AskingKept
  <2> QED BY <1>d, <1>e, <2>1, <2>5
<1>6. ASSUME NEW n \in Node, RootStep(n)
      PROVE  Single(x, p)' /\ Ballots(x, p)' <= Ballots(x, p)
  <2> DEFINE m == Head(inbox[n])
  <2>1. /\ askedAfter + (IF p = n /\ m \in VoteRequests THEN 1 ELSE 0) = asked
        /\ queuedAfter = queued
              + (IF p = n /\ "Follower" = state[n] /\ m \in VoteRequests THEN 1 ELSE 0)
    BY <1>b, <1>c, <1>6, <1>a, RouteCounts, KindsDiffer
  <2>2. /\ answeredAfter + (IF x = n /\ m \in VotesOf(p) THEN 1 ELSE 0) = answered
        /\ uncountedAfter = uncounted
              + (IF x = n /\ "Candidate" = state[n] /\ m \in VotesOf(p) THEN 1 ELSE 0)
    BY <1>b, <1>c, <1>6, <1>a, RouteCounts, KindsDiffer
  <2>3. Single(x, p)' /\ pendingAfter = pending
    BY <1>b, <1>c, <1>6, AskingKept DEF RootStep, RootRoutesServerMessage,
       RootRoutesClientMessage
  <2> HIDE DEF m
  <2> QED BY <1>a, <1>d, <1>e, <2>1, <2>2, <2>3
<1>7. CASE Transmit(x)
  <2>1. PICK parcel \in outbox[x] :
           /\ outbox' = [outbox EXCEPT ![x] = @ \ {parcel}]
           /\ Send(parcel.to, parcel.message)
    BY <1>7 DEF Transmit
  <2>2. /\ parcel.to \in Peers(x) /\ parcel.message \in Asked(x)
        /\ parcel.to \in Node /\ parcel.to # x
        /\ parcel.message \in ServerMessage \cup ClientRequests
    BY DEF Alone, Lonely, Asked, ServerMessage, Peers
  <2>3. queuedAfter = queued /\ uncountedAfter = uncounted
    BY <1>b, <1>c, <1>7 DEF Transmit
  <2>4. answeredAfter = answered
    <3>1. Count(inbox'[x], VotesOf(p))
             = Count(inbox[x], VotesOf(p))
                  + (IF x = parcel.to /\ parcel.message \in VotesOf(p) THEN 1 ELSE 0)
      BY <2>1, <2>2, SendCounts
    <3> QED BY <1>b, <1>c, <1>e, <2>2, <3>1
  <2>5. askedAfter = asked
           + (IF p = parcel.to /\ parcel.message \in VoteRequests THEN 1 ELSE 0)
    BY <1>b, <1>c, <1>a, <2>1, <2>2, SendCounts
  <2>6. parcel.message \in VoteRequests <=> parcel.message.type = "RequestVote"
    BY <2>2 DEF Asked, VoteRequests, AppendRequests
  <2>7. Asking(x, p)' = Asking(x, p) \ {parcel}
    BY <2>1 DEF Asking, TypeOK
  <2>8. Single(x, p)'
    BY <2>7 DEF Single
  <2>9. CASE parcel \in Asking(x, p)
    <3>1. Asking(x, p)' = {} /\ Asking(x, p) # {}
      BY <2>7, <2>9 DEF Single
    <3>2. pendingAfter = 0 /\ pending = 1
      BY <1>b, <1>c, <3>1 DEF Pending
    <3>3. askedAfter = asked + 1
      BY <2>5, <2>6, <2>9 DEF Asking
    <3> QED BY <1>d, <1>e, <2>3, <2>4, <2>8, <3>2, <3>3
  <2>10. CASE parcel \notin Asking(x, p)
    <3>1. pendingAfter = pending
      BY <1>b, <1>c, <2>7, <2>10 DEF Pending
    <3>2. askedAfter = asked
      BY <1>e, <2>5, <2>6, <2>10 DEF Asking
    <3> QED BY <1>d, <1>e, <2>3, <2>4, <2>8, <3>1, <3>2
  <2> QED BY <2>9, <2>10
<1>8. CASE ClientMail
  <2>1. PICK to \in Node, r \in Request : Send(to, ClientRequest(r))
    BY <1>8 DEF ClientMail
  <2>2. /\ ClientRequest(r) \in ClientRequests
        /\ ClientRequest(r) \notin VoteRequests /\ ClientRequest(r) \notin VotesOf(p)
    BY KindsDiffer DEF ClientRequest, ClientRequests
  <2>3. queuedAfter = queued /\ uncountedAfter = uncounted
    BY <1>b, <1>c, <1>8 DEF ClientMail
  <2>4. askedAfter = asked /\ answeredAfter = answered
    BY <1>a, <1>b, <1>c, <1>e, <2>1, <2>2, SendCounts
  <2>5. Single(x, p)' /\ pendingAfter = pending
    BY <1>b, <1>c, <1>8, AskingKept DEF ClientMail
  <2> QED BY <1>d, <1>e, <2>3, <2>4, <2>5
<1>9. /\ Ballots(x, p) \in Int
      /\ Ballots(x, p)' <= Ballots(x, p) =>
            Ballots(x, p)' <= Ballots(x, p) + (IF Asks(x) THEN 1 ELSE 0)
  BY <1>d, <1>e
<1> QED
  BY <1>1, <1>2, <1>3, <1>4, <1>5, <1>6, <1>7, <1>8, <1>9 DEF Moves

LEMMA TallyKept ==
    ASSUME TypeOK, TypeOK', NEW x \in Node, Alone(x), RolesAdvance(x), Moves(x),
           Tally(x)
    PROVE  Tally(x)'
<1>0. Peers(x)' = Peers(x)
  BY DEF Peers
<1>1. currentTerm[x] \in Nat /\ MaxTerm \in Nat
  BY BoundAssumption DEF TypeOK
<1>2. currentTerm'[x] = currentTerm[x] + (IF Asks(x) THEN 1 ELSE 0)
  <2>1. CASE Asks(x)
    <3>1. currentTerm'[x] = currentTerm[x] + 1
      BY <2>1 DEF Asks
    <3> QED BY <2>1, <3>1
  <2>2. CASE ~Asks(x)
    <3>1. currentTerm'[x] = currentTerm[x]
      BY <2>2 DEF RolesAdvance
    <3> QED BY <1>1, <2>2, <3>1
  <2> QED BY <2>1, <2>2
<1>3. currentTerm'[x] <= MaxTerm
  BY <1>1, <1>2 DEF Tally, Asks
<1>4. state'[x] = "Follower" => currentTerm'[x] = 0
  BY <1>1, <1>2 DEF Tally, RolesAdvance, Asks
<1>5. ASSUME NEW p \in Peers(x)
      PROVE  Ballots(x, p)' <= currentTerm'[x] /\ Single(x, p)'
  <2>1. Ballots(x, p) <= currentTerm[x] /\ Single(x, p)
    BY DEF Tally
  <2>2. PICK ballots, after : ballots = Ballots(x, p) /\ after = Ballots(x, p)'
    OBVIOUS
  <2>3. Single(x, p)' /\ after <= ballots + (IF Asks(x) THEN 1 ELSE 0)
    BY <2>1, <2>2, BallotsMove
  <2>4. ballots \in Nat /\ after \in Nat
    BY <2>2, BallotsAreNatural
  <2> QED BY <1>1, <1>2, <2>1, <2>2, <2>3, <2>4
<1> QED
  BY <1>0, <1>3, <1>4, <1>5 DEF Tally

LEMMA TallyInitially == ASSUME NEW x \in Node, Init PROVE Tally(x)
<1>1. \A M : Count(<<>>, M) = 0
  BY FS_EmptySet DEF Count
<1>2. /\ state[x] = "Follower" /\ currentTerm[x] = 0 /\ outbox[x] = {}
      /\ \A n \in Node : inbox[n] = <<>> /\ \A role \in Role : queue[n][role] = <<>>
  BY DEF Init
<1>3. ASSUME NEW p \in Peers(x) PROVE Ballots(x, p) = 0 /\ Single(x, p)
  <2>1. Asking(x, p) = {}
    BY <1>2 DEF Asking
  <2> QED BY <1>1, <1>2, <2>1 DEF Ballots, Pending, Single, Peers, Role
<1> QED
  BY <1>2, <1>3, BoundAssumption DEF Tally

\* A channel that holds at most so many messages of each sender holds at most so
\* many times the senders: the rank of a message among those of its sender tells
\* it from them.
LEMMA FewOfEach ==
    ASSUME NEW S, NEW q \in Seq(S), NEW P, IsFiniteSet(P), NEW bound \in Nat,
           \A i \in DOMAIN q : q[i].from \in P,
           \A p \in P : Cardinality({i \in DOMAIN q : q[i].from = p}) <= bound
    PROVE  Len(q) <= bound * Cardinality(P)
<1> DEFINE Upto(k) == {i \in 1 .. k : q[i].from = q[k].from}
           All(k) == {i \in DOMAIN q : q[i].from = q[k].from}
           place == [k \in DOMAIN q |-> <<q[k].from, Cardinality(Upto(k))>>]
<1>1. DOMAIN q = 1 .. Len(q) /\ Len(q) \in Nat
  OBVIOUS
<1>2. IsFiniteSet(DOMAIN q) /\ Cardinality(DOMAIN q) = Len(q)
  <2>1. /\ IsFiniteSet(1 .. Len(q))
        /\ Cardinality(1 .. Len(q)) = IF 1 > Len(q) THEN 0 ELSE Len(q) - 1 + 1
    BY <1>1, FS_Interval
  <2> QED BY <1>1, <2>1
<1>3. ASSUME NEW k \in DOMAIN q
      PROVE  /\ Upto(k) \in SUBSET All(k) /\ k \in Upto(k)
             /\ IsFiniteSet(Upto(k)) /\ Cardinality(Upto(k)) \in 1 .. bound
  <2>1. Upto(k) \in SUBSET All(k) /\ k \in Upto(k) /\ All(k) \in SUBSET (DOMAIN q)
    BY <1>1
  <2>2. IsFiniteSet(All(k)) /\ IsFiniteSet(Upto(k))
        /\ Cardinality(Upto(k)) <= Cardinality(All(k))
    <3> HIDE DEF Upto, All
    <3> QED BY <1>2, <2>1, FS_Subset
  <2>3. Cardinality(All(k)) <= bound
    OBVIOUS
  <2>4. /\ Cardinality(Upto(k)) \in Nat /\ Cardinality(All(k)) \in Nat
        /\ Cardinality(Upto(k)) # 0
    <3> HIDE DEF Upto, All
    <3> QED BY <2>1, <2>2, FS_CardinalityType, FS_EmptySet
  <2> HIDE DEF Upto, All
  <2> QED BY <2>1, <2>2, <2>3, <2>4
<1>4. ASSUME NEW i \in DOMAIN q, NEW k \in DOMAIN q, i < k, q[i].from = q[k].from
      PROVE  Cardinality(Upto(i)) # Cardinality(Upto(k))
  <2>1. Upto(i) \in SUBSET Upto(k) /\ k \notin Upto(i)
    BY <1>1, <1>4
  <2>2. IsFiniteSet(Upto(k)) /\ k \in Upto(k)
    BY <1>3
  <2> HIDE DEF Upto
  <2> QED BY <2>1, <2>2, FS_Subset
<1>5. place \in [DOMAIN q -> P \X (1 .. bound)]
  <2> HIDE DEF Upto
  <2> QED BY <1>3
<1>6. place \in Injection(DOMAIN q, P \X (1 .. bound))
  <2>1. ASSUME NEW i \in DOMAIN q, NEW k \in DOMAIN q, place[i] = place[k]
        PROVE  i = k
    <3>1. q[i].from = q[k].from /\ Cardinality(Upto(i)) = Cardinality(Upto(k))
      <4> HIDE DEF Upto
      <4> QED BY <2>1
    <3> HIDE DEF Upto, place
    <3>2. ~(i < k) /\ ~(k < i)
      BY <1>4, <3>1
    <3> QED BY <1>1, <3>2
  <2> HIDE DEF place, Upto
  <2> QED BY <1>5, <2>1 DEF Injection, IsInjective
<1>7. /\ IsFiniteSet(P \X (1 .. bound))
      /\ Cardinality(P \X (1 .. bound)) = Cardinality(P) * bound
  <2>1. /\ IsFiniteSet(1 .. bound)
        /\ Cardinality(1 .. bound) = bound
    BY FS_Interval
  <2> QED BY <2>1, FS_Product
<1>8. Cardinality(DOMAIN q) <= Cardinality(P \X (1 .. bound))
  <2> HIDE DEF place
  <2> QED BY <1>6, <1>7, FS_Injection
<1>9. Cardinality(P) \in Nat
  BY FS_CardinalityType
<1> QED
  BY <1>2, <1>7, <1>8, <1>9

\* The queue of the candidate actor never has more votes to hold than peers can
\* have given in all the elections there may be.
LEMMA VotesFit ==
    ASSUME TypeOK', NEW x \in Node, Alone(x)', Tally(x)'
    PROVE  Len(queue'[x]["Candidate"]) <= MaxTerm * Cardinality(Peers(x))
<1> DEFINE q == queue'[x]["Candidate"]
<1>1. q \in Seq(VoteAnswers(x))
  BY DEF Alone, Lonely, VoteAnswers
<1>2. \A i \in DOMAIN q : q[i] \in VoteResponses /\ q[i].from \in Peers(x)
  <2> HIDE DEF q
  <2> QED BY <1>1 DEF VoteAnswers
<1>3. IsFiniteSet(Peers(x)) /\ MaxTerm \in Nat
  BY NodeAssumption, BoundAssumption, FS_RemoveElement DEF Peers
<1>4. ASSUME NEW p \in Peers(x)
      PROVE  Cardinality({i \in DOMAIN q : q[i].from = p}) <= MaxTerm
  <2>1. p \in Node /\ "Follower" \in Role /\ "Candidate" \in Role
    BY DEF Peers, Role
  <2>2. PICK pending, asked, queued, answered, uncounted :
           /\ pending = Pending(x, p)'
           /\ asked = Count(inbox'[p], VoteRequests)
           /\ queued = Count(queue'[p]["Follower"], VoteRequests)
           /\ answered = Count(inbox'[x], VotesOf(p))
           /\ uncounted = Count(q, VotesOf(p))
    OBVIOUS
  <2>3. /\ pending \in {0, 1} /\ asked \in Nat /\ queued \in Nat
        /\ answered \in Nat /\ uncounted \in Nat
    BY <2>1, <2>2, CountsStayNatural DEF Pending
  <2>4. Ballots(x, p)' = pending + asked + queued + answered + uncounted
    BY <2>2 DEF Ballots, VotesOf
  <2>5. /\ Ballots(x, p)' <= currentTerm'[x] /\ currentTerm'[x] <= MaxTerm
        /\ currentTerm'[x] \in Nat
    BY DEF Tally, Peers, TypeOK
  <2>6. uncounted <= MaxTerm
    BY <1>3, <2>3, <2>4, <2>5
  <2>7. {i \in DOMAIN q : q[i] \in VotesOf(p)} = {i \in DOMAIN q : q[i].from = p}
    <3> HIDE DEF q
    <3> QED BY <1>2 DEF VotesOf
  <2> HIDE DEF q
  <2> QED BY <2>2, <2>6, <2>7 DEF Count
<1> HIDE DEF q
<1>5. Len(q) <= MaxTerm * Cardinality(Peers(x))
  BY <1>1, <1>2, <1>3, <1>4, FewOfEach
<1> QED
  BY <1>5 DEF q

\* While the candidate still follows, no vote can have been given.
LEMMA NoVoteYet ==
    ASSUME TypeOK, NEW x \in Node, Alone(x), Tally(x), state[x] = "Follower",
           inbox[x] # <<>>
    PROVE  Head(inbox[x]) \in ClientRequests
<1>1. inbox[x] \in Seq(Answered(x) \cup ClientRequests)
  BY DEF Alone, Lonely
<1>2. CASE Head(inbox[x]) \in Answered(x)
  <2>1. PICK p \in Peers(x) : Head(inbox[x]) \in VotesOf(p)
    BY <1>2 DEF Answered, VotesOf, AppendResponses
  <2>2. p \in Node /\ "Follower" \in Role /\ "Candidate" \in Role
    BY DEF Peers, Role
  <2>3. PICK pending, asked, queued, answered, uncounted :
           /\ pending = Pending(x, p)
           /\ asked = Count(inbox[p], VoteRequests)
           /\ queued = Count(queue[p]["Follower"], VoteRequests)
           /\ answered = Count(inbox[x], VotesOf(p))
           /\ uncounted = Count(queue[x]["Candidate"], VotesOf(p))
    OBVIOUS
  <2>4. /\ pending \in {0, 1} /\ asked \in Nat /\ queued \in Nat
        /\ answered \in Nat /\ uncounted \in Nat
    BY <2>2, <2>3, CountsAreNatural DEF Pending
  <2>5. answered > 0
    <3>1. inbox[x] \in Seq(ServerMessage \cup ClientRequests)
      BY DEF TypeOK
    <3> QED BY <2>1, <2>3, <3>1, CountIsNatural
  <2>6. Ballots(x, p) = pending + asked + queued + answered + uncounted
    BY <2>3 DEF Ballots
  <2>7. Ballots(x, p) <= 0
    BY DEF Tally
  <2> QED BY <2>4, <2>5, <2>6, <2>7
<1> QED
  BY <1>1, <1>2
=============================================================================
