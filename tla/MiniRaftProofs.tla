--------------------------- MODULE MiniRaftProofs ---------------------------
(***************************************************************************)
(* Theorems about the cluster of MiniRaft, for every number of servers and *)
(* of requests and for every value of the bounds.                          *)
(***************************************************************************)
EXTENDS Correctness, ServerDataProofs

(***************************************************************************)
(* Typing of the messages and of the operations every actor uses.          *)
(***************************************************************************)
\* The requests and responses the actors build (src/server/request.rs).
LEMMA MessageTypes ==
    ASSUME NEW s \in Node, NEW term \in Nat, NEW ok \in BOOLEAN
    PROVE  /\ RequestVote(s, term) \in VoteRequests
           /\ RequestVoteResponse(s, term, ok) \in ServerMessage
           /\ AppendEntriesResponse(s, term, ok) \in ServerMessage
  BY DEF RequestVote, VoteRequests, RequestVoteResponse, VoteResponses,
         AppendEntriesResponse, AppendResponses, ServerMessage

\* What the receiver of a message may rely on, by the type of the message.
LEMMA TypesOfMessages ==
    ASSUME NEW m \in ServerMessage
    PROVE  /\ m.from \in Node /\ m.term \in Nat
           /\ m.type = "RequestVote" => m \in VoteRequests
           /\ m.type = "RequestVoteResponse" => m \in VoteResponses
           /\ m.type = "AppendEntries" => m \in AppendRequests
           /\ m.type = "AppendEntriesResponse" => m \in AppendResponses
           /\ m.type # "ClientRequest"
  BY DEF ServerMessage, VoteRequests, VoteResponses, AppendRequests,
         AppendResponses

\* A mailbox holds messages of servers and of clients after a message is put
\* in it (src/server/handle.rs).
LEMMA SendTyped ==
    ASSUME inbox \in [Node -> Seq(ServerMessage \cup ClientRequests)],
           NEW to \in Node, NEW m \in ServerMessage \cup ClientRequests,
           Send(to, m)
    PROVE  inbox' \in [Node -> Seq(ServerMessage \cup ClientRequests)]
  BY DEF Send

\* A mailbox is well typed after an actor answers a request.
LEMMA AnswerTyped ==
    ASSUME inbox \in [Node -> Seq(ServerMessage \cup ClientRequests)],
           NEW s \in Node, NEW to \in Node, NEW term \in Nat, NEW ok \in BOOLEAN,
           \/ Send(to, RequestVoteResponse(s, term, ok))
           \/ Send(to, AppendEntriesResponse(s, term, ok))
    PROVE  inbox' \in [Node -> Seq(ServerMessage \cup ClientRequests)]
  BY MessageTypes, SendTyped

\* A message an actor takes is a message of a server, and so are those left.
LEMMA TakeTyped ==
    ASSUME queue \in [Node -> [Role -> Seq(ServerMessage)]],
           NEW s \in Node, NEW role \in Role, NEW type,
           Receives(s, role, type), Take(s, role)
    PROVE  /\ queue' \in [Node -> [Role -> Seq(ServerMessage)]]
           /\ Mail(s, role) \in ServerMessage
           /\ Mail(s, role).type = type
           /\ Mail(s, role).from \in Node
           /\ Mail(s, role).term \in Nat
<1>1. queue[s][role] \in Seq(ServerMessage) /\ queue[s][role] # <<>>
  BY DEF Receives
<1>2. /\ Head(queue[s][role]) \in ServerMessage
      /\ Tail(queue[s][role]) \in Seq(ServerMessage)
  BY <1>1
<1> QED
  BY <1>2, TypesOfMessages DEF Take, Mail, Receives

\* The watch channel of the role keeps holding a role (src/server.rs).
LEMMA SwitchTyped ==
    ASSUME state \in [Node -> Role], unseen \in [Node -> SUBSET Role],
           NEW s \in Node, NEW role \in Role, NEW seenBy \in SUBSET Role,
           SwitchTo(s, role, seenBy)
    PROVE  /\ state' \in [Node -> Role]
           /\ unseen' \in [Node -> SUBSET Role]
  BY DEF SwitchTo

LEMMA KeepTyped ==
    ASSUME state \in [Node -> Role], unseen \in [Node -> SUBSET Role],
           NEW s \in Node, NEW seenBy \in SUBSET Role, Keep(s, seenBy)
    PROVE  /\ state' \in [Node -> Role]
           /\ unseen' \in [Node -> SUBSET Role]
  BY SwitchTyped DEF Keep

\* The follower's locals stay well typed when it reaches the top of its loop.
LEMMA LoopTyped ==
    ASSUME follower \in [Node -> [watching : BOOLEAN, term : Nat]],
           currentTerm' \in [Node -> Nat], NEW s \in Node, FollowerLoops(s)
    PROVE  follower' \in [Node -> [watching : BOOLEAN, term : Nat]]
  BY DEF FollowerLoops, IdleFollower

-----------------------------------------------------------------------------
(***************************************************************************)
(* Typing and cursors.  The two go together: what a leader takes for the   *)
(* position of an entry is the position of the first entry that carries    *)
(* the index, and only because logs are numbered without gaps is that a    *)
(* position at all; and the commit index is a number only because the next *)
(* indices have a bound.                                                   *)
(***************************************************************************)
Inv == TypeOK /\ CursorsInLog

\* Steps that touch neither a log nor a next index keep the cursors in place.
LEMMA CursorsUnchanged ==
    ASSUME CursorsInLog, UNCHANGED <<log, nextIndex>>
    PROVE  CursorsInLog'
  BY DEF CursorsInLog

\* The commit index a follower adopts (follower.rs:98-107) is a number.
LEMMA AdoptedTyped ==
    ASSUME commitIndex \in [Node -> Nat], NEW s \in Node, NEW m \in AppendRequests
    PROVE  AdoptedCommit(s, m) \in Nat
<1>1. /\ m.leaderCommit \in Nat
      /\ m.entries \in Seq(LogEntries(Writes))
  BY DEF AppendRequests
<1>2. ASSUME m.entries # <<>> PROVE m.entries[Len(m.entries)].index \in Nat
  <2>1. Len(m.entries) \in DOMAIN m.entries
    BY <1>1, <1>2
  <2>2. m.entries[Len(m.entries)] \in LogEntries(Writes)
    BY <1>1, <2>1
  <2> QED BY <2>2 DEF LogEntries
<1> QED
  BY <1>1, <1>2 DEF AdoptedCommit, LastIndexOr

\* Every step of the follower actor keeps Inv.
LEMMA FollowerKeepsInv ==
    ASSUME Inv, NEW s \in Node, FollowerStep(s)
    PROVE  Inv'
<1> DEFINE m == Mail(s, "Follower")
<1> USE DEF Inv, TypeOK, Role
<1>1. CASE FollowerTimesOut(s)
  <2>1. CursorsInLog'
    BY <1>1, CursorsUnchanged DEF FollowerTimesOut, persistentVars, volatileVars
  <2>2. state' \in [Node -> Role] /\ unseen' \in [Node -> SUBSET Role]
    BY <1>1, SwitchTyped DEF FollowerTimesOut
  <2>3. follower' \in [Node -> [watching : BOOLEAN, term : Nat]]
    BY <1>1, LoopTyped DEF FollowerTimesOut, persistentVars
  <2> QED
    BY <1>1, <2>1, <2>2, <2>3 DEF FollowerTimesOut, persistentVars, volatileVars,
       channelVars
<1>2. CASE FollowerSeesChange(s)
  <2>1. CursorsInLog'
    BY <1>2, CursorsUnchanged DEF FollowerSeesChange, persistentVars, volatileVars
  <2>2. state' \in [Node -> Role] /\ unseen' \in [Node -> SUBSET Role]
    BY <1>2, KeepTyped DEF FollowerSeesChange
  <2>3. follower' \in [Node -> [watching : BOOLEAN, term : Nat]]
    BY <1>2, LoopTyped DEF FollowerSeesChange, persistentVars
  <2> QED
    BY <1>2, <2>1, <2>2, <2>3 DEF FollowerSeesChange, persistentVars, volatileVars,
       channelVars
<1>3. CASE FollowerGrantsVote(s)
  <2>1. /\ queue' \in [Node -> [Role -> Seq(ServerMessage)]]
        /\ m.from \in Node /\ m.term \in Nat
    BY <1>3, TakeTyped DEF FollowerGrantsVote, FollowerReceives
  <2>2. state' \in [Node -> Role] /\ unseen' \in [Node -> SUBSET Role]
    BY <1>3, SwitchTyped DEF FollowerGrantsVote
  <2>3. /\ currentTerm' \in [Node -> Nat]
        /\ votedFor' \in [Node -> Node \cup {NoVote}]
    BY <1>3, <2>1 DEF FollowerGrantsVote
  <2>4. follower' \in [Node -> [watching : BOOLEAN, term : Nat]]
    BY <1>3, <2>3, LoopTyped DEF FollowerGrantsVote
  <2>5. inbox' \in [Node -> Seq(ServerMessage \cup ClientRequests)]
    BY <1>3, <2>1, AnswerTyped DEF FollowerGrantsVote
  <2>6. CursorsInLog'
    BY <1>3, CursorsUnchanged DEF FollowerGrantsVote, volatileVars
  <2> QED
    BY <1>3, <2>1, <2>2, <2>3, <2>4, <2>5, <2>6 DEF FollowerGrantsVote, volatileVars
<1>4. CASE FollowerRefusesVote(s)
  <2>1. /\ queue' \in [Node -> [Role -> Seq(ServerMessage)]]
        /\ m.from \in Node
    BY <1>4, TakeTyped DEF FollowerRefusesVote, FollowerReceives
  <2>2. state' \in [Node -> Role] /\ unseen' \in [Node -> SUBSET Role]
    BY <1>4, KeepTyped DEF FollowerRefusesVote
  <2>3. follower' \in [Node -> [watching : BOOLEAN, term : Nat]]
    BY <1>4, LoopTyped DEF FollowerRefusesVote, persistentVars
  <2>4. inbox' \in [Node -> Seq(ServerMessage \cup ClientRequests)]
    BY <1>4, <2>1, AnswerTyped DEF FollowerRefusesVote
  <2>5. CursorsInLog'
    BY <1>4, CursorsUnchanged DEF FollowerRefusesVote, persistentVars, volatileVars
  <2> QED
    BY <1>4, <2>1, <2>2, <2>3, <2>4, <2>5 DEF FollowerRefusesVote, persistentVars,
       volatileVars
<1>5. CASE FollowerFollowsLeader(s)
  <2>1. /\ queue' \in [Node -> [Role -> Seq(ServerMessage)]]
        /\ m.from \in Node /\ m.term \in Nat
        /\ m \in AppendRequests
    BY <1>5, TakeTyped, TypesOfMessages DEF FollowerFollowsLeader, FollowerReceives
  <2>2. state' \in [Node -> Role] /\ unseen' \in [Node -> SUBSET Role]
    BY <1>5, KeepTyped DEF FollowerFollowsLeader
  <2>3. /\ currentTerm' \in [Node -> Nat]
        /\ votedFor' \in [Node -> Node \cup {NoVote}]
    BY <1>5, <2>1 DEF FollowerFollowsLeader
  <2>4. commitIndex' \in [Node -> Nat]
    BY <1>5, <2>1, AdoptedTyped DEF FollowerFollowsLeader
  <2>5. follower' \in [Node -> [watching : BOOLEAN, term : Nat]]
    BY <1>5, <2>3, LoopTyped DEF FollowerFollowsLeader
  <2>6. inbox' \in [Node -> Seq(ServerMessage \cup ClientRequests)]
    <3>1. Consistent(s, m) \in BOOLEAN
      BY DEF Consistent, Holds
    <3> QED BY <1>5, <2>1, <3>1, AnswerTyped DEF FollowerFollowsLeader
  <2>7. CursorsInLog'
    BY <1>5, CursorsUnchanged DEF FollowerFollowsLeader
  <2> QED
    BY <1>5, <2>1, <2>2, <2>3, <2>4, <2>5, <2>6, <2>7 DEF FollowerFollowsLeader
<1>6. CASE FollowerRejectsStaleLeader(s)
  <2>1. /\ queue' \in [Node -> [Role -> Seq(ServerMessage)]]
        /\ m.from \in Node
    BY <1>6, TakeTyped DEF FollowerRejectsStaleLeader, FollowerReceives
  <2>2. state' \in [Node -> Role] /\ unseen' \in [Node -> SUBSET Role]
    BY <1>6, KeepTyped DEF FollowerRejectsStaleLeader
  <2>3. follower' \in [Node -> [watching : BOOLEAN, term : Nat]]
    BY <1>6, LoopTyped DEF FollowerRejectsStaleLeader, persistentVars
  <2>4. inbox' \in [Node -> Seq(ServerMessage \cup ClientRequests)]
    BY <1>6, <2>1, AnswerTyped DEF FollowerRejectsStaleLeader
  <2>5. CursorsInLog'
    BY <1>6, CursorsUnchanged DEF FollowerRejectsStaleLeader, persistentVars,
       volatileVars
  <2> QED
    BY <1>6, <2>1, <2>2, <2>3, <2>4, <2>5 DEF FollowerRejectsStaleLeader,
       persistentVars, volatileVars
<1>7. CASE FollowerDropsVote(s)
  <2>1. queue' \in [Node -> [Role -> Seq(ServerMessage)]]
    BY <1>7, TakeTyped DEF FollowerDropsVote, FollowerReceives
  <2>2. state' \in [Node -> Role] /\ unseen' \in [Node -> SUBSET Role]
    BY <1>7, KeepTyped DEF FollowerDropsVote
  <2>3. follower' \in [Node -> [watching : BOOLEAN, term : Nat]]
    BY <1>7, LoopTyped DEF FollowerDropsVote, persistentVars
  <2>4. CursorsInLog'
    BY <1>7, CursorsUnchanged DEF FollowerDropsVote, persistentVars, volatileVars
  <2> QED
    BY <1>7, <2>1, <2>2, <2>3, <2>4 DEF FollowerDropsVote, persistentVars,
       volatileVars
<1>8. CASE FollowerPanics(s)
  <2>1. queue' \in [Node -> [Role -> Seq(ServerMessage)]]
    BY <1>8, TakeTyped DEF FollowerPanics, FollowerReceives
  <2>2. CursorsInLog'
    BY <1>8, CursorsUnchanged DEF FollowerPanics, Panic, persistentVars, volatileVars
  <2> QED
    BY <1>8, <2>1, <2>2 DEF FollowerPanics, Panic, PanicReason, roleVars,
       persistentVars, volatileVars, actorVars
<1> QED
  BY <1>1, <1>2, <1>3, <1>4, <1>5, <1>6, <1>7, <1>8 DEF FollowerStep

\* Every step of the candidate actor keeps Inv.
LEMMA CandidateKeepsInv ==
    ASSUME Inv, NEW s \in Node, CandidateStep(s)
    PROVE  Inv'
<1> DEFINE m == Mail(s, "Candidate")
<1> USE DEF Inv, TypeOK, Role
<1>1. CASE CandidateCampaigns(s)
  <2>1. state' \in [Node -> Role] /\ unseen' \in [Node -> SUBSET Role]
    BY <1>1, KeepTyped DEF CandidateCampaigns
  <2>2. outbox' \in [Node -> SUBSET Parcel]
    <3>1. currentTerm[s] + 1 \in Nat
      OBVIOUS
    <3>2. RequestVote(s, currentTerm[s] + 1) \in VoteRequests
      BY <3>1, MessageTypes
    <3> DEFINE parcels == {[to |-> p, message |-> RequestVote(s, currentTerm[s] + 1)] :
                              p \in Peers(s)}
    <3>3. parcels \subseteq Parcel
      BY <3>2 DEF Parcel, Peers
    <3>4. outbox' = [outbox EXCEPT ![s] = @ \cup parcels]
      BY <1>1 DEF CandidateCampaigns
    <3> HIDE DEF parcels
    <3> QED BY <3>3, <3>4
  <2>3. CursorsInLog'
    BY <1>1, CursorsUnchanged DEF CandidateCampaigns, volatileVars
  <2>4. /\ currentTerm' \in [Node -> Nat]
        /\ votedFor' \in [Node -> Node \cup {NoVote}]
        /\ candidate' \in [Node -> [campaigning : BOOLEAN, term : Nat, votes : Nat]]
    BY <1>1 DEF CandidateCampaigns
  <2> QED
    BY <1>1, <2>1, <2>2, <2>3, <2>4 DEF CandidateCampaigns, volatileVars
<1>2. CASE CandidateStandsDown(s)
  <2>1. state' \in [Node -> Role] /\ unseen' \in [Node -> SUBSET Role]
    BY <1>2, KeepTyped DEF CandidateStandsDown
  <2>2. CursorsInLog'
    BY <1>2, CursorsUnchanged DEF CandidateStandsDown, persistentVars, volatileVars
  <2> QED
    BY <1>2, <2>1, <2>2 DEF CandidateStandsDown, IdleCandidate, persistentVars,
       volatileVars, channelVars
<1>3. ASSUME NEW type, CandidateReceives(s, type)
      PROVE  /\ queue' \in [Node -> [Role -> Seq(ServerMessage)]]
             /\ m.from \in Node /\ m.term \in Nat
  BY <1>3, TakeTyped DEF CandidateReceives
<1>4. ASSUME NEW type, CandidateReceives(s, type), NEW response,
             CandidateYields(s, m, response),
             \/ response = AppendEntriesResponse(s, candidate[s].term, TRUE)
             \/ response = RequestVoteResponse(s, candidate[s].term, TRUE)
      PROVE  Inv'
  <2>1. /\ queue' \in [Node -> [Role -> Seq(ServerMessage)]]
        /\ m.from \in Node /\ m.term \in Nat
    BY <1>4, <1>3
  <2>2. state' \in [Node -> Role] /\ unseen' \in [Node -> SUBSET Role]
    BY <1>4, SwitchTyped DEF CandidateYields
  <2>3. /\ currentTerm' \in [Node -> Nat]
        /\ votedFor' \in [Node -> Node \cup {NoVote}]
    BY <1>4, <2>1 DEF CandidateYields
  <2>4. inbox' \in [Node -> Seq(ServerMessage \cup ClientRequests)]
    <3>1. candidate[s].term \in Nat /\ Send(m.from, response)
      BY <1>4 DEF CandidateYields
    <3>2. CASE response = AppendEntriesResponse(s, candidate[s].term, TRUE)
      BY <2>1, <3>1, <3>2, AnswerTyped
    <3>3. CASE response = RequestVoteResponse(s, candidate[s].term, TRUE)
      BY <2>1, <3>1, <3>3, AnswerTyped
    <3> QED BY <1>4, <3>2, <3>3
  <2>5. CursorsInLog'
    BY <1>4, CursorsUnchanged DEF CandidateYields, volatileVars
  <2> QED
    BY <1>4, <2>1, <2>2, <2>3, <2>4, <2>5 DEF CandidateYields, volatileVars, actorVars
<1>5. ASSUME NEW type, CandidateReceives(s, type), NEW response,
             CandidateRefuses(s, m, response),
             \/ response = AppendEntriesResponse(s, candidate[s].term, FALSE)
             \/ response = RequestVoteResponse(s, candidate[s].term, FALSE)
      PROVE  Inv'
  <2>1. /\ queue' \in [Node -> [Role -> Seq(ServerMessage)]]
        /\ m.from \in Node
    BY <1>5, <1>3
  <2>2. inbox' \in [Node -> Seq(ServerMessage \cup ClientRequests)]
    <3>1. candidate[s].term \in Nat /\ Send(m.from, response)
      BY <1>5 DEF CandidateRefuses
    <3>2. CASE response = AppendEntriesResponse(s, candidate[s].term, FALSE)
      BY <2>1, <3>1, <3>2, AnswerTyped
    <3>3. CASE response = RequestVoteResponse(s, candidate[s].term, FALSE)
      BY <2>1, <3>1, <3>3, AnswerTyped
    <3> QED BY <1>5, <3>2, <3>3
  <2>3. CursorsInLog'
    BY <1>5, CursorsUnchanged DEF CandidateRefuses, persistentVars, volatileVars
  <2> QED
    BY <1>5, <2>1, <2>2, <2>3 DEF CandidateRefuses, roleVars, persistentVars,
       volatileVars, actorVars
<1>6. CASE CandidateFollowsLeader(s)
  BY <1>6, <1>4 DEF CandidateFollowsLeader
<1>7. CASE CandidateRejectsStaleLeader(s)
  BY <1>7, <1>5 DEF CandidateRejectsStaleLeader
<1>8. CASE CandidateGrantsVote(s)
  BY <1>8, <1>4 DEF CandidateGrantsVote
<1>9. CASE CandidateRefusesVote(s)
  BY <1>9, <1>5 DEF CandidateRefusesVote
<1>10. CASE CandidateWins(s)
  <2>1. queue' \in [Node -> [Role -> Seq(ServerMessage)]]
    BY <1>10, <1>3 DEF CandidateWins
  <2>2. state' \in [Node -> Role] /\ unseen' \in [Node -> SUBSET Role]
    BY <1>10, SwitchTyped DEF CandidateWins
  <2>3. CursorsInLog'
    BY <1>10, CursorsUnchanged DEF CandidateWins, persistentVars, volatileVars
  <2> QED
    BY <1>10, <2>1, <2>2, <2>3 DEF CandidateWins, IdleCandidate, persistentVars,
       volatileVars
<1>11. CASE CandidateCountsVote(s)
  <2>1. queue' \in [Node -> [Role -> Seq(ServerMessage)]]
    BY <1>11, <1>3 DEF CandidateCountsVote
  <2>2. CursorsInLog'
    BY <1>11, CursorsUnchanged DEF CandidateCountsVote, persistentVars, volatileVars
  <2>3. candidate' \in [Node -> [campaigning : BOOLEAN, term : Nat, votes : Nat]]
    <3>1. /\ candidate[s].votes \in Nat
          /\ candidate[s].votes + 1 \in Nat
      OBVIOUS
    <3>2. PICK v \in Nat : candidate' = [candidate EXCEPT ![s].votes = v]
      BY <1>11, <3>1 DEF CandidateCountsVote
    <3> QED BY ZenonT(60), <3>2
  <2> QED
    BY <1>11, <2>1, <2>2, <2>3 DEF CandidateCountsVote, roleVars, persistentVars,
       volatileVars
<1>12. CASE CandidatePanics(s)
  <2>1. queue' \in [Node -> [Role -> Seq(ServerMessage)]]
    BY <1>12, <1>3 DEF CandidatePanics
  <2>2. CursorsInLog'
    BY <1>12, CursorsUnchanged DEF CandidatePanics, Panic, persistentVars,
       volatileVars
  <2> QED
    BY <1>12, <2>1, <2>2 DEF CandidatePanics, Panic, PanicReason, roleVars,
       persistentVars, volatileVars, actorVars
<1> QED
  BY <1>1, <1>2, <1>6, <1>7, <1>8, <1>9, <1>10, <1>11, <1>12 DEF CandidateStep

\* In a state that satisfies Inv every log is numbered.
LEMMA LogsNumbered ==
    ASSUME Inv, NEW s \in Node
    PROVE  /\ log[s] \in Seq(LogEntries(Writes))
           /\ Numbered(log[s])
           /\ LastIndex(log[s]) = Len(log[s])
           /\ Len(log[s]) \in Nat
  BY LastIndexIsLength DEF Inv, TypeOK, CursorsInLog, Numbered

\* The request a leader builds for a peer whose next index lies in the leader's
\* log or just past it (leader.rs:34-64): well typed, with the entries from the
\* next index on and the index before it.
LEMMA AppendEntriesForInLog ==
    ASSUME Inv, NEW s \in Node, NEW p, NEW next,
           next[p] \in 1 .. Len(log[s]) + 1
    PROVE  LET m == AppendEntriesFor(s, p, next) IN
           /\ m \in AppendRequests
           /\ m.from = s
           /\ m.prevLogIndex = next[p] - 1
           /\ m.prevLogTerm = IF next[p] = 1 THEN 0 ELSE log[s][next[p] - 1].term
           /\ m.entries = SubSeq(log[s], next[p], Len(log[s]))
           /\ m.leaderCommit = commitIndex[s]
<1> DEFINE prev == next[p] - 1
           known == next[p] > 0 /\ HasIndex(log[s], prev)
           prevTerm == IF next[p] = 1 THEN 0 ELSE log[s][prev].term
           entries == SubSeq(log[s], next[p], Len(log[s]))
<1>1. /\ log[s] \in Seq(LogEntries(Writes))
      /\ Numbered(log[s])
      /\ Len(log[s]) \in Nat
  BY LogsNumbered
<1>2. next[p] \in Nat \ {0} /\ prev \in Nat
  BY <1>1
<1>3. known <=> prev # 0
  BY <1>1, <1>2, FoundInPlace
<1>4. (IF known THEN prev ELSE 0) = prev
  BY <1>2, <1>3
<1>5. (IF known THEN log[s][PositionOf(log[s], prev)].term ELSE 0) = prevTerm
  BY <1>1, <1>2, <1>3, FoundInPlace
<1>6. EntriesFrom(log[s], next[p]) = entries
  BY <1>1, <1>2, EntriesFromInPlace
<1>7. entries \in Seq(LogEntries(Writes))
  BY <1>1, <1>2
<1>8. prevTerm \in Nat
  <2>1. prev # 0 => log[s][prev] \in LogEntries(Writes)
    BY <1>1, <1>2
  <2> QED BY <1>2, <2>1 DEF LogEntries
<1>9. commitIndex[s] \in Nat /\ currentTerm[s] \in Nat
  BY DEF Inv, TypeOK
<1> HIDE DEF prev, prevTerm, entries
<1>10. AppendEntriesFor(s, p, next) =
          AppendEntries(s, prev, prevTerm, entries, commitIndex[s], currentTerm[s])
  BY <1>4, <1>5, <1>6 DEF AppendEntriesFor, prev
<1> DEFINE m == AppendEntries(s, prev, prevTerm, entries, commitIndex[s], currentTerm[s])
<1>11. /\ m \in AppendRequests
       /\ m.from = s
       /\ m.prevLogIndex = prev
       /\ m.prevLogTerm = prevTerm
       /\ m.entries = entries
       /\ m.leaderCommit = commitIndex[s]
  <2>1. prev \in Nat
    BY <1>2
  <2> QED BY ONLY <2>1, <1>7, <1>8, <1>9, s \in Node DEF AppendEntries, AppendRequests
<1>12. AppendEntriesFor(s, p, next) = m
  BY <1>10
<1> HIDE DEF m
<1> QED
  BY <1>11, <1>12 DEF prev, prevTerm, entries

\* A round of heartbeats is well typed.
LEMMA HeartbeatTyped ==
    ASSUME Inv, NEW s \in Node, NEW next, Heartbeat(s, next),
           \A p \in Peers(s) : next[p] \in 1 .. Len(log[s]) + 1
    PROVE  outbox' \in [Node -> SUBSET Parcel]
<1> DEFINE parcels == {[to |-> p, message |-> AppendEntriesFor(s, p, next)] :
                          p \in Peers(s)}
<1>1. parcels \subseteq Parcel
  <2>1. \A p \in Peers(s) : AppendEntriesFor(s, p, next) \in AppendRequests
    BY AppendEntriesForInLog
  <2> QED BY <2>1 DEF Parcel, Peers
<1>2. outbox' = [outbox EXCEPT ![s] = @ \cup parcels]
  BY DEF Heartbeat
<1> HIDE DEF parcels
<1> QED
  BY <1>1, <1>2 DEF Inv, TypeOK

\* Every step of the leader actor keeps Inv.
LEMMA LeaderKeepsInv ==
    ASSUME Inv, NEW s \in Node, LeaderStep(s)
    PROVE  Inv'
<1> DEFINE m == Mail(s, "Leader")
<1> USE DEF Role
<1>a. TypeOK /\ CursorsInLog
  BY DEF Inv
<1>b. /\ Len(log[s]) \in Nat
      /\ LastIndex(log[s]) = Len(log[s])
  BY LogsNumbered
<1>1. CASE LeaderTakesOffice(s)
  <2> DEFINE next == NewNextIndices(Peers(s), LastIndex(log[s]))
  <2>1. /\ next \in [Peers(s) -> Nat]
        /\ \A p \in Peers(s) : next[p] \in 1 .. Len(log[s]) + 1
    BY <1>b DEF NewNextIndices
  <2>2. state' \in [Node -> Role] /\ unseen' \in [Node -> SUBSET Role]
    BY <1>1, <1>a, KeepTyped DEF LeaderTakesOffice, TypeOK
  <2>3. outbox' \in [Node -> SUBSET Parcel]
    BY <1>1, <2>1, HeartbeatTyped DEF LeaderTakesOffice
  <2>4. /\ nextIndex' = [n \in Node |-> nextIndex'[n]]
        /\ \A n \in Node : nextIndex'[n] \in [Peers(n) -> Nat]
        /\ \A n \in Node \ {s} : nextIndex'[n] = nextIndex[n]
        /\ nextIndex'[s] = next
    BY <1>1, <1>a, <2>1 DEF LeaderTakesOffice, TypeOK
  <2>5. UNCHANGED log
    BY <1>1 DEF LeaderTakesOffice, persistentVars
  <2>6. CursorsInLog'
    BY <1>a, <2>1, <2>4, <2>5 DEF CursorsInLog
  <2> QED
    BY <1>1, <1>a, <2>2, <2>3, <2>4, <2>6 DEF LeaderTakesOffice, Inv, TypeOK,
       persistentVars
<1>2. CASE LeaderOverlooksChange(s)
  <2>1. state' \in [Node -> Role] /\ unseen' \in [Node -> SUBSET Role]
    BY <1>2, <1>a, KeepTyped DEF LeaderOverlooksChange, TypeOK
  <2>2. CursorsInLog'
    BY <1>2, <1>a, CursorsUnchanged DEF LeaderOverlooksChange, persistentVars,
       volatileVars
  <2> QED
    BY <1>2, <1>a, <2>1, <2>2 DEF LeaderOverlooksChange, Inv, TypeOK, persistentVars,
       volatileVars, channelVars, actorVars
<1>3. CASE LeaderBeats(s)
  <2>1. \A p \in Peers(s) : nextIndex[s][p] \in 1 .. Len(log[s]) + 1
    BY <1>a DEF CursorsInLog
  <2>2. state' \in [Node -> Role] /\ unseen' \in [Node -> SUBSET Role]
    BY <1>3, <1>a, KeepTyped DEF LeaderBeats, TypeOK
  <2>3. outbox' \in [Node -> SUBSET Parcel]
    BY <1>3, <2>1, HeartbeatTyped DEF LeaderBeats
  <2>4. CursorsInLog'
    BY <1>3, <1>a, CursorsUnchanged DEF LeaderBeats, persistentVars, volatileVars
  <2> QED
    BY <1>3, <1>a, <2>2, <2>3, <2>4 DEF LeaderBeats, Inv, TypeOK, persistentVars,
       volatileVars, actorVars
<1>4. CASE LeaderStandsDown(s)
  <2>1. state' \in [Node -> Role] /\ unseen' \in [Node -> SUBSET Role]
    BY <1>4, <1>a, KeepTyped DEF LeaderStandsDown, TypeOK
  <2>2. CursorsInLog'
    BY <1>4, <1>a, CursorsUnchanged DEF LeaderStandsDown, persistentVars,
       volatileVars
  <2> QED
    BY <1>4, <1>a, <2>1, <2>2 DEF LeaderStandsDown, Inv, TypeOK, persistentVars,
       volatileVars, channelVars
<1>5. ASSUME NEW type, LeaderReceives(s, type)
      PROVE  /\ queue' \in [Node -> [Role -> Seq(ServerMessage)]]
             /\ m.from \in Node /\ m.term \in Nat
  BY <1>5, <1>a, TakeTyped DEF LeaderReceives, TypeOK
<1>6. ASSUME NEW from, NEW index,
             from \in Peers(s) => index \in 1 .. Len(log[s]) + 1,
             nextIndex' = [nextIndex EXCEPT ![s][from] = index], UNCHANGED log
      PROVE  /\ nextIndex' = [n \in Node |-> nextIndex'[n]]
             /\ \A n \in Node : nextIndex'[n] \in [Peers(n) -> Nat]
             /\ CursorsInLog'
  <2>1. nextIndex' = [n \in Node |-> nextIndex'[n]]
    BY <1>a, <1>6 DEF TypeOK
  <2>2. \A n \in Node \ {s} : nextIndex'[n] = nextIndex[n]
    BY <1>a, <1>6 DEF TypeOK
  <2>3. nextIndex'[s] = [nextIndex[s] EXCEPT ![from] = index]
    BY <1>a, <1>6 DEF TypeOK
  <2>4. /\ nextIndex'[s] = [p \in Peers(s) |-> nextIndex'[s][p]]
        /\ \A p \in Peers(s) :
              nextIndex'[s][p] = IF p = from THEN index ELSE nextIndex[s][p]
    <3>1. nextIndex[s] \in [Peers(s) -> Nat]
      BY <1>a DEF TypeOK
    <3> QED BY <2>3, <3>1
  <2>5. /\ nextIndex'[s] \in [Peers(s) -> Nat]
        /\ \A p \in Peers(s) : nextIndex'[s][p] \in 1 .. Len(log[s]) + 1
    <3>1. ASSUME NEW p \in Peers(s)
          PROVE  nextIndex'[s][p] \in 1 .. Len(log[s]) + 1
      <4>1. nextIndex[s][p] \in 1 .. Len(log[s]) + 1
        BY <1>a DEF CursorsInLog
      <4> QED BY <1>6, <2>4, <4>1
    <3>2. 1 .. Len(log[s]) + 1 \subseteq Nat
      BY <1>b
    <3> QED BY <2>4, <3>1, <3>2
  <2>6. \A n \in Node : nextIndex'[n] \in [Peers(n) -> Nat]
    BY <1>a, <2>2, <2>5 DEF TypeOK
  <2>7. CursorsInLog'
    BY <1>a, <1>6, <2>2, <2>5 DEF CursorsInLog
  <2> QED BY <2>1, <2>6, <2>7
<1>7. CASE LeaderRecordsSuccess(s)
  <2>1. /\ queue' \in [Node -> [Role -> Seq(ServerMessage)]]
        /\ m.from \in Node
    BY <1>7, <1>5 DEF LeaderRecordsSuccess
  <2>2. LastIndex(log[s]) + 1 \in 1 .. Len(log[s]) + 1
    BY <1>b
  <2>3. UNCHANGED log
    BY <1>7 DEF LeaderRecordsSuccess, persistentVars
  <2>4. nextIndex' = [nextIndex EXCEPT ![s][m.from] = LastIndex(log[s]) + 1]
    BY <1>7 DEF LeaderRecordsSuccess
  <2>5. /\ nextIndex' = [n \in Node |-> nextIndex'[n]]
        /\ \A n \in Node : nextIndex'[n] \in [Peers(n) -> Nat]
        /\ CursorsInLog'
    BY <1>6, <2>1, <2>2, <2>3, <2>4
  <2>6. HighestCommittableIndex(nextIndex[s]) \in Nat
    <3>1. IsFiniteSet(Peers(s))
      BY NodeAssumption, FS_RemoveElement DEF Peers
    <3>2. /\ nextIndex[s] \in [Peers(s) -> Nat]
          /\ \A p \in Peers(s) : nextIndex[s][p] <= Len(log[s]) + 1
      BY <1>a, <1>b DEF TypeOK, CursorsInLog
    <3>3. Len(log[s]) + 1 \in Nat
      BY <1>b
    <3> QED BY <3>1, <3>2, <3>3, CommittableBelowSomePeer
  <2>7. commitIndex' \in [Node -> Nat]
    BY <1>7, <1>a, <2>6 DEF LeaderRecordsSuccess, TypeOK
  <2> QED
    BY <1>7, <1>a, <2>1, <2>5, <2>7 DEF LeaderRecordsSuccess, Inv, TypeOK, roleVars,
       persistentVars, actorVars
<1>8. CASE LeaderRecordsFailure(s)
  <2>1. /\ queue' \in [Node -> [Role -> Seq(ServerMessage)]]
        /\ m.from \in Node
    BY <1>8, <1>5 DEF LeaderRecordsFailure
  <2>2. UNCHANGED log
    BY <1>8 DEF LeaderRecordsFailure, persistentVars
  <2>3. /\ nextIndex' = [n \in Node |-> nextIndex'[n]]
        /\ \A n \in Node : nextIndex'[n] \in [Peers(n) -> Nat]
        /\ CursorsInLog'
    <3>1. nextIndex' = [nextIndex EXCEPT ![s][m.from] = Decrement(nextIndex[s][m.from])]
      BY <1>8 DEF LeaderRecordsFailure
    <3>2. m.from \in Peers(s) =>
             Decrement(nextIndex[s][m.from]) \in 1 .. Len(log[s]) + 1
      BY <1>a, <1>b DEF CursorsInLog, Decrement
    <3> QED BY <1>6, <2>2, <3>1, <3>2
  <2> QED
    BY <1>8, <1>a, <2>1, <2>3 DEF LeaderRecordsFailure, Inv, TypeOK, roleVars,
       persistentVars, actorVars
<1>9. CASE LeaderDropsVote(s)
  <2>1. queue' \in [Node -> [Role -> Seq(ServerMessage)]]
    BY <1>9, <1>5 DEF LeaderDropsVote
  <2>2. CursorsInLog'
    BY <1>9, <1>a, CursorsUnchanged DEF LeaderDropsVote, persistentVars, volatileVars
  <2> QED
    BY <1>9, <1>a, <2>1, <2>2 DEF LeaderDropsVote, Inv, TypeOK, roleVars,
       persistentVars, volatileVars, actorVars
<1>10. CASE LeaderPanics(s)
  <2>1. queue' \in [Node -> [Role -> Seq(ServerMessage)]]
    BY <1>10, <1>5 DEF LeaderPanics
  <2>2. CursorsInLog'
    BY <1>10, <1>a, CursorsUnchanged DEF LeaderPanics, Panic, persistentVars,
       volatileVars
  <2> QED
    BY <1>10, <1>a, <2>1, <2>2 DEF LeaderPanics, Panic, PanicReason, Inv, TypeOK,
       roleVars, persistentVars, volatileVars, actorVars
<1> QED
  BY <1>1, <1>2, <1>3, <1>4, <1>7, <1>8, <1>9, <1>10 DEF LeaderStep

\* Every step of the root actor keeps Inv.
LEMMA RootKeepsInv ==
    ASSUME Inv, NEW s \in Node, RootStep(s)
    PROVE  Inv'
<1> DEFINE m == Head(inbox[s])
<1> USE DEF Inv, TypeOK, Role
<1>1. CursorsInLog'
  BY CursorsUnchanged DEF RootStep, RootRoutesServerMessage,
     RootRoutesClientMessage, persistentVars, volatileVars
<1>2. /\ m \in ServerMessage \cup ClientRequests
      /\ Tail(inbox[s]) \in Seq(ServerMessage \cup ClientRequests)
  BY SMTT(30) DEF RootStep, RootRoutesServerMessage, RootRoutesClientMessage
<1>3. inbox' \in [Node -> Seq(ServerMessage \cup ClientRequests)]
  BY <1>2 DEF RootStep, RootRoutesServerMessage, RootRoutesClientMessage
<1>4. CASE RootRoutesServerMessage(s)
  <2>1. m \in ServerMessage
    BY <1>2, <1>4 DEF RootRoutesServerMessage, FromClient, ClientRequests
  <2>2. Append(queue[s][state[s]], m) \in Seq(ServerMessage)
    BY <2>1
  <2>3. queue' \in [Node -> [Role -> Seq(ServerMessage)]]
    BY <1>4, <2>2 DEF RootRoutesServerMessage
  <2> QED
    BY <1>1, <1>3, <1>4, <2>3 DEF RootRoutesServerMessage, roleVars, persistentVars,
       volatileVars, actorVars
<1>5. CASE RootRoutesClientMessage(s)
  <2>1. m.request \in Request
    <3>1. m \in ClientRequests
      BY <1>2, <1>5, TypesOfMessages DEF RootRoutesClientMessage, FromClient
    <3> QED BY <3>1 DEF ClientRequests
  <2>2. clientQueue' \in [Node -> Seq(Request)]
    BY <1>5, <2>1 DEF RootRoutesClientMessage
  <2> QED
    BY <1>1, <1>3, <1>5, <2>2 DEF RootRoutesClientMessage, roleVars, persistentVars,
       volatileVars, actorVars
<1> QED
  BY <1>4, <1>5 DEF RootStep

\* Every delivery by a spawned task keeps Inv.
LEMMA TransmitKeepsInv ==
    ASSUME Inv, NEW s \in Node, Transmit(s)
    PROVE  Inv'
<1> USE DEF Inv, TypeOK
<1>1. PICK parcel \in outbox[s] :
          /\ outbox' = [outbox EXCEPT ![s] = @ \ {parcel}]
          /\ Send(parcel.to, parcel.message)
  BY DEF Transmit
<1>2. /\ parcel.to \in Node
      /\ parcel.message \in ServerMessage \cup ClientRequests
  <2>1. parcel \in Parcel
    OBVIOUS
  <2> QED BY <2>1 DEF Parcel, ServerMessage
<1>3. inbox' \in [Node -> Seq(ServerMessage \cup ClientRequests)]
  BY <1>1, <1>2, SendTyped
<1>4. outbox' \in [Node -> SUBSET Parcel]
  BY <1>1
<1>5. CursorsInLog'
  BY CursorsUnchanged DEF Transmit, persistentVars, volatileVars
<1> QED
  BY <1>3, <1>4, <1>5 DEF Transmit, roleVars, persistentVars, volatileVars, actorVars

\* Every step of a client keeps Inv.
LEMMA ClientKeepsInv ==
    ASSUME Inv, NEW r \in Request, ClientSends(r)
    PROVE  Inv'
<1> USE DEF Inv, TypeOK
<1>1. PICK s \in Node : Send(s, ClientRequest(r))
  BY DEF ClientSends
<1>2. ClientRequest(r) \in ServerMessage \cup ClientRequests
  BY DEF ClientRequest, ClientRequests
<1>3. inbox' \in [Node -> Seq(ServerMessage \cup ClientRequests)]
  BY <1>1, <1>2, SendTyped
<1>4. CursorsInLog'
  BY CursorsUnchanged DEF ClientSends, persistentVars, volatileVars
<1>5. request' \in [Request -> {"unsent", "pending", "answered"}]
  BY DEF ClientSends
<1> QED
  BY <1>3, <1>4, <1>5 DEF ClientSends, roleVars, persistentVars, volatileVars, actorVars

\* Every step of the actor that answers clients keeps Inv.
LEMMA ClientRequestActorKeepsInv ==
    ASSUME Inv, NEW s \in Node, ClientRequestStep(s)
    PROVE  Inv'
<1> DEFINE r == Head(clientQueue[s])
<1>a. TypeOK /\ CursorsInLog
  BY DEF Inv
<1>b. /\ clientQueue' \in [Node -> Seq(Request)]
      /\ r \in Request
  <2>1. TakesRequest(s)
    BY DEF ClientRequestStep, LeaderAnswers, ServerForwards, ServerKnowsNoLeader
  <2>2. clientQueue[s] \in Seq(Request) /\ clientQueue[s] # <<>>
    BY <1>a, <2>1 DEF TypeOK, TakesRequest
  <2> QED BY <1>a, <2>1, <2>2 DEF TypeOK, TakesRequest
<1>1. CASE LeaderAnswers(s)
  <2> DEFINE longer == AppendCommand(log[s], currentTerm[s], r)
             entries == IF r \in Writes THEN longer ELSE log[s]
  <2>1. /\ entries \in Seq(LogEntries(Writes))
        /\ Numbered(entries)
        /\ Len(entries) \in Nat /\ Len(entries) >= Len(log[s])
        /\ Len(log[s]) \in Nat
    <3>1. /\ log[s] \in Seq(LogEntries(Writes)) /\ Numbered(log[s])
          /\ Len(log[s]) \in Nat
          /\ currentTerm[s] \in Nat
      BY <1>a, LogsNumbered DEF Inv, TypeOK
    <3>2. CASE r \in Writes
      <4>1. /\ longer \in Seq(LogEntries(Writes))
            /\ Numbered(longer)
            /\ Len(longer) = Len(log[s]) + 1
        BY ZenonT(60), <3>1, <3>2, AppendKeepsNumbers
      <4> HIDE DEF longer
      <4> QED BY <3>1, <3>2, <4>1
    <3>3. CASE r \notin Writes
      BY <3>1, <3>3
    <3> QED BY <3>2, <3>3
  <2>2. log' = [log EXCEPT ![s] = entries]
    BY <1>1 DEF LeaderAnswers
  <2> HIDE DEF entries
  <2>3. log' \in [Node -> Seq(LogEntries(Writes))]
    BY <1>a, <2>1, <2>2 DEF TypeOK
  <2>4. /\ log'[s] = entries
        /\ \A n \in Node \ {s} : log'[n] = log[n]
    BY <1>a, <2>2 DEF TypeOK
  <2>5. \A n \in Node : \A i \in DOMAIN log'[n] : log'[n][i].index = i
    BY <1>a, <2>1, <2>4 DEF CursorsInLog, Numbered
  <2>6. \A n \in Node : \A p \in Peers(n) : nextIndex[n][p] \in 1 .. Len(log'[n]) + 1
    BY <1>a, <2>1, <2>4 DEF CursorsInLog
  <2>7. CursorsInLog'
    BY <1>1, <2>5, <2>6 DEF CursorsInLog, LeaderAnswers, volatileVars
  <2>8. request' \in [Request -> {"unsent", "pending", "answered"}]
    BY <1>1, <1>a, <1>b DEF LeaderAnswers, TypeOK
  <2> QED
    BY <1>1, <1>a, <1>b, <2>3, <2>7, <2>8 DEF LeaderAnswers, Inv, TypeOK, roleVars,
       volatileVars, actorVars
<1>2. CASE ServerForwards(s)
  <2>1. /\ votedFor[s] \in Node
        /\ ClientRequest(r) \in ServerMessage \cup ClientRequests
    BY <1>2, <1>b DEF ServerForwards, Peers, ClientRequest, ClientRequests
  <2>2. inbox' \in [Node -> Seq(ServerMessage \cup ClientRequests)]
    BY <1>2, <1>a, <2>1, SendTyped DEF ServerForwards, TypeOK
  <2>3. CursorsInLog'
    BY <1>2, <1>a, CursorsUnchanged DEF ServerForwards, persistentVars, volatileVars
  <2> QED
    BY <1>2, <1>a, <1>b, <2>2, <2>3 DEF ServerForwards, Inv, TypeOK, roleVars,
       persistentVars, volatileVars, actorVars
<1>3. CASE ServerKnowsNoLeader(s)
  <2>1. CursorsInLog'
    BY <1>3, <1>a, CursorsUnchanged DEF ServerKnowsNoLeader, Panic, persistentVars,
       volatileVars
  <2> QED
    BY <1>3, <1>a, <1>b, <2>1 DEF ServerKnowsNoLeader, Panic, PanicReason, Inv,
       TypeOK, roleVars, persistentVars, volatileVars, actorVars
<1> QED
  BY <1>1, <1>2, <1>3 DEF ClientRequestStep

\* The cluster starts well typed, with empty logs and every next index at 1.
LEMMA InvInitially == Init => Inv
<1> SUFFICES ASSUME Init PROVE Inv
  OBVIOUS
<1>1. \A n \in Node : NewNextIndices(Peers(n), 0) \in [Peers(n) -> Nat]
  BY DEF NewNextIndices
<1>2. TypeOK
  BY <1>1 DEF Init, TypeOK, IdleCandidate, PanicReason, Role
<1>3. CursorsInLog
  BY DEF Init, CursorsInLog, NewNextIndices
<1> QED
  BY <1>2, <1>3 DEF Inv

\* Every step of the cluster keeps Inv.
LEMMA InvKept == Inv /\ [Next]_vars => Inv'
<1> SUFFICES ASSUME Inv, [Next]_vars PROVE Inv'
  OBVIOUS
<1>1. ASSUME NEW s \in Node, ServerStep(s) PROVE Inv'
  BY <1>1, RootKeepsInv, FollowerKeepsInv, CandidateKeepsInv, LeaderKeepsInv,
     ClientRequestActorKeepsInv, TransmitKeepsInv DEF ServerStep
<1>2. ASSUME NEW r \in Request, ClientSends(r) PROVE Inv'
  BY <1>2, ClientKeepsInv
<1>3. ASSUME UNCHANGED vars PROVE Inv'
  <2>1. CursorsInLog'
    BY <1>3, CursorsUnchanged DEF vars, Inv, persistentVars, volatileVars
  <2> QED
    BY <1>3, <2>1 DEF vars, Inv, TypeOK, roleVars, persistentVars, volatileVars,
       channelVars, actorVars
<1> QED
  BY <1>1, <1>2, <1>3 DEF Next, Halted

\* Every variable keeps its type, for any cluster: in particular the median of
\* the next indices exists whenever a leader looks for it.
THEOREM TypeCorrect == Spec => []TypeOK
<1>1. Inv => TypeOK
  BY DEF Inv
<1> QED
  BY <1>1, InvInitially, InvKept, PTL DEF Spec

\* Entry i of a log carries index i, and a leader's next indices stay within
\* its log or just past it (volatile_leader_state.rs, leader.rs:34-64, 143-166).
THEOREM CursorsStayInLog == Spec => []CursorsInLog
<1>1. Inv => CursorsInLog
  BY DEF Inv
<1> QED
  BY <1>1, InvInitially, InvKept, PTL DEF Spec
-----------------------------------------------------------------------------
(***************************************************************************)
(* Roles: the watch channel and the actors that follow it.                 *)
(***************************************************************************)
\* RolesFollowed, one server and one role at a time.
Followed(s) ==
    /\ "Follower" \in unseen[s] \/ (state[s] = "Follower" <=> follower[s].watching)
    /\ "Candidate" \in unseen[s]
          \/ (state[s] = "Candidate" <=> candidate[s].campaigning)
    /\ "Leader" \in unseen[s] \/ (state[s] = "Leader" <=> leading[s])

LEMMA RolesOneByOne ==
    ASSUME TypeOK
    PROVE  RolesFollowed <=> \A s \in Node : Followed(s)
<1>1. \A s \in Node : /\ Active(s, "Follower") = follower[s].watching
                      /\ Active(s, "Candidate") = candidate[s].campaigning
                      /\ Active(s, "Leader") = leading[s]
  BY DEF Active
<1>2. \A s \in Node : /\ follower[s].watching \in BOOLEAN
                      /\ candidate[s].campaigning \in BOOLEAN
                      /\ leading[s] \in BOOLEAN
  BY DEF TypeOK
<1> QED
  BY <1>1, <1>2 DEF RolesFollowed, Followed, Role

\* A step that changes neither a role, nor what is unseen of it, nor whether an
\* actor is at work, leaves the roles followed.
Unmoved(s) ==
    /\ state'[s] = state[s] /\ unseen'[s] = unseen[s]
    /\ follower'[s].watching = follower[s].watching
    /\ candidate'[s].campaigning = candidate[s].campaigning
    /\ leading'[s] = leading[s]

LEMMA UnmovedFollowed ==
    ASSUME NEW s, Followed(s), Unmoved(s)
    PROVE  Followed(s)'
  BY DEF Followed, Unmoved

\* What a write to the watch channel leaves of the obligations of an actor that
\* has not polled it: nothing, or the change itself.
LEMMA SwitchSeen ==
    ASSUME TypeOK, NEW s \in Node, NEW role \in Role, NEW seenBy \in SUBSET Role,
           SwitchTo(s, role, seenBy)
    PROVE  /\ state'[s] = role
           /\ \A r \in Role \ seenBy :
                 r \in unseen'[s] \/ (state'[s] = state[s] /\ r \notin unseen[s])
           /\ \A n \in Node \ {s} : state'[n] = state[n] /\ unseen'[n] = unseen[n]
  BY DEF SwitchTo, TypeOK

\* The follower actor: it polls its receiver at the top of its loop, whatever
\* brought it there.
LEMMA FollowerKeepsRoles ==
    ASSUME TypeOK, NEW s \in Node, FollowerStep(s), Followed(s)
    PROVE  /\ Followed(s)'
           /\ \A n \in Node \ {s} : Unmoved(n)
<1>1. CASE \E role \in Role : /\ SwitchTo(s, role, {"Follower"})
                              /\ FollowerLoops(s)
                              /\ UNCHANGED <<candidate, leading>>
  <2>1. PICK role \in Role : SwitchTo(s, role, {"Follower"})
    BY <1>1
  <2>2. follower'[s].watching <=> state'[s] = "Follower"
    BY <1>1 DEF FollowerLoops, IdleFollower, TypeOK
  <2>3. \A n \in Node \ {s} : follower'[n] = follower[n]
    BY <1>1 DEF FollowerLoops, TypeOK
  <2>4. UNCHANGED <<candidate, leading>>
    BY <1>1
  <2> QED
    BY <2>1, <2>2, <2>3, <2>4, SwitchSeen DEF Followed, Unmoved, Role
<1>2. CASE FollowerPanics(s)
  BY <1>2, UnmovedFollowed DEF FollowerPanics, Panic, roleVars, actorVars, Unmoved
<1>3. state[s] \in Role
  BY DEF TypeOK
<1> QED
  BY <1>1, <1>2, <1>3 DEF FollowerStep, FollowerTimesOut, FollowerSeesChange,
     FollowerGrantsVote, FollowerRefusesVote, FollowerFollowsLeader,
     FollowerRejectsStaleLeader, FollowerDropsVote, Keep, Role

\* The candidate actor: it writes the channel when it steps down and when it
\* wins; only after a victory does it poll its receiver before it waits again.
LEMMA CandidateKeepsRoles ==
    ASSUME TypeOK, NEW s \in Node, CandidateStep(s), Followed(s)
    PROVE  /\ Followed(s)'
           /\ \A n \in Node \ {s} : Unmoved(n)
<1> USE DEF Role
<1>1. state[s] \in Role
  BY DEF TypeOK
<1>2. CASE CandidateCampaigns(s) \/ CandidateStandsDown(s) \/ CandidateWins(s)
  <2>1. PICK role \in Role : SwitchTo(s, role, {"Candidate"})
    BY <1>1, <1>2 DEF CandidateCampaigns, CandidateStandsDown, CandidateWins, Keep
  <2>2. candidate'[s].campaigning <=> state'[s] = "Candidate"
    BY <1>2, <2>1, SwitchSeen DEF CandidateCampaigns, CandidateStandsDown,
       CandidateWins, Keep, SwitchTo, IdleCandidate, TypeOK
  <2>3. \A n \in Node \ {s} : candidate'[n] = candidate[n]
    BY <1>2 DEF CandidateCampaigns, CandidateStandsDown, CandidateWins, TypeOK
  <2>4. UNCHANGED <<follower, leading>>
    BY <1>2 DEF CandidateCampaigns, CandidateStandsDown, CandidateWins
  <2> QED
    BY <2>1, <2>2, <2>3, <2>4, SwitchSeen DEF Followed, Unmoved
<1>3. CASE CandidateFollowsLeader(s) \/ CandidateGrantsVote(s)
  <2>1. SwitchTo(s, "Follower", {}) /\ UNCHANGED actorVars
    BY <1>3 DEF CandidateFollowsLeader, CandidateGrantsVote, CandidateYields
  <2> QED
    BY <2>1, SwitchSeen DEF Followed, Unmoved, actorVars
<1>4. CASE \/ CandidateRejectsStaleLeader(s) \/ CandidateRefusesVote(s)
           \/ CandidatePanics(s)
  <2>1. UNCHANGED <<roleVars, actorVars>>
    BY <1>4 DEF CandidateRejectsStaleLeader, CandidateRefusesVote, CandidateRefuses,
       CandidatePanics, Panic
  <2> QED
    BY <2>1, UnmovedFollowed DEF Unmoved, roleVars, actorVars
<1>5. CASE CandidateCountsVote(s)
  <2>1. UNCHANGED <<roleVars, follower, leading>>
    BY <1>5 DEF CandidateCountsVote
  <2>2. \A n \in Node : candidate'[n].campaigning = candidate[n].campaigning
    <3>1. PICK v : candidate' = [candidate EXCEPT ![s].votes = v]
      BY <1>5 DEF CandidateCountsVote
    <3> QED BY <3>1 DEF TypeOK
  <2> QED
    BY <2>1, <2>2, UnmovedFollowed DEF Unmoved, roleVars
<1> QED
  BY <1>2, <1>3, <1>4, <1>5 DEF CandidateStep

\* The leader actor never writes the channel.
LEMMA LeaderKeepsRoles ==
    ASSUME TypeOK, NEW s \in Node, LeaderStep(s), Followed(s)
    PROVE  /\ Followed(s)'
           /\ \A n \in Node \ {s} : Unmoved(n)
<1> USE DEF Role
<1>1. state[s] \in Role
  BY DEF TypeOK
<1>2. CASE \/ LeaderTakesOffice(s) \/ LeaderOverlooksChange(s)
           \/ LeaderBeats(s) \/ LeaderStandsDown(s)
  <2>1. SwitchTo(s, state[s], {"Leader"})
    BY <1>2 DEF LeaderTakesOffice, LeaderOverlooksChange, LeaderBeats,
       LeaderStandsDown, Keep
  <2>2. /\ leading'[s] <=> state[s] = "Leader"
        /\ \A n \in Node \ {s} : leading'[n] = leading[n]
    BY <1>2 DEF LeaderTakesOffice, LeaderOverlooksChange, LeaderBeats,
       LeaderStandsDown, Listening, TypeOK, actorVars
  <2>3. UNCHANGED <<follower, candidate>>
    BY <1>2 DEF LeaderTakesOffice, LeaderOverlooksChange, LeaderBeats,
       LeaderStandsDown, actorVars
  <2> QED
    BY <1>1, <2>1, <2>2, <2>3, SwitchSeen DEF Followed, Unmoved
<1>3. CASE \/ LeaderRecordsSuccess(s) \/ LeaderRecordsFailure(s)
           \/ LeaderDropsVote(s) \/ LeaderPanics(s)
  <2>1. UNCHANGED <<roleVars, actorVars>>
    BY <1>3 DEF LeaderRecordsSuccess, LeaderRecordsFailure, LeaderDropsVote,
       LeaderPanics, Panic
  <2> QED
    BY <2>1, UnmovedFollowed DEF Unmoved, roleVars, actorVars
<1> QED
  BY <1>2, <1>3 DEF LeaderStep

\* Everyone else leaves the channel and the actors of the roles alone.
LEMMA OthersKeepRoles ==
    ASSUME \/ \E s \in Node : \/ RootStep(s) \/ ClientRequestStep(s)
                              \/ Transmit(s)
           \/ \E r \in Request : ClientSends(r)
           \/ UNCHANGED vars
    PROVE  \A n \in Node : Unmoved(n)
<1>1. UNCHANGED <<roleVars, actorVars>>
  BY DEF RootStep, RootRoutesServerMessage, RootRoutesClientMessage,
     ClientRequestStep, LeaderAnswers, ServerForwards, ServerKnowsNoLeader, Panic,
     Transmit, ClientSends, vars
<1> QED
  BY <1>1 DEF Unmoved, roleVars, actorVars

LEMMA FollowedInitially == Init => \A s \in Node : Followed(s)
  BY DEF Init, Followed, IdleCandidate

LEMMA FollowedKept ==
    ASSUME TypeOK, \A s \in Node : Followed(s), [Next]_vars
    PROVE  \A s \in Node : Followed(s)'
<1>1. ASSUME NEW s \in Node, \/ FollowerStep(s) \/ CandidateStep(s) \/ LeaderStep(s)
      PROVE  \A n \in Node : Followed(n)'
  <2>1. /\ Followed(s)'
        /\ \A n \in Node \ {s} : Unmoved(n)
    BY <1>1, FollowerKeepsRoles, CandidateKeepsRoles, LeaderKeepsRoles
  <2> QED BY <2>1, UnmovedFollowed
<1>2. CASE \/ \E s \in Node : \/ RootStep(s) \/ ClientRequestStep(s)
                              \/ Transmit(s)
           \/ \E r \in Request : ClientSends(r)
           \/ UNCHANGED vars
  BY <1>2, OthersKeepRoles, UnmovedFollowed
<1> QED
  BY <1>1, <1>2 DEF Next, ServerStep, Halted

\* No change of role is lost on an actor (follower.rs:35-45, candidate.rs:29-78,
\* leader.rs:24-81), for any cluster and any interleaving.
THEOREM NoChangeOfRoleIsLost == Spec => []RolesFollowed
<1> DEFINE I == Inv /\ \A s \in Node : Followed(s)
<1>1. Init => I
  BY FollowedInitially, InvInitially
<1>2. I /\ [Next]_vars => I'
  BY FollowedKept, InvKept DEF Inv
<1>3. I => RolesFollowed
  BY RolesOneByOne DEF Inv
<1> QED
  BY <1>1, <1>2, <1>3, PTL DEF Spec

-----------------------------------------------------------------------------
\* The election of a server that is leader is over: its candidate actor is not
\* in the election's loop, so it takes no message and writes no role.
ElectionOver == \A s \in Node : state[s] = "Leader" => ~candidate[s].campaigning

LEMMA ElectionOverKept ==
    TypeOK /\ ElectionOver /\ [Next]_vars => ElectionOver'
<1> SUFFICES ASSUME TypeOK, ElectionOver, [Next]_vars PROVE ElectionOver'
  OBVIOUS
<1> USE DEF Role
<1>1. ASSUME NEW s \in Node, FollowerStep(s) PROVE ElectionOver'
  <2>1. UNCHANGED candidate
    BY <1>1 DEF FollowerStep, FollowerTimesOut, FollowerSeesChange,
       FollowerGrantsVote, FollowerRefusesVote, FollowerFollowsLeader,
       FollowerRejectsStaleLeader, FollowerDropsVote, FollowerPanics, Panic, actorVars
  <2>2. \A n \in Node : state'[n] = "Leader" => state[n] = "Leader"
    BY <1>1 DEF FollowerStep, FollowerTimesOut, FollowerSeesChange,
       FollowerGrantsVote, FollowerRefusesVote, FollowerFollowsLeader,
       FollowerRejectsStaleLeader, FollowerDropsVote, FollowerPanics, Panic,
       roleVars, Keep, SwitchTo, TypeOK
  <2> QED BY <2>1, <2>2 DEF ElectionOver
<1>2. ASSUME NEW s \in Node, CandidateStep(s) PROVE ElectionOver'
  <2>1. CASE CandidateCampaigns(s) \/ CandidateStandsDown(s)
    <3>1. state' = state
      BY <2>1 DEF CandidateCampaigns, CandidateStandsDown, Keep, SwitchTo, TypeOK
    <3>2. /\ state[s] = "Leader" => ~candidate'[s].campaigning
          /\ \A n \in Node \ {s} : candidate'[n] = candidate[n]
      BY <2>1 DEF CandidateCampaigns, CandidateStandsDown, IdleCandidate, TypeOK
    <3> QED BY <3>1, <3>2 DEF ElectionOver
  <2>2. CASE CandidateWins(s)
    <3>1. /\ ~candidate'[s].campaigning
          /\ \A n \in Node \ {s} : candidate'[n] = candidate[n]
          /\ \A n \in Node \ {s} : state'[n] = state[n]
      BY <2>2 DEF CandidateWins, IdleCandidate, SwitchTo, TypeOK
    <3> QED BY <3>1 DEF ElectionOver
  <2>3. CASE CandidateFollowsLeader(s) \/ CandidateGrantsVote(s)
    <3>1. /\ UNCHANGED candidate
          /\ \A n \in Node : state'[n] = "Leader" => state[n] = "Leader"
      BY <2>3 DEF CandidateFollowsLeader, CandidateGrantsVote, CandidateYields,
         SwitchTo, TypeOK, actorVars
    <3> QED BY <3>1 DEF ElectionOver
  <2>4. CASE CandidateCountsVote(s)
    <3>1. PICK v : candidate' = [candidate EXCEPT ![s].votes = v]
      BY <2>4 DEF CandidateCountsVote
    <3>2. \A n \in Node : candidate'[n].campaigning = candidate[n].campaigning
      BY <3>1 DEF TypeOK
    <3>3. UNCHANGED state
      BY <2>4 DEF CandidateCountsVote, roleVars
    <3> QED BY <3>2, <3>3 DEF ElectionOver
  <2>5. CASE \/ CandidateRejectsStaleLeader(s) \/ CandidateRefusesVote(s)
             \/ CandidatePanics(s)
    <3>1. UNCHANGED <<state, candidate>>
      BY <2>5 DEF CandidateRejectsStaleLeader, CandidateRefusesVote, CandidateRefuses,
         CandidatePanics, Panic, roleVars, actorVars
    <3> QED BY <3>1 DEF ElectionOver
  <2> QED
    BY <1>2, <2>1, <2>2, <2>3, <2>4, <2>5 DEF CandidateStep
<1>3. ASSUME NEW s \in Node, LeaderStep(s) PROVE ElectionOver'
  <2>1. UNCHANGED <<state, candidate>>
    BY <1>3 DEF LeaderStep, LeaderTakesOffice, LeaderOverlooksChange, LeaderBeats,
       LeaderStandsDown, LeaderRecordsSuccess, LeaderRecordsFailure, LeaderDropsVote,
       LeaderPanics, Panic, Keep, SwitchTo, TypeOK, roleVars, actorVars
  <2> QED BY <2>1 DEF ElectionOver
<1>4. CASE \/ \E s \in Node : \/ RootStep(s) \/ ClientRequestStep(s)
                              \/ Transmit(s)
           \/ \E r \in Request : ClientSends(r)
           \/ UNCHANGED vars
  BY <1>4, OthersKeepRoles DEF Unmoved, ElectionOver
<1> QED
  BY <1>1, <1>2, <1>3, <1>4 DEF Next, ServerStep, Halted

\* A step that ends the office of a server is one of a lingering follower.
Deposed(s) == state[s] = "Leader" /\ state'[s] # "Leader"

LEMMA Deposing ==
    ASSUME Inv, RolesFollowed, ElectionOver, [Next]_vars,
           NEW n \in Node, Deposed(n)
    PROVE  /\ follower[n].watching /\ "Follower" \in unseen[n]
           /\ ~candidate[n].campaigning
<1> USE DEF Deposed
<1>1. TypeOK /\ Followed(n) /\ ~candidate[n].campaigning
  BY RolesOneByOne DEF Inv, ElectionOver
<1>2. ASSUME NEW s \in Node, FollowerStep(s) PROVE follower[n].watching
  <2>1. s = n
    <3>1. s # n => state'[n] = state[n]
      BY <1>1, <1>2, FollowerKeepsRoles, RolesOneByOne DEF Unmoved, Inv
    <3> QED BY <3>1
  <2>2. CASE FollowerTimesOut(n) \/ FollowerGrantsVote(n)
    BY <2>2 DEF FollowerTimesOut, FollowerGrantsVote, FollowerReceives
  <2>3. CASE \/ FollowerSeesChange(n) \/ FollowerRefusesVote(n)
             \/ FollowerFollowsLeader(n) \/ FollowerRejectsStaleLeader(n)
             \/ FollowerDropsVote(n)
    <3>1. SwitchTo(n, state[n], {"Follower"})
      BY <2>3 DEF FollowerSeesChange, FollowerRefusesVote, FollowerFollowsLeader,
         FollowerRejectsStaleLeader, FollowerDropsVote, Keep
    <3> QED BY <3>1, <1>1 DEF SwitchTo, TypeOK
  <2>4. CASE FollowerPanics(n)
    BY <2>4 DEF FollowerPanics, Panic, roleVars
  <2> QED BY <1>2, <2>1, <2>2, <2>3, <2>4 DEF FollowerStep
<1>3. ASSUME NEW s \in Node, CandidateStep(s) PROVE FALSE
  <2>1. s = n
    <3>1. s # n => state'[n] = state[n]
      BY <1>1, <1>3, CandidateKeepsRoles, RolesOneByOne DEF Unmoved, Inv
    <3> QED BY <3>1
  <2>2. CASE CandidateCampaigns(n) \/ CandidateStandsDown(n)
    BY <1>1, <2>2 DEF CandidateCampaigns, CandidateStandsDown, Keep, SwitchTo, TypeOK
  <2>3. CASE ~(CandidateCampaigns(n) \/ CandidateStandsDown(n))
    BY <1>1, <1>3, <2>1, <2>3 DEF CandidateStep, CandidateFollowsLeader,
       CandidateRejectsStaleLeader, CandidateGrantsVote, CandidateRefusesVote,
       CandidateWins, CandidateCountsVote, CandidatePanics, CandidateReceives, Polling
  <2> QED BY <2>2, <2>3
<1>4. ASSUME NEW s \in Node, LeaderStep(s) PROVE FALSE
  BY <1>4, <1>1 DEF LeaderStep, LeaderTakesOffice, LeaderOverlooksChange,
     LeaderBeats, LeaderStandsDown, LeaderRecordsSuccess, LeaderRecordsFailure,
     LeaderDropsVote, LeaderPanics, Panic, Keep, SwitchTo, TypeOK, roleVars
<1>5. CASE \/ \E s \in Node : \/ RootStep(s) \/ ClientRequestStep(s)
                              \/ Transmit(s)
           \/ \E r \in Request : ClientSends(r)
           \/ UNCHANGED vars
  BY <1>5, OthersKeepRoles DEF Unmoved
<1>6. follower[n].watching
  BY <1>2, <1>3, <1>4, <1>5 DEF Next, ServerStep, Halted
<1> QED
  BY <1>1, <1>6 DEF Followed

\* A leader is only ever deposed by a follower actor of its own server that has
\* not yet seen that the server was elected (follower.rs:35-45, 130-133).
THEOREM OnlyLingeringFollowersDepose == Spec => DeposedOnlyByLingeringFollower
<1> DEFINE A == \A s \in Node :
                   state[s] = "Leader" /\ state'[s] # "Leader" =>
                      /\ follower[s].watching /\ "Follower" \in unseen[s]
                      /\ ~candidate[s].campaigning
<1>1. Init => ElectionOver
  BY DEF Init, ElectionOver
<1>2. Inv /\ RolesFollowed /\ ElectionOver /\ [Next]_vars => A
  BY Deposing DEF Deposed
<1>3. TypeOK /\ ElectionOver /\ [Next]_vars => ElectionOver'
  BY ElectionOverKept
<1>4. Inv => TypeOK
  BY DEF Inv
<1> QED
  BY <1>1, <1>2, <1>3, <1>4, InvInitially, InvKept, NoChangeOfRoleIsLost,
     PTL DEF Spec, DeposedOnlyByLingeringFollower
=============================================================================
