---------------------------- MODULE MessageProofs ----------------------------
(***************************************************************************)
(* Theorems about the requests on their way between servers: what they say *)
(* of the log of their sender, their order, and about commit indices.      *)
(***************************************************************************)
EXTENDS MiniRaftProofs

(***************************************************************************)
(* Which messages are in flight after a step.                              *)
(***************************************************************************)
LEMMA RangeOfAppend ==
    ASSUME NEW S, NEW q \in Seq(S), NEW e \in S
    PROVE  Range(Append(q, e)) \subseteq Range(q) \cup {e}
  BY DEF Range

LEMMA RangeOfTail ==
    ASSUME NEW S, NEW q \in Seq(S), q # <<>>
    PROVE  /\ Range(Tail(q)) \subseteq Range(q)
           /\ Head(q) \in Range(q)
<1>1. Len(q) \in Nat /\ Len(q) > 0 /\ DOMAIN q = 1 .. Len(q)
  OBVIOUS
<1>2. /\ DOMAIN Tail(q) = 1 .. Len(q) - 1
      /\ \A i \in 1 .. Len(q) - 1 : Tail(q)[i] = q[i + 1]
      /\ Head(q) = q[1]
  BY <1>1
<1> QED
  BY <1>1, <1>2 DEF Range

\* InFlight, one channel at a time.
LEMMA InFlightUnfolded ==
    ASSUME NEW m
    PROVE  m \in InFlight <=>
              \/ \E s \in Node : \E parcel \in outbox[s] : m = parcel.message
              \/ \E s \in Node : m \in Range(inbox[s])
              \/ \E s \in Node : \E role \in Role : m \in Range(queue[s][role])
<1> DEFINE Out == UNION {{parcel.message : parcel \in outbox[s]} : s \in Node}
           In == UNION {Range(inbox[s]) : s \in Node}
           Queued == UNION {Range(queue[s][role]) : s \in Node, role \in Role}
<1>1. m \in Out <=> \E s \in Node : \E parcel \in outbox[s] : m = parcel.message
  OBVIOUS
<1>2. m \in In <=> \E s \in Node : m \in Range(inbox[s])
  OBVIOUS
<1>3. m \in Queued <=> \E s \in Node : \E role \in Role : m \in Range(queue[s][role])
  OBVIOUS
<1>4. InFlight = Out \cup In \cup Queued
  BY DEF InFlight
<1> HIDE DEF Out, In, Queued
<1> QED
  BY <1>1, <1>2, <1>3, <1>4

LEMMA Carriers ==
    /\ \A s \in Node : \A parcel \in outbox[s] : parcel.message \in InFlight
    /\ \A s \in Node : Range(inbox[s]) \subseteq InFlight
    /\ \A s \in Node, role \in Role : Range(queue[s][role]) \subseteq InFlight
  BY InFlightUnfolded

LEMMA InFlightAfterUnfolded ==
    ASSUME NEW m
    PROVE  m \in InFlight' <=>
              \/ \E s \in Node : \E parcel \in outbox'[s] : m = parcel.message
              \/ \E s \in Node : m \in Range(inbox'[s])
              \/ \E s \in Node : \E role \in Role : m \in Range(queue'[s][role])
<1> DEFINE Out == UNION {{parcel.message : parcel \in outbox'[s]} : s \in Node}
           In == UNION {Range(inbox'[s]) : s \in Node}
           Queued == UNION {Range(queue'[s][role]) : s \in Node, role \in Role}
<1>1. m \in Out <=> \E s \in Node : \E parcel \in outbox'[s] : m = parcel.message
  OBVIOUS
<1>2. m \in In <=> \E s \in Node : m \in Range(inbox'[s])
  OBVIOUS
<1>3. m \in Queued <=> \E s \in Node : \E role \in Role : m \in Range(queue'[s][role])
  OBVIOUS
<1>4. InFlight' = Out \cup In \cup Queued
  BY DEF InFlight
<1> HIDE DEF Out, In, Queued
<1> QED
  BY <1>1, <1>2, <1>3, <1>4

\* A message in flight after a step was in flight before or is new, if that is
\* so of each channel.
LEMMA InFlightAfter ==
    ASSUME NEW New,
           \A s \in Node : \A parcel \in outbox'[s] :
              parcel \in outbox[s] \/ parcel.message \in New,
           \A s \in Node : Range(inbox'[s]) \subseteq InFlight \cup New,
           \A s \in Node, role \in Role :
              Range(queue'[s][role]) \subseteq InFlight \cup New
    PROVE  InFlight' \subseteq InFlight \cup New
<1> SUFFICES ASSUME NEW m \in InFlight' PROVE m \in InFlight \cup New
  OBVIOUS
<1>1. \/ \E s \in Node : \E parcel \in outbox'[s] : m = parcel.message
      \/ \E s \in Node : m \in Range(inbox'[s])
      \/ \E s \in Node : \E role \in Role : m \in Range(queue'[s][role])
  BY InFlightAfterUnfolded
<1> QED
  BY <1>1, Carriers

\* Sending adds one message to one mailbox (src/server/handle.rs).
LEMMA SendInFlight ==
    ASSUME TypeOK, NEW to \in Node, NEW m \in ServerMessage \cup ClientRequests,
           Send(to, m)
    PROVE  \A s \in Node : Range(inbox'[s]) \subseteq InFlight \cup {m}
<1>1. ASSUME NEW s \in Node PROVE Range(inbox'[s]) \subseteq InFlight \cup {m}
  <2>1. inbox[s] \in Seq(ServerMessage \cup ClientRequests)
    BY DEF TypeOK
  <2>2. inbox'[s] = IF s = to THEN Append(inbox[s], m) ELSE inbox[s]
    BY DEF Send, TypeOK
  <2> QED BY <2>1, <2>2, RangeOfAppend, Carriers
<1> QED
  BY <1>1

\* What an actor takes, and what it leaves, was in flight.
LEMMA TakeInFlight ==
    ASSUME TypeOK, NEW s \in Node, NEW role \in Role, queue[s][role] # <<>>,
           Take(s, role)
    PROVE  /\ Mail(s, role) \in InFlight
           /\ \A n \in Node, r \in Role : Range(queue'[n][r]) \subseteq InFlight
<1>1. \A n \in Node, r \in Role : queue[n][r] \in Seq(ServerMessage)
  BY DEF TypeOK
<1>2. \A n \in Node, r \in Role :
         queue'[n][r] = IF n = s /\ r = role THEN Tail(queue[n][r]) ELSE queue[n][r]
  BY DEF Take, TypeOK
<1>3. Mail(s, role) \in InFlight
  BY <1>1, RangeOfTail, Carriers DEF Mail
<1>4. ASSUME NEW n \in Node, NEW r \in Role PROVE Range(queue'[n][r]) \subseteq InFlight
  <2>1. CASE n = s /\ r = role
    <3>1. Range(Tail(queue[n][r])) \subseteq Range(queue[n][r])
      BY <1>1, <2>1, RangeOfTail
    <3> QED BY <1>2, <2>1, <3>1, Carriers
  <2>2. CASE ~(n = s /\ r = role)
    BY <1>2, <2>2, Carriers
  <2> QED BY <2>1, <2>2
<1> QED
  BY <1>3, <1>4

\* No answer is a request of a leader.
LEMMA AnswersAreNotAppends ==
    \A s, term, ok : /\ RequestVoteResponse(s, term, ok).type # "AppendEntries"
                     /\ AppendEntriesResponse(s, term, ok).type # "AppendEntries"
  BY DEF RequestVoteResponse, AppendEntriesResponse

\* A step of an actor that takes a message and sends no request, or an answer,
\* puts no request of a leader in flight.
LEMMA HandlersSendNoAppends ==
    ASSUME TypeOK, NEW s \in Node, NEW role \in Role, UNCHANGED outbox,
           queue[s][role] # <<>> /\ Take(s, role),
           \/ UNCHANGED inbox
           \/ \E to \in Node, term \in Nat, ok \in BOOLEAN :
                 \/ Send(to, RequestVoteResponse(s, term, ok))
                 \/ Send(to, AppendEntriesResponse(s, term, ok))
    PROVE  \A m \in InFlight' : m \in InFlight \/ m.type # "AppendEntries"
<1> DEFINE New == {m \in ServerMessage : m.type # "AppendEntries"}
<1>1. \A n \in Node : Range(inbox'[n]) \subseteq InFlight \cup New
  <2>1. CASE UNCHANGED inbox
    BY <2>1, Carriers
  <2>2. ASSUME NEW to \in Node, NEW term \in Nat, NEW ok \in BOOLEAN,
               \/ Send(to, RequestVoteResponse(s, term, ok))
               \/ Send(to, AppendEntriesResponse(s, term, ok))
        PROVE  \A n \in Node : Range(inbox'[n]) \subseteq InFlight \cup New
    <3>1. PICK m \in New : Send(to, m)
      BY <2>2, MessageTypes, AnswersAreNotAppends
    <3> HIDE DEF New
    <3>2. m \in ServerMessage \cup ClientRequests
      BY DEF New
    <3> QED BY <3>1, <3>2, SendInFlight
  <2> QED BY <2>1, <2>2
<1>2. \A n \in Node, r \in Role : Range(queue'[n][r]) \subseteq InFlight
  BY TakeInFlight
<1> HIDE DEF New
<1>3. InFlight' \subseteq InFlight \cup New
  BY <1>1, <1>2, InFlightAfter
<1> QED
  BY <1>3 DEF New

\* A request built in this step by a leader from the log it has.
FreshAppend(m) ==
    /\ UNCHANGED <<log, commitIndex>>
    /\ \E s \in Node : \E p \in Peers(s) : \E index \in 1 .. Len(log[s]) + 1 :
          m = AppendEntriesFor(s, p, [q \in {p} |-> index])

\* AppendEntriesFor reads the next index of its peer only.
LEMMA OnlyItsOwnIndex ==
    ASSUME NEW s, NEW p, NEW next
    PROVE  AppendEntriesFor(s, p, next)
              = AppendEntriesFor(s, p, [q \in {p} |-> next[p]])
<1>1. [q \in {p} |-> next[p]][p] = next[p]
  OBVIOUS
<1> QED
  BY <1>1 DEF AppendEntriesFor

LEMMA HeartbeatsAreFresh ==
    ASSUME Inv, NEW s \in Node, NEW next, Heartbeat(s, next),
           \A p \in Peers(s) : next[p] \in 1 .. Len(log[s]) + 1,
           UNCHANGED <<inbox, queue, log, commitIndex>>
    PROVE  \A m \in InFlight' : m \in InFlight \/ FreshAppend(m)
<1> DEFINE New == {AppendEntriesFor(s, p, next) : p \in Peers(s)}
<1>1. \A n \in Node : \A parcel \in outbox'[n] :
         parcel \in outbox[n] \/ parcel.message \in New
  BY DEF Heartbeat, Inv, TypeOK
<1>2. ASSUME NEW m \in New PROVE FreshAppend(m)
  <2>1. PICK p \in Peers(s) : m = AppendEntriesFor(s, p, next)
    OBVIOUS
  <2>2. m = AppendEntriesFor(s, p, [q \in {p} |-> next[p]])
    BY <2>1, OnlyItsOwnIndex
  <2>3. next[p] \in 1 .. Len(log[s]) + 1
    OBVIOUS
  <2> QED BY <2>2, <2>3 DEF FreshAppend
<1> HIDE DEF New
<1>3. /\ \A n \in Node : Range(inbox'[n]) \subseteq InFlight \cup New
      /\ \A n \in Node, role \in Role : Range(queue'[n][role]) \subseteq InFlight \cup New
  BY Carriers
<1>4. InFlight' \subseteq InFlight \cup New
  BY <1>1, <1>3, InFlightAfter
<1> QED
  BY <1>2, <1>4

\* Routing and delivering a message puts none in flight that was not.
LEMMA MovingAddsNothing ==
    ASSUME TypeOK, NEW s \in Node, RootStep(s) \/ Transmit(s)
    PROVE  InFlight' \subseteq InFlight
<1>1. CASE RootStep(s)
  <2>1. /\ inbox[s] \in Seq(ServerMessage \cup ClientRequests) /\ inbox[s] # <<>>
        /\ inbox' = [inbox EXCEPT ![s] = Tail(@)]
        /\ UNCHANGED outbox
    BY <1>1 DEF RootStep, RootRoutesServerMessage, RootRoutesClientMessage, TypeOK
  <2>2. Head(inbox[s]) \in InFlight /\ Range(Tail(inbox[s])) \subseteq InFlight
    BY <2>1, RangeOfTail, Carriers
  <2>3. \A n \in Node : Range(inbox'[n]) \subseteq InFlight
    <3>1. \A n \in Node : inbox'[n] = IF n = s THEN Tail(inbox[n]) ELSE inbox[n]
      BY <2>1 DEF TypeOK
    <3> QED BY <2>2, <3>1, Carriers
  <2>4. \A n \in Node, role \in Role : Range(queue'[n][role]) \subseteq InFlight
    <3>1. CASE RootRoutesServerMessage(s)
      <4>1. ASSUME NEW n \in Node, NEW role \in Role
            PROVE  Range(queue'[n][role]) \subseteq InFlight
        <5>1. queue[n][role] \in Seq(ServerMessage)
          BY DEF TypeOK
        <5>2. Head(inbox[s]) \in ServerMessage
          BY <2>1, <3>1 DEF RootRoutesServerMessage, FromClient, ClientRequests
        <5>3. queue'[n][role] = queue[n][role]
              \/ queue'[n][role] = Append(queue[n][role], Head(inbox[s]))
          BY <3>1 DEF RootRoutesServerMessage, TypeOK
        <5>4. Range(Append(queue[n][role], Head(inbox[s])))
                 \subseteq Range(queue[n][role]) \cup {Head(inbox[s])}
          BY <5>1, <5>2, RangeOfAppend
        <5>5. Range(queue[n][role]) \subseteq InFlight
          BY Carriers
        <5> QED BY <2>2, <5>3, <5>4, <5>5
      <4> QED BY <4>1
    <3>2. CASE RootRoutesClientMessage(s)
      BY <3>2, Carriers DEF RootRoutesClientMessage
    <3> QED BY <1>1, <3>1, <3>2 DEF RootStep
  <2>5. InFlight' \subseteq InFlight \cup {}
    BY <2>1, <2>3, <2>4, InFlightAfter
  <2> QED BY <2>5
<1>2. CASE Transmit(s)
  <2>1. PICK parcel \in outbox[s] :
           /\ outbox' = [outbox EXCEPT ![s] = @ \ {parcel}]
           /\ Send(parcel.to, parcel.message)
    BY <1>2 DEF Transmit
  <2>2. /\ parcel.message \in InFlight
        /\ parcel.to \in Node
        /\ parcel.message \in ServerMessage \cup ClientRequests
    <3>1. parcel \in Parcel
      BY <2>1 DEF TypeOK
    <3> QED BY <3>1, Carriers DEF Parcel, ServerMessage
  <2>3. \A n \in Node : Range(inbox'[n]) \subseteq InFlight \cup {parcel.message}
    BY <2>1, <2>2, SendInFlight
  <2>4. \A n \in Node : \A other \in outbox'[n] : other \in outbox[n]
    BY <2>1 DEF TypeOK
  <2>5. \A n \in Node, role \in Role : Range(queue'[n][role]) \subseteq InFlight
    BY <1>2, Carriers DEF Transmit
  <2>6. InFlight' \subseteq InFlight \cup {parcel.message}
    BY <2>3, <2>4, <2>5, InFlightAfter
  <2> QED BY <2>2, <2>6
<1> QED
  BY <1>1, <1>2

\* The requests of leaders in flight after a step were in flight before it, or
\* are fresh.
LEMMA AppendsAfterStep ==
    ASSUME Inv, [Next]_vars
    PROVE  \A m \in InFlight' :
              m \in InFlight \/ m.type # "AppendEntries" \/ FreshAppend(m)
<1> DEFINE Goal == \A m \in InFlight' :
                      m \in InFlight \/ m.type # "AppendEntries" \/ FreshAppend(m)
<1>a. TypeOK /\ CursorsInLog
  BY DEF Inv
<1>b. CASE UNCHANGED <<inbox, queue, outbox>>
  BY <1>b DEF InFlight
<1>1. ASSUME NEW s \in Node, RootStep(s) \/ Transmit(s) PROVE Goal
  BY <1>a, <1>1, MovingAddsNothing
<1>2. ASSUME NEW s \in Node, FollowerStep(s) PROVE Goal
  <2>1. CASE FollowerTimesOut(s) \/ FollowerSeesChange(s)
    BY <1>b, <2>1 DEF FollowerTimesOut, FollowerSeesChange, channelVars
  <2>2. CASE ~(FollowerTimesOut(s) \/ FollowerSeesChange(s))
    <3> DEFINE m == Mail(s, "Follower")
    <3>1. PICK type : FollowerReceives(s, type)
      BY <1>2, <2>2 DEF FollowerStep, FollowerGrantsVote, FollowerRefusesVote,
         FollowerFollowsLeader, FollowerRejectsStaleLeader, FollowerDropsVote,
         FollowerPanics
    <3>2. queue[s]["Follower"] # <<>> /\ Take(s, "Follower") /\ m.from \in Node
      BY <1>a, <3>1, TakeTyped DEF FollowerReceives, Receives, TypeOK, Role
    <3>3. UNCHANGED outbox
      BY <1>2, <2>2 DEF FollowerStep, FollowerGrantsVote, FollowerRefusesVote,
         FollowerFollowsLeader, FollowerRejectsStaleLeader, FollowerDropsVote,
         FollowerPanics, Panic
    <3>4. follower[s].term \in Nat /\ Consistent(s, m) \in BOOLEAN
      BY <1>a DEF TypeOK, Consistent, Holds
    <3>5. \/ UNCHANGED inbox
          \/ \E to \in Node, term \in Nat, ok \in BOOLEAN :
                \/ Send(to, RequestVoteResponse(s, term, ok))
                \/ Send(to, AppendEntriesResponse(s, term, ok))
      BY <1>2, <2>2, <3>2, <3>4 DEF FollowerStep, FollowerGrantsVote,
         FollowerRefusesVote, FollowerFollowsLeader, FollowerRejectsStaleLeader,
         FollowerDropsVote, FollowerPanics, Panic
    <3> QED
      BY <1>a, <3>2, <3>3, <3>5, HandlersSendNoAppends DEF Role
  <2> QED BY <2>1, <2>2
<1>3. ASSUME NEW s \in Node, CandidateStep(s) PROVE Goal
  <2>1. CASE CandidateStandsDown(s)
    BY <1>b, <2>1 DEF CandidateStandsDown, channelVars
  <2>2. CASE CandidateCampaigns(s)
    <3> DEFINE New == {m \in ServerMessage : m.type # "AppendEntries"}
               ask == RequestVote(s, currentTerm[s] + 1)
    <3>1. ask \in New
      <4>1. currentTerm[s] + 1 \in Nat
        BY <1>a DEF TypeOK
      <4>2. ask \in VoteRequests
        BY <4>1, MessageTypes
      <4> HIDE DEF ask
      <4> QED BY <4>2 DEF VoteRequests, ServerMessage
    <3>2. \A n \in Node : \A parcel \in outbox'[n] :
             parcel \in outbox[n] \/ parcel.message = ask
      BY <1>a, <2>2 DEF CandidateCampaigns, TypeOK
    <3>3. UNCHANGED <<inbox, queue>>
      BY <2>2 DEF CandidateCampaigns
    <3> HIDE DEF New, ask
    <3>4. InFlight' \subseteq InFlight \cup New
      BY <3>1, <3>2, <3>3, Carriers, InFlightAfter
    <3> QED BY <3>4 DEF New
  <2>3. CASE ~(CandidateStandsDown(s) \/ CandidateCampaigns(s))
    <3> DEFINE m == Mail(s, "Candidate")
    <3>1. PICK type : CandidateReceives(s, type)
      BY <1>3, <2>3 DEF CandidateStep, CandidateFollowsLeader,
         CandidateRejectsStaleLeader, CandidateGrantsVote, CandidateRefusesVote,
         CandidateWins, CandidateCountsVote, CandidatePanics
    <3>2. queue[s]["Candidate"] # <<>> /\ Take(s, "Candidate") /\ m.from \in Node
      BY <1>a, <3>1, TakeTyped DEF CandidateReceives, Receives, TypeOK, Role
    <3>3. UNCHANGED outbox
      BY <1>3, <2>3 DEF CandidateStep, CandidateFollowsLeader,
         CandidateRejectsStaleLeader, CandidateGrantsVote, CandidateRefusesVote,
         CandidateWins, CandidateCountsVote, CandidatePanics, CandidateYields,
         CandidateRefuses, Panic
    <3>4. candidate[s].term \in Nat
      BY <1>a DEF TypeOK
    <3>5. \/ UNCHANGED inbox
          \/ \E to \in Node, term \in Nat, ok \in BOOLEAN :
                \/ Send(to, RequestVoteResponse(s, term, ok))
                \/ Send(to, AppendEntriesResponse(s, term, ok))
      BY <1>3, <2>3, <3>2, <3>4 DEF CandidateStep, CandidateFollowsLeader,
         CandidateRejectsStaleLeader, CandidateGrantsVote, CandidateRefusesVote,
         CandidateWins, CandidateCountsVote, CandidatePanics, CandidateYields,
         CandidateRefuses, Panic
    <3> QED
      BY <1>a, <3>2, <3>3, <3>5, HandlersSendNoAppends DEF Role
  <2> QED BY <2>1, <2>2, <2>3
<1>4. ASSUME NEW s \in Node, LeaderStep(s) PROVE Goal
  <2>1. CASE LeaderTakesOffice(s)
    <3> DEFINE next == NewNextIndices(Peers(s), LastIndex(log[s]))
    <3>1. \A p \in Peers(s) : next[p] \in 1 .. Len(log[s]) + 1
      BY LogsNumbered DEF NewNextIndices
    <3>2. Heartbeat(s, next) /\ UNCHANGED <<inbox, queue, log, commitIndex>>
      BY <2>1 DEF LeaderTakesOffice, persistentVars
    <3> HIDE DEF next
    <3> QED BY <3>1, <3>2, HeartbeatsAreFresh
  <2>2. CASE LeaderBeats(s)
    <3>1. \A p \in Peers(s) : nextIndex[s][p] \in 1 .. Len(log[s]) + 1
      BY <1>a DEF CursorsInLog
    <3>2. Heartbeat(s, nextIndex[s]) /\ UNCHANGED <<inbox, queue, log, commitIndex>>
      BY <2>2 DEF LeaderBeats, persistentVars, volatileVars
    <3> QED BY <3>1, <3>2, HeartbeatsAreFresh
  <2>3. CASE LeaderOverlooksChange(s) \/ LeaderStandsDown(s)
    BY <1>b, <2>3 DEF LeaderOverlooksChange, LeaderStandsDown, channelVars
  <2>4. CASE \/ LeaderRecordsSuccess(s) \/ LeaderRecordsFailure(s)
             \/ LeaderDropsVote(s) \/ LeaderPanics(s)
    <3>1. /\ queue[s]["Leader"] # <<>> /\ Take(s, "Leader")
          /\ UNCHANGED <<inbox, outbox>>
      BY <2>4 DEF LeaderRecordsSuccess, LeaderRecordsFailure, LeaderDropsVote,
         LeaderPanics, LeaderReceives, Receives, Panic
    <3> QED
      BY <1>a, <3>1, HandlersSendNoAppends DEF Role
  <2> QED BY <1>4, <2>1, <2>2, <2>3, <2>4 DEF LeaderStep
<1>5. ASSUME NEW to \in Node, NEW r \in Request, Send(to, ClientRequest(r)),
             UNCHANGED <<queue, outbox>>
      PROVE  Goal
  <2>1. /\ ClientRequest(r) \in ServerMessage \cup ClientRequests
        /\ ClientRequest(r).type # "AppendEntries"
    BY DEF ClientRequest, ClientRequests
  <2>2. InFlight' \subseteq InFlight \cup {ClientRequest(r)}
    BY <1>a, <1>5, <2>1, SendInFlight, Carriers, InFlightAfter
  <2> QED BY <2>1, <2>2
<1>6. ASSUME NEW s \in Node, ClientRequestStep(s) PROVE Goal
  <2>1. CASE ServerForwards(s)
    <3>1. Head(clientQueue[s]) \in Request /\ votedFor[s] \in Node
      <4>1. clientQueue[s] \in Seq(Request) /\ clientQueue[s] # <<>>
        BY <1>a, <2>1 DEF ServerForwards, TakesRequest, TypeOK
      <4> QED BY <2>1, <4>1 DEF ServerForwards, Peers
    <3> QED BY <1>5, <2>1, <3>1 DEF ServerForwards
  <2>2. CASE LeaderAnswers(s) \/ ServerKnowsNoLeader(s)
    BY <1>b, <2>2 DEF LeaderAnswers, ServerKnowsNoLeader, Panic
  <2> QED BY <1>6, <2>1, <2>2 DEF ClientRequestStep
<1>8. CASE \E r \in Request : ClientSends(r)
  BY <1>5, <1>8 DEF ClientSends
<1>9. CASE UNCHANGED vars
  BY <1>b, <1>9 DEF vars, channelVars
<1> QED
  BY <1>1, <1>2, <1>3, <1>4, <1>6, <1>8, <1>9 DEF Next, ServerStep, Halted

-----------------------------------------------------------------------------
(***************************************************************************)
(* Logs only grow.                                                         *)
(***************************************************************************)
Grown(s) ==
    /\ Len(log[s]) \in Nat /\ Len(log'[s]) \in Nat
    /\ Len(log[s]) <= Len(log'[s])
    /\ \A i \in 1 .. Len(log[s]) : log'[s][i] = log[s][i]

\* No step takes an entry out of a log or changes one: the only write to a log
\* is the append of a client's command (src/server/log.rs, client_request.rs:49).
LEMMA LogsGrow ==
    ASSUME Inv, [Next]_vars
    PROVE  \A n \in Node : Grown(n)
<1>1. \A n \in Node : Len(log[n]) \in Nat
  BY LogsNumbered
<1>2. CASE UNCHANGED log
  BY <1>1, <1>2 DEF Grown
<1>3. ASSUME NEW s \in Node, LeaderAnswers(s) PROVE \A n \in Node : Grown(n)
  <2> DEFINE r == Head(clientQueue[s])
             longer == AppendCommand(log[s], currentTerm[s], r)
  <2>1. log' = [log EXCEPT ![s] = IF r \in Writes THEN longer ELSE log[s]]
    BY <1>3 DEF LeaderAnswers
  <2>2. /\ log[s] \in Seq(LogEntries(Writes)) /\ Numbered(log[s])
        /\ currentTerm[s] \in Nat
    BY LogsNumbered DEF Inv, TypeOK
  <2>3. ASSUME r \in Writes
        PROVE  /\ Len(longer) = Len(log[s]) + 1
               /\ \A i \in 1 .. Len(log[s]) : longer[i] = log[s][i]
    <3>1. /\ Len(longer) = Len(log[s]) + 1
          /\ \A i \in DOMAIN log[s] : longer[i] = log[s][i]
      BY ZenonT(60), <2>2, <2>3, AppendKeepsNumbers
    <3>2. DOMAIN log[s] = 1 .. Len(log[s])
      BY <2>2
    <3> HIDE DEF longer
    <3> QED BY <3>1, <3>2
  <2> HIDE DEF longer
  <2>4. /\ \A n \in Node \ {s} : log'[n] = log[n]
        /\ log'[s] = IF r \in Writes THEN longer ELSE log[s]
    BY <2>1 DEF Inv, TypeOK
  <2> QED
    BY <1>1, <2>3, <2>4 DEF Grown
<1>4. ASSUME NEW s \in Node, ClientRequestStep(s) PROVE \A n \in Node : Grown(n)
  <2>1. LeaderAnswers(s) \/ UNCHANGED log
    BY <1>4 DEF ClientRequestStep, ServerForwards, ServerKnowsNoLeader, Panic,
       persistentVars
  <2> QED BY <1>2, <1>3, <2>1
<1>5. ASSUME NEW s \in Node, \/ RootStep(s) \/ FollowerStep(s) \/ Transmit(s)
      PROVE  UNCHANGED log
  BY <1>5 DEF RootStep, RootRoutesServerMessage, RootRoutesClientMessage,
     FollowerStep, FollowerTimesOut, FollowerSeesChange, FollowerGrantsVote,
     FollowerRefusesVote, FollowerFollowsLeader, FollowerRejectsStaleLeader,
     FollowerDropsVote, FollowerPanics, Panic, Transmit, persistentVars
<1>6. ASSUME NEW s \in Node, CandidateStep(s) PROVE UNCHANGED log
  BY <1>6 DEF CandidateStep, CandidateCampaigns, CandidateStandsDown,
     CandidateFollowsLeader, CandidateRejectsStaleLeader, CandidateGrantsVote,
     CandidateRefusesVote, CandidateYields, CandidateRefuses, CandidateWins,
     CandidateCountsVote, CandidatePanics, Panic, persistentVars
<1>7. ASSUME NEW s \in Node, LeaderStep(s) PROVE UNCHANGED log
  BY <1>7 DEF LeaderStep, LeaderTakesOffice, LeaderOverlooksChange, LeaderBeats,
     LeaderStandsDown, LeaderRecordsSuccess, LeaderRecordsFailure, LeaderDropsVote,
     LeaderPanics, Panic, persistentVars
<1>8. CASE (\E r \in Request : ClientSends(r)) \/ UNCHANGED vars
  BY <1>2, <1>8 DEF ClientSends, vars, persistentVars
<1> QED
  BY <1>2, <1>4, <1>5, <1>6, <1>7, <1>8 DEF Next, ServerStep, Halted

-----------------------------------------------------------------------------
\* What AppendsMatchSender says of one request.
MatchesSender(m) ==
    /\ m.prevLogIndex + Len(m.entries) <= Len(log[m.from])
    /\ m.entries = SubSeq(log[m.from], m.prevLogIndex + 1,
                          m.prevLogIndex + Len(m.entries))
    /\ m.prevLogTerm = IF m.prevLogIndex = 0 THEN 0
                       ELSE log[m.from][m.prevLogIndex].term

\* Everything in flight is a message.
LEMMA InFlightTyped ==
    ASSUME TypeOK
    PROVE  InFlight \subseteq ServerMessage \cup ClientRequests
<1> SUFFICES ASSUME NEW m \in InFlight PROVE m \in ServerMessage \cup ClientRequests
  OBVIOUS
<1>1. ASSUME NEW s \in Node, NEW parcel \in outbox[s]
      PROVE  parcel.message \in ServerMessage
  <2>1. parcel \in Parcel
    BY <1>1 DEF TypeOK
  <2> QED BY <2>1 DEF Parcel, ServerMessage
<1>2. \A s \in Node : Range(inbox[s]) \subseteq ServerMessage \cup ClientRequests
  BY DEF TypeOK, Range
<1>3. \A s \in Node, role \in Role : Range(queue[s][role]) \subseteq ServerMessage
  <2>1. \A s \in Node, role \in Role : queue[s][role] \in Seq(ServerMessage)
    BY DEF TypeOK
  <2> QED BY <2>1 DEF Range
<1> QED
  BY <1>1, <1>2, <1>3, InFlightUnfolded

\* A request of a leader that is in flight is an AppendEntries request.
LEMMA AppendsTyped ==
    ASSUME TypeOK, NEW m \in InFlight, m.type = "AppendEntries"
    PROVE  m \in AppendRequests
<1>1. m \in ServerMessage \/ m \in ClientRequests
  BY InFlightTyped
<1>2. m \notin ClientRequests
  BY DEF ClientRequests
<1> QED
  BY <1>1, <1>2, TypesOfMessages

\* The stretch of a log that a request describes does not change.
LEMMA SameStretch ==
    ASSUME NEW S, NEW q \in Seq(S), NEW r \in Seq(S),
           NEW from \in Nat \ {0}, NEW to \in Nat,
           to <= Len(q), to <= Len(r),
           \A i \in from .. to : r[i] = q[i]
    PROVE  SubSeq(r, from, to) = SubSeq(q, from, to)
<1>1. CASE from > to
  BY <1>1
<1>2. CASE from <= to
  <2>1. /\ SubSeq(r, from, to) \in Seq(S)
        /\ SubSeq(q, from, to) \in Seq(S)
        /\ Len(SubSeq(r, from, to)) = to - from + 1
        /\ Len(SubSeq(q, from, to)) = to - from + 1
    BY <1>2
  <2>2. \A i \in 1 .. to - from + 1 :
           SubSeq(r, from, to)[i] = r[from + i - 1]
           /\ SubSeq(q, from, to)[i] = q[from + i - 1]
    BY <1>2
  <2>3. \A i \in 1 .. to - from + 1 : SubSeq(r, from, to)[i] = SubSeq(q, from, to)[i]
    <3>1. \A i \in 1 .. to - from + 1 : from + i - 1 \in from .. to
      OBVIOUS
    <3> QED BY <2>2, <3>1
  <2> QED BY <2>1, <2>3
<1> QED
  BY <1>1, <1>2

\* A request that matches a log matches whatever the log grows to.
LEMMA StillMatches ==
    ASSUME NEW S, NEW m \in AppendRequests, MatchesSender(m), Grown(m.from),
           log[m.from] \in Seq(S), log'[m.from] \in Seq(S)
    PROVE  MatchesSender(m)'
<1> DEFINE from == m.prevLogIndex + 1
           to == m.prevLogIndex + Len(m.entries)
<1>1. /\ m.prevLogIndex \in Nat /\ Len(m.entries) \in Nat
      /\ from \in Nat \ {0} /\ to \in Nat
      /\ m.prevLogIndex <= to
  BY DEF AppendRequests
<1>2. /\ Len(log[m.from]) \in Nat
      /\ to <= Len(log[m.from]) /\ to <= Len(log'[m.from])
  BY <1>1 DEF MatchesSender, Grown
<1>3. \A i \in 1 .. to : log'[m.from][i] = log[m.from][i]
  BY <1>1, <1>2 DEF Grown
<1>4. SubSeq(log'[m.from], from, to) = SubSeq(log[m.from], from, to)
  <2> HIDE DEF from, to
  <2>1. \A i \in from .. to : log'[m.from][i] = log[m.from][i]
    BY <1>1, <1>3
  <2> QED BY <1>1, <1>2, <2>1, SameStretch
<1>5. m.prevLogIndex # 0 => log'[m.from][m.prevLogIndex] = log[m.from][m.prevLogIndex]
  BY SMTT(30), <1>1, <1>3
<1> QED
  BY <1>1, <1>2, <1>4, <1>5 DEF MatchesSender

\* A fresh request matches the log it is built from.
LEMMA FreshMatches ==
    ASSUME Inv, NEW m, FreshAppend(m)
    PROVE  /\ MatchesSender(m)'
           /\ \E s \in Node : m.leaderCommit = commitIndex[s]
<1>0. PICK s \in Node : \E p \in Peers(s) : \E index \in 1 .. Len(log[s]) + 1 :
         m = AppendEntriesFor(s, p, [q \in {p} |-> index])
  BY DEF FreshAppend
<1>1. PICK p \in Peers(s), index \in 1 .. Len(log[s]) + 1 :
         m = AppendEntriesFor(s, p, [q \in {p} |-> index])
  BY <1>0
<1>2. [q \in {p} |-> index][p] = index
  OBVIOUS
<1>3. /\ m.from = s
      /\ m.prevLogIndex = index - 1
      /\ m.prevLogTerm = IF index = 1 THEN 0 ELSE log[s][index - 1].term
      /\ m.entries = SubSeq(log[s], index, Len(log[s]))
      /\ m.leaderCommit = commitIndex[s]
  BY <1>1, <1>2, AppendEntriesForInLog
<1>4. log[s] \in Seq(LogEntries(Writes)) /\ Len(log[s]) \in Nat
  BY LogsNumbered
<1>5. Len(m.entries) = Len(log[s]) - index + 1
  BY <1>3, <1>4
<1>6. MatchesSender(m)
  <2>1. /\ m.prevLogIndex + Len(m.entries) = Len(log[s])
        /\ m.prevLogIndex + 1 = index
        /\ m.prevLogIndex = 0 <=> index = 1
    <3>1. m.prevLogIndex = index - 1 /\ index \in Int /\ Len(log[s]) \in Int
      BY <1>3, <1>4
    <3> QED BY <1>5, <3>1
  <2>2. m.prevLogIndex + Len(m.entries) <= Len(log[m.from])
    BY <1>3, <1>4, <2>1
  <2>3. m.entries = SubSeq(log[m.from], m.prevLogIndex + 1,
                           m.prevLogIndex + Len(m.entries))
    BY <1>3, <2>1
  <2>4. m.prevLogTerm = IF m.prevLogIndex = 0 THEN 0
                        ELSE log[m.from][m.prevLogIndex].term
    BY <1>3, <2>1
  <2> QED BY <2>2, <2>3, <2>4 DEF MatchesSender
<1>7. UNCHANGED log
  BY DEF FreshAppend
<1> QED
  BY <1>3, <1>6, <1>7 DEF MatchesSender

LEMMA AppendsOneByOne ==
    AppendsMatchSender <=>
        \A m \in InFlight : m.type = "AppendEntries" => MatchesSender(m)
  BY DEF AppendsMatchSender, AppendsInFlight, MatchesSender

LEMMA NothingInFlightInitially == Init => \A m : m \notin InFlight
  BY InFlightUnfolded DEF Init, Range

LEMMA AppendsKept ==
    ASSUME Inv, AppendsMatchSender, [Next]_vars
    PROVE  AppendsMatchSender'
<1> SUFFICES ASSUME NEW m \in InFlight', m.type = "AppendEntries"
             PROVE  MatchesSender(m)'
  BY DEF AppendsMatchSender, AppendsInFlight, MatchesSender
<1>1. CASE m \in InFlight
  <2>1. m \in AppendRequests /\ m.from \in Node
    BY <1>1, AppendsTyped DEF Inv, AppendRequests
  <2>2. MatchesSender(m) /\ Grown(m.from)
    BY <1>1, <2>1, AppendsOneByOne, LogsGrow
  <2>3. /\ log[m.from] \in Seq(LogEntries(Writes))
        /\ log'[m.from] \in Seq(LogEntries(Writes))
    BY <2>1, InvKept DEF Inv, TypeOK
  <2> QED BY <2>1, <2>2, <2>3, StillMatches
<1>2. CASE FreshAppend(m)
  BY <1>2, FreshMatches
<1> QED
  BY <1>1, <1>2, AppendsAfterStep

\* Whatever its sender appends in the meantime, a request on its way describes
\* the sender's log (leader.rs:34-64).
THEOREM AppendsAlwaysMatch == Spec => []AppendsMatchSender
<1>1. Init => Inv /\ AppendsMatchSender
  BY AppendsOneByOne, NothingInFlightInitially, InvInitially
<1>2. Inv /\ AppendsMatchSender /\ [Next]_vars => (Inv /\ AppendsMatchSender)'
  BY AppendsKept, InvKept
<1> QED
  BY <1>1, <1>2, PTL DEF Spec

-----------------------------------------------------------------------------
\* Some log of the cluster has reached index i.
Reached(i) == \E s \in Node : i <= Len(log[s])

\* What AdoptedCommit returns is the follower's own commit index or no more
\* than the leader's (follower.rs:98-107).
LEMMA AdoptedIsBounded ==
    ASSUME TypeOK, NEW s \in Node, NEW m \in AppendRequests
    PROVE  \/ AdoptedCommit(s, m) = commitIndex[s]
           \/ AdoptedCommit(s, m) \in Nat /\ AdoptedCommit(s, m) <= m.leaderCommit
<1>1. m.leaderCommit \in Nat /\ AdoptedCommit(s, m) \in Nat
  BY AdoptedTyped DEF AppendRequests, TypeOK
<1>2. LastIndexOr(m.entries, m.leaderCommit) < m.leaderCommit =>
         LastIndexOr(m.entries, m.leaderCommit) <= m.leaderCommit
  <2>1. LastIndexOr(m.entries, m.leaderCommit) \in Nat
    <3>1. CASE m.entries = <<>>
      BY <1>1, <3>1 DEF LastIndexOr
    <3>2. CASE m.entries # <<>>
      <4>1. m.entries \in Seq(LogEntries(Writes))
        BY DEF AppendRequests
      <4>2. Len(m.entries) \in DOMAIN m.entries
        BY <3>2, <4>1
      <4>3. m.entries[Len(m.entries)] \in LogEntries(Writes)
        BY <4>1, <4>2
      <4> QED BY <3>2, <4>3 DEF LastIndexOr, LogEntries
    <3> QED BY <3>1, <3>2
  <2> QED BY <1>1, <2>1
<1> QED
  BY <1>1, <1>2 DEF AdoptedCommit

\* The commit index a leader reads off its next indices is in its log.
LEMMA HighestInLog ==
    ASSUME Inv, NEW s \in Node
    PROVE  /\ HighestCommittableIndex(nextIndex[s]) \in Nat
           /\ HighestCommittableIndex(nextIndex[s]) <= Len(log[s])
<1> DEFINE high == HighestCommittableIndex(nextIndex[s])
<1>1. IsFiniteSet(Peers(s))
  BY NodeAssumption, FS_RemoveElement DEF Peers
<1>2. Len(log[s]) \in Nat /\ Len(log[s]) + 1 \in Nat
  BY LogsNumbered
<1>3. nextIndex[s] \in [Peers(s) -> Nat]
  BY DEF Inv, TypeOK
<1>4. \A p \in Peers(s) : nextIndex[s][p] <= Len(log[s]) + 1
  BY <1>2, <1>3 DEF Inv, CursorsInLog
<1>5. /\ high \in Nat
      /\ high # 0 => \E p \in Peers(s) : nextIndex[s][p] > high
  BY <1>1, <1>2, <1>3, <1>4, CommittableBelowSomePeer
<1> HIDE DEF high
<1>6. high <= Len(log[s])
  BY <1>2, <1>3, <1>4, <1>5
<1> QED
  BY <1>5, <1>6 DEF high

\* A commit index is set by a leader that records a success and by a follower
\* that follows its leader, and nowhere else.
LEMMA WhoSetsCommits ==
    ASSUME [Next]_vars
    PROVE  \/ UNCHANGED commitIndex
           \/ \E s \in Node : FollowerFollowsLeader(s) \/ LeaderRecordsSuccess(s)
<1>1. ASSUME NEW t \in Node, FollowerStep(t)
      PROVE  FollowerFollowsLeader(t) \/ UNCHANGED commitIndex
  BY <1>1 DEF FollowerStep, FollowerTimesOut, FollowerSeesChange,
     FollowerGrantsVote, FollowerRefusesVote, FollowerRejectsStaleLeader,
     FollowerDropsVote, FollowerPanics, Panic, volatileVars
<1>2. ASSUME NEW t \in Node, LeaderStep(t)
      PROVE  LeaderRecordsSuccess(t) \/ UNCHANGED commitIndex
  BY <1>2 DEF LeaderStep, LeaderTakesOffice, LeaderOverlooksChange, LeaderBeats,
     LeaderStandsDown, LeaderRecordsFailure, LeaderDropsVote, LeaderPanics, Panic,
     volatileVars
<1>3. ASSUME NEW t \in Node, \/ CandidateStep(t) \/ RootStep(t)
                             \/ ClientRequestStep(t) \/ Transmit(t)
      PROVE  UNCHANGED commitIndex
  BY <1>3 DEF CandidateStep, CandidateCampaigns, CandidateStandsDown,
     CandidateFollowsLeader, CandidateRejectsStaleLeader, CandidateGrantsVote,
     CandidateRefusesVote, CandidateYields, CandidateRefuses, CandidateWins,
     CandidateCountsVote, CandidatePanics, Panic, RootStep, RootRoutesServerMessage,
     RootRoutesClientMessage, ClientRequestStep, LeaderAnswers, ServerForwards,
     ServerKnowsNoLeader, Transmit, volatileVars
<1>4. CASE (\E r \in Request : ClientSends(r)) \/ UNCHANGED vars
  BY <1>4 DEF ClientSends, vars, volatileVars
<1> QED
  BY <1>1, <1>2, <1>3, <1>4 DEF Next, ServerStep, Halted

\* A commit index changes to one a leader reads off its next indices, or to one
\* a follower adopts from a request.
LEMMA CommitAfterStep ==
    ASSUME Inv, CommitBacked, [Next]_vars, NEW n \in Node
    PROVE  \/ commitIndex'[n] = commitIndex[n]
           \/ Reached(commitIndex'[n])
<1> DEFINE Goal == commitIndex'[n] = commitIndex[n] \/ Reached(commitIndex'[n])
<1>a. TypeOK /\ CursorsInLog
  BY DEF Inv
<1>b. CASE UNCHANGED commitIndex
  BY <1>b
<1>1. ASSUME NEW s \in Node, FollowerFollowsLeader(s) PROVE Goal
  <2> DEFINE m == Mail(s, "Follower")
  <2>1. m \in AppendRequests
    BY <1>a, <1>1, TakeTyped, TypesOfMessages DEF FollowerFollowsLeader,
       FollowerReceives, TypeOK, Role
  <2>2. m \in InFlight /\ m.type = "AppendEntries"
    BY <1>a, <1>1, <2>1, TakeInFlight DEF FollowerFollowsLeader, FollowerReceives,
       Receives, Role, AppendRequests
  <2>3. Reached(m.leaderCommit) /\ m.leaderCommit \in Nat
    BY <2>1, <2>2 DEF CommitBacked, AppendsInFlight, Reached, AppendRequests
  <2>4. commitIndex' = [commitIndex EXCEPT ![s] = AdoptedCommit(s, m)]
    BY <1>1 DEF FollowerFollowsLeader
  <2>5. CASE n # s
    BY <1>a, <2>4, <2>5 DEF TypeOK
  <2>6. CASE n = s
    <3>1. commitIndex'[n] = AdoptedCommit(s, m)
      BY <1>a, <2>4, <2>6 DEF TypeOK
    <3>2. \A k \in Node : Len(log[k]) \in Nat
      BY LogsNumbered
    <3> HIDE DEF m
    <3>3. \/ AdoptedCommit(s, m) = commitIndex[s]
          \/ AdoptedCommit(s, m) \in Nat /\ AdoptedCommit(s, m) <= m.leaderCommit
      BY <1>a, <2>1, AdoptedIsBounded
    <3> QED BY <2>3, <2>6, <3>1, <3>2, <3>3 DEF Reached
  <2> QED BY <2>5, <2>6
<1>2. ASSUME NEW s \in Node, LeaderRecordsSuccess(s) PROVE Goal
  <2> DEFINE high == HighestCommittableIndex(nextIndex[s])
  <2>3. high <= Len(log[s])
    BY HighestInLog
  <2>4. commitIndex' = [commitIndex EXCEPT ![s] = high]
    BY <1>2 DEF LeaderRecordsSuccess
  <2> HIDE DEF high
  <2> QED
    BY <1>a, <2>3, <2>4 DEF TypeOK, Reached
<1> QED
  BY <1>b, <1>1, <1>2, WhoSetsCommits

LEMMA BackingOneByOne ==
    CommitBacked <=>
        /\ \A s \in Node : Reached(commitIndex[s])
        /\ \A m \in InFlight : m.type = "AppendEntries" => Reached(m.leaderCommit)
  BY DEF CommitBacked, AppendsInFlight, Reached

LEMMA BackedInitially == Init => CommitBacked
<1>1. Init => \A s \in Node : Reached(commitIndex[s])
  BY DEF Init, Reached
<1> QED
  BY <1>1, BackingOneByOne, NothingInFlightInitially

LEMMA BackedKept ==
    ASSUME Inv, CommitBacked, [Next]_vars
    PROVE  CommitBacked'
<1> SUFFICES /\ \A s \in Node : Reached(commitIndex[s])'
             /\ \A m \in InFlight' :
                   m.type = "AppendEntries" => Reached(m.leaderCommit)'
  BY DEF CommitBacked, AppendsInFlight, Reached
<1>1. ASSUME NEW i \in Nat, Reached(i) PROVE Reached(i)'
  <2>1. PICK s \in Node : i <= Len(log[s])
    BY <1>1 DEF Reached
  <2>2. Grown(s)
    BY LogsGrow
  <2> QED BY <2>1, <2>2 DEF Reached, Grown
<1>2. TypeOK /\ TypeOK'
  BY InvKept DEF Inv
<1>3. ASSUME NEW s \in Node PROVE Reached(commitIndex[s])'
  <2>1. commitIndex[s] \in Nat /\ commitIndex'[s] \in Nat
    BY <1>2 DEF TypeOK
  <2>2. Reached(commitIndex'[s])
    BY BackingOneByOne, CommitAfterStep
  <2>3. PICK n \in Node : commitIndex'[s] <= Len(log[n])
    BY <2>2 DEF Reached
  <2>4. Grown(n)
    BY LogsGrow
  <2> QED BY <2>1, <2>3, <2>4 DEF Reached, Grown
<1>4. ASSUME NEW m \in InFlight', m.type = "AppendEntries"
      PROVE  Reached(m.leaderCommit)'
  <2>1. CASE m \in InFlight
    <3>1. m.leaderCommit \in Nat
      BY <1>2, <1>4, <2>1, AppendsTyped DEF AppendRequests
    <3>2. Reached(m.leaderCommit)
      BY <1>4, <2>1, BackingOneByOne
    <3> QED BY <1>1, <3>1, <3>2
  <2>2. CASE FreshAppend(m)
    <3>1. PICK s \in Node : m.leaderCommit = commitIndex[s]
      BY <2>2, FreshMatches
    <3>2. m.leaderCommit \in Nat /\ Reached(m.leaderCommit)
      BY <1>2, <3>1, BackingOneByOne DEF TypeOK
    <3> QED BY <1>1, <3>2
  <2> QED BY <1>4, <2>1, <2>2, AppendsAfterStep
<1> QED
  BY <1>3, <1>4

\* No commit index, a server's or one in a request on its way, is past the end
\* of every log, although followers adopt it without storing entries
\* (follower.rs:98-107, leader.rs:148, volatile_leader_state.rs:95-104).
THEOREM CommitsAreBacked == Spec => []CommitBacked
<1>1. Inv /\ CommitBacked /\ [Next]_vars => (Inv /\ CommitBacked)'
  BY BackedKept, InvKept
<1> QED
  BY <1>1, InvInitially, BackedInitially, PTL DEF Spec

-----------------------------------------------------------------------------
(***************************************************************************)
(* The order of requests.  A round is in the mailboxes before the next     *)
(* begins, so a peer has at most one request of a leader still with a      *)
(* task, and it describes no shorter log than the requests ahead of it.    *)
(***************************************************************************)
\* If m and n are requests of one leader, m describes no longer log than n.
NotPast(m, n) ==
    /\ m.type = "AppendEntries" /\ n.type = "AppendEntries"
    /\ m.from = n.from
    => Reach(m) <= Reach(n)

InOrder(q) == \A i, j \in DOMAIN q : i < j => NotPast(q[i], q[j])

AllBefore(q, r) == \A m \in Range(q), n \in Range(r) : NotPast(m, n)

WaysInOrder ==
    \A p \in Node :
        /\ InOrder(inbox[p])
        /\ \A role \in Role :
              InOrder(queue[p][role]) /\ AllBefore(queue[p][role], inbox[p])

\* A request that is still with a task, and those ahead of it.
Last(s, parcel) ==
    /\ leading[s] /\ parcel.message.from = s
    /\ \A other \in outbox[s] :
          other.message.type = "AppendEntries" /\ other.to = parcel.to =>
              other = parcel
    /\ \A m \in Range(inbox[parcel.to]) : NotPast(m, parcel.message)
    /\ \A role \in Role : \A m \in Range(queue[parcel.to][role]) :
          NotPast(m, parcel.message)

RoundsInOrder ==
    \A s \in Node : \A parcel \in outbox[s] :
        parcel.message.type = "AppendEntries" => Last(s, parcel)

LEMMA AppendFacts ==
    ASSUME NEW S, NEW q \in Seq(S), NEW e
    PROVE  /\ DOMAIN q = 1 .. Len(q) /\ Len(q) \in Nat
           /\ DOMAIN Append(q, e) = 1 .. Len(q) + 1
           /\ \A i \in 1 .. Len(q) : Append(q, e)[i] = q[i]
           /\ Append(q, e)[Len(q) + 1] = e
           /\ Range(Append(q, e)) \subseteq Range(q) \cup {e}
<1>1. q \in Seq(S \cup {e}) /\ e \in S \cup {e}
  OBVIOUS
<1>2. Range(Append(q, e)) \subseteq Range(q) \cup {e}
  BY <1>1, RangeOfAppend
<1> QED
  BY <1>1, <1>2

\* A sequence stays in order when its head goes or a last message comes.
LEMMA TailInOrder ==
    ASSUME NEW S, NEW q \in Seq(S), q # <<>>, InOrder(q)
    PROVE  InOrder(Tail(q))
<1>1. /\ DOMAIN q = 1 .. Len(q) /\ Len(q) \in Nat
      /\ DOMAIN Tail(q) = 1 .. Len(q) - 1
      /\ \A i \in 1 .. Len(q) - 1 : Tail(q)[i] = q[i + 1]
  OBVIOUS
<1> SUFFICES ASSUME NEW i \in 1 .. Len(q) - 1, NEW j \in 1 .. Len(q) - 1, i < j
             PROVE  NotPast(Tail(q)[i], Tail(q)[j])
  BY <1>1 DEF InOrder
<1>2. i + 1 \in DOMAIN q /\ j + 1 \in DOMAIN q /\ i + 1 < j + 1
  BY <1>1
<1>3. NotPast(q[i + 1], q[j + 1])
  BY <1>2 DEF InOrder
<1> QED
  BY <1>1, <1>3

LEMMA AppendInOrder ==
    ASSUME NEW S, NEW q \in Seq(S), NEW e, InOrder(q),
           \A m \in Range(q) : NotPast(m, e)
    PROVE  InOrder(Append(q, e))
<1> DEFINE r == Append(q, e)
<1>1. /\ DOMAIN q = 1 .. Len(q) /\ Len(q) \in Nat
      /\ DOMAIN r = 1 .. Len(q) + 1
      /\ \A i \in 1 .. Len(q) : r[i] = q[i]
      /\ r[Len(q) + 1] = e
  BY AppendFacts
<1> HIDE DEF r
<1> SUFFICES ASSUME NEW i \in 1 .. Len(q) + 1, NEW j \in 1 .. Len(q) + 1, i < j
             PROVE  NotPast(r[i], r[j])
  BY <1>1 DEF InOrder, r
<1>2. CASE j = Len(q) + 1
  <2>1. i \in 1 .. Len(q)
    BY <1>1, <1>2
  <2>2. q[i] \in Range(q)
    BY <1>1, <2>1 DEF Range
  <2> QED BY <1>1, <1>2, <2>1, <2>2
<1>3. CASE j # Len(q) + 1
  <2>1. i \in 1 .. Len(q) /\ j \in 1 .. Len(q)
    BY <1>1, <1>3
  <2> QED BY <1>1, <2>1 DEF InOrder
<1> QED
  BY <1>2, <1>3

LEMMA WaysAreOrdered ==
    ASSUME TypeOK, WaysInOrder
    PROVE  AppendsInOrder
<1> SUFFICES ASSUME NEW p \in Node, NEW role \in Role
             PROVE  LET way == queue[p][role] \o inbox[p] IN
                    \A i, j \in DOMAIN way : i < j => NotPast(way[i], way[j])
  BY ZenonT(60) DEF AppendsInOrder, NotPast
<1> DEFINE q == queue[p][role]
           b == inbox[p]
           way == q \o b
           All == ServerMessage \cup ClientRequests
<1>1. q \in Seq(All) /\ b \in Seq(All)
  BY DEF TypeOK
<1>2. InOrder(q) /\ InOrder(b) /\ AllBefore(q, b)
  BY DEF WaysInOrder
<1> HIDE DEF q, b, All
<1>3. /\ DOMAIN q = 1 .. Len(q) /\ Len(q) \in Nat
      /\ DOMAIN b = 1 .. Len(b) /\ Len(b) \in Nat
      /\ DOMAIN way = 1 .. Len(q) + Len(b)
      /\ \A i \in 1 .. Len(q) : way[i] = q[i]
      /\ \A i \in Len(q) + 1 .. Len(q) + Len(b) : way[i] = b[i - Len(q)]
  BY <1>1
<1> HIDE DEF way
<1>4. ASSUME NEW i \in DOMAIN way, NEW j \in DOMAIN way, i < j
      PROVE  NotPast(way[i], way[j])
  <2>1. CASE j <= Len(q)
    BY <1>2, <1>3, <1>4, <2>1 DEF InOrder
  <2>2. CASE i > Len(q)
    <3>1. i - Len(q) \in DOMAIN b /\ j - Len(q) \in DOMAIN b /\ i - Len(q) < j - Len(q)
      BY <1>3, <1>4, <2>2
    <3>2. way[i] = b[i - Len(q)] /\ way[j] = b[j - Len(q)]
      BY <1>3, <1>4, <2>2
    <3> QED BY <1>2, <3>1, <3>2 DEF InOrder
  <2>3. CASE i <= Len(q) /\ j > Len(q)
    <3>1. i \in DOMAIN q /\ j - Len(q) \in DOMAIN b
      BY <1>3, <1>4, <2>3
    <3>2. way[i] = q[i] /\ way[j] = b[j - Len(q)]
      BY <1>3, <1>4, <2>3
    <3>3. way[i] \in Range(q) /\ way[j] \in Range(b)
      BY <3>1, <3>2 DEF Range
    <3> QED BY <1>2, <3>3 DEF AllBefore
  <2> QED BY <1>3, <2>1, <2>2, <2>3
<1> QED
  BY <1>4 DEF way, q, b

-----------------------------------------------------------------------------
\* A step of everyone but a root actor, a sending task and a leader that begins
\* a round: no request of a leader is sent, and what is taken is at the head.
QuietStep ==
    /\ \A p \in Node :
          \/ inbox'[p] = inbox[p]
          \/ \E m : /\ m.type # "AppendEntries"
                   /\ inbox'[p] = Append(inbox[p], m)
    /\ \A p \in Node, role \in Role :
          \/ queue'[p][role] = queue[p][role]
          \/ /\ queue[p][role] # <<>>
             /\ queue'[p][role] = Tail(queue[p][role])
    /\ \A s \in Node : \A parcel \in outbox'[s] :
          parcel.message.type = "AppendEntries" =>
              parcel \in outbox[s] /\ leading'[s] = leading[s]

LEMMA QuietKeepsOrder ==
    ASSUME TypeOK, WaysInOrder, RoundsInOrder, QuietStep
    PROVE  WaysInOrder' /\ RoundsInOrder'
<1>1. ASSUME NEW p \in Node
      PROVE  /\ InOrder(inbox'[p])
             /\ \A m \in Range(inbox'[p]) :
                   m \in Range(inbox[p]) \/ m.type # "AppendEntries"
  <2>1. inbox[p] \in Seq(ServerMessage \cup ClientRequests) /\ InOrder(inbox[p])
    BY DEF TypeOK, WaysInOrder
  <2>2. CASE inbox'[p] = inbox[p]
    BY <2>1, <2>2
  <2>3. ASSUME NEW m, m.type # "AppendEntries", inbox'[p] = Append(inbox[p], m)
        PROVE  /\ InOrder(inbox'[p])
               /\ Range(inbox'[p]) \subseteq Range(inbox[p]) \cup {m}
    <3>1. \A n \in Range(inbox[p]) : NotPast(n, m)
      BY <2>3 DEF NotPast
    <3> QED BY <2>1, <2>3, <3>1, AppendInOrder, AppendFacts
  <2> QED BY <2>2, <2>3 DEF QuietStep
<1>2. ASSUME NEW p \in Node, NEW role \in Role
      PROVE  /\ InOrder(queue'[p][role])
             /\ Range(queue'[p][role]) \subseteq Range(queue[p][role])
  <2>1. queue[p][role] \in Seq(ServerMessage) /\ InOrder(queue[p][role])
    BY DEF TypeOK, WaysInOrder
  <2>2. queue[p][role] # <<>> =>
           /\ InOrder(Tail(queue[p][role]))
           /\ Range(Tail(queue[p][role])) \subseteq Range(queue[p][role])
    BY <2>1, TailInOrder, RangeOfTail
  <2> QED BY <2>1, <2>2 DEF QuietStep
<1>3. ASSUME NEW p \in Node, NEW role \in Role
      PROVE  AllBefore(queue'[p][role], inbox'[p])
  <2>1. AllBefore(queue[p][role], inbox[p])
    BY DEF WaysInOrder
  <2> QED BY <1>1, <1>2, <2>1 DEF AllBefore, NotPast
<1>4. WaysInOrder'
  BY <1>1, <1>2, <1>3 DEF WaysInOrder
<1>5. ASSUME NEW s \in Node, NEW parcel \in outbox'[s],
             parcel.message.type = "AppendEntries"
      PROVE  Last(s, parcel)'
  <2>1. parcel \in outbox[s] /\ leading'[s] = leading[s]
    BY <1>5 DEF QuietStep
  <2>2. Last(s, parcel) /\ parcel.to \in Node
    <3>1. parcel \in Parcel
      BY <2>1 DEF TypeOK
    <3> QED BY <1>5, <2>1, <3>1 DEF RoundsInOrder, Parcel
  <2>3. \A m \in Range(inbox'[parcel.to]) : NotPast(m, parcel.message)
    BY <1>1, <2>2 DEF Last, NotPast
  <2>4. \A role \in Role : \A m \in Range(queue'[parcel.to][role]) :
           NotPast(m, parcel.message)
    BY <1>2, <2>2 DEF Last
  <2>5. \A other \in outbox'[s] : other.message.type = "AppendEntries" =>
           other \in outbox[s]
    BY DEF QuietStep
  <2> QED BY <2>1, <2>2, <2>3, <2>4, <2>5 DEF Last
<1> QED
  BY <1>4, <1>5 DEF RoundsInOrder

\* What is in order stays in order when the root actor takes a message: it goes
\* from the head of the mailbox to the end of one queue, past no other.
LEMMA RoutingKeepsOrder ==
    ASSUME TypeOK, WaysInOrder, RoundsInOrder, NEW s \in Node, RootStep(s)
    PROVE  WaysInOrder' /\ RoundsInOrder'
<1> DEFINE h == Head(inbox[s])
<1>1. /\ inbox[s] \in Seq(ServerMessage \cup ClientRequests) /\ inbox[s] # <<>>
      /\ inbox' = [inbox EXCEPT ![s] = Tail(@)]
      /\ UNCHANGED <<outbox, leading>>
  BY DEF RootStep, RootRoutesServerMessage, RootRoutesClientMessage, TypeOK, actorVars
<1>2. /\ inbox'[s] = Tail(inbox[s])
      /\ \A p \in Node \ {s} : inbox'[p] = inbox[p]
  BY <1>1 DEF TypeOK
<1>3. /\ Range(Tail(inbox[s])) \subseteq Range(inbox[s])
      /\ h \in Range(inbox[s])
      /\ InOrder(Tail(inbox[s]))
  BY <1>1, RangeOfTail, TailInOrder DEF WaysInOrder
<1>4. \A m \in Range(Tail(inbox[s])) : NotPast(h, m)
  <2>1. /\ DOMAIN inbox[s] = 1 .. Len(inbox[s]) /\ Len(inbox[s]) \in Nat
        /\ DOMAIN Tail(inbox[s]) = 1 .. Len(inbox[s]) - 1
        /\ \A i \in 1 .. Len(inbox[s]) - 1 : Tail(inbox[s])[i] = inbox[s][i + 1]
        /\ h = inbox[s][1]
    BY <1>1
  <2> HIDE DEF h
  <2>2. ASSUME NEW i \in 1 .. Len(inbox[s]) - 1 PROVE NotPast(h, Tail(inbox[s])[i])
    <3>1. 1 \in DOMAIN inbox[s] /\ i + 1 \in DOMAIN inbox[s] /\ 1 < i + 1
      BY <2>1
    <3>2. NotPast(inbox[s][1], inbox[s][i + 1])
      BY <3>1 DEF WaysInOrder, InOrder
    <3> QED BY <2>1, <3>2
  <2> QED BY <2>1, <2>2 DEF Range
<1>5. ASSUME NEW p \in Node, NEW role \in Role
      PROVE  \/ queue'[p][role] = queue[p][role]
             \/ /\ p = s /\ queue'[p][role] = Append(queue[p][role], h)
                /\ queue[p][role] \in Seq(ServerMessage)
  <2>1. queue \in [Node -> [Role -> Seq(ServerMessage)]]
    BY DEF TypeOK
  <2>2. \/ UNCHANGED queue
        \/ queue' = [queue EXCEPT ![s][state[s]] = Append(@, h)]
    BY DEF RootStep, RootRoutesServerMessage, RootRoutesClientMessage
  <2> HIDE DEF h
  <2> QED BY <2>1, <2>2
<1> HIDE DEF h
<1>6. ASSUME NEW p \in Node PROVE InOrder(inbox'[p])
  BY <1>2, <1>3, <1>6 DEF WaysInOrder
<1>7. ASSUME NEW p \in Node, NEW role \in Role
      PROVE  /\ InOrder(queue'[p][role])
             /\ AllBefore(queue'[p][role], inbox'[p])
             /\ \A m \in Range(queue'[p][role]) :
                   m \in Range(queue[p][role]) \/ m \in Range(inbox[p])
  <2>1. InOrder(queue[p][role]) /\ AllBefore(queue[p][role], inbox[p])
    BY DEF WaysInOrder
  <2>2. CASE queue'[p][role] = queue[p][role]
    BY <1>2, <1>3, <2>1, <2>2 DEF AllBefore
  <2>3. CASE /\ p = s /\ queue'[p][role] = Append(queue[p][role], h)
             /\ queue[p][role] \in Seq(ServerMessage)
    <3>1. Range(queue'[p][role]) \subseteq Range(queue[p][role]) \cup {h}
      BY <2>3, AppendFacts
    <3>2. \A m \in Range(queue[p][role]) : NotPast(m, h)
      BY <1>3, <2>1, <2>3 DEF AllBefore
    <3>3. InOrder(queue'[p][role])
      BY <2>1, <2>3, <3>2, AppendInOrder
    <3> QED BY <1>2, <1>3, <1>4, <2>1, <2>3, <3>1, <3>3 DEF AllBefore
  <2> QED BY <1>5, <2>2, <2>3
<1>8. ASSUME NEW t \in Node, NEW parcel \in outbox'[t],
             parcel.message.type = "AppendEntries"
      PROVE  Last(t, parcel)'
  <2>1. parcel \in outbox[t] /\ parcel \in Parcel /\ UNCHANGED <<outbox, leading>>
    BY <1>1, <1>8 DEF TypeOK
  <2>2. Last(t, parcel) /\ parcel.to \in Node
    BY <1>8, <2>1 DEF RoundsInOrder, Parcel
  <2>3. \A m \in Range(inbox'[parcel.to]) : NotPast(m, parcel.message)
    BY <1>2, <1>3, <2>2 DEF Last
  <2>4. \A role \in Role : \A m \in Range(queue'[parcel.to][role]) :
           NotPast(m, parcel.message)
    BY <1>7, <2>2 DEF Last
  <2> QED BY <2>1, <2>2, <2>3, <2>4 DEF Last
<1> QED
  BY <1>6, <1>7, <1>8 DEF WaysInOrder, RoundsInOrder

\* A task delivers the last request its leader has for the peer.
LEMMA DeliveryKeepsOrder ==
    ASSUME TypeOK, WaysInOrder, RoundsInOrder, NEW s \in Node, Transmit(s)
    PROVE  WaysInOrder' /\ RoundsInOrder'
<1>1. PICK sent \in outbox[s] :
         /\ outbox' = [outbox EXCEPT ![s] = @ \ {sent}]
         /\ Send(sent.to, sent.message)
  BY DEF Transmit
<1>2. /\ sent.to \in Node
      /\ UNCHANGED <<queue, leading>>
      /\ outbox'[s] = outbox[s] \ {sent}
      /\ \A t \in Node \ {s} : outbox'[t] = outbox[t]
      /\ inbox'[sent.to] = Append(inbox[sent.to], sent.message)
      /\ \A p \in Node \ {sent.to} : inbox'[p] = inbox[p]
      /\ inbox[sent.to] \in Seq(ServerMessage \cup ClientRequests)
  <2>1. sent \in Parcel
    BY DEF TypeOK
  <2> QED BY <1>1, <2>1 DEF Transmit, Parcel, TypeOK, Send, actorVars
<1>3. CASE sent.message.type # "AppendEntries"
  <2>1. QuietStep
    BY <1>2, <1>3 DEF QuietStep
  <2> QED BY <2>1, QuietKeepsOrder
<1>4. CASE sent.message.type = "AppendEntries"
  <2>1. Last(s, sent)
    BY <1>1, <1>4 DEF RoundsInOrder
  <2>2. /\ InOrder(inbox'[sent.to])
        /\ Range(inbox'[sent.to]) \subseteq Range(inbox[sent.to]) \cup {sent.message}
    BY <1>2, <2>1, AppendInOrder, AppendFacts DEF WaysInOrder, Last
  <2>3. ASSUME NEW role \in Role
        PROVE  AllBefore(queue[sent.to][role], inbox'[sent.to])
    BY <1>2, <2>1, <2>2 DEF WaysInOrder, AllBefore, Last
  <2>4. WaysInOrder'
    BY <1>2, <2>2, <2>3 DEF WaysInOrder
  <2>5. ASSUME NEW t \in Node, NEW parcel \in outbox'[t],
               parcel.message.type = "AppendEntries"
        PROVE  Last(t, parcel)'
    <3>1. parcel \in outbox[t] /\ outbox'[t] \subseteq outbox[t]
      BY <1>2, <2>5
    <3>2. Last(t, parcel) /\ parcel.to \in Node
      <4>1. parcel \in Parcel
        BY <3>1 DEF TypeOK
      <4> QED BY <2>5, <3>1, <4>1 DEF RoundsInOrder, Parcel
    <3>3. parcel.to = sent.to => NotPast(sent.message, parcel.message)
      <4>1. CASE t = s
        BY <1>1, <1>2, <1>4, <2>5, <3>1, <3>2, <4>1 DEF Last
      <4>2. CASE t # s
        BY <2>1, <3>2, <4>2 DEF Last, NotPast
      <4> QED BY <4>1, <4>2
    <3>4. \A m \in Range(inbox'[parcel.to]) : NotPast(m, parcel.message)
      BY ZenonT(60), <1>2, <2>2, <3>2, <3>3 DEF Last
    <3> QED BY <1>2, <3>1, <3>2, <3>4 DEF Last
  <2> QED BY <2>4, <2>5 DEF RoundsInOrder
<1> QED
  BY <1>3, <1>4

\* A leader begins a round when it has no request with a task, and each of the
\* new ones reaches the end of its log, past which no request in flight goes.
LEMMA RoundKeepsOrder ==
    ASSUME Inv, AppendsMatchSender, WaysInOrder, RoundsInOrder, NEW s \in Node,
           NEW next, Heartbeat(s, next),
           \A p \in Peers(s) : next[p] \in 1 .. Len(log[s]) + 1,
           ~Sending(s, "AppendEntries"), leading'[s],
           \A n \in Node \ {s} : leading'[n] = leading[n],
           UNCHANGED <<inbox, queue>>
    PROVE  WaysInOrder' /\ RoundsInOrder'
<1> DEFINE m(p) == AppendEntriesFor(s, p, next)
<1>1. /\ \A n \in Node \ {s} : outbox'[n] = outbox[n]
      /\ \A parcel \in outbox'[s] :
            parcel \in outbox[s] \/ \E p \in Peers(s) : parcel = [to |-> p, message |-> m(p)]
  BY DEF Heartbeat, Inv, TypeOK
<1>2. WaysInOrder'
  BY DEF WaysInOrder
<1>3. ASSUME NEW p \in Peers(s)
      PROVE  m(p).from = s /\ Reach(m(p)) = Len(log[s])
  <2>1. /\ m(p).from = s
        /\ m(p).prevLogIndex = next[p] - 1
        /\ m(p).entries = SubSeq(log[s], next[p], Len(log[s]))
    BY <1>3, AppendEntriesForInLog
  <2>2. log[s] \in Seq(LogEntries(Writes)) /\ Len(log[s]) \in Nat
    BY LogsNumbered
  <2>3. next[p] \in 1 .. Len(log[s]) + 1
    OBVIOUS
  <2> HIDE DEF m
  <2>4. Len(m(p).entries) = Len(log[s]) - next[p] + 1
    BY <2>1, <2>2, <2>3
  <2> QED BY <2>1, <2>2, <2>3, <2>4 DEF Reach
<1> HIDE DEF m
<1>4. ASSUME NEW p \in Peers(s), NEW n \in InFlight PROVE NotPast(n, m(p))
  <2>1. n.type = "AppendEntries" => Reach(n) <= Len(log[n.from])
    BY <1>4, AppendsOneByOne DEF MatchesSender, Reach
  <2> QED BY <1>3, <2>1 DEF NotPast
<1>5. ASSUME NEW t \in Node, NEW parcel \in outbox'[t],
             parcel.message.type = "AppendEntries"
      PROVE  Last(t, parcel)'
  <2>1. CASE t # s
    <3>1. Last(t, parcel)
      BY <1>1, <1>5, <2>1 DEF RoundsInOrder
    <3> QED BY <1>1, <2>1, <3>1 DEF Last
  <2>2. CASE t = s
    <3>1. \A other \in outbox'[s] : other.message.type = "AppendEntries" =>
             \E p \in Peers(s) : other = [to |-> p, message |-> m(p)]
      BY <1>1 DEF Sending
    <3>2. PICK p \in Peers(s) : parcel = [to |-> p, message |-> m(p)]
      BY <1>5, <2>2, <3>1
    <3>3. \A other \in outbox'[s] :
             other.message.type = "AppendEntries" /\ other.to = parcel.to =>
                other = parcel
      BY <3>1, <3>2
    <3>4. /\ p \in Node /\ parcel.to = p /\ parcel.message = m(p)
          /\ parcel.message.from = s
      BY <1>3, <3>2 DEF Peers
    <3>5. \A n \in Range(inbox[p]) : NotPast(n, m(p))
      BY <1>4, <3>4, Carriers
    <3>6. \A role \in Role : \A n \in Range(queue[p][role]) : NotPast(n, m(p))
      BY <1>4, <3>4, Carriers
    <3> QED BY <2>2, <3>3, <3>4, <3>5, <3>6 DEF Last
  <2> QED BY <2>1, <2>2
<1> QED
  BY <1>2, <1>5 DEF RoundsInOrder

\* What the follower actor, the candidate actor and the client actor do, and
\* all the leader actor does but begin a round.
LEMMA HandlersAreQuiet ==
    ASSUME TypeOK, NEW s \in Node,
           \/ FollowerStep(s) \/ CandidateStep(s)
           \/ LeaderStep(s) /\ ~LeaderTakesOffice(s) /\ ~LeaderBeats(s)
           \/ ClientRequestStep(s)
    PROVE  QuietStep
<1>b. ASSUME NEW to, NEW m, Send(to, m)
      PROVE  \A p \in Node : inbox'[p] = inbox[p] \/ inbox'[p] = Append(inbox[p], m)
  BY <1>b DEF Send, TypeOK
<1>c. ASSUME NEW role \in Role, queue[s][role] # <<>> /\ Take(s, role)
      PROVE  \A p \in Node, r \in Role :
                \/ queue'[p][r] = queue[p][r]
                \/ queue[p][r] # <<>> /\ queue'[p][r] = Tail(queue[p][r])
  BY <1>c DEF Take, TypeOK
<1> DEFINE Answered ==
       \/ UNCHANGED inbox
       \/ \E to, m : m.type # "AppendEntries" /\ Send(to, m)
    Taken == \/ UNCHANGED queue
             \/ \E role \in Role : queue[s][role] # <<>> /\ Take(s, role)
    Kept == \A t \in Node : \A parcel \in outbox'[t] :
               parcel.message.type = "AppendEntries" =>
                  parcel \in outbox[t] /\ leading'[t] = leading[t]
<1>d. Answered /\ Taken /\ Kept => QuietStep
  BY <1>b, <1>c DEF QuietStep
<1>e. UNCHANGED <<outbox, leading>> => Kept
  OBVIOUS
<1> USE DEF Role
<1>1. CASE FollowerStep(s)
  <2>1. Answered
    BY <1>1, AnswersAreNotAppends DEF FollowerStep, FollowerTimesOut, FollowerSeesChange,
       FollowerGrantsVote, FollowerRefusesVote, FollowerFollowsLeader,
       FollowerRejectsStaleLeader, FollowerDropsVote, FollowerPanics, Panic, channelVars
  <2>2. Taken /\ UNCHANGED <<outbox, leading>>
    BY <1>1 DEF FollowerStep, FollowerTimesOut, FollowerSeesChange,
       FollowerGrantsVote, FollowerRefusesVote, FollowerFollowsLeader,
       FollowerRejectsStaleLeader, FollowerDropsVote, FollowerPanics, Panic,
       channelVars, actorVars, FollowerReceives, Receives
  <2> QED BY <2>1, <2>2, <1>d, <1>e
<1>2. CASE CandidateStep(s)
  <2>1. Answered
    BY <1>2, AnswersAreNotAppends DEF CandidateStep, CandidateCampaigns,
       CandidateStandsDown, CandidateFollowsLeader, CandidateRejectsStaleLeader,
       CandidateGrantsVote, CandidateRefusesVote, CandidateWins, CandidateCountsVote,
       CandidatePanics, CandidateYields, CandidateRefuses, Panic, channelVars
  <2>2. Taken /\ UNCHANGED leading
    BY <1>2 DEF CandidateStep, CandidateCampaigns, CandidateStandsDown,
       CandidateFollowsLeader, CandidateRejectsStaleLeader, CandidateGrantsVote,
       CandidateRefusesVote, CandidateWins, CandidateCountsVote, CandidatePanics,
       CandidateYields, CandidateRefuses, Panic, channelVars, actorVars,
       CandidateReceives, Receives
  <2>3. UNCHANGED outbox \/ CandidateCampaigns(s)
    BY <1>2 DEF CandidateStep, CandidateStandsDown,
       CandidateFollowsLeader, CandidateRejectsStaleLeader, CandidateGrantsVote,
       CandidateRefusesVote, CandidateWins, CandidateCountsVote, CandidatePanics,
       CandidateYields, CandidateRefuses, Panic, channelVars
  <2>4. CandidateCampaigns(s) => Kept
    <3>1. CandidateCampaigns(s) =>
             \A t \in Node : \A parcel \in outbox'[t] :
                \/ parcel \in outbox[t]
                \/ parcel.message = RequestVote(s, currentTerm[s] + 1)
      BY DEF CandidateCampaigns, TypeOK
    <3> QED BY <2>2, <3>1 DEF RequestVote
  <2> QED BY <2>1, <2>2, <2>3, <2>4, <1>d, <1>e
<1>3. CASE LeaderStep(s) /\ ~LeaderTakesOffice(s) /\ ~LeaderBeats(s)
  <2>1. Answered /\ Taken /\ UNCHANGED outbox
    BY <1>3 DEF LeaderStep, LeaderOverlooksChange, LeaderStandsDown,
       LeaderRecordsSuccess, LeaderRecordsFailure, LeaderDropsVote, LeaderPanics,
       LeaderReceives, Receives, Panic, channelVars
  <2>2. UNCHANGED leading \/ LeaderStandsDown(s)
    BY <1>3 DEF LeaderStep, LeaderOverlooksChange, LeaderRecordsSuccess,
       LeaderRecordsFailure, LeaderDropsVote, LeaderPanics, Panic, actorVars
  <2>3. LeaderStandsDown(s) => Kept
    BY <2>1 DEF LeaderStandsDown, Listening, Sending, TypeOK
  <2> QED BY <2>1, <2>2, <2>3, <1>d, <1>e
<1>4. CASE ClientRequestStep(s)
  <2>1. Answered /\ Taken /\ UNCHANGED <<outbox, leading>>
    BY <1>4 DEF ClientRequestStep, LeaderAnswers, ServerForwards,
       ServerKnowsNoLeader, Panic, ClientRequest, actorVars
  <2> QED BY <2>1, <1>d, <1>e
<1> QED
  BY <1>1, <1>2, <1>3, <1>4

Order == WaysInOrder /\ RoundsInOrder

LEMMA OrderInitially == Init => Order
  BY DEF Init, Order, WaysInOrder, RoundsInOrder, InOrder, AllBefore, Range

LEMMA OrderKept ==
    ASSUME Inv, AppendsMatchSender, Order, [Next]_vars
    PROVE  Order'
<1> USE DEF Order
<1>a. TypeOK /\ CursorsInLog
  BY DEF Inv
<1>1. ASSUME NEW s \in Node, ServerStep(s) PROVE Order'
  <2>1. CASE RootStep(s) \/ Transmit(s)
    BY <1>a, <2>1, RoutingKeepsOrder, DeliveryKeepsOrder
  <2>2. CASE LeaderTakesOffice(s)
    <3> DEFINE next == NewNextIndices(Peers(s), LastIndex(log[s]))
    <3>1. \A p \in Peers(s) : next[p] \in 1 .. Len(log[s]) + 1
      BY LogsNumbered DEF NewNextIndices
    <3>2. Heartbeat(s, next) /\ UNCHANGED <<inbox, queue>>
      BY <2>2 DEF LeaderTakesOffice
    <3>3. leading'[s] /\ \A n \in Node \ {s} : leading'[n] = leading[n]
      BY <1>a, <2>2 DEF LeaderTakesOffice, TypeOK
    <3>4. ~Sending(s, "AppendEntries")
      BY <2>2 DEF LeaderTakesOffice, Sending, RoundsInOrder, Last
    <3> HIDE DEF next, Order
    <3> QED BY <3>1, <3>2, <3>3, <3>4, RoundKeepsOrder DEF Order
  <2>3. CASE LeaderBeats(s)
    <3>1. \A p \in Peers(s) : nextIndex[s][p] \in 1 .. Len(log[s]) + 1
      BY <1>a DEF CursorsInLog
    <3>2. /\ Heartbeat(s, nextIndex[s])
          /\ ~Sending(s, "AppendEntries") /\ leading[s]
          /\ UNCHANGED <<inbox, queue, leading>>
      BY <2>3 DEF LeaderBeats, Listening, actorVars
    <3> QED BY <3>1, <3>2, RoundKeepsOrder
  <2>4. CASE \/ FollowerStep(s) \/ CandidateStep(s)
             \/ LeaderStep(s) /\ ~LeaderTakesOffice(s) /\ ~LeaderBeats(s)
             \/ ClientRequestStep(s)
    BY <1>a, <2>4, HandlersAreQuiet, QuietKeepsOrder
  <2> QED BY <1>1, <2>1, <2>2, <2>3, <2>4 DEF ServerStep
<1>2. ASSUME NEW r \in Request, ClientSends(r) PROVE Order'
  <2>1. QuietStep
    <3>1. PICK s \in Node : Send(s, ClientRequest(r))
      BY <1>2 DEF ClientSends
    <3>2. \A p \in Node :
             inbox'[p] = inbox[p] \/ inbox'[p] = Append(inbox[p], ClientRequest(r))
      BY <1>a, <3>1 DEF Send, TypeOK
    <3> QED BY <1>2, <3>2 DEF ClientSends, QuietStep, ClientRequest, actorVars
  <2> QED BY <1>a, <2>1, QuietKeepsOrder
<1>3. CASE UNCHANGED vars
  <2>1. QuietStep
    BY <1>3 DEF vars, channelVars, actorVars, QuietStep
  <2> QED BY <1>a, <2>1, QuietKeepsOrder
<1> QED
  BY <1>1, <1>2, <1>3 DEF Next, Halted

\* Of two requests of a leader in the way of a peer's actor, the later one never
\* describes a shorter log (leader.rs:43-69), through every change of role.
THEOREM AppendsStayInOrder == Spec => []AppendsInOrder
<1> DEFINE I == Inv /\ AppendsMatchSender /\ Order
<1>1. Init => I
  BY AppendsOneByOne, NothingInFlightInitially, InvInitially, OrderInitially
<1>2. I /\ [Next]_vars => I'
  BY InvKept, AppendsKept, OrderKept
<1>3. I => AppendsInOrder
  BY WaysAreOrdered DEF Inv, Order
<1> QED
  BY <1>1, <1>2, <1>3, PTL DEF Spec

-----------------------------------------------------------------------------
(***************************************************************************)
(* What a leader commits.                                                  *)
(***************************************************************************)
\* A step that takes a message from a leader actor's queue and changes the
\* commit index of its server is one that records a success.
LEMMA WhoCommits ==
    ASSUME Inv, [Next]_vars, NEW s \in Node,
           queue'[s]["Leader"] # queue[s]["Leader"],
           commitIndex'[s] # commitIndex[s]
    PROVE  commitIndex'[s] = HighestCommittableIndex(nextIndex[s])
<1> USE DEF Role
<1>a. TypeOK
  BY DEF Inv
<1>1. ASSUME NEW t \in Node, LeaderRecordsSuccess(t)
      PROVE  commitIndex'[s] = HighestCommittableIndex(nextIndex[s])
  <2>1. commitIndex' = [commitIndex EXCEPT ![t] = HighestCommittableIndex(nextIndex[t])]
    BY <1>1 DEF LeaderRecordsSuccess
  <2> QED BY <1>a, <2>1 DEF TypeOK
<1>2. ASSUME NEW t \in Node, FollowerFollowsLeader(t) PROVE FALSE
  <2>1. queue' = [queue EXCEPT ![t]["Follower"] = Tail(@)]
    BY <1>2 DEF FollowerFollowsLeader, FollowerReceives, Take
  <2> QED BY <1>a, <2>1 DEF TypeOK
<1> QED
  BY <1>1, <1>2, WhoSetsCommits

\* What CommitHasMajority says of one server.
Commits(s) == queue'[s]["Leader"] # queue[s]["Leader"] /\ commitIndex'[s] # commitIndex[s]

Credited(s) ==
    /\ commitIndex'[s] > 0 => 2 * Holding(s, commitIndex'[s]) > Cardinality(Node)
    /\ 2 * Holding(s, commitIndex'[s] + 1) <= Cardinality(Node)

LEMMA CommitIsCredited ==
    ASSUME Inv, Cardinality(Node) > 1, [Next]_vars, NEW s \in Node, Commits(s)
    PROVE  Credited(s)
<1> DEFINE high == HighestCommittableIndex(nextIndex[s])
           bound == Len(log[s]) + 1
           held(i) == {p \in Peers(s) : nextIndex[s][p] > i}
<1>1. /\ IsFiniteSet(Peers(s))
      /\ Cardinality(Node) = Cardinality(Peers(s)) + 1
      /\ Cardinality(Peers(s)) \in Nat
  <2>1. IsFiniteSet(Node) /\ Cardinality(Node) \in Nat
    BY NodeAssumption, FS_CardinalityType
  <2>2. /\ IsFiniteSet(Node \ {s})
        /\ Cardinality(Node \ {s}) = Cardinality(Node) - 1
    BY <2>1, FS_RemoveElement
  <2>3. Peers(s) = Node \ {s}
    BY DEF Peers
  <2> QED BY <2>1, <2>2, <2>3
<1>2. Peers(s) # {}
  <2>1. Peers(s) = {} => Cardinality(Peers(s)) = 0
    BY FS_EmptySet
  <2> QED BY <1>1, <2>1
<1>3. bound \in Nat /\ nextIndex[s] \in [Peers(s) -> 1 .. bound]
  <2>1. Len(log[s]) \in Nat
    BY LogsNumbered
  <2>2. nextIndex[s] \in [Peers(s) -> Nat]
    BY DEF Inv, TypeOK
  <2>3. \A p \in Peers(s) : nextIndex[s][p] \in 1 .. bound
    BY DEF Inv, CursorsInLog
  <2> QED BY <2>1, <2>2, <2>3
<1>4. /\ high + 1 \in 1 .. bound
      /\ 2 * (1 + Cardinality(held(high))) > Cardinality(Node)
      /\ \A i \in Nat : i > high =>
            2 * (1 + Cardinality(held(i))) <= Cardinality(Node)
  <2> HIDE DEF bound
  <2> QED BY ZenonT(60), <1>1, <1>2, <1>3, CommittableIsHighest
<1>5. high \in Nat
  <2> HIDE DEF bound
  <2>1. nextIndex[s] \in [Peers(s) -> Nat] /\ \A p \in Peers(s) : nextIndex[s][p] <= bound
    BY <1>3
  <2> QED BY <1>1, <1>3, <2>1, CommittableBelowSomePeer
<1>6. commitIndex'[s] = high
  BY WhoCommits DEF Commits
<1> HIDE DEF high
<1>7. \A i : Holding(s, i) = 1 + Cardinality(held(i))
  BY DEF Holding
<1>8. high + 1 \in Nat /\ high + 1 > high
  BY <1>5
<1> HIDE DEF held
<1> QED
  BY <1>4, <1>5, <1>6, <1>7, <1>8 DEF Credited

\* The commit index a leader sets is the highest one its bookkeeping credits to
\* a majority of the cluster (leader.rs:148-149, volatile_leader_state.rs:95-104),
\* in every cluster of more than one server.
THEOREM CommitsHaveMajority ==
    ASSUME Cardinality(Node) > 1
    PROVE  Spec => CommitHasMajority
<1> DEFINE A == \A s \in Node : Commits(s) => Credited(s)
<1>1. Inv /\ [Next]_vars => A
  BY CommitIsCredited
<1>2. A <=> \A s \in Node :
          (/\ queue'[s]["Leader"] # queue[s]["Leader"]
           /\ commitIndex'[s] # commitIndex[s]) =>
              /\ commitIndex'[s] > 0 =>
                     2 * Holding(s, commitIndex'[s]) > Cardinality(Node)
              /\ 2 * Holding(s, commitIndex'[s] + 1) <= Cardinality(Node)
  BY DEF Commits, Credited
<1> HIDE DEF A
<1> QED
  BY <1>1, <1>2, InvInitially, InvKept, PTL DEF Spec, CommitHasMajority
=============================================================================
