----------------------------- MODULE ClientProofs -----------------------------
(***************************************************************************)
(* Theorems about the requests of clients: on its way between servers a    *)
(* request is neither lost nor duplicated, and the cluster implements      *)
(* ClientContract, for every number of servers and requests.               *)
(***************************************************************************)
EXTENDS MiniRaftProofs

(***************************************************************************)
(* A value in a sequence: nowhere, or in one place.                        *)
(***************************************************************************)
Absent(v, q) == \A i \in DOMAIN q : q[i] # v

Once(v, q) ==
    \E i \in DOMAIN q : q[i] = v /\ \A j \in DOMAIN q : q[j] = v => j = i

LEMMA OnceIsPresent ==
    ASSUME NEW v, NEW q, Once(v, q)
    PROVE  ~Absent(v, q)
  BY DEF Once, Absent

\* The end of a sequence, where senders put their messages.
LEMMA AppendCounts ==
    ASSUME NEW S, NEW q \in Seq(S), NEW e \in S, NEW v
    PROVE  /\ e # v /\ Absent(v, q) => Absent(v, Append(q, e))
           /\ e # v /\ Once(v, q) => Once(v, Append(q, e))
           /\ e = v /\ Absent(v, q) => Once(v, Append(q, e))
<1> DEFINE r == Append(q, e)
           n == Len(q)
<1>1. /\ n \in Nat /\ DOMAIN q = 1 .. n /\ DOMAIN r = 1 .. n + 1
      /\ \A i \in 1 .. n : r[i] = q[i]
      /\ r[n + 1] = e
  OBVIOUS
<1> HIDE DEF r, n
<1>2. DOMAIN r = DOMAIN q \cup {n + 1} /\ n + 1 \in DOMAIN r
  BY <1>1
<1>3. \A i \in DOMAIN q : r[i] = q[i]
  BY <1>1
<1>4. e # v /\ Absent(v, q) => Absent(v, r)
  BY <1>1, <1>2, <1>3 DEF Absent
<1>5. ASSUME e # v, Once(v, q) PROVE Once(v, r)
  <2>1. PICK i \in DOMAIN q : q[i] = v /\ \A j \in DOMAIN q : q[j] = v => j = i
    BY <1>5 DEF Once
  <2>2. i \in DOMAIN r /\ r[i] = v
    BY <2>1, <1>2, <1>3
  <2>3. \A j \in DOMAIN r : r[j] = v => j = i
    BY <2>1, <1>1, <1>2, <1>3, <1>5
  <2> QED BY <2>2, <2>3 DEF Once
<1>6. ASSUME e = v, Absent(v, q) PROVE Once(v, r)
  <2>1. \A j \in DOMAIN r : r[j] = v => j = n + 1
    BY <1>2, <1>3, <1>6 DEF Absent
  <2> QED BY <1>1, <1>2, <1>6, <2>1 DEF Once
<1> QED
  BY <1>4, <1>5, <1>6 DEF r

\* The head of a sequence, which its reader takes.
LEMMA TailCounts ==
    ASSUME NEW S, NEW q \in Seq(S), q # <<>>, NEW v
    PROVE  /\ Absent(v, q) => Head(q) # v /\ Absent(v, Tail(q))
           /\ Once(v, q) /\ Head(q) # v => Once(v, Tail(q))
           /\ Once(v, q) /\ Head(q) = v => Absent(v, Tail(q))
<1> DEFINE r == Tail(q)
           n == Len(q) - 1
<1>1. /\ n \in Nat /\ DOMAIN q = 1 .. n + 1 /\ DOMAIN r = 1 .. n
      /\ \A i \in 1 .. n : r[i] = q[i + 1]
      /\ Head(q) = q[1] /\ 1 \in DOMAIN q
  OBVIOUS
<1> HIDE DEF r, n
<1>2. \A i \in DOMAIN r : i + 1 \in DOMAIN q /\ r[i] = q[i + 1] /\ i \in Int
  BY <1>1
<1>3. Absent(v, q) => Head(q) # v /\ Absent(v, r)
  BY <1>1, <1>2 DEF Absent
<1>4. ASSUME Once(v, q), Head(q) # v PROVE Once(v, r)
  <2>1. PICK i \in DOMAIN q : q[i] = v /\ \A j \in DOMAIN q : q[j] = v => j = i
    BY <1>4 DEF Once
  <2>2. i \in Int /\ i # 1
    BY <1>1, <1>4, <2>1
  <2>3. i - 1 \in DOMAIN r /\ r[i - 1] = v
    BY <1>1, <2>1, <2>2
  <2>4. \A j \in DOMAIN r : r[j] = v => j = i - 1
    BY <1>2, <2>1, <2>2
  <2> QED BY <2>3, <2>4 DEF Once
<1>5. ASSUME Once(v, q), Head(q) = v PROVE Absent(v, r)
  <2>1. \A j \in DOMAIN q : q[j] = v => j = 1
    BY <1>1, <1>5 DEF Once
  <2>2. \A j \in DOMAIN r : j + 1 # 1
    BY <1>1
  <2> QED BY <1>2, <2>1, <2>2 DEF Absent
<1> QED
  BY <1>3, <1>4, <1>5 DEF r

(***************************************************************************)
(* A request on its way.                                                   *)
(***************************************************************************)
Nowhere(r) ==
    \A t \in Node : Absent(ClientRequest(r), inbox[t]) /\ Absent(r, clientQueue[t])

MailedTo(r, s) ==
    /\ Once(ClientRequest(r), inbox[s])
    /\ \A t \in Node \ {s} : Absent(ClientRequest(r), inbox[t])
    /\ \A t \in Node : Absent(r, clientQueue[t])

QueuedAt(r, s) ==
    /\ Once(r, clientQueue[s])
    /\ \A t \in Node \ {s} : Absent(r, clientQueue[t])
    /\ \A t \in Node : Absent(ClientRequest(r), inbox[t])

\* A pending request is in one mailbox or one queue, once; any other is nowhere.
Conserved(r) ==
    IF request[r] = "pending"
    THEN \E s \in Node : MailedTo(r, s) \/ QueuedAt(r, s)
    ELSE Nowhere(r)

AllConserved == Running => \A r \in Request : Conserved(r)

\* The mailboxes change by messages of servers alone.
QuietMail ==
    \A r \in Request, t \in Node :
        /\ Absent(ClientRequest(r), inbox[t]) => Absent(ClientRequest(r), inbox'[t])
        /\ Once(ClientRequest(r), inbox[t]) => Once(ClientRequest(r), inbox'[t])

LEMMA AnswersAreQuiet ==
    ASSUME TypeOK, NEW to, NEW m, m.type # "ClientRequest", Send(to, m)
    PROVE  QuietMail
<1> SUFFICES ASSUME NEW r \in Request, NEW t \in Node
             PROVE  /\ Absent(ClientRequest(r), inbox[t]) =>
                          Absent(ClientRequest(r), inbox'[t])
                    /\ Once(ClientRequest(r), inbox[t]) =>
                          Once(ClientRequest(r), inbox'[t])
  BY DEF QuietMail
<1>1. CASE inbox'[t] = inbox[t]
  BY <1>1 DEF Absent, Once
<1>2. CASE inbox'[t] = Append(inbox[t], m)
  <2> DEFINE S == ServerMessage \cup ClientRequests \cup {m}
  <2>1. inbox[t] \in Seq(S) /\ m \in S
    BY DEF TypeOK
  <2>2. m # ClientRequest(r)
    BY DEF ClientRequest
  <2> HIDE DEF S
  <2> QED BY <1>2, <2>1, <2>2, AppendCounts
<1> QED
  BY <1>1, <1>2 DEF Send, TypeOK

LEMMA NoAnswerIsFromAClient ==
    \A s, term, ok :
        /\ RequestVoteResponse(s, term, ok).type # "ClientRequest"
        /\ AppendEntriesResponse(s, term, ok).type # "ClientRequest"
  BY DEF RequestVoteResponse, AppendEntriesResponse

\* A step that touches neither clients' queues nor their requests nor a log, and
\* brings no process down.
Aside == QuietMail /\ UNCHANGED <<clientQueue, request, log, panicked>>

LEMMA UnchangedIsQuiet ==
    ASSUME UNCHANGED inbox
    PROVE  QuietMail
  BY DEF QuietMail, Absent, Once

\* What a step of the cluster does to the requests of clients: an actor of a
\* role does nothing but answer servers (follower.rs, candidate.rs, leader.rs),
\* and a panic leaves everything where it is.
LEMMA StepsOfClients ==
    ASSUME Inv, [Next]_vars
    PROVE  \/ Aside
           \/ \E s \in Node : \/ RootRoutesClientMessage(s)
                              \/ LeaderAnswers(s)
                              \/ ServerForwards(s)
           \/ \E r \in Request : ClientSends(r)
           \/ (~Running' /\ UNCHANGED <<request, log>>)
<1>a. TypeOK
  BY DEF Inv
<1> DEFINE Answered == \/ UNCHANGED inbox
                       \/ \E to, m : m.type # "ClientRequest" /\ Send(to, m)
<1>b. Answered => QuietMail
  BY <1>a, AnswersAreQuiet, UnchangedIsQuiet
<1>1. ASSUME NEW s \in Node, FollowerStep(s)
      PROVE  Aside \/ (~Running' /\ UNCHANGED <<request, log>>)
  <2>1. CASE FollowerPanics(s)
    BY <2>1 DEF FollowerPanics, Panic, Running, persistentVars
  <2>2. CASE ~FollowerPanics(s)
    <3>1. Answered
      BY <1>1, <2>2, NoAnswerIsFromAClient DEF FollowerStep, FollowerTimesOut,
         FollowerSeesChange, FollowerGrantsVote, FollowerRefusesVote,
         FollowerFollowsLeader, FollowerRejectsStaleLeader, FollowerDropsVote,
         channelVars
    <3>2. UNCHANGED <<clientQueue, request, log, panicked>>
      BY <1>1, <2>2 DEF FollowerStep, FollowerTimesOut, FollowerSeesChange,
         FollowerGrantsVote, FollowerRefusesVote, FollowerFollowsLeader,
         FollowerRejectsStaleLeader, FollowerDropsVote, channelVars, persistentVars
    <3> QED BY <1>b, <3>1, <3>2 DEF Aside
  <2> QED BY <2>1, <2>2
<1>2. ASSUME NEW s \in Node, CandidateStep(s)
      PROVE  Aside \/ (~Running' /\ UNCHANGED <<request, log>>)
  <2>1. CASE CandidatePanics(s)
    BY <2>1 DEF CandidatePanics, Panic, Running, persistentVars
  <2>2. CASE ~CandidatePanics(s)
    <3>1. Answered
      BY <1>2, <2>2, NoAnswerIsFromAClient DEF CandidateStep, CandidateCampaigns,
         CandidateStandsDown, CandidateFollowsLeader, CandidateRejectsStaleLeader,
         CandidateGrantsVote, CandidateRefusesVote, CandidateWins, CandidateCountsVote,
         CandidateYields, CandidateRefuses, channelVars
    <3>2. UNCHANGED <<clientQueue, request, log, panicked>>
      BY <1>2, <2>2 DEF CandidateStep, CandidateCampaigns,
         CandidateStandsDown, CandidateFollowsLeader, CandidateRejectsStaleLeader,
         CandidateGrantsVote, CandidateRefusesVote, CandidateWins, CandidateCountsVote,
         CandidateYields, CandidateRefuses, channelVars, persistentVars
    <3> QED BY <1>b, <3>1, <3>2 DEF Aside
  <2> QED BY <2>1, <2>2
<1>3. ASSUME NEW s \in Node, LeaderStep(s)
      PROVE  Aside \/ (~Running' /\ UNCHANGED <<request, log>>)
  <2>1. CASE LeaderPanics(s)
    BY <2>1 DEF LeaderPanics, Panic, Running, persistentVars
  <2>2. CASE ~LeaderPanics(s)
    <3>1. UNCHANGED <<inbox, clientQueue, request, log, panicked>>
      BY <1>3, <2>2 DEF LeaderStep, LeaderTakesOffice, LeaderOverlooksChange,
         LeaderBeats, LeaderStandsDown, LeaderRecordsSuccess, LeaderRecordsFailure,
         LeaderDropsVote, Heartbeat, channelVars, persistentVars
    <3> QED BY <3>1, UnchangedIsQuiet DEF Aside
  <2> QED BY <2>1, <2>2
<1>4. ASSUME NEW s \in Node, RootRoutesServerMessage(s) PROVE Aside
  <2>1. ASSUME NEW r \in Request, NEW t \in Node
        PROVE  /\ Absent(ClientRequest(r), inbox[t]) =>
                     Absent(ClientRequest(r), inbox'[t])
               /\ Once(ClientRequest(r), inbox[t]) =>
                     Once(ClientRequest(r), inbox'[t])
    <3>1. CASE inbox'[t] = inbox[t]
      BY <3>1 DEF Absent, Once
    <3>2. CASE t = s
      <4>1. /\ inbox[s] \in Seq(ServerMessage \cup ClientRequests)
            /\ inbox[s] # <<>> /\ inbox'[s] = Tail(inbox[s])
            /\ Head(inbox[s]) # ClientRequest(r)
        <5>1. inbox \in [Node -> Seq(ServerMessage \cup ClientRequests)]
          BY <1>a DEF TypeOK
        <5>2. /\ inbox[s] # <<>> /\ Head(inbox[s]).type # "ClientRequest"
              /\ inbox' = [inbox EXCEPT ![s] = Tail(@)]
          BY <1>4 DEF RootRoutesServerMessage, FromClient
        <5>3. ClientRequest(r).type = "ClientRequest"
          BY DEF ClientRequest
        <5> QED BY <5>1, <5>2, <5>3
      <4> QED BY <3>2, <4>1, TailCounts
    <3> QED BY <1>a, <1>4, <3>1, <3>2 DEF RootRoutesServerMessage, TypeOK
  <2> QED BY <1>4, <2>1 DEF RootRoutesServerMessage, Aside, QuietMail, persistentVars
<1>5. ASSUME NEW s \in Node, Transmit(s) PROVE Aside
  <2>1. Answered
    <3>1. PICK parcel \in outbox[s] : Send(parcel.to, parcel.message)
      BY <1>5 DEF Transmit
    <3>2. parcel.message.type # "ClientRequest"
      <4>1. parcel \in Parcel
        BY <1>a, <3>1 DEF TypeOK
      <4>2. parcel.message \in VoteRequests \cup AppendRequests
        BY <4>1 DEF Parcel
      <4> QED BY <4>2 DEF VoteRequests, AppendRequests
    <3> QED BY <3>1, <3>2
  <2> QED BY <1>5, <1>b, <2>1 DEF Transmit, Aside, persistentVars
<1>6. ASSUME NEW s \in Node, ServerKnowsNoLeader(s)
      PROVE  ~Running' /\ UNCHANGED <<request, log>>
  BY <1>6 DEF ServerKnowsNoLeader, Panic, Running, persistentVars
<1>7. CASE Halted \/ UNCHANGED vars
  <2>1. UNCHANGED <<inbox, clientQueue, request, log, panicked>>
    BY <1>7 DEF Halted, vars, channelVars, persistentVars
  <2> QED BY <2>1, UnchangedIsQuiet DEF Aside
<1> QED
  BY <1>1, <1>2, <1>3, <1>4, <1>5, <1>6, <1>7
     DEF Next, ServerStep, RootStep, ClientRequestStep

(***************************************************************************)
(* Every step conserves requests.                                          *)
(***************************************************************************)
\* A request found anywhere is pending, and it is where it was found.
LEMMA FoundIsPending ==
    ASSUME NEW r \in Request, Conserved(r), NEW s \in Node
    PROVE  /\ ~Absent(ClientRequest(r), inbox[s]) =>
                 request[r] = "pending" /\ MailedTo(r, s)
           /\ ~Absent(r, clientQueue[s]) =>
                 request[r] = "pending" /\ QueuedAt(r, s)
<1>1. ASSUME ~Absent(ClientRequest(r), inbox[s]) \/ ~Absent(r, clientQueue[s])
      PROVE  request[r] = "pending"
  BY <1>1 DEF Conserved, Nowhere
<1>2. ASSUME NEW t \in Node, MailedTo(r, t)
      PROVE  /\ Absent(r, clientQueue[s])
             /\ ~Absent(ClientRequest(r), inbox[s]) => s = t
  BY <1>2 DEF MailedTo
<1>3. ASSUME NEW t \in Node, QueuedAt(r, t)
      PROVE  /\ Absent(ClientRequest(r), inbox[s])
             /\ ~Absent(r, clientQueue[s]) => s = t
  BY <1>3 DEF QueuedAt
<1> QED
  BY <1>1, <1>2, <1>3 DEF Conserved

LEMMA AsideConserves ==
    ASSUME Aside, NEW r \in Request, Conserved(r)
    PROVE  Conserved(r)'
<1>1. Nowhere(r) => Nowhere(r)'
  BY DEF Aside, QuietMail, Nowhere
<1>2. ASSUME NEW s \in Node
      PROVE  /\ MailedTo(r, s) => MailedTo(r, s)'
             /\ QueuedAt(r, s) => QueuedAt(r, s)'
  BY DEF Aside, QuietMail, MailedTo, QueuedAt
<1> QED
  BY <1>1, <1>2 DEF Conserved, Aside

\* A request that is not the one a step moves or settles stays where it is.
LEMMA OthersStay ==
    ASSUME NEW r \in Request, Conserved(r), request'[r] = request[r],
           \A t \in Node :
              /\ Absent(ClientRequest(r), inbox[t]) => Absent(ClientRequest(r), inbox'[t])
              /\ Once(ClientRequest(r), inbox[t]) => Once(ClientRequest(r), inbox'[t])
              /\ Absent(r, clientQueue[t]) => Absent(r, clientQueue'[t])
              /\ Once(r, clientQueue[t]) => Once(r, clientQueue'[t])
    PROVE  Conserved(r)'
<1>1. Nowhere(r) => Nowhere(r)'
  BY DEF Nowhere
<1>2. ASSUME NEW s \in Node
      PROVE  /\ MailedTo(r, s) => MailedTo(r, s)'
             /\ QueuedAt(r, s) => QueuedAt(r, s)'
  BY DEF MailedTo, QueuedAt
<1> QED
  BY <1>1, <1>2 DEF Conserved

\* A message carries one request.
LEMMA SameRequest ==
    ASSUME NEW r, NEW q, ClientRequest(r) = ClientRequest(q)
    PROVE  r = q
<1>1. ClientRequest(r).request = r /\ ClientRequest(q).request = q
  BY DEF ClientRequest
<1> QED
  BY <1>1

\* root.rs:35
LEMMA RoutingConserves ==
    ASSUME TypeOK, NEW s \in Node, RootRoutesClientMessage(s),
           NEW r \in Request, Conserved(r)
    PROVE  Conserved(r)'
<1> DEFINE q == Head(inbox[s]).request
<1>1. /\ inbox \in [Node -> Seq(ServerMessage \cup ClientRequests)]
      /\ clientQueue \in [Node -> Seq(Request)]
  BY DEF TypeOK
<1>2. /\ inbox[s] # <<>> /\ Head(inbox[s]).type = "ClientRequest"
      /\ inbox' = [inbox EXCEPT ![s] = Tail(@)]
      /\ clientQueue' = [clientQueue EXCEPT ![s] = Append(@, q)]
      /\ request' = request
  BY DEF RootRoutesClientMessage, FromClient
<1>3. /\ Head(inbox[s]) = ClientRequest(q) /\ q \in Request
  <2>1. Head(inbox[s]) \in ServerMessage \cup ClientRequests
    BY <1>1, <1>2
  <2>2. Head(inbox[s]) \in ClientRequests
    BY <1>2, <2>1, TypesOfMessages
  <2> QED BY <2>2 DEF ClientRequests, ClientRequest
<1> HIDE DEF q
<1>4. /\ inbox[s] \in Seq(ServerMessage \cup ClientRequests)
      /\ clientQueue[s] \in Seq(Request)
      /\ inbox'[s] = Tail(inbox[s]) /\ clientQueue'[s] = Append(clientQueue[s], q)
      /\ \A t \in Node \ {s} : inbox'[t] = inbox[t] /\ clientQueue'[t] = clientQueue[t]
  BY <1>1, <1>2
<1>5. CASE q = r
  <2>1. ~Absent(ClientRequest(r), inbox[s])
    BY <1>2, <1>3, <1>4, <1>5, TailCounts
  <2>2. request[r] = "pending" /\ MailedTo(r, s)
    BY <2>1, FoundIsPending
  <2>3. Absent(ClientRequest(r), inbox'[s]) /\ Once(r, clientQueue'[s])
    BY <1>2, <1>3, <1>4, <1>5, <2>2, TailCounts, AppendCounts DEF MailedTo
  <2>4. QueuedAt(r, s)'
    BY <1>4, <2>2, <2>3 DEF QueuedAt, MailedTo
  <2> QED BY <1>2, <2>2, <2>4 DEF Conserved
<1>6. CASE q # r
  <2>1. Head(inbox[s]) # ClientRequest(r)
    BY <1>3, <1>6, SameRequest
  <2>2. /\ Absent(ClientRequest(r), inbox[s]) => Absent(ClientRequest(r), inbox'[s])
        /\ Once(ClientRequest(r), inbox[s]) => Once(ClientRequest(r), inbox'[s])
    BY <1>2, <1>4, <2>1, TailCounts
  <2>3. /\ Absent(r, clientQueue[s]) => Absent(r, clientQueue'[s])
        /\ Once(r, clientQueue[s]) => Once(r, clientQueue'[s])
    BY <1>3, <1>4, <1>6, AppendCounts
  <2> QED BY <1>2, <1>4, <2>2, <2>3, OthersStay
<1> QED
  BY <1>5, <1>6

\* What the actor that serves clients takes.
LEMMA Taking ==
    ASSUME TypeOK, NEW s \in Node, TakesRequest(s)
    PROVE  /\ clientQueue[s] \in Seq(Request) /\ clientQueue[s] # <<>>
           /\ Head(clientQueue[s]) \in Request
           /\ clientQueue'[s] = Tail(clientQueue[s])
           /\ \A t \in Node \ {s} : clientQueue'[t] = clientQueue[t]
<1>1. clientQueue \in [Node -> Seq(Request)]
  BY DEF TypeOK
<1> QED
  BY <1>1 DEF TakesRequest

LEMMA HeadIsPending ==
    ASSUME TypeOK, NEW s \in Node, TakesRequest(s), Conserved(Head(clientQueue[s]))
    PROVE  LET r == Head(clientQueue[s]) IN request[r] = "pending" /\ QueuedAt(r, s)
<1>1. ~Absent(Head(clientQueue[s]), clientQueue[s])
  BY Taking, TailCounts
<1> QED
  BY <1>1, Taking, FoundIsPending

\* client_request.rs:42-53
LEMMA AnsweringConserves ==
    ASSUME TypeOK, NEW s \in Node, LeaderAnswers(s),
           NEW r \in Request, Conserved(r)
    PROVE  Conserved(r)'
<1> DEFINE q == Head(clientQueue[s])
<1>1. TakesRequest(s) /\ UNCHANGED inbox /\ request' = [request EXCEPT ![q] = "answered"]
  BY DEF LeaderAnswers
<1>2. q \in Request /\ request \in [Request -> {"unsent", "pending", "answered"}]
  BY <1>1, Taking DEF TypeOK
<1>3. CASE q = r
  <2>1. QueuedAt(r, s)
    BY <1>1, <1>3, HeadIsPending
  <2>2. Absent(r, clientQueue'[s])
    BY <1>1, <1>3, <2>1, Taking, TailCounts DEF QueuedAt
  <2>3. Nowhere(r)'
    BY <1>1, <2>1, <2>2, Taking DEF QueuedAt, Nowhere
  <2> QED BY <1>1, <1>2, <1>3, <2>3 DEF Conserved
<1>4. CASE q # r
  <2>1. /\ Absent(r, clientQueue[s]) => Absent(r, clientQueue'[s])
        /\ Once(r, clientQueue[s]) => Once(r, clientQueue'[s])
    BY <1>1, <1>4, Taking, TailCounts
  <2>2. request'[r] = request[r]
    BY <1>1, <1>2, <1>4
  <2>3. \A t \in Node :
           /\ Absent(r, clientQueue[t]) => Absent(r, clientQueue'[t])
           /\ Once(r, clientQueue[t]) => Once(r, clientQueue'[t])
    BY <1>1, <2>1, Taking
  <2> HIDE DEF q
  <2> QED BY <1>1, <2>2, <2>3, OthersStay
<1> QED
  BY <1>3, <1>4

\* client_request.rs:60-66
LEMMA ForwardingConserves ==
    ASSUME TypeOK, NEW s \in Node, ServerForwards(s),
           NEW r \in Request, Conserved(r)
    PROVE  Conserved(r)'
<1> DEFINE q == Head(clientQueue[s])
<1>1. PICK to \in Node :
         /\ TakesRequest(s) /\ request' = request
         /\ inbox' = [inbox EXCEPT ![to] = Append(@, ClientRequest(q))]
  BY DEF ServerForwards, Send, Peers
<1>2. q \in Request /\ ClientRequest(q) \in ServerMessage \cup ClientRequests
  BY <1>1, Taking DEF ClientRequest, ClientRequests
<1>3. /\ inbox[to] \in Seq(ServerMessage \cup ClientRequests)
      /\ inbox'[to] = Append(inbox[to], ClientRequest(q))
      /\ \A t \in Node \ {to} : inbox'[t] = inbox[t]
  BY <1>1 DEF TypeOK
<1>4. CASE q = r
  <2>1. request[r] = "pending" /\ QueuedAt(r, s)
    BY <1>1, <1>4, HeadIsPending
  <2>2. Absent(r, clientQueue'[s])
    BY <1>1, <1>4, <2>1, Taking, TailCounts DEF QueuedAt
  <2>3. \A t \in Node : Absent(r, clientQueue'[t])
    BY <1>1, <2>1, <2>2, Taking DEF QueuedAt
  <2>4. Once(ClientRequest(r), inbox'[to])
    BY <1>1, <1>2, <1>3, <1>4, <2>1, AppendCounts DEF QueuedAt
  <2>5. MailedTo(r, to)'
    BY <1>1, <1>3, <2>1, <2>3, <2>4 DEF QueuedAt, MailedTo
  <2> QED BY <1>1, <2>1, <2>5 DEF Conserved
<1>5. CASE q # r
  <2>1. \A t \in Node :
           /\ Absent(r, clientQueue[t]) => Absent(r, clientQueue'[t])
           /\ Once(r, clientQueue[t]) => Once(r, clientQueue'[t])
    <3>1. /\ Absent(r, clientQueue[s]) => Absent(r, clientQueue'[s])
          /\ Once(r, clientQueue[s]) => Once(r, clientQueue'[s])
      BY <1>1, <1>5, Taking, TailCounts
    <3> QED BY <1>1, <3>1, Taking
  <2>2. ClientRequest(q) # ClientRequest(r)
    BY <1>5, SameRequest
  <2> HIDE DEF q
  <2>3. \A t \in Node :
           /\ Absent(ClientRequest(r), inbox[t]) => Absent(ClientRequest(r), inbox'[t])
           /\ Once(ClientRequest(r), inbox[t]) => Once(ClientRequest(r), inbox'[t])
    BY <1>1, <1>2, <1>3, <2>2, AppendCounts
  <2> QED BY <1>1, <2>1, <2>3, OthersStay
<1> QED
  BY <1>4, <1>5

\* client.rs:81-113
LEMMA SendingConserves ==
    ASSUME TypeOK, NEW q \in Request, ClientSends(q),
           NEW r \in Request, Conserved(r)
    PROVE  Conserved(r)'
<1>1. PICK to \in Node : inbox' = [inbox EXCEPT ![to] = Append(@, ClientRequest(q))]
  BY DEF ClientSends, Send
<1>2. /\ request[q] = "unsent" /\ request' = [request EXCEPT ![q] = "pending"]
      /\ UNCHANGED clientQueue
      /\ request \in [Request -> {"unsent", "pending", "answered"}]
  BY DEF ClientSends, TypeOK
<1>3. /\ inbox[to] \in Seq(ServerMessage \cup ClientRequests)
      /\ inbox'[to] = Append(inbox[to], ClientRequest(q))
      /\ \A t \in Node \ {to} : inbox'[t] = inbox[t]
  BY <1>1 DEF TypeOK
<1>4. ClientRequest(q) \in ServerMessage \cup ClientRequests
  BY DEF ClientRequest, ClientRequests
<1>5. CASE q = r
  <2>1. Nowhere(r)
    BY <1>2, <1>5 DEF Conserved
  <2>2. Once(ClientRequest(r), inbox'[to])
    BY <1>3, <1>4, <1>5, <2>1, AppendCounts DEF Nowhere
  <2>3. MailedTo(r, to)'
    BY <1>2, <1>3, <2>1, <2>2 DEF Nowhere, MailedTo
  <2> QED BY <1>2, <1>5, <2>3 DEF Conserved
<1>6. CASE q # r
  <2>1. ClientRequest(q) # ClientRequest(r) /\ request'[r] = request[r]
    BY <1>2, <1>6, SameRequest
  <2>2. \A t \in Node :
           /\ Absent(ClientRequest(r), inbox[t]) => Absent(ClientRequest(r), inbox'[t])
           /\ Once(ClientRequest(r), inbox[t]) => Once(ClientRequest(r), inbox'[t])
    BY <1>3, <1>4, <2>1, AppendCounts
  <2> QED BY <1>2, <2>1, <2>2, OthersStay
<1> QED
  BY <1>5, <1>6

LEMMA ConservedInitially == Init => AllConserved
  BY DEF Init, AllConserved, Conserved, Nowhere, Absent

LEMMA ConservedKept == Inv /\ AllConserved /\ [Next]_vars => AllConserved'
<1> SUFFICES ASSUME Inv, AllConserved, [Next]_vars, Running', NEW r \in Request
             PROVE  Conserved(r)'
  BY DEF AllConserved
<1>1. TypeOK
  BY DEF Inv
<1>2. Conserved(r)
  <2>1. Running
    BY StepsOfClients DEF Running, Aside, RootRoutesClientMessage, LeaderAnswers,
       ServerForwards, ClientSends
  <2> QED BY <2>1 DEF AllConserved
<1> QED
  BY <1>1, <1>2, StepsOfClients, AsideConserves, RoutingConserves,
     AnsweringConserves, ForwardingConserves, SendingConserves

(***************************************************************************)
(* Counting the places of a request.                                       *)
(***************************************************************************)
\* A value that is once in one of a family of sequences and in no other is in
\* one place of the family; a value that is absent from all is in none.
LEMMA PlacesCounted ==
    ASSUME NEW f, NEW v
    PROVE  LET places == {place \in UNION {{t} \X DOMAIN f[t] : t \in Node} :
                             f[place[1]][place[2]] = v} IN
           /\ (\A t \in Node : Absent(v, f[t])) => Cardinality(places) = 0
           /\ \A s \in Node :
                 Once(v, f[s]) /\ (\A t \in Node \ {s} : Absent(v, f[t])) =>
                    Cardinality(places) = 1
<1> DEFINE places == {place \in UNION {{t} \X DOMAIN f[t] : t \in Node} :
                         f[place[1]][place[2]] = v}
<1>1. \A place \in places :
         /\ place[1] \in Node /\ place[2] \in DOMAIN f[place[1]]
         /\ place = <<place[1], place[2]>>
         /\ f[place[1]][place[2]] = v
  OBVIOUS
<1>2. \A t \in Node : \A i \in DOMAIN f[t] : f[t][i] = v => <<t, i>> \in places
  <2> SUFFICES ASSUME NEW t \in Node, NEW i \in DOMAIN f[t], f[t][i] = v
               PROVE  <<t, i>> \in places
    OBVIOUS
  <2>1. <<t, i>> \in UNION {{u} \X DOMAIN f[u] : u \in Node}
    OBVIOUS
  <2> QED BY <2>1
<1> HIDE DEF places
<1>3. ASSUME \A t \in Node : Absent(v, f[t]) PROVE Cardinality(places) = 0
  <2>1. places = {}
    BY <1>1, <1>3 DEF Absent
  <2> QED BY <2>1, FS_EmptySet
<1>4. ASSUME NEW s \in Node, Once(v, f[s]), \A t \in Node \ {s} : Absent(v, f[t])
      PROVE  Cardinality(places) = 1
  <2>1. PICK i \in DOMAIN f[s] :
           f[s][i] = v /\ \A j \in DOMAIN f[s] : f[s][j] = v => j = i
    BY <1>4 DEF Once
  <2>2. <<s, i>> \in places
    BY <1>2, <2>1
  <2>3. \A place \in places : place[1] = s
    BY <1>1, <1>4 DEF Absent
  <2>4. \A place \in places : place = <<s, i>>
    BY <1>1, <2>1, <2>3
  <2>5. places = {<<s, i>>}
    BY <2>2, <2>4
  <2> QED BY <2>5, FS_Singleton
<1> QED
  BY <1>3, <1>4 DEF places

LEMMA ConservationCounted == AllConserved => RequestsConserved
<1> SUFFICES ASSUME AllConserved, Running, NEW r \in Request
             PROVE  Cardinality(MailboxPlaces(r)) + Cardinality(QueuePlaces(r)) =
                       IF request[r] = "pending" THEN 1 ELSE 0
  BY DEF RequestsConserved
<1>1. Conserved(r)
  BY DEF AllConserved
<1>2. CASE Nowhere(r)
  <2>1. Cardinality(MailboxPlaces(r)) = 0
    BY <1>2, PlacesCounted DEF MailboxPlaces, Nowhere
  <2>2. Cardinality(QueuePlaces(r)) = 0
    BY <1>2, PlacesCounted DEF QueuePlaces, Nowhere
  <2>3. request[r] # "pending"
    BY <1>1, <1>2, OnceIsPresent DEF Conserved, Nowhere, MailedTo, QueuedAt
  <2> QED BY <2>1, <2>2, <2>3
<1>3. ASSUME NEW s \in Node, MailedTo(r, s), request[r] = "pending"
      PROVE  Cardinality(MailboxPlaces(r)) = 1 /\ Cardinality(QueuePlaces(r)) = 0
  <2>1. Cardinality(MailboxPlaces(r)) = 1
    BY <1>3, PlacesCounted DEF MailboxPlaces, MailedTo
  <2>2. Cardinality(QueuePlaces(r)) = 0
    BY <1>3, PlacesCounted DEF QueuePlaces, MailedTo
  <2> QED BY <2>1, <2>2
<1>4. ASSUME NEW s \in Node, QueuedAt(r, s), request[r] = "pending"
      PROVE  Cardinality(MailboxPlaces(r)) = 0 /\ Cardinality(QueuePlaces(r)) = 1
  <2>1. Cardinality(MailboxPlaces(r)) = 0
    BY <1>4, PlacesCounted DEF MailboxPlaces, QueuedAt
  <2>2. Cardinality(QueuePlaces(r)) = 1
    BY <1>4, PlacesCounted DEF QueuePlaces, QueuedAt
  <2> QED BY <2>1, <2>2
<1> QED
  BY <1>1, <1>2, <1>3, <1>4 DEF Conserved

\* While the process lives, every pending request is in one mailbox or queue of
\* one server, once, and no other request is anywhere, however often it is
\* forwarded (client_request.rs:60-66).
THEOREM NoRequestIsLost == Spec => []RequestsConserved
<1> DEFINE I == Inv /\ AllConserved
<1>1. Init => I
  BY InvInitially, ConservedInitially
<1>2. I /\ [Next]_vars => I'
  BY InvKept, ConservedKept
<1>3. I => RequestsConserved
  BY ConservationCounted
<1> QED
  BY <1>1, <1>2, <1>3, PTL DEF Spec

-----------------------------------------------------------------------------
(***************************************************************************)
(* The contract with clients.                                              *)
(***************************************************************************)
Recorded(entries) == [i \in DOMAIN entries |-> entries[i].command]

LEMMA RecordedFacts ==
    ASSUME NEW S, NEW entries \in Seq(S), NEW C,
           \A i \in 1 .. Len(entries) : entries[i].command \in C
    PROVE  /\ Recorded(entries) \in Seq(C)
           /\ Len(Recorded(entries)) = Len(entries)
           /\ \A i \in 1 .. Len(entries) : Recorded(entries)[i] = entries[i].command
<1> DEFINE n == Len(entries)
           q == Recorded(entries)
<1>1. n \in Nat /\ DOMAIN entries = 1 .. n
  OBVIOUS
<1>2. q = [i \in 1 .. n |-> entries[i].command]
  BY <1>1 DEF Recorded
<1> HIDE DEF n, q
<1>3. \A i \in 1 .. n : entries[i].command \in C
  BY DEF n
<1>4. q \in [1 .. n -> C] /\ \A i \in 1 .. n : q[i] = entries[i].command
  BY <1>2, <1>3
<1>5. q \in Seq(C)
  BY <1>1, <1>4
<1>6. Len(q) = n
  BY <1>1, <1>4, <1>5
<1> QED
  BY <1>4, <1>5, <1>6 DEF n, q

\* What a leader records in its log is the request it answers.
LEMMA RecordedAppend ==
    ASSUME NEW entries \in Seq(LogEntries(Writes)), NEW term, NEW r \in Writes
    PROVE  Recorded(AppendCommand(entries, term, r)) = Append(Recorded(entries), r)
<1> DEFINE e == LogEntry(LastIndex(entries) + 1, term, r)
           n == Len(entries)
           S == LogEntries(Writes) \cup {e}
           long == Append(entries, e)
           left == Recorded(long)
           right == Append(Recorded(entries), r)
<1>1. e.command = r
  BY DEF LogEntry
<1>2. \A i \in 1 .. n : entries[i].command \in Writes
  <2>1. \A i \in 1 .. n : entries[i] \in LogEntries(Writes)
    OBVIOUS
  <2> QED BY <2>1 DEF LogEntries
<1> HIDE DEF e
<1>3. n \in Nat /\ entries \in Seq(S) /\ e \in S
  OBVIOUS
<1> HIDE DEF S
<1>4. /\ long \in Seq(S) /\ Len(long) = n + 1
      /\ \A i \in 1 .. n : long[i] = entries[i]
      /\ long[n + 1] = e
  BY <1>3
<1> HIDE DEF long
<1>5. \A i \in 1 .. n + 1 : long[i].command =
         IF i = n + 1 THEN r ELSE entries[i].command
  BY <1>1, <1>3, <1>4
<1>6. \A i \in 1 .. Len(long) : long[i].command \in Writes
  BY <1>2, <1>3, <1>4, <1>5
<1>7. /\ left \in Seq(Writes) /\ Len(left) = n + 1
      /\ \A i \in 1 .. n + 1 : left[i] = long[i].command
  BY <1>4, <1>6, RecordedFacts
<1>8. /\ Recorded(entries) \in Seq(Writes) /\ Len(Recorded(entries)) = n
      /\ \A i \in 1 .. n : Recorded(entries)[i] = entries[i].command
  BY <1>2, <1>3, RecordedFacts
<1> HIDE DEF left
<1>9. /\ right \in Seq(Writes) /\ Len(right) = n + 1
      /\ \A i \in 1 .. n : right[i] = entries[i].command
      /\ right[n + 1] = r
  BY <1>3, <1>8
<1> HIDE DEF right
<1>10. \A i \in 1 .. n + 1 : left[i] = right[i]
  BY <1>3, <1>5, <1>7, <1>9
<1>11. left = right
  BY <1>3, <1>7, <1>9, <1>10
<1> QED
  BY <1>11 DEF AppendCommand, e, long, left, right

-----------------------------------------------------------------------------
\* The state the contract is about.
LEMMA ContractInitially == Init => Contract!Init
<1> SUFFICES ASSUME Init PROVE Contract!Init
  OBVIOUS
<1>1. request = [r \in Reads \cup Writes |-> "unsent"]
  BY DEF Init, Request
<1>2. \A s \in Node : Recorded(log[s]) = <<>>
  <2> SUFFICES ASSUME NEW s \in Node PROVE Recorded(log[s]) = <<>>
    OBVIOUS
  <2> DEFINE q == Recorded(log[s])
  <2>1. log[s] = <<>>
    BY DEF Init
  <2>2. log[s] \in Seq(LogEntries(Writes)) /\ Len(log[s]) = 0
    BY <2>1
  <2>3. \A i \in 1 .. Len(log[s]) : log[s][i].command \in Writes
    BY <2>2
  <2>4. q \in Seq(Writes) /\ Len(q) = 0
    BY <2>2, <2>3, RecordedFacts
  <2> HIDE DEF q
  <2>5. q = <<>>
    BY <2>4
  <2> QED BY <2>5 DEF q
<1> QED
  BY <1>1, <1>2 DEF Contract!Init, Recorded

\* An answered write is a step of the contract.
LEMMA AnsweringIsNext ==
    ASSUME NEW w \in Writes, Contract!AnswerWrite(w)
    PROVE  Contract!Next
BY DEF Contract!Next, Request

\* Every step of the cluster is a step of the contract or leaves its state alone.
LEMMA ContractStep ==
    ASSUME Inv, AllConserved, [Next]_vars
    PROVE  \/ Contract!Next
           \/ UNCHANGED <<request,
                 [s \in Node |-> [i \in DOMAIN log[s] |-> log[s][i].command]]>>
<1> DEFINE recorded == [s \in Node |-> [i \in DOMAIN log[s] |-> log[s][i].command]]
<1>a. TypeOK
  BY DEF Inv
<1>1. UNCHANGED log => UNCHANGED recorded
  OBVIOUS
<1>2. CASE UNCHANGED <<request, log>>
  BY <1>1, <1>2
<1>3. ASSUME NEW r \in Request, ClientSends(r) PROVE Contract!Next
  <2>1. /\ request[r] = "unsent" /\ request' = [request EXCEPT ![r] = "pending"]
        /\ UNCHANGED recorded
    BY <1>1, <1>3 DEF ClientSends, persistentVars
  <2> HIDE DEF recorded
  <2>2. Contract!Issue(r)
    BY <2>1 DEF Contract!Issue, recorded
  <2> QED BY <2>2 DEF Contract!Next, Request
<1>4. ASSUME NEW s \in Node, LeaderAnswers(s) PROVE Contract!Next
  <2>1. TakesRequest(s) /\ Running
    BY <1>4 DEF LeaderAnswers, TakesRequest
  <2>2. PICK q \in Request : q = Head(clientQueue[s]) /\ request[q] = "pending"
    <3>1. Head(clientQueue[s]) \in Request
      BY <1>a, <2>1, Taking
    <3>2. request[Head(clientQueue[s])] = "pending"
      BY <1>a, <2>1, <3>1, HeadIsPending DEF AllConserved
    <3> QED BY <3>1, <3>2
  <2>3. /\ request' = [request EXCEPT ![q] = "answered"]
        /\ log' = [log EXCEPT ![s] = IF q \in Writes
                                     THEN AppendCommand(log[s], currentTerm[s], q)
                                     ELSE log[s]]
    BY <1>4, <2>2 DEF LeaderAnswers
  <2>4. Contract!Answer(q)
    BY <2>2, <2>3 DEF Contract!Answer
  <2>5. log \in [Node -> Seq(LogEntries(Writes))]
    BY <1>a DEF TypeOK
  <2>6. CASE q \in Writes
    <3>1. Recorded(log'[s]) = Append(Recorded(log[s]), q)
      BY <2>3, <2>5, <2>6, RecordedAppend
    <3>2. \A t \in Node \ {s} : log'[t] = log[t]
      BY <2>3, <2>5
    <3>3. recorded' = [recorded EXCEPT ![s] = Append(@, q)]
      <4>1. /\ recorded = [t \in Node |-> Recorded(log[t])]
            /\ recorded' = [t \in Node |-> Recorded(log'[t])]
        BY DEF Recorded
      <4> HIDE DEF recorded
      <4>2. \A t \in Node : Recorded(log'[t]) =
               IF t = s THEN Append(Recorded(log[s]), q) ELSE Recorded(log[t])
        BY <3>1, <3>2
      <4> QED BY <4>1, <4>2
    <3>4. Contract!AnswerWrite(q)
      <4> HIDE DEF recorded
      <4>1. \E t \in Node : recorded' = [recorded EXCEPT ![t] = Append(@, q)]
        BY Zenon, <3>3
      <4> QED BY Zenon, <2>4, <2>6, <4>1 DEF Contract!AnswerWrite, recorded
    <3> QED BY <2>6, <3>4, AnsweringIsNext
  <2>7. CASE q \notin Writes
    <3>1. UNCHANGED log
      BY <2>3, <2>5, <2>7
    <3>2. Contract!AnswerRead(q)
      BY <1>1, <2>2, <2>4, <2>7, <3>1 DEF Contract!AnswerRead, Request
    <3> QED BY <2>2, <3>2 DEF Contract!Next, Request
  <2> QED BY <2>6, <2>7
<1>5. ASSUME NEW s \in Node, RootRoutesClientMessage(s) \/ ServerForwards(s)
      PROVE  UNCHANGED <<request, log>>
  BY <1>5 DEF RootRoutesClientMessage, ServerForwards, persistentVars
<1>6. Aside => UNCHANGED <<request, log>>
  BY DEF Aside
<1> QED
  BY <1>2, <1>3, <1>4, <1>5, <1>6, StepsOfClients

\* The cluster implements the contract: a request is answered at most once, and
\* a write is recorded in one log, once, in the step that answers it, whatever
\* the servers do to elect a leader (client_request.rs:42-53, server.rs:210-216).
THEOREM ContractIsKept == Spec => ImplementsContract
<1> DEFINE I == Inv /\ AllConserved
<1>1. Init => I /\ Contract!Init
  BY InvInitially, ConservedInitially, ContractInitially
<1>2. I /\ [Next]_vars => I'
  BY InvKept, ConservedKept
<1>3. I /\ [Next]_vars =>
         [Contract!Next]_<<request,
             [s \in Node |-> [i \in DOMAIN log[s] |-> log[s][i].command]]>>
  BY ContractStep
<1> QED
  BY <1>1, <1>2, <1>3, PTL DEF Spec, ImplementsContract, Contract!Spec
=============================================================================
