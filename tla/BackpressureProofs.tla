-------------------------- MODULE BackpressureProofs --------------------------
(***************************************************************************)
(* Theorems about the cluster with bounded channels: what is proved of the *)
(* cluster whose channels never fill still holds when senders wait, for    *)
(* every capacity, and the lines account for every message that waits.     *)
(***************************************************************************)
EXTENDS Backpressure, FirstTermProofs, ClientProofs

allVars == <<vars, flowVars>>

\* What is new for the servers: a follower that has waited with its answer
\* reaches the top of its loop in a step of its own.
Rejoins(s) ==
    /\ Running
    /\ Keep(s, {"Follower"})
    /\ FollowerLoops(s)
    /\ UNCHANGED <<persistentVars, volatileVars, channelVars, candidate, leading,
                   request, panicked>>

\* Every other step is one of the cluster without bounds, or touches only the
\* channels: a freeze, a root actor whose message is taken, a client that reads.
LEMMA StepOfCluster ==
    ASSUME [FlowNext]_allVars
    PROVE  [Next]_vars \/ \E s \in Node : Rejoins(s)
<1>1. ASSUME NEW s \in Node, RootFlows(s) PROVE [Next]_vars
  <2>1. RootStep(s) \/ UNCHANGED vars
    BY <1>1 DEF RootFlows, RootTakes, RootResumes, RootStep
  <2> QED BY <2>1 DEF Next, ServerStep
<1>2. ASSUME NEW s \in Node, FollowerFlows(s)
      PROVE  [Next]_vars \/ Rejoins(s)
  <2>1. CASE FollowerActs(s)
    BY <2>1 DEF FollowerActs, Next, ServerStep
  <2>2. CASE FollowerResumes(s)
    BY <2>2 DEF FollowerResumes, Rejoins
  <2>3. CASE FollowerFreezes(s)
    BY <2>3 DEF FollowerFreezes, Freezes
  <2> QED BY <1>2, <2>1, <2>2, <2>3 DEF FollowerFlows
<1>3. ASSUME NEW s \in Node, CandidateFlows(s) PROVE [Next]_vars
  <2>1. CASE CandidateActs(s)
    BY <2>1 DEF CandidateActs, Next, ServerStep
  <2>2. CASE CandidateFreezes(s)
    BY <2>2 DEF CandidateFreezes, Freezes
  <2> QED BY <1>3, <2>1, <2>2 DEF CandidateFlows
<1>4. ASSUME NEW s \in Node, LeaderActs(s) PROVE [Next]_vars
  BY <1>4 DEF LeaderActs, Next, ServerStep
<1>5. ASSUME NEW s \in Node, ClientActorFlows(s) PROVE [Next]_vars
  BY <1>5 DEF ClientActorFlows, ClientActorAnswers, ClientActorForwards,
     ClientRequestStep, Next, ServerStep
<1>6. ASSUME NEW s \in Node, TaskSends(s) PROVE [Next]_vars
  BY <1>6 DEF TaskSends, Next, ServerStep
<1>7. ASSUME NEW r \in Request, OutboundSends(r) PROVE [Next]_vars
  BY <1>7 DEF OutboundSends, Next
<1>8. CASE InboundReads \/ (Halted /\ UNCHANGED flowVars) \/ UNCHANGED allVars
  BY <1>8 DEF InboundReads, Halted, allVars
<1> QED
  BY <1>1, <1>2, <1>3, <1>4, <1>5, <1>6, <1>7, <1>8 DEF FlowNext

\* A follower that rejoins its loop does what one does that sees a change.
LEMMA RejoiningKeepsInv ==
    ASSUME Inv, NEW s \in Node, Rejoins(s)
    PROVE  Inv'
<1> USE DEF Inv, TypeOK, Role
<1>1. CursorsInLog'
  BY CursorsUnchanged DEF Rejoins, persistentVars, volatileVars
<1>2. state' \in [Node -> Role] /\ unseen' \in [Node -> SUBSET Role]
  BY KeepTyped DEF Rejoins
<1>3. follower' \in [Node -> [watching : BOOLEAN, term : Nat]]
  BY LoopTyped DEF Rejoins, persistentVars
<1> QED
  BY <1>1, <1>2, <1>3 DEF Rejoins, persistentVars, volatileVars, channelVars

LEMMA RejoiningKeepsRoles ==
    ASSUME TypeOK, NEW s \in Node, Rejoins(s), \A n \in Node : Followed(n)
    PROVE  /\ \A n \in Node : Followed(n)'
           /\ UNCHANGED <<state, candidate>>
<1>1. state[s] \in Role /\ SwitchTo(s, state[s], {"Follower"})
  BY DEF Rejoins, Keep, TypeOK
<1>2. /\ follower'[s].watching <=> state'[s] = "Follower"
      /\ \A n \in Node \ {s} : follower'[n] = follower[n]
  BY DEF Rejoins, FollowerLoops, IdleFollower, TypeOK
<1>3. UNCHANGED <<candidate, leading>>
  BY DEF Rejoins
<1>4. Followed(s)'
  BY <1>1, <1>2, <1>3, SwitchSeen DEF Followed, Role
<1>5. \A n \in Node \ {s} : Unmoved(n)
  BY <1>1, <1>2, <1>3, SwitchSeen DEF Unmoved, Role
<1>6. UNCHANGED state
  BY <1>1 DEF SwitchTo, TypeOK
<1> QED
  BY <1>3, <1>4, <1>5, <1>6, UnmovedFollowed

LEMMA FlowInvKept == Inv /\ [FlowNext]_allVars => Inv'
  BY StepOfCluster, InvKept, RejoiningKeepsInv

LEMMA FlowInvInitially == FlowInit => Inv
  BY InvInitially DEF FlowInit

-----------------------------------------------------------------------------
(***************************************************************************)
(* The safety properties, with channels of any capacity.                   *)
(***************************************************************************)
\* A follower that rejoins its loop sends nothing and appends nothing.
LEMMA RejoiningIsQuiet ==
    ASSUME NEW s \in Node, Rejoins(s)
    PROVE  /\ AppendsMatchSender => AppendsMatchSender'
           /\ CommitBacked => CommitBacked'
           /\ Order => Order'
<1>1. UNCHANGED <<inbox, queue, outbox, log, commitIndex, leading>>
  BY DEF Rejoins, persistentVars, volatileVars, channelVars
<1> QED
  BY <1>1 DEF AppendsMatchSender, CommitBacked, AppendsInFlight, InFlight, Order,
     WaysInOrder, RoundsInOrder, Last

\* No change of role is lost on an actor although a follower that waits with an
\* answer does not poll the watch channel (follower.rs:35-45, 123).
THEOREM FlowRolesFollowed == FlowSpec => []RolesFollowed
<1> DEFINE I == Inv /\ \A s \in Node : Followed(s)
<1>1. FlowInit => I
  BY FlowInvInitially, FollowedInitially DEF FlowInit
<1>2. I /\ [FlowNext]_allVars => I'
  <2> SUFFICES ASSUME I, [FlowNext]_allVars PROVE \A s \in Node : Followed(s)'
    BY FlowInvKept
  <2>1. TypeOK
    BY DEF Inv
  <2> QED BY <2>1, StepOfCluster, FollowedKept, RejoiningKeepsRoles
<1>3. I => RolesFollowed
  BY RolesOneByOne DEF Inv
<1> QED
  BY <1>1, <1>2, <1>3, PTL DEF FlowSpec, allVars

\* A request that waits in line describes the log its sender had and still has
\* (leader.rs:34-64): how long it waits is of no account.
THEOREM FlowAppendsMatch == FlowSpec => []AppendsMatchSender
<1> DEFINE I == Inv /\ AppendsMatchSender
<1>1. FlowInit => I
  BY FlowInvInitially, AppendsOneByOne, NothingInFlightInitially DEF FlowInit
<1>2. I /\ [FlowNext]_allVars => I'
  BY FlowInvKept, StepOfCluster, AppendsKept, RejoiningIsQuiet
<1> QED
  BY <1>1, <1>2, PTL DEF FlowSpec, allVars

\* Two requests of a leader keep their order in line, in the mailbox and in the
\* queue behind it (leader.rs:43-69, src/server/handle.rs).
THEOREM FlowAppendsInOrder == FlowSpec => []AppendsInOrder
<1> DEFINE I == Inv /\ AppendsMatchSender /\ Order
<1>1. FlowInit => I
  BY FlowInvInitially, AppendsOneByOne, NothingInFlightInitially, OrderInitially
     DEF FlowInit
<1>2. I /\ [FlowNext]_allVars => I'
  BY FlowInvKept, StepOfCluster, AppendsKept, OrderKept, RejoiningIsQuiet
<1>3. I => AppendsInOrder
  BY WaysAreOrdered DEF Inv, Order
<1> QED
  BY <1>1, <1>2, <1>3, PTL DEF FlowSpec, allVars

\* No commit index is past the end of every log (follower.rs:98-107,
\* leader.rs:148), however late the requests that spread it arrive.
THEOREM FlowCommitsBacked == FlowSpec => []CommitBacked
<1> DEFINE I == Inv /\ CommitBacked
<1>1. FlowInit => I
  BY FlowInvInitially, BackedInitially DEF FlowInit
<1>2. I /\ [FlowNext]_allVars => I'
  BY FlowInvKept, StepOfCluster, BackedKept, RejoiningIsQuiet
<1> QED
  BY <1>1, <1>2, PTL DEF FlowSpec, allVars

\* Every step of the bounded system leaves the variables in their ranges and
\* the leaders' bookkeeping inside their logs (leader.rs:71-83,
\* volatile_leader_state.rs:54-82).
THEOREM FlowCursorsInLog == FlowSpec => [](TypeOK /\ CursorsInLog)
<1>1. Inv => TypeOK /\ CursorsInLog
  BY DEF Inv
<1> QED
  BY <1>1, FlowInvInitially, FlowInvKept, PTL DEF FlowSpec, allVars

\* The commit index a leader sets is the highest one its bookkeeping credits to
\* a majority of the cluster (leader.rs:148-149), however long the answers it
\* counts have waited.
THEOREM FlowCommitsHaveMajority ==
    ASSUME Cardinality(Node) > 1
    PROVE  FlowSpec => CommitHasMajority
<1> DEFINE A == \A s \in Node : Commits(s) => Credited(s)
<1>1. Inv /\ [FlowNext]_allVars => A
  <2> SUFFICES ASSUME Inv, [FlowNext]_allVars PROVE A
    OBVIOUS
  <2>1. CASE [Next]_vars
    BY <2>1, CommitIsCredited
  <2>2. ASSUME NEW s \in Node, Rejoins(s) PROVE A
    BY <2>2 DEF Rejoins, volatileVars, Commits
  <2> QED BY <2>1, <2>2, StepOfCluster
<1>2. A <=> \A s \in Node :
          (/\ queue'[s]["Leader"] # queue[s]["Leader"]
           /\ commitIndex'[s] # commitIndex[s]) =>
              /\ commitIndex'[s] > 0 =>
                     2 * Holding(s, commitIndex'[s]) > Cardinality(Node)
              /\ 2 * Holding(s, commitIndex'[s] + 1) <= Cardinality(Node)
  BY DEF Commits, Credited
<1> HIDE DEF A
<1> QED
  BY <1>1, <1>2, FlowInvInitially, FlowInvKept, PTL
     DEF FlowSpec, allVars, CommitHasMajority

\* A follower that rejoins its loop has nothing to do with clients.
LEMMA RejoiningIsAside ==
    ASSUME NEW s \in Node, Rejoins(s)
    PROVE  Aside
<1>1. UNCHANGED <<inbox, clientQueue, request, log, panicked>>
  BY DEF Rejoins, persistentVars, channelVars
<1> QED
  BY <1>1, UnchangedIsQuiet DEF Aside

LEMMA FlowConservedKept ==
    Inv /\ AllConserved /\ [FlowNext]_allVars => AllConserved'
<1>1. ASSUME AllConserved, NEW s \in Node, Rejoins(s) PROVE AllConserved'
  <2>1. Aside
    BY <1>1, RejoiningIsAside
  <2> SUFFICES ASSUME Running', NEW r \in Request PROVE Conserved(r)'
    BY DEF AllConserved
  <2>2. Conserved(r)
    BY <1>1, <2>1 DEF Aside, Running, AllConserved
  <2> QED BY <2>1, <2>2, AsideConserves
<1> QED
  BY <1>1, StepOfCluster, ConservedKept

\* No request is lost, and none is served twice, because a channel is full
\* (client_request.rs:60-66, root.rs:35).  One that waits in line counts as in
\* the mailbox it waits for, one the root actor holds as in the clients' queue.
THEOREM FlowNoRequestIsLost == FlowSpec => []RequestsConserved
<1> DEFINE I == Inv /\ AllConserved
<1>1. FlowInit => I
  BY FlowInvInitially, ConservedInitially DEF FlowInit
<1>2. I /\ [FlowNext]_allVars => I'
  BY FlowInvKept, FlowConservedKept
<1>3. I => RequestsConserved
  BY ConservationCounted
<1> QED
  BY <1>1, <1>2, <1>3, PTL DEF FlowSpec, allVars

\* The contract with clients is kept however long a request waits, or the actor
\* that answers it (client_request.rs:42-53, client.rs:59).
THEOREM FlowContractIsKept == FlowSpec => ImplementsContract
<1> DEFINE I == Inv /\ AllConserved
<1>1. FlowInit => I /\ Contract!Init
  BY FlowInvInitially, ConservedInitially, ContractInitially DEF FlowInit
<1>2. I /\ [FlowNext]_allVars => I'
  BY FlowInvKept, FlowConservedKept
<1>3. I /\ [FlowNext]_allVars =>
         [Contract!Next]_<<request,
             [s \in Node |-> [i \in DOMAIN log[s] |-> log[s][i].command]]>>
  <2> SUFFICES ASSUME I, [FlowNext]_allVars
               PROVE  \/ Contract!Next
                      \/ UNCHANGED <<request,
                            [s \in Node |-> [i \in DOMAIN log[s] |-> log[s][i].command]]>>
    OBVIOUS
  <2>1. CASE [Next]_vars
    BY <2>1, ContractStep
  <2>2. ASSUME NEW s \in Node, Rejoins(s)
        PROVE  UNCHANGED <<request,
                   [t \in Node |-> [i \in DOMAIN log[t] |-> log[t][i].command]]>>
    BY <2>2 DEF Rejoins, persistentVars
  <2> QED BY <2>1, <2>2, StepOfCluster
<1> QED
  BY <1>1, <1>2, <1>3, PTL
     DEF FlowSpec, allVars, ImplementsContract, Contract!Spec

\* A leader is deposed only by a follower actor of its own server that has not
\* seen the election yet (follower.rs:35-45, 130-133).
THEOREM FlowDeposing == FlowSpec => DeposedOnlyByLingeringFollower
<1> DEFINE A == \A s \in Node :
                   state[s] = "Leader" /\ state'[s] # "Leader" =>
                      /\ follower[s].watching /\ "Follower" \in unseen[s]
                      /\ ~candidate[s].campaigning
           I == Inv /\ (\A s \in Node : Followed(s)) /\ ElectionOver
<1>1. FlowInit => I
  BY FlowInvInitially, FollowedInitially DEF FlowInit, Init, ElectionOver
<1>2. I /\ [FlowNext]_allVars => I'
  <2> SUFFICES ASSUME I, [FlowNext]_allVars
               PROVE  (\A s \in Node : Followed(s)') /\ ElectionOver'
    BY FlowInvKept
  <2>1. TypeOK
    BY DEF Inv
  <2>2. CASE [Next]_vars
    BY <2>1, <2>2, FollowedKept, ElectionOverKept
  <2>3. CASE \E s \in Node : Rejoins(s)
    BY <2>1, <2>3, RejoiningKeepsRoles DEF ElectionOver
  <2> QED BY <2>2, <2>3, StepOfCluster
<1>3. I /\ [FlowNext]_allVars => A
  <2> SUFFICES ASSUME I, [FlowNext]_allVars, NEW n \in Node, Deposed(n)
               PROVE  /\ follower[n].watching /\ "Follower" \in unseen[n]
                      /\ ~candidate[n].campaigning
    BY DEF Deposed
  <2>1. TypeOK
    BY DEF Inv
  <2>2. RolesFollowed
    BY <2>1, RolesOneByOne
  <2>3. ~ \E s \in Node : Rejoins(s)
    BY <2>1, RejoiningKeepsRoles DEF Deposed
  <2> QED BY <2>2, <2>3, StepOfCluster, Deposing
<1> QED
  BY <1>1, <1>2, <1>3, PTL DEF FlowSpec, allVars, DeposedOnlyByLingeringFollower
-----------------------------------------------------------------------------
(***************************************************************************)
(* The lines.  A message beyond the capacity of a mailbox has its sender   *)
(* in line, and the two leave and come together.                           *)
(***************************************************************************)
LEMMA LengthOfAppend ==
    ASSUME NEW S, NEW q \in Seq(S), NEW e
    PROVE  Len(Append(q, e)) = Len(q) + 1
<1>1. q \in Seq(S \cup {e}) /\ e \in S \cup {e}
  OBVIOUS
<1> QED
  BY <1>1

\* A step delivers at most one message to a mailbox and takes none.
Delivers ==
    \A n \in Node : Len(inbox'[n]) \in {Len(inbox[n]), Len(inbox[n]) + 1}

LEMMA SendDelivers ==
    ASSUME TypeOK, NEW to, NEW m, Send(to, m)
    PROVE  Delivers
<1>1. \A n \in Node : inbox[n] \in Seq(ServerMessage \cup ClientRequests)
  BY DEF TypeOK
<1>2. \A n \in Node : inbox'[n] \in {inbox[n], Append(inbox[n], m)}
  BY DEF Send, TypeOK
<1> QED
  BY <1>1, <1>2, LengthOfAppend DEF Delivers

LEMMA ActorsDeliver ==
    ASSUME TypeOK, NEW s \in Node,
           \/ FollowerStep(s) \/ CandidateStep(s) \/ LeaderStep(s)
           \/ ClientRequestStep(s) \/ Transmit(s)
    PROVE  Delivers
<1>1. CASE UNCHANGED inbox
  BY <1>1 DEF Delivers
<1>2. ASSUME FollowerStep(s)
      PROVE  UNCHANGED inbox \/ \E to, m : Send(to, m)
  BY <1>2 DEF FollowerStep, FollowerTimesOut, FollowerSeesChange,
     FollowerGrantsVote, FollowerRefusesVote, FollowerFollowsLeader,
     FollowerRejectsStaleLeader, FollowerDropsVote, FollowerPanics, Panic,
     channelVars
<1>3. ASSUME CandidateStep(s)
      PROVE  UNCHANGED inbox \/ \E to, m : Send(to, m)
  BY <1>3 DEF CandidateStep, CandidateCampaigns, CandidateStandsDown,
     CandidateFollowsLeader, CandidateRejectsStaleLeader, CandidateGrantsVote,
     CandidateRefusesVote, CandidateWins, CandidateCountsVote, CandidatePanics,
     CandidateYields, CandidateRefuses, Panic, channelVars
<1>4. ASSUME LeaderStep(s) PROVE UNCHANGED inbox
  BY <1>4 DEF LeaderStep, LeaderTakesOffice, LeaderOverlooksChange, LeaderBeats,
     LeaderStandsDown, LeaderRecordsSuccess, LeaderRecordsFailure,
     LeaderDropsVote, LeaderPanics, Panic, channelVars
<1>5. ASSUME ClientRequestStep(s) \/ Transmit(s)
      PROVE  UNCHANGED inbox \/ \E to, m : Send(to, m)
  BY <1>5 DEF ClientRequestStep, LeaderAnswers, ServerForwards,
     ServerKnowsNoLeader, Panic, Transmit
<1> QED
  BY <1>1, <1>2, <1>3, <1>4, <1>5, SendDelivers

\* One server's part of FlowTypeOK.
LineFits(n) ==
    /\ line[n] \in Seq(Sender)
    /\ Len(line[n]) = IF Len(inbox[n]) <= MailboxCapacity THEN 0
                      ELSE Len(inbox[n]) - MailboxCapacity

LEMMA JoiningFits ==
    ASSUME TypeOK, Delivers, NEW who \in Sender, JoinsLine(who),
           NEW n \in Node, LineFits(n)
    PROVE  LineFits(n)'
<1>1. Len(inbox[n]) \in Nat /\ MailboxCapacity \in Nat
  BY CapacityAssumption DEF TypeOK
<1>2. Len(inbox'[n]) \in {Len(inbox[n]), Len(inbox[n]) + 1}
  BY DEF Delivers
<1>3. line'[n] = IF /\ Len(inbox'[n]) > Len(inbox[n])
                    /\ Len(inbox'[n]) > MailboxCapacity
                 THEN Append(line[n], who) ELSE line[n]
  BY DEF JoinsLine
<1>4. /\ line[n] \in Seq(Sender)
      /\ Append(line[n], who) \in Seq(Sender)
      /\ Len(Append(line[n], who)) = Len(line[n]) + 1
  BY DEF LineFits
<1> QED
  BY SMTT(30), <1>1, <1>2, <1>3, <1>4 DEF LineFits

\* The root actor takes a message, and who is first in line puts one in.
LEMMA TakingFits ==
    ASSUME TypeOK, NEW s \in Node, RootStep(s), FreesPlace(s),
           \A n \in Node : LineFits(n), line = [n \in Node |-> line[n]]
    PROVE  /\ \A n \in Node : LineFits(n)'
           /\ line' = [n \in Node |-> line'[n]]
<1>1. /\ inbox[s] \in Seq(ServerMessage \cup ClientRequests)
      /\ inbox[s] # <<>> /\ inbox' = [inbox EXCEPT ![s] = Tail(@)]
  BY DEF RootStep, RootRoutesServerMessage, RootRoutesClientMessage, TypeOK
<1>2. /\ inbox'[s] = Tail(inbox[s])
      /\ \A n \in Node \ {s} : inbox'[n] = inbox[n]
  BY <1>1 DEF TypeOK
<1>3. Len(Tail(inbox[s])) = Len(inbox[s]) - 1 /\ Len(inbox[s]) \in Nat \ {0}
  BY <1>1
<1>4. /\ line'[s] = IF line[s] = <<>> THEN line[s] ELSE Tail(line[s])
      /\ \A n \in Node \ {s} : line'[n] = line[n]
      /\ line' = [n \in Node |-> line'[n]]
  BY DEF FreesPlace
<1>5. /\ line[s] \in Seq(Sender)
      /\ line[s] # <<>> => /\ Tail(line[s]) \in Seq(Sender)
                           /\ Len(Tail(line[s])) = Len(line[s]) - 1
      /\ line[s] = <<>> <=> Len(line[s]) = 0
  BY DEF LineFits
<1>6. LineFits(s)'
  BY <1>2, <1>3, <1>4, <1>5, CapacityAssumption DEF LineFits
<1>7. \A n \in Node \ {s} : LineFits(n)'
  BY <1>2, <1>4 DEF LineFits
<1> QED
  BY <1>4, <1>6, <1>7

\* Who joins a line is a sender.
LEMMA Senders ==
    ASSUME NEW s \in Node
    PROVE  /\ <<s, "Follower">> \in Sender
           /\ <<s, "Candidate">> \in Sender
           /\ <<s, "ClientRequest">> \in Sender
           /\ \A type \in {"RequestVote", "AppendEntries"} : <<s, type>> \in Sender
  BY DEF Sender

Lines == /\ line = [n \in Node |-> line[n]]
         /\ \A n \in Node : LineFits(n)

LEMMA LinesKept ==
    ASSUME TypeOK, Lines, [FlowNext]_allVars
    PROVE  Lines'
<1>1. ASSUME Delivers, NEW who \in Sender, JoinsLine(who) PROVE Lines'
  <2>1. \A n \in Node : LineFits(n)'
    BY <1>1, JoiningFits DEF Lines
  <2>2. line' = [n \in Node |-> line'[n]]
    BY <1>1 DEF JoinsLine
  <2> QED BY <2>1, <2>2 DEF Lines
<1>2. CASE UNCHANGED <<line, inbox>>
  BY <1>2 DEF Lines, LineFits
<1>3. ASSUME NEW s \in Node, RootFlows(s) PROVE Lines'
  <2>1. CASE RootTakes(s)
    BY <2>1, TakingFits DEF RootTakes, RootStep, Lines
  <2>2. CASE RootResumes(s)
    BY <1>2, <2>2 DEF RootResumes, vars, channelVars
  <2> QED BY <1>3, <2>1, <2>2 DEF RootFlows
<1>4. ASSUME NEW s \in Node, FollowerFlows(s) PROVE Lines'
  <2>1. CASE FollowerActs(s)
    BY <1>1, <2>1, ActorsDeliver, Senders DEF FollowerActs
  <2>2. CASE FollowerResumes(s)
    BY <1>2, <2>2 DEF FollowerResumes, channelVars
  <2>3. CASE FollowerFreezes(s)
    BY <1>2, <2>3 DEF FollowerFreezes, Freezes, vars, channelVars
  <2> QED BY <1>4, <2>1, <2>2, <2>3 DEF FollowerFlows
<1>5. ASSUME NEW s \in Node, CandidateFlows(s) PROVE Lines'
  <2>1. CASE CandidateActs(s)
    BY <1>1, <2>1, ActorsDeliver, Senders DEF CandidateActs
  <2>2. CASE CandidateFreezes(s)
    BY <1>2, <2>2 DEF CandidateFreezes, Freezes, vars, channelVars
  <2> QED BY <1>5, <2>1, <2>2 DEF CandidateFlows
<1>6. ASSUME NEW s \in Node, LeaderActs(s) PROVE Lines'
  <2>1. UNCHANGED <<line, inbox>>
    BY <1>6 DEF LeaderActs, flowVars, LeaderStep, LeaderTakesOffice,
       LeaderOverlooksChange, LeaderBeats, LeaderStandsDown, LeaderRecordsSuccess,
       LeaderRecordsFailure, LeaderDropsVote, LeaderPanics, Panic, channelVars
  <2> QED BY <1>2, <2>1
<1>7. ASSUME NEW s \in Node, ClientActorFlows(s) PROVE Lines'
  <2>1. CASE ClientActorAnswers(s)
    BY <1>2, <2>1 DEF ClientActorAnswers, LeaderAnswers
  <2>2. CASE ClientActorForwards(s)
    BY <1>1, <2>2, ActorsDeliver, Senders DEF ClientActorForwards, ClientRequestStep
  <2> QED BY <1>7, <2>1, <2>2 DEF ClientActorFlows
<1>8. ASSUME NEW s \in Node, TaskSends(s) PROVE Lines'
  <2>1. PICK sent \in outbox[s] : JoinsLine(<<s, sent.message.type>>)
    BY <1>8 DEF TaskSends
  <2>2. sent.message.type \in {"RequestVote", "AppendEntries"}
    <3>1. sent \in Parcel
      BY DEF TypeOK
    <3>2. sent.message \in VoteRequests \/ sent.message \in AppendRequests
      BY <3>1 DEF Parcel
    <3> QED BY <3>2 DEF VoteRequests, AppendRequests
  <2> QED BY <1>1, <1>8, <2>1, <2>2, ActorsDeliver, Senders DEF TaskSends
<1>9. ASSUME NEW r \in Request, OutboundSends(r) PROVE Lines'
  <2>1. Delivers
    BY <1>9, SendDelivers DEF OutboundSends, ClientSends
  <2>2. <<Client, "Client">> \in Sender
    BY DEF Sender
  <2> QED BY <1>1, <1>9, <2>1, <2>2 DEF OutboundSends
<1>10. CASE InboundReads \/ (Halted /\ UNCHANGED flowVars) \/ UNCHANGED allVars
  BY <1>2, <1>10 DEF InboundReads, Halted, allVars, flowVars, vars, channelVars
<1> QED
  BY <1>3, <1>4, <1>5, <1>6, <1>7, <1>8, <1>9, <1>10 DEF FlowNext

\* The rest of FlowTypeOK: the client's channel, and the sets of servers.
Answers ==
    /\ guarded \subseteq Node
    /\ stalled \subseteq Node
    /\ answering \in Seq(Node)
    /\ replies \in Nat
    /\ Len(answering) = IF replies <= ReplyCapacity THEN 0
                        ELSE replies - ReplyCapacity
    /\ frozen \in BOOLEAN

LEMMA AnswersKept ==
    ASSUME Answers, [FlowNext]_allVars
    PROVE  Answers'
<1> USE CapacityAssumption
<1>1. CASE /\ guarded' \subseteq Node /\ stalled' \subseteq Node
           /\ frozen' \in BOOLEAN
           /\ UNCHANGED <<answering, replies>>
  BY <1>1 DEF Answers
<1>2. ASSUME NEW s \in Node,
             \/ RootFlows(s) \/ FollowerFlows(s) \/ CandidateFlows(s)
             \/ LeaderActs(s) \/ ClientActorForwards(s) \/ TaskSends(s)
      PROVE  Answers'
  BY <1>1, <1>2 DEF Answers, RootFlows, RootTakes, RootResumes, FollowerFlows,
     FollowerActs, FollowerResumes, FollowerFreezes, Freezes, CandidateFlows,
     CandidateActs, CandidateFreezes, LeaderActs, flowVars, ClientActorForwards,
     TaskSends
<1>3. ASSUME NEW s \in Node, ClientActorAnswers(s) PROVE Answers'
  <2>1. /\ Append(answering, s) \in Seq(Node)
        /\ Len(Append(answering, s)) = Len(answering) + 1
    BY DEF Answers
  <2> QED BY <1>3, <2>1 DEF ClientActorAnswers, Answers
<1>4. CASE InboundReads
  <2>1. /\ answering # <<>> => /\ Tail(answering) \in Seq(Node)
                               /\ Len(Tail(answering)) = Len(answering) - 1
        /\ answering = <<>> <=> Len(answering) = 0
    BY DEF Answers
  <2> QED BY <1>4, <2>1 DEF InboundReads, Answers
<1>5. CASE \/ \E r \in Request : OutboundSends(r)
           \/ Halted /\ UNCHANGED flowVars
           \/ UNCHANGED allVars
  BY <1>1, <1>5 DEF Answers, OutboundSends, flowVars, allVars
<1> QED
  BY <1>2, <1>3, <1>4, <1>5 DEF FlowNext, ClientActorFlows

\* Every message beyond a mailbox's capacity has a sender that waits with it
\* (src/server/handle.rs), and every answer beyond the capacity of the client's
\* channel has an actor (client_request.rs), in whatever order they are served.
THEOREM LinesAccount == FlowSpec => []FlowTypeOK
<1> DEFINE I == Inv /\ Lines /\ Answers
<1>1. FlowInit => I
  <2> SUFFICES ASSUME FlowInit PROVE Lines /\ Answers
    BY FlowInvInitially
  <2> USE CapacityAssumption
  <2>1. Lines
    BY DEF FlowInit, Init, Lines, LineFits
  <2>2. Answers
    <3>1. answering = <<>> /\ replies = 0
      BY DEF FlowInit
    <3>2. answering \in Seq(Node) /\ Len(answering) = 0
      BY <3>1
    <3>3. guarded = {} /\ stalled = {} /\ frozen \in BOOLEAN
      BY DEF FlowInit
    <3>4. replies <= ReplyCapacity
      BY <3>1
    <3> QED BY <3>1, <3>2, <3>3, <3>4 DEF Answers
  <2> QED BY <2>1, <2>2
<1>2. I /\ [FlowNext]_allVars => I'
  BY FlowInvKept, LinesKept, AnswersKept DEF Inv
<1>3. I => FlowTypeOK
  BY DEF Lines, LineFits, Answers, FlowTypeOK
<1> QED
  BY <1>1, <1>2, <1>3, PTL DEF FlowSpec, allVars

-----------------------------------------------------------------------------
(***************************************************************************)
(* The lone candidate, with channels of any capacity.                      *)
(***************************************************************************)
\* A follower that rejoins its loop is one more way for no message to move.
LEMMA RejoiningAdvances ==
    ASSUME Inv, NEW x \in Node, Alone(x), NEW s \in Node, Rejoins(s)
    PROVE  RolesAdvance(x) /\ Moves(x)
<1>1. UNCHANGED <<state, currentTerm, votedFor, candidate, panicked>>
  BY DEF Rejoins, persistentVars, Keep, SwitchTo, Inv, TypeOK
<1>2. follower'[x].watching => state'[x] = "Follower"
  BY <1>1 DEF Rejoins, FollowerLoops, IdleFollower, Inv, TypeOK, Alone, Lonely
<1>3. RolesAdvance(x)
  BY <1>1, <1>2 DEF RolesAdvance, Alone, Lonely, Docile
<1>4. Unposted
  BY DEF Rejoins, channelVars, Unposted
<1> QED
  BY <1>3, <1>4 DEF Moves

LEMMA FlowMovesOfAlone ==
    ASSUME Inv, NEW x \in Node, Impatient = {x}, Alone(x), [FlowNext]_allVars
    PROVE  RolesAdvance(x) /\ Moves(x)
  BY StepOfCluster, MovesOfAlone, RejoiningAdvances

LEMMA FlowAloneKept ==
    ASSUME Inv, NEW x \in Node, Impatient = {x}, Alone(x), [FlowNext]_allVars
    PROVE  Alone(x)'
<1>1. outbox' \in [Node -> SUBSET Parcel]
  BY FlowInvKept DEF Inv, TypeOK
<1> QED
  BY <1>1, FlowMovesOfAlone, AloneAfter

LEMMA FlowAloneInitially ==
    ASSUME NEW x \in Node, FlowInit
    PROVE  Alone(x) /\ Modest(x) /\ Tally(x)
  BY AloneInitially, ModestInitially, TallyInitially DEF FlowInit

LEMMA NothingFlowsAfterPanic ==
    ASSUME ~Running, [FlowNext]_allVars
    PROVE  UNCHANGED vars
<1>1. ASSUME NEW s \in Node, Rejoins(s) PROVE FALSE
  BY <1>1 DEF Rejoins
<1> QED
  BY <1>1, StepOfCluster, NothingAfterPanic

\* Whatever channel is full, and however long a request waits in line, the one way
\* for the process to die is a client's request that finds no leader before the
\* election is settled (client_request.rs:60, 65).
THEOREM FlowOnlyEarlyRequestsPanic ==
    ASSUME NEW x \in Node, Impatient = {x}
    PROVE  FlowSpec => []NoRivalNoPanic
<1> DEFINE I == Inv /\ Alone(x) /\ NoRivalNoPanic
<1>1. FlowInit => I
  BY FlowInvInitially, FlowAloneInitially DEF FlowInit, Init, NoRivalNoPanic
<1>2. I /\ [FlowNext]_allVars => I'
  BY FlowInvKept, FlowAloneKept, FlowMovesOfAlone, NothingFlowsAfterPanic,
     OnlyEarlyPanics
<1> QED
  BY <1>1, <1>2, PTL DEF FlowSpec, allVars

\* Its victory is for good, and its term too, however long its heartbeats wait
\* (follower.rs:35-45).
THEOREM FlowLeaderIsForGood ==
    ASSUME NEW x \in Node, Impatient = {x}
    PROVE  FlowSpec => EstablishedForGood
<1> DEFINE I == Inv /\ Alone(x)
           A == \A l \in Node : Established(l) /\ Running =>
                   /\ Established(l)' /\ Running'
                   /\ currentTerm'[l] = currentTerm[l]
<1>1. FlowInit => I
  BY FlowInvInitially, FlowAloneInitially
<1>2. I /\ [FlowNext]_allVars => I'
  BY FlowInvKept, FlowAloneKept
<1>3. I /\ [FlowNext]_allVars => A
  BY EstablishedStays, FlowMovesOfAlone
<1> QED
  BY <1>1, <1>2, <1>3, PTL DEF FlowSpec, allVars, EstablishedForGood

\* Its followers never take less for committed than before, however late its
\* requests arrive (follower.rs:98-107).
THEOREM FlowFollowersKeepTheirCommits ==
    ASSUME NEW x \in Node, Impatient = {x}
    PROVE  FlowSpec => FollowerCommitMonotonic
<1> DEFINE I == Inv /\ Alone(x) /\ Modest(x)
           A == \A s \in Node : ~leading[s] => commitIndex'[s] >= commitIndex[s]
<1>a. ASSUME NEW s \in Node, Rejoins(s)
      PROVE  UNCHANGED <<inbox, queue, outbox, log, commitIndex>>
  BY <1>a DEF Rejoins, persistentVars, volatileVars, channelVars
<1>1. FlowInit => I
  BY FlowInvInitially, FlowAloneInitially
<1>2. I /\ [FlowNext]_allVars => I'
  <2> SUFFICES ASSUME I, [FlowNext]_allVars PROVE Modest(x)'
    BY FlowInvKept, FlowAloneKept
  <2>1. CASE [Next]_vars
    BY <2>1, FlowAloneKept, ModestKept
  <2>2. CASE \E s \in Node : Rejoins(s)
    BY <1>a, <2>2 DEF Modest, InFlight
  <2> QED BY <2>1, <2>2, StepOfCluster
<1>3. I /\ [FlowNext]_allVars => A
  <2> SUFFICES ASSUME I, [FlowNext]_allVars, NEW p \in Node, ~leading[p]
               PROVE  commitIndex'[p] >= commitIndex[p]
    OBVIOUS
  <2>1. CASE [Next]_vars
    BY <2>1, FollowerKeepsCommit
  <2>2. CASE \E s \in Node : Rejoins(s)
    <3>1. commitIndex'[p] = commitIndex[p] /\ commitIndex[p] \in Nat
      BY <1>a, <2>2 DEF Inv, TypeOK
    <3> QED BY <3>1
  <2> QED BY <2>1, <2>2, StepOfCluster
<1> QED
  BY <1>1, <1>2, <1>3, PTL DEF FlowSpec, allVars, FollowerCommitMonotonic

\* A follower that rejoins its loop leaves votes and roles as they are.
LEMMA RejoiningElectsNobody ==
    ASSUME TypeOK, NEW s \in Node, Rejoins(s)
    PROVE  Traffic /\ \A n \in Node : Advances(n) /\ Ballot(n)
<1>1. UNCHANGED <<state, currentTerm, votedFor, candidate, inbox, queue, outbox>>
  BY DEF Rejoins, Keep, SwitchTo, TypeOK, persistentVars, channelVars
<1> QED
  BY <1>1, UntouchedAdvances DEF Untouched, Traffic, Unposted, Ballot

\* Votes that wait in line elect no second leader in the first term
\* (candidate.rs:38-49, 135, src/server/handle.rs).
THEOREM FlowFirstTermLeaderIsAlone ==
    ASSUME MaxTerm = 1, FewStand
    PROVE  FlowSpec => []OneLeader
<1> DEFINE I == Inv /\ Electorate
<1>1. FlowInit => I
  BY FlowInvInitially, ElectorateInitially DEF FlowInit, Inv
<1>2. I /\ [FlowNext]_allVars => I'
  <2> SUFFICES ASSUME Inv, Electorate, [FlowNext]_allVars PROVE Inv' /\ Electorate'
    OBVIOUS
  <2>1. Inv' /\ TypeOK /\ TypeOK'
    BY FlowInvKept DEF Inv
  <2>2. Traffic /\ (FirstTerm => \A n \in Node : Advances(n))
    BY <2>1, StepOfCluster, TrafficOfStep, StepAdvances, RejoiningElectsNobody
  <2> QED BY <2>1, <2>2, ElectorateKept
<1>3. I => OneLeader
  BY OneIsElected DEF Inv
<1> QED
  BY <1>1, <1>2, <1>3, PTL DEF FlowSpec, allVars

LEMMA FlowReignKept ==
    ASSUME TypeOK, TypeOK', MaxTerm = 1, FewStand, Reign, [FlowNext]_allVars
    PROVE  Reign' /\ \A n \in Node : LeaderStays(n)
<1>1. ASSUME NEW s \in Node, Rejoins(s)
      PROVE  Reign' /\ \A n \in Node : LeaderStays(n)
  <2>1. Traffic /\ \A n \in Node : Advances(n) /\ Ballot(n)
    BY <1>1, RejoiningElectsNobody
  <2>2. ElectionOver'
    BY <1>1 DEF Rejoins, Keep, SwitchTo, TypeOK, Reign, ElectionOver
  <2> QED BY <2>1, <2>2, ElectorateKept, SteadyKept DEF Reign
<1> QED
  BY <1>1, StepOfCluster, ReignKept

\* The leader of the first term stays however long its requests and the votes
\* of others wait in line (follower.rs:151, src/server/handle.rs).
THEOREM FlowFirstTermLeaderStays ==
    ASSUME MaxTerm = 1, FewStand
    PROVE  FlowSpec => [][\A s \in Node :
                              state[s] = "Leader" => state'[s] = "Leader"]_vars
<1> DEFINE A == \A s \in Node : state[s] = "Leader" => state'[s] = "Leader"
           I == Inv /\ Reign
<1>1. FlowInit => I
  BY FlowInvInitially, ElectorateInitially, SteadyInitially
     DEF FlowInit, Inv, Reign
<1>2. I /\ [FlowNext]_allVars => I' /\ A
  <2> SUFFICES ASSUME Inv, Reign, [FlowNext]_allVars PROVE Inv' /\ Reign' /\ A
    OBVIOUS
  <2>1. Inv' /\ TypeOK /\ TypeOK'
    BY FlowInvKept DEF Inv
  <2> QED BY <2>1, FlowReignKept DEF LeaderStays
<1>3. A => [A]_vars
  OBVIOUS
<1> QED
  BY <1>1, <1>2, <1>3, PTL DEF FlowSpec, allVars

\* An answer that waits in line for the mailbox of a leader still finds it in
\* office (root.rs:25-34, src/server/handle.rs).
THEOREM FlowFirstTermNobodyStrays ==
    ASSUME MaxTerm = 1, FewStand
    PROVE  FlowSpec => []NoStrayAnswer
<1> DEFINE I == Inv /\ Reign /\ NoStrayAnswer
<1>1. FlowInit => I
  BY FlowInvInitially, ElectorateInitially, SteadyInitially
     DEF FlowInit, Inv, Reign, Init, NoStrayAnswer
<1>2. I /\ [FlowNext]_allVars => I'
  <2> SUFFICES ASSUME Inv, Reign, NoStrayAnswer, [FlowNext]_allVars
               PROVE  Inv' /\ Reign' /\ NoStrayAnswer'
    OBVIOUS
  <2>1. Inv' /\ TypeOK /\ TypeOK'
    BY FlowInvKept DEF Inv
  <2>2. Reign' /\ AnswersFindLeader
    BY <2>1, FlowReignKept DEF Reign, Steady
  <2>3. (\E s \in Node : Rejoins(s)) => NoStrayAnswer'
    BY DEF Rejoins, NoStrayAnswer
  <2> QED BY <2>1, <2>2, <2>3, StepOfCluster, NobodyStrays
<1>3. I => NoStrayAnswer
  OBVIOUS
<1> QED
  BY <1>1, <1>2, <1>3, PTL DEF FlowSpec, allVars

-----------------------------------------------------------------------------
(***************************************************************************)
(* The thread that never stops.  A root actor that waits for room in a     *)
(* queue holds the guard of the watch channel.  With room for all the      *)
(* votes of all elections, the candidate's root actor waits only for the   *)
(* leader actor, when nobody is left who would write the role.             *)
(***************************************************************************)
Free(x) ==
    /\ ~frozen
    /\ x \in guarded => state[x] = "Leader"

\* The actors of a peer never write its role, nor do the candidate's once it leads.
LEMMA NobodyWrites ==
    ASSUME NEW x \in Node, Impatient = {x}, Alone(x), NEW s \in Node,
           s = x => state[x] = "Leader"
    PROVE  ~FollowerWrites(s) /\ ~CandidateWrites(s)
<1>1. CASE s = x
  BY <1>1 DEF FollowerWrites, CandidateWrites, Polling, Alone, Lonely
<1>2. CASE s # x
  BY <1>2 DEF FollowerWrites, CandidateWrites, Receives, Alone, Docile, Peers
<1> QED
  BY <1>1, <1>2

\* When its root actor finds a queue full, it is the leader actor's.
LEMMA OnlyTheLeadersQueueFills ==
    ASSUME TypeOK, TypeOK', NEW x \in Node, Alone(x), Alone(x)', Tally(x), Tally(x)',
           QueueCapacity >= MaxTerm * Cardinality(Peers(x)),
           RootRoutesServerMessage(x), ~Fits(queue'[x][state[x]])
    PROVE  state[x] = "Leader"
<1>1. state[x] # "Follower"
  <2>1. inbox[x] # <<>> /\ Head(inbox[x]) \notin ClientRequests
    BY DEF RootRoutesServerMessage, FromClient, ClientRequests
  <2> QED BY <2>1, NoVoteYet
<1>2. state[x] # "Candidate"
  <2>1. Len(queue'[x]["Candidate"]) <= MaxTerm * Cardinality(Peers(x))
    BY VotesFit
  <2>2. /\ Len(queue'[x]["Candidate"]) \in Nat
        /\ QueueCapacity \in Nat
        /\ MaxTerm * Cardinality(Peers(x)) \in Nat
    <3>1. IsFiniteSet(Peers(x)) /\ MaxTerm \in Nat
      BY NodeAssumption, BoundAssumption, FS_RemoveElement DEF Peers
    <3>2. Cardinality(Peers(x)) \in Nat
      BY <3>1, FS_CardinalityType
    <3>3. queue'[x]["Candidate"] \in Seq(ServerMessage)
      BY DEF TypeOK, Role
    <3> QED BY <3>1, <3>2, <3>3, CapacityAssumption
  <2>3. Fits(queue'[x]["Candidate"])
    <3>1. \A a, b, c \in Nat : a <= b /\ c >= b => a <= c
      OBVIOUS
    <3> QED BY <2>1, <2>2, <3>1 DEF Fits
  <2> QED BY <2>3
<1> QED
  BY <1>1, <1>2 DEF TypeOK, Role

LEMMA FreeKept ==
    ASSUME Inv, NEW x \in Node, Impatient = {x}, Alone(x), Tally(x), Free(x),
           QueueCapacity >= MaxTerm * Cardinality(Peers(x)),
           Alone(x)', Tally(x)', [FlowNext]_allVars
    PROVE  Free(x)'
<1>a. TypeOK /\ TypeOK' /\ RolesAdvance(x)
  BY FlowInvKept, FlowMovesOfAlone DEF Inv
<1>1. CASE frozen' = frozen /\ (x \in guarded' => x \in guarded)
  BY <1>1, <1>a DEF Free, RolesAdvance
<1>2. ASSUME NEW s \in Node, RootTakes(s) PROVE Free(x)'
  <2>1. CASE x \in guarded' => x \in guarded
    BY <1>1, <1>2, <2>1 DEF RootTakes
  <2>2. CASE x \in guarded' /\ x \notin guarded
    <3>1. s = x /\ RootRoutesServerMessage(x) /\ ~Fits(queue'[x][state[x]])
      BY <1>2, <2>2 DEF RootTakes
    <3>2. state[x] = "Leader"
      BY <1>a, <3>1, OnlyTheLeadersQueueFills
    <3> QED BY <1>2, <1>a, <3>2 DEF Free, RolesAdvance, RootTakes
  <2> QED BY <2>1, <2>2
<1>3. ASSUME NEW s \in Node, FollowerFreezes(s) \/ CandidateFreezes(s) PROVE FALSE
  <2>1. s = x => state[x] = "Leader"
    BY <1>3 DEF FollowerFreezes, CandidateFreezes, Free
  <2> QED BY <1>3, <2>1, NobodyWrites DEF FollowerFreezes, CandidateFreezes
<1>4. ASSUME NEW s \in Node,
             \/ RootResumes(s) \/ FollowerActs(s) \/ FollowerResumes(s)
             \/ CandidateActs(s) \/ LeaderActs(s) \/ ClientActorFlows(s)
             \/ TaskSends(s)
      PROVE  Free(x)'
  BY <1>1, <1>4 DEF RootResumes, FollowerActs, FollowerResumes, CandidateActs,
     LeaderActs, flowVars, ClientActorFlows, ClientActorAnswers, ClientActorForwards,
     TaskSends
<1>5. CASE \/ \E r \in Request : OutboundSends(r)
           \/ InboundReads
           \/ Halted /\ UNCHANGED flowVars
           \/ UNCHANGED allVars
  BY <1>1, <1>5 DEF OutboundSends, InboundReads, flowVars, allVars
<1> QED
  BY <1>2, <1>3, <1>4, <1>5 DEF FlowNext, RootFlows, FollowerFlows, CandidateFlows

\* Where one server stands for election and its queues hold one vote of each peer
\* for every election there may be, no actor ever writes the role of a server
\* whose root actor waits with the guard of the watch channel in hand
\* (root.rs:30-34, server.rs:178-208): the thread of all servers never stops,
\* however small the mailboxes are and however slow the client.
THEOREM NothingFreezes ==
    ASSUME NEW x \in Node, Impatient = {x},
           QueueCapacity >= MaxTerm * Cardinality(Peers(x))
    PROVE  FlowSpec => []NeverFrozen
<1> DEFINE I == Inv /\ Alone(x) /\ Tally(x) /\ Free(x)
<1>1. FlowInit => I
  <2>1. FlowInit => Free(x)
    BY DEF FlowInit, Free
  <2> QED BY <2>1, FlowInvInitially, FlowAloneInitially
<1>2. I /\ [FlowNext]_allVars => I'
  <2> SUFFICES ASSUME I, [FlowNext]_allVars PROVE I'
    OBVIOUS
  <2>1. Inv' /\ Alone(x)'
    BY FlowInvKept, FlowAloneKept
  <2>2. TypeOK /\ TypeOK' /\ RolesAdvance(x) /\ Moves(x)
    BY <2>1, FlowMovesOfAlone DEF Inv
  <2>3. Tally(x)'
    BY <2>2, TallyKept
  <2>4. Free(x)'
    BY <2>1, <2>3, FreeKept
  <2> QED BY <2>1, <2>3, <2>4
<1>3. I => NeverFrozen
  BY DEF Free, NeverFrozen
<1> QED
  BY <1>1, <1>2, <1>3, PTL DEF FlowSpec, allVars
=============================================================================
