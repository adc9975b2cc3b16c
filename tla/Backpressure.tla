---------------------------- MODULE Backpressure ----------------------------
(***************************************************************************)
(* The cluster with the channels it really has: a mailbox of 8 messages    *)
(* (src/main.rs), queues of 32 (src/server.rs) and a channel of 16 for the *)
(* client's answers (src/client.rs).  A sender that finds a channel full   *)
(* waits, and whatever it would do next waits with it.                     *)
(*                                                                         *)
(* The channels of MiniRaft are kept and read differently.  The messages   *)
(* of a mailbox beyond its capacity are not in the channel yet: their      *)
(* senders hold them and stand in line, first come first served, as        *)
(* tokio's semaphore lets them in.  A queue has the root actor as its only *)
(* sender, so one message too many is the one the root actor holds.        *)
(***************************************************************************)
EXTENDS Correctness

CONSTANTS
    MailboxCapacity,
    QueueCapacity,
    ReplyCapacity,
    Client         \* The name of the client, as a sender.

\* Assumptions on time.
CONSTANTS
    LateClient,    \* Whether the client begins when a leader is established:
                   \* main.rs has it sleep for two seconds.
    MaxRounds      \* How many rounds of heartbeats a leader may have under way
                   \* with a peer, the one it begins included.

ASSUME CapacityAssumption ==
    /\ MailboxCapacity \in Nat \ {0}
    /\ QueueCapacity \in Nat \ {0}
    /\ ReplyCapacity \in Nat \ {0}
    /\ Client \notin Node
    /\ LateClient \in BOOLEAN
    /\ MaxRounds \in Nat

VARIABLES
    line,          \* Who waits to put a message in each server's mailbox.
    guarded,       \* The servers whose root actor waits for room in the queue
                   \* of an actor, and holds the watch channel's read guard.
    stalled,       \* The servers whose follower actor has not yet returned
                   \* from sending an answer.
    replies,       \* How many answers the client has yet to read.
    answering,     \* The servers that wait to put an answer in its channel.
    frozen         \* Whether the thread of all servers waits for the guard.

flowVars == <<line, guarded, stalled, replies, answering, frozen>>

\* A message is sent by an actor, by a task an actor has spawned, or by the
\* client.
Sender ==
    (Node \X {"Follower", "Candidate", "ClientRequest",
              "RequestVote", "AppendEntries"})
    \cup {<<Client, "Client">>}

Waits(who) == \E s \in Node : who \in Range(line[s])

\* A variant with a bug: a sender waits although it has taken the last place.
JoinsLineEarly(who) ==
    line' = [s \in Node |->
                IF /\ Len(inbox'[s]) > Len(inbox[s])
                   /\ Len(inbox'[s]) >= MailboxCapacity
                THEN Append(line[s], who) ELSE line[s]]

\* The place in line of a sender that has just found a mailbox full.
JoinsLine(who) ==
    line' = [s \in Node |->
                IF /\ Len(inbox'[s]) > Len(inbox[s])
                   /\ Len(inbox'[s]) > MailboxCapacity
                THEN Append(line[s], who) ELSE line[s]]

\* A message leaves the mailbox of s, and the first in line gets its place.
FreesPlace(s) ==
    line' = [line EXCEPT ![s] = IF @ = <<>> THEN @ ELSE Tail(@)]

\* A variant with a bug: the last place of a queue is never used.
FitsLess(messages) == Len(messages) < QueueCapacity

\* The queue holds all the root actor has sent it.
Fits(messages) == Len(messages) <= QueueCapacity
-----------------------------------------------------------------------------
(***************************************************************************)
(* The root actor.  It matches on the role it has borrowed, and the guard  *)
(* of that borrow lives until the message is in the queue.                 *)
(***************************************************************************)
RootTakes(s) ==
    /\ ~frozen
    /\ s \notin guarded
    /\ Fits(clientQueue[s])
    /\ \/ /\ RootRoutesServerMessage(s)
          /\ guarded' = IF Fits(queue'[s][state[s]]) THEN guarded
                        ELSE guarded \cup {s}
       \/ /\ RootRoutesClientMessage(s)
          /\ UNCHANGED guarded
    /\ FreesPlace(s)
    /\ UNCHANGED <<stalled, replies, answering, frozen>>

\* There is room again: the message is handed over and the guard dropped.
RootResumes(s) ==
    /\ ~frozen
    /\ Running
    /\ s \in guarded
    /\ \A role \in Role : Fits(queue[s][role])
    /\ guarded' = guarded \ {s}
    /\ UNCHANGED <<vars, line, stalled, replies, answering, frozen>>
-----------------------------------------------------------------------------
(***************************************************************************)
(* The actors that write the role.  A write needs the watch channel's lock *)
(* and blocks the thread, not the task, while a read guard is out: all     *)
(* servers run on that thread, the holder of the guard among them.         *)
(***************************************************************************)
\* The role may be written.
Unguarded(s) == s \in guarded => state'[s] = state[s]

\* The thread stops for good.  What the handler assigned before it is of no
\* account: nothing runs on this thread again.
Freezes == frozen' = TRUE /\ UNCHANGED <<vars, line, guarded, stalled, replies,
                                        answering>>

\* What the follower actor writes: its timer makes a candidate, and a vote
\* granted by an actor that lingers makes a follower again.
FollowerWrites(s) ==
    /\ Running
    /\ follower[s].watching
    /\ \/ /\ s \in Impatient
          /\ currentTerm[s] < MaxTerm
          /\ state[s] # "Candidate"
       \/ /\ Receives(s, "Follower", "RequestVote")
          /\ WouldVote(s, Mail(s, "Follower"))
          /\ state[s] # "Follower"

\* A follower whose answer has to wait has not reached the top of its loop.
FollowerActs(s) ==
    /\ ~frozen
    /\ s \notin stalled
    /\ FollowerStep(s)
    /\ Unguarded(s)
    /\ JoinsLine(<<s, "Follower">>)
    /\ stalled' = IF line' = line THEN stalled ELSE stalled \cup {s}
    /\ UNCHANGED <<guarded, replies, answering, frozen>>

\* The answer is sent: only now does the actor poll the role and read the term.
FollowerResumes(s) ==
    /\ ~frozen
    /\ Running
    /\ s \in stalled
    /\ ~Waits(<<s, "Follower">>)
    /\ stalled' = stalled \ {s}
    /\ Keep(s, {"Follower"})
    /\ UNCHANGED persistentVars
    /\ FollowerLoops(s)
    /\ UNCHANGED <<volatileVars, channelVars, candidate, leading, request,
                   panicked>>
    /\ UNCHANGED <<line, guarded, replies, answering, frozen>>

FollowerFreezes(s) ==
    /\ ~frozen
    /\ s \in guarded \ stalled
    /\ FollowerWrites(s)
    /\ Freezes

\* Neither its own answer nor a request for a vote is still waiting.
CandidateFree(s) ==
    ~frozen /\ ~Waits(<<s, "Candidate">>) /\ ~Waits(<<s, "RequestVote">>)

\* What the candidate actor writes: a request of its term or a later one makes
\* a follower, the last vote it needs a leader.
CandidateWrites(s) ==
    LET m == Mail(s, "Candidate") IN
    /\ Running
    /\ Polling(s)
    /\ \/ /\ \/ Receives(s, "Candidate", "RequestVote")
             \/ Receives(s, "Candidate", "AppendEntries")
          /\ m.term >= candidate[s].term
          /\ state[s] # "Follower"
       \/ /\ Receives(s, "Candidate", "RequestVoteResponse")
          /\ m.granted
          /\ Majority(candidate[s].votes + 1, s)
          /\ state[s] # "Leader"

CandidateActs(s) ==
    /\ CandidateFree(s)
    /\ CandidateStep(s)
    /\ Unguarded(s)
    /\ JoinsLine(<<s, "Candidate">>)
    /\ UNCHANGED <<guarded, stalled, replies, answering, frozen>>

CandidateFreezes(s) ==
    /\ CandidateFree(s)
    /\ s \in guarded
    /\ CandidateWrites(s)
    /\ Freezes
-----------------------------------------------------------------------------
(***************************************************************************)
(* The other actors, the tasks and the client.                             *)
(***************************************************************************)
\* The requests of s that peer p has yet to take and the answers of p that s
\* has yet to take are fewer than MaxRounds.  The timer of the code waits for
\* none of them: that it is slow enough is the assumption on time.
KeepsPace(s, p) ==
    LET Way(t, type, from) ==
            SelectSeq(queue[t][state[t]] \o inbox[t],
                      LAMBDA m : m.type = type /\ m.from = from)
    IN  Len(Way(p, "AppendEntries", s)) + Len(Way(s, "AppendEntriesResponse", p))
            < MaxRounds

LeaderActs(s) ==
    /\ ~frozen
    /\ ~Waits(<<s, "AppendEntries">>)
    /\ LeaderStep(s)
    /\ outbox'[s] # outbox[s] => \A p \in Peers(s) : KeepsPace(s, p)
    /\ UNCHANGED flowVars

ClientActorFree(s) ==
    ~frozen /\ ~Waits(<<s, "ClientRequest">>) /\ s \notin Range(answering)

ClientActorAnswers(s) ==
    /\ ClientActorFree(s)
    /\ LeaderAnswers(s)
    /\ replies' = replies + 1
    /\ answering' = IF replies < ReplyCapacity THEN answering
                    ELSE Append(answering, s)
    /\ UNCHANGED <<line, guarded, stalled, frozen>>

ClientActorForwards(s) ==
    /\ ClientActorFree(s)
    /\ ServerForwards(s) \/ ServerKnowsNoLeader(s)
    /\ JoinsLine(<<s, "ClientRequest">>)
    /\ UNCHANGED <<guarded, stalled, replies, answering, frozen>>

\* The tasks run on other threads and outlive a frozen one.
TaskSends(s) ==
    /\ Transmit(s)
    /\ \E sent \in outbox[s] \ outbox'[s] : JoinsLine(<<s, sent.message.type>>)
    /\ UNCHANGED <<guarded, stalled, replies, answering, frozen>>

\* The client's outbound actor makes one request after another and waits for
\* none of the answers.
OutboundSends(r) ==
    /\ ~Waits(<<Client, "Client">>)
    /\ LateClient => \E l \in Node : Established(l)
    /\ ClientSends(r)
    /\ JoinsLine(<<Client, "Client">>)
    /\ UNCHANGED <<guarded, stalled, replies, answering, frozen>>

\* Its inbound actor reads the answers, and does no more with them.
InboundReads ==
    /\ Running
    /\ replies > 0
    /\ replies' = replies - 1
    /\ answering' = IF answering = <<>> THEN answering ELSE Tail(answering)
    /\ UNCHANGED <<vars, line, guarded, stalled, frozen>>
-----------------------------------------------------------------------------
FlowInit ==
    /\ Init
    /\ line = [s \in Node |-> <<>>]
    /\ guarded = {}
    /\ stalled = {}
    /\ replies = 0
    /\ answering = <<>>
    /\ frozen = FALSE

RootFlows(s)     == RootTakes(s) \/ RootResumes(s)
FollowerFlows(s) == FollowerActs(s) \/ FollowerResumes(s) \/ FollowerFreezes(s)
CandidateFlows(s) == CandidateActs(s) \/ CandidateFreezes(s)
ClientActorFlows(s) == ClientActorAnswers(s) \/ ClientActorForwards(s)

FlowNext ==
    \/ \E s \in Node :
          \/ RootFlows(s)
          \/ FollowerFlows(s)
          \/ CandidateFlows(s)
          \/ LeaderActs(s)
          \/ ClientActorFlows(s)
          \/ TaskSends(s)
    \/ \E r \in Request : OutboundSends(r)
    \/ InboundReads
    \/ Halted /\ UNCHANGED flowVars

FlowSpec == FlowInit /\ [][FlowNext]_<<vars, flowVars>>

\* A sender in line gets its place when it comes free, and its task is polled
\* then: nothing stronger than the fairness of actors is needed.  The client
\* promises to read its answers, and no more.
FlowFairness ==
    /\ \A s \in Node :
          /\ WF_<<vars, flowVars>>(RootFlows(s))
          /\ WF_<<vars, flowVars>>(FollowerFlows(s))
          /\ WF_<<vars, flowVars>>(CandidateFlows(s))
          /\ WF_<<vars, flowVars>>(LeaderActs(s))
          /\ WF_<<vars, flowVars>>(ClientActorFlows(s))
          /\ WF_<<vars, flowVars>>(TaskSends(s))
    /\ WF_<<vars, flowVars>>(InboundReads)

FairFlowSpec == FlowSpec /\ FlowFairness
-----------------------------------------------------------------------------
\* Every message beyond a mailbox's capacity has a sender that waits with it,
\* and the client's channel never holds more answers than waiting actors and
\* places account for.
FlowTypeOK ==
    /\ \A s \in Node :
          /\ line[s] \in Seq(Sender)
          /\ Len(line[s]) = IF Len(inbox[s]) <= MailboxCapacity THEN 0
                            ELSE Len(inbox[s]) - MailboxCapacity
    /\ guarded \subseteq Node
    /\ stalled \subseteq Node
    /\ answering \in Seq(Node)
    /\ replies \in Nat
    /\ Len(answering) = IF replies <= ReplyCapacity THEN 0
                        ELSE replies - ReplyCapacity
    /\ frozen \in BOOLEAN

\* No actor writes the role of a server whose root actor holds the watch
\* channel's guard (root.rs:30-34).
NeverFrozen == ~frozen

\* A server has "a mailbox into which it can ALWAYS receive messages"
\* (src/server.rs:338): whoever sends it one, or sends the client an answer, is
\* not kept waiting for ever.  It holds where one server alone stands for
\* election and keeps pace with its peers (KeepsPace), and not among rivals.
SendsComplete ==
    /\ \A who \in Sender : []<>(~Waits(who) \/ ~Running)
    /\ \A s \in Node : []<>(s \notin Range(answering) \/ ~Running)
=============================================================================
