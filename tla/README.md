# Verification of mini-raft

TLA+ specifications of the cluster in `src/`, the TLC runs that check them on
small instances, and TLAPS proofs of the properties that hold for every
instance.  All line numbers are of files under `src/src/`.

- [The system](#the-system)
- [Modules](#modules)
- [How the model corresponds to the code](#how-the-model-corresponds-to-the-code)
- [Runs](#runs)
- [Fairness](#fairness)
- [Disagreements between the code and its comments](#disagreements-between-the-code-and-its-comments)
- [Proofs](#proofs)
- [What is not modelled](#what-is-not-modelled)
- [Plan](#plan)

## The system

`main.rs` starts five servers in one task (`try_join!`) and one client in a
task of its own.  A server is five actors, the branches of one more `join`
(`server.rs`, `Server::run`): nothing of a server runs in parallel with another
server, but every `await` is a point at which any other actor may run, and the
requests of candidates and leaders are delivered by spawned tasks that do run
in parallel.

| component | state it keeps | operations | what makes it correct |
|---|---|---|---|
| server state (`server.rs`) | role (a watch channel), `current_term`, `voted_for`, log, `commit_index`, volatile leader state | `upgrade_to_candidate`, `upgrade_to_leader`, `downgrade_to_follower`, `append_to_log`, setters | the term does not fall, one leader at a time, the commit index does not fall and is backed by a log |
| root actor (`actors/root.rs`) | none | takes a message from the mailbox and puts it in the queue of the current role's actor, or of the client actor | a message reaches an actor that can handle it |
| follower actor (`actors/follower.rs`) | whether it watches, the term it read before it waited | time out, see a change of role, grant or refuse a vote, follow or reject a leader | no change of role is lost; a commit index is adopted only upwards |
| candidate actor (`actors/candidate.rs`) | the election's term and votes | begin and abandon elections, count votes, win, step down | a victory needs votes of a majority for the term |
| leader actor (`actors/leader.rs`) | whether it is in its heartbeat loop | take office, send rounds of AppendEntries, record answers, stand down | requests describe the leader's log; only what a majority holds is committed; heartbeats go on |
| client request actor (`actors/client_request.rs`) | none | answer or forward a client's request | a request is answered once, and not lost |
| log (`server/log.rs`) | entries with index and term | append, last, find, entries from an index | indices have no gaps |
| volatile leader state (`server/volatile_leader_state.rs`) | a next index per peer (match indices are written once and never read) | set, decrement, highest committable index | indices stay in range; the committable index has a majority |
| messages, handles, peer list | mailboxes of 8 messages, queues of 32 (`mpsc`) | send, or wait for room | whoever waits gets room; messages keep their order |
| client (`client/`) | the requests it made, a channel of 16 answers | send a random request to a random server, read and log the answers | whoever answers is not kept waiting |
| state machine (`state_machine.rs`) | a number for each key | apply a command: increment, decrement, replace | exact while in range; the same commands never drive two machines further apart |
| timeouts, listener, node ids, logging, errors | | | |

How they interact: a message to a server goes to its mailbox; the root actor
moves it to the queue of the actor of the role the server is in **at that
moment**; that actor takes it when it gets there, perhaps in another role.  A
change of role is a write to the watch channel; each actor learns of it only
when its own receiver is polled.  The actors of a server share its term, vote,
log and commit index and write them without coordination.

What is hard here, and what the properties are aimed at:

- *Roles and interleaving.*  Between a change of role and the moment an actor
  sees it, the actor goes on acting in its former role.  `select!` chooses at
  random among ready branches, so a candidate that has stepped down may take
  more messages first; a follower actor may time out, or grant a vote, on behalf
  of a server that is already leader.
- *Stale reads.*  A follower compares requests with the term it read before it
  waited; a candidate with the term of its election.
- *Ordering.*  Answers of an abandoned election wait in the queue of the next
  one; answers reach roles that did not ask; the commit index is computed before
  the answer that triggers it is recorded.
- *Panics.*  Six lines panic, by design or by `unwrap`
  (`leader.rs:113`, `leader.rs:126`, `follower.rs:189`, `candidate.rs:199`,
  `client_request.rs:60`, `client_request.rs:65`), and one panic ends the task
  all servers run in.
- *Full channels.*  An actor that answers into a full mailbox waits, and what it
  would do next waits with it: its queue fills, and then its own server's root
  actor stops reading the mailbox.  The root actor waits with the read guard of
  the watch channel in hand (`root.rs:30-34`), and a write of the role meanwhile
  blocks the thread, not the task.
- *Numbers.*  Majorities counted in peers rather than servers, the middle of a
  sorted vector, indices that are decremented on every refusal, numbers that
  saturate.
- *Liveness.*  Elections may be abandoned and repeated; heartbeat rounds wait for
  their own delivery; requests are forwarded from server to server.

`PROJECT.json` lists these hazards one by one, at their lines, with the
properties that address them.

## Modules

| module | models |
|---|---|
| `ServerLog` | the log: entries found by the index they carry, never by position |
| `VolatileLeaderState` | next indices and the highest committable index |
| `PeerIndices` | the volatile leader state as a data type of its own, under any calls a leader can make |
| `Server` | the variables of a cluster, messages, mailboxes, the watch channel, sending tasks, panics |
| `RootActor`, `FollowerActor`, `CandidateActor`, `LeaderActor`, `ClientRequestActor` | one actor each, one action per branch of its code |
| `MiniRaft` | the composition: `Init`, `Next`, `Spec`, `TypeOK` |
| `ClientContract` | the abstract specification of what clients may rely on |
| `Correctness` | the properties of the cluster, its fairness, and the refinement of `ClientContract` |
| `Backpressure` | the cluster with bounded channels: who waits in line for a mailbox, for a queue or for the client's channel, and the thread that blocks; its own fairness and properties |
| `StateMachine` | the state machine as a data type, beside a second one and beside exact arithmetic |
| `MCMiniRaft`, `MCBackpressure`, `MCDataTypes` | model values for TLC; the last runs `PeerIndices` and `StateMachine` side by side |
| `ServerDataProofs`, `DataTypeProofs`, `MiniRaftProofs`, `MessageProofs`, `LoneCandidateProofs`, `FirstTermProofs`, `ClientProofs`, `BackpressureProofs` | theorems and proofs |

`Backpressure` adds variables to `MiniRaft` and guards to its actions and uses
every one of them: `MiniRaft` is the cluster whose channels never fill, and the
passing runs check the properties of both on the cluster whose channels do.

Definitions whose comment calls them *a variant with a bug* are part of no
specification.  Each is what a plausible slip in the code would make of the
definition that follows it, and is there to show that a property notices.

## How the model corresponds to the code

**Roles.**  `state[s]` is the value of the watch channel.  `unseen[s]` is the
set of actors whose receiver has a change they have not seen: a write that
changes the role (`SwitchTo`) adds all of them, as `watch::Sender::send` notifies
all receivers, and an actor that polls its receiver leaves the set.  A write of
the role the server has already notifies no one.

**Follower actor.**  `follower[s].watching` says that the actor is in the
`select!` of its working branch, `follower[s].term` is the term it read there.
Every branch ends at the top of the loop, where the role is polled and the term
read again (`FollowerLoops`).

**Candidate actor.**  `candidate[s].campaigning` says that it is in the loop of
an election, `term` and `votes` are that loop's locals.  `CandidateYields` is
the handler of a request of the election's term or later; it stays in the loop,
as the code does, until its receiver reports the change (`CandidateStandsDown`).
A timer that expires in the loop, and a change of role, both lead to the top of
the outer loop, where the role decides between another election and waiting.

**Leader actor.**  `leading[s]` says that the actor is in its heartbeat loop.
A round is `Heartbeat`: one task for each peer, whose request waits in
`outbox[s]` until `Transmit` delivers it.  The actor takes messages only when
its round is delivered, because it awaits `join_all` first; the same holds for
a candidate's requests for votes.

**Channels.**  `inbox[s]` and `queue[s][role]` hold what has been sent to a
mailbox and a queue, in order.  In `Backpressure` only the first
`MailboxCapacity` messages of `inbox[s]` are in the channel: the others are in
the hands of their senders, which stand in `line[s]` in the order of the
messages.  Tokio's semaphore serves waiting senders first come, first served, so
a message taken by the root actor lets the head of the line in (`FreesPlace`).
A queue has one sender, the root actor, so a message beyond `QueueCapacity` is
the one it holds while it waits; if the queue is that of a role, `s` is in
`guarded` until there is room (`RootResumes`), because the guard of the borrowed
role is dropped at the end of the `match`.  `LinesAccount` proves that this
reading is consistent: the line is exactly as long as the mailbox is over-full.

**Who waits, and what waits with it.**  A follower that waits with its answer is
`stalled`: it has not returned to the top of its loop, so it polls the role and
reads the term only when the answer is in (`FollowerResumes`).  A candidate takes
nothing from its queue while one of its requests, or its answer, waits; a leader
while one of its round's requests does (`join_all`); the actor that serves
clients while a request it forwards waits in a line, or an answer in
`answering`, the line for the client's channel.  The client waits likewise with
its request.  The tasks that send requests run on other threads and go on when
the thread of the servers is blocked.

**The blocked thread.**  `frozen` says that an actor has tried to write the role
of a server whose root actor holds the guard.  All servers run in one task, so
the root actor is never polled again and the guard never dropped.  Each action
that writes a role is split into the write, which needs the guard to be out of
the way (`Unguarded`), and the attempt that freezes (`FollowerFreezes`,
`CandidateFreezes`).  Of the two actors that write roles the leader's is none:
a leader never writes its server's role.

**State machine.**  `StateMachine` has a machine, a replica that begins with any
values and is given the same commands, and `exact`, what integers without bounds
would hold for as long as they are in range.  No code of a server applies an
entry, so no variable of the cluster is connected with it.

**One action, one handler.**  An action is a handler from the message it takes
to the next point at which its actor waits for something another actor
provides: the mailbox send at its end is the last thing a handler does.  Inside a
handler the code also awaits locks.  They are never held across an `await` of
a message, so an actor never waits in them for a step another actor takes on a
message, and the handler's reads and writes are those of one step.

**Time.**  A timer may expire whenever its actor waits for it.  That a heartbeat
keeps an election timer from expiring is nowhere modelled: the runs that need a
leader to be left alone say so by the constant `Impatient`, and every safety
property and every theorem holds or fails whatever the ratio of the timers.  The
properties of progress depend on one thing about time, `KeepsPace`: a leader
does not begin a round while `MaxRounds` of its requests to a peer, or of the
peer's answers, are still to be taken.  No line of the code waits for that.  The timer of
`leader.rs:28` starts before `join_all` and is often ready when it returns, and
rounds may overlap without limit if a peer is slow enough.  The assumption cannot
be dropped: in the `backlog` instance with `MaxRounds = 6` TLC finds the leader in
`join_all`, waiting for a place in the follower's mailbox, and the follower in
`follower.rs:123`, waiting for a place in the leader's, with everything between
them full.  For two servers the least depth at which this happens was measured, for small
mailboxes of `M` places and queues of `Q`, to be `2 * (M + Q) + 4` rounds less one
for each request of a client in between; for the 8 and 32 of the program that is
about eighty rounds, or half a minute of heartbeats no follower has answered.  Of
four peers each brings its own answers to the leader's mailbox, so fewer do.

**Data.**  A command is the name of the client request it came in.  The read a
leader answers is a state that no code changes, so an answer is a status.
Candidate and leader ids in requests are always the sender's.

**Constants that are bounds**: `Impatient` (the servers whose election timer may
expire), `MaxTerm` (no election begins above it), `MaxRounds` (above), in
`PeerIndices` `MaxIndex` (the length of a log, plus one), and `LateClient` (the
client begins when a leader is established; `main.rs:53` has it sleep for two
seconds, several election timeouts).  Only guards mention them; no proof uses a
value of `MaxRounds` or `LateClient`, and those that use `Impatient` or `MaxTerm`
say so in their hypotheses.  `MailboxCapacity`, `QueueCapacity` and
`ReplyCapacity` are 8 (`main.rs:18`), 32 (`server.rs`) and 16 (`client.rs:66, 116`)
in the program; `MaxValue` is the greatest `i64`.

## Runs

| run | instance | channels, rounds | what it shows |
|---|---|---|---|
| `contest` | 3 servers, 2 of them impatient, term 1 | 8, 32, 16; 2 | types; one leader, although candidates vote more than once: a winner needs both peers, and a server that grants is follower from then on; no actor meets an answer it did not ask for |
| `two_terms` | 2 servers, both impatient, terms 1 and 2 | 1, 2, 1; 1 | no change of role is lost, also by a follower that waits with an answer; a leader is deposed only by a lingering follower actor; lines and channels account for every message |
| `clients` | 2 servers, both impatient, a read and a write | 1, 1, 1; 2 | requests are neither lost nor duplicated; `ClientContract` is implemented, however long a request or its answer waits; the requests of overlapping rounds keep their order although the log grows; a follower's commit index does not fall |
| `elections` | 3 servers, 1 impatient, terms 1 and 2, a write, a late client, fair | 1, 4, 1; 1 | a leader emerges for good and keeps its term, also when the first of its two elections is abandoned (a third is above `MaxTerm`); nothing panics, nothing freezes; cursors, requests in flight, commit indices and the majority behind them |
| `backlog` | 2 servers, 1 impatient, term 1, two reads at any time, fair | 1, 1, 1; 5 | with every channel full at times and five rounds overlapping, no sender waits for ever, every request is settled, heartbeats go on |
| `data_types` | 4 peers, indices up to 5; 2 keys, numbers of 2 bits | | the committable index is the highest with a majority, and moves with the peer's index; the state machine is exact while in range, and two of them stay as close as they are |
| `jam` | 2 servers, both impatient, a read and a write, fair | 1, 1, 1; 1 | disagreement 6 below |
| `commit_falls` | 2 servers, 1 impatient, a write | 1, 2, 1; 1 | disagreement 4 below |
| `two_leaders`, `term_falls`, `stale_votes`, `hollow_commit` | 2 or 3 servers | unbounded | disagreements 1, 2, 3 and 5 below |

The column *channels, rounds* gives the places of a mailbox, of a queue and of the
client's channel, and `MaxRounds`.  The bounded runs check `FlowSpec` or `FairFlowSpec` of
`Backpressure`; the last row checks `Spec` of `MiniRaft`, whose counterexamples
need no full channel.

*Why these bounds.*  The races are between the five actors of a server and one
rival: two servers have them all, the third adds a real majority and a follower
that hears from two candidates.  The first term has the competition for votes,
the second the leftovers of the first: votes, requests and lingering actors of a
former role.  One write suffices for a
request that describes an older log than its sender has, and for refused,
accepted and repeated entries.  `Impatient` has one
server where the property is about a cluster with a settled leader, and every
server where it is about competition.  `data_types` enumerates every function
from 4 peers (the five servers of `main.rs`) to 1..5, and saturates after one or
two commands at -2 and 1, ends as lopsided as those of `i64`; its theorems are
general.

*Why these capacities.*  A channel of one place is full after one message, so
every sender of the small instances meets a full one and waits; the capacities of
the program would never fill there.  `contest` has them all the same, as the
case in which channels do not matter.  In `elections` the queue must hold the votes of
both elections of the one impatient server (two peers, two terms), because a
candidate does not look at its queue until all its requests are sent: with one
place less the root actor comes to wait with the guard in hand, which is what
the mutant of `NeverFrozen` shows.  The program has room for 32 votes, those of
eight elections of five servers.

*What `backlog` reaches.*  Five is the largest `MaxRounds` for which its cluster
does not stop (see *Time*), and its states include: the follower waiting with an
answer and its queue full behind it; the root actor waiting with the guard; the
leader's task waiting for the follower's mailbox while the leader's own queue is
full and the follower waits with an answer for its mailbox, one step from the
circular wait; and the same while the queue of the actor that serves clients is
full.  With two requests that actor does not come to wait with one it forwards
while two more are queued behind it, which takes a third request and more
states than a run of minutes has.  One stopped link of that
chain is covered here, the whole chain by no run.

Deadlock is checked in `elections`, `backlog` and `data_types`.  In the other
runs the cluster may stop: no election may begin above `MaxTerm` or by a patient
server, a round may wait for a peer that has left the role to which the answers
go, and a thread that blocks or senders that wait for each other stop it for
good.

Symmetry is used in `term_falls`, where every server is impatient, and among the
peers of `data_types`; the properties of both are of safety.

## Fairness

`FairSpec` adds weak fairness of each actor of each server and of `Transmit`.
An actor is a future of the one task of the program: whenever something it
waits for is ready (a message, a change of role, a timer), the runtime polls
it, and a message a spawned task has to deliver is delivered, as the task is
scheduled too.  Fairness is stated of an actor as a whole, never of one of its
branches: `select!` chooses at random and promises nothing of a branch.
`FairFlowSpec` states the same of the cluster with bounded channels: weak fairness
of the root actor (which takes a message or, when there is room again, hands over
the one it holds), of the follower, candidate, leader and client-serving actors, of
a server's tasks, and of the client's inbound actor.  A place in a line needs no fairness of its own:
it is first come, first served.  Nothing is assumed of the client's requests.  Timers
are among the things an actor waits for, so `FairSpec` contains that an
election timer of an impatient server eventually expires if nothing else
happens to its actor.  No strong fairness is used.

## Disagreements between the code and its comments

Each is a run that TLC ends with a counterexample.

1. `two_leaders`: two servers of a cluster of two are leader at once
   (`server.rs:38-39` says only one can be).  A candidate grants a request for
   its vote in the term in which it voted for itself (`candidate.rs:158-174`).
2. `term_falls`: a server's term falls (`server.rs:50-51`: it increases
   monotonically).  A candidate that granted a vote in a later term takes one
   more request and goes back to the term of that request.
3. `stale_votes`: a server becomes leader of a term it alone has heard of
   (`server.rs:198-200`: votes of a majority for the same term).  Votes are
   counted without a look at their term, and those of an earlier election are
   still in the queue.
4. `commit_falls`: a commit index falls (`server.rs:63-64`: it increases
   monotonically).  It is assigned, on each success, from next indices that
   refusals decrement.
5. `hollow_commit`: an entry is committed that no follower stores
   (`follower.rs:115-117`: success means the follower's log is identical).  No
   line of the follower appends to its log.

6. `jam`: a sender waits for ever, and so does everything else
   (`server.rs:338`, the outline of the tests: a server "has a mailbox into which
   it can ALWAYS receive messages").  A root actor waits for room in its
   candidate's queue with the guard of the watch channel in hand; the candidate,
   whose election timer has expired or which has found a rival's request, writes
   the role and blocks the thread that would drain the queue.  The run has channels of one
   place to make the trace short.  With 8 and 32 it needs that many more messages,
   and nothing in the code keeps their number down: a candidate whose requests wait
   for a peer's mailbox takes none, and requests of clients circulate among servers
   that voted for each other until an election timer expires.  TLC does not
   show a trace of that length; for the capacities of the program the claim is no
   more than that no line of the code rules it out.

None of the first five depends on the abstraction of time beyond two election timers
expiring close to each other, or messages of one round arriving late; in all
but the first case of an expired timer an actor that has a message ready is
free to take it.

## Proofs

Checked by TLAPS for every set of servers and requests, every capacity and every
value of the bounds.  The assumptions are those of `Server.tla`, `PeerIndices.tla`,
`Backpressure.tla` and `StateMachine.tla`: the set of servers (of peers) is
finite, `NoVote` is not a server, reads are not writes, a channel has at least one
place, the client is not a server, bounds have their types.

| theorem | with bounded channels | says |
|---|---|---|
| `TypeCorrect`, `CursorsStayInLog` | `FlowCursorsInLog` | types; logs are numbered without gaps, next indices stay within the log or just past it |
| `NoChangeOfRoleIsLost` | `FlowRolesFollowed` | `RolesFollowed` |
| `OnlyLingeringFollowersDepose` | `FlowDeposing` | `DeposedOnlyByLingeringFollower` |
| `AppendsAlwaysMatch` | `FlowAppendsMatch` | requests in flight describe their sender's log |
| `AppendsStayInOrder` | `FlowAppendsInOrder` | the requests of a leader to a follower keep their order |
| `CommitsAreBacked` | `FlowCommitsBacked` | no commit index is past every log |
| `CommitsHaveMajority` | `FlowCommitsHaveMajority` | with more than one server, a leader sets its commit index to the highest one credited to a majority |
| `NoRequestIsLost` | `FlowNoRequestIsLost` | `RequestsConserved`: a pending request is in one place, once |
| `ContractIsKept` | `FlowContractIsKept` | the refinement `ImplementsContract` of `ClientContract` |
| | `LinesAccount` | `FlowTypeOK`: lines and channels account for every message |
| `OnlyEarlyRequestsPanic` | `FlowOnlyEarlyRequestsPanic` | with a lone candidate, `NoRivalNoPanic`: nothing panics but a client's request that comes before any leader is established |
| `LoneLeaderIsForGood` | `FlowLeaderIsForGood` | with a lone candidate, `EstablishedForGood`: the leader stays established, in the same term, and no request panics from then on |
| `FirstTermLeaderIsAlone` | `FlowFirstTermLeaderIsAlone` | in the first term, `OneLeader`, for any number of servers of which no more than two stand, or three of an odd number |
| `FirstTermLeaderStays` | `FlowFirstTermLeaderStays` | under the same hypotheses no step takes a leader out of office |
| `FirstTermNobodyStrays` | `FlowFirstTermNobodyStrays` | under the same hypotheses, `NoStrayAnswer`: no actor finds an answer it did not ask for |
| `FollowersKeepTheirCommits` | `FlowFollowersKeepTheirCommits` | with a lone candidate, `FollowerCommitMonotonic`: the commit index of a server whose leader actor is not at work never falls |
| | `NothingFreezes` | with a lone candidate and room in a queue for the votes of all its elections, `NeverFrozen` |
| `IndicesStayTyped`, `CommittableIsAlwaysMajority`, `CommittableAlwaysFollows` | | the committable index is the highest one with a majority, and moves with the peer's index by no more than it moved, for any number of peers |
| `MachineIsExact`, `MachinesStayClose` | | the state machine is exact while in range, and two of them neither drift apart nor change places, for every width and set of keys |

*The line of argument.*  `TypeOK` alone is not inductive: the term a leader puts
in a request is that of the entry it finds by index, which is an entry at all
only if logs are numbered without gaps; and the commit index is a number only if
the next indices have a middle element, which needs that they are bounded.  So
`Inv` is `TypeOK` together with `CursorsInLog`, and `MiniRaftProofs` proves it,
one lemma for each actor with one step for each of its actions.
`ServerDataProofs` says what the lookups by index return in a numbered log, and
that the middle element exists (by the least number principle, which is itself
proved from the well-foundedness of finite sets under inclusion).

`RolesFollowed` is inductive given types.  `DeposedOnlyByLingeringFollower`
needs one more invariant, `ElectionOver`: a leader's candidate actor is not in an
election.  `AppendsMatchSender` and `CommitBacked` rest on two facts about
every step: the requests in flight after it were in flight before or are built
in it from the leader's own log (`AppendsAfterStep`), and logs only grow
(`LogsGrow`).  `CommitBacked` also needs that a committable index is below some
peer's next index (`CommittableBelowSomePeer`), hence within the leader's log.

`AppendsInOrder` needs more than the way from a mailbox to a queue.  The
strengthening `Order` says that a server has at most one request for each peer
with a sending task (a round begins only when the one before is delivered), that
this request reaches the end of its sender's log as it was at the start of the
round, and that no request on the same way reaches further (`NotPast`).  A new round is built from a log at
least as long as any request in flight describes, by `AppendsMatchSender`.

*Clients.*  `RequestsConserved` counts places; the inductive form, `Conserved`, says
where a request is: a pending one is once in one mailbox, or once in one queue of
a client-serving actor, and nowhere else; any other is nowhere.  Only four actions
move a request (`StepsOfClients`): a client sends it, a root actor routes it, a
server forwards it, a leader answers it; every other step is `Aside`.  So what a
leader finds at the head of its queue is pending, which is what the refinement
needs: `ClientSends` maps to the contract's `Issue`, `LeaderAnswers` to `AnswerRead`
or `AnswerWrite`, and every other step leaves the contract's state alone
(`ContractStep`).  That the recorded writes grow by exactly the answered one is
`RecordedAppend`.

*Bounded channels.*  `StepOfCluster` shows that every step of `FlowNext` is a step
of `Next`, leaves the variables of the cluster alone, or is `Rejoins`: a follower
that had to wait with its answer reaches the top of its loop.  `Rejoins` touches
only that actor's locals and what its receiver has seen, so each invariant of
`MiniRaft` needs one lemma more (`RejoiningKeepsInv`, `RejoiningKeepsRoles`,
`RejoiningIsQuiet`, `RejoiningIsAside`) and is then proved of `FlowSpec`, for every capacity.  That a full
channel breaks no safety property of the cluster is thus a theorem; that it can
stop the cluster is the run `jam`.

*A lone candidate.*  Where rivals meet, the code panics, terms fall and two servers
lead (disagreements 1 to 3), so what an election promises can only be proved of a
cluster in which one server's timer expires: the hypothesis is `Impatient = {x}`,
about which servers stand, not about which messages are late or how often the
candidate gives up.  The invariant `Alone` says what that leaves possible.  Every
other server is a follower for good whose vote is `x`'s or nobody's, only `x`
requests anything, no term is ahead of its own, and an answer is on its way only to `x`.
`Moves` sorts the steps of the cluster by what they may do in such a state, and
each part of `Alone` is kept by each sort.  It makes each arm that panics
unreachable but one, a client's request to a server that knows no leader yet;
once a leader is established every server knows it (`EstablishedAreKnown`), and
after a panic nothing moves (`NothingAfterPanic`).  These theorems say nothing of
rivals: among them leaders do panic, at each other's requests.

*The count of ballots.*  `NeverFrozen` needs numbers.  `Tally` counts, for each peer, what its votes in
`x`'s elections have become: a request in an outbox, the peer's mailbox or its
queue, an answer in `x`'s mailbox or in any of `x`'s queues.  Their number (`Ballots`) is never more
than that of the elections `x` has begun (`TallyKept`): only a new election
raises it, by one, with the term.  So the queue of the candidate never holds more
than `MaxTerm * Cardinality(Peers(x))` votes (`VotesFit`), a root actor never waits
for room in it (`RoomForVotes`), and the guard of the role is never out when the role is
written.  The bound is sharp: the mutant of `NeverFrozen` takes one place away.
A queue of the program has 32 places, which is eight elections of five servers;
nothing in the code limits their number, so the theorem says how long the program is
safe, not that it always is.

*Several candidates in the first term.*  Two majorities need not rule each other out
here: they are majorities of the peers, without the server itself, and a candidate
that grants a vote goes on taking requests until it sees that its role has changed,
so it can grant several (`candidate.rs:158-174`).  `FirstTermLeaderIsAlone` says how
far the election can be trusted all the same: with `MaxTerm = 1` (nobody starts an
election above the first term) and `FewStand` there is one leader at most, whatever
the number of servers.  `FewStand` is what the argument needs.  Who has voted for two leaders
is a candidate other than they are, so of `i` candidates at most `i - 2` have;
no leader has its own vote, and not both have each other's, so the two have at most `N - 1 + i - 2`
votes together, and each needs more than half of `N - 1`.  Of four servers of which three stand, two can
indeed win, with the third candidate's vote for both.

The program keeps the number of votes and not who gave them, so the invariant
(`Electorate`) says that there are sets of voters which fit: `C[x]` for the votes
`x` has counted, grown by `CountedSince` in a step.  Four parts make it inductive.
`FirstTerm`: requests in flight are of the first term, and one of a leader comes
from a server that no longer stands (`Settled`).  `AskedOnce`: each server's ballot
is once a request, an answer under way or a counted vote (`Due`, the count above
for all pairs of servers; `DueMoves`, `CountedOnce`).  `Tallied`: a candidate's count is the
size of its set, and a leader's set is a majority.  `Pledged`: a server that has
voted is settled, no two have each other's vote, and a server whose timer never
expires has given one vote, as its own `votedFor` shows.  The last needs care in two places.  An accepted
heartbeat overwrites `votedFor` (`follower.rs:94`), so `VoteTaken` lets it name a server
that is settled instead.  And a vote only counts (`Has`) if the root actor
finds its receiver a candidate: two candidates may well grant each other's request,
but each then follows and the votes go to a queue in which no one counts them.

*The leader of the first term stays*, by an argument of its own.  What could depose it is its
follower actor, which lingers until it sees the change of role and may find a
request for a vote in its queue (`DeposedOnlyByLingeringFollower`).  A server that
has voted grants a request of the same term only to the server it has voted for
(`follower.rs:151`).  `VotesAnswered` says that this server either leads by now or
has no request left with the voter: `AskedOnce` lets it have asked but once, so a
vote that is granted answers its last request (`GrantAnswers`), nothing but an
election adds one (`UnansweredMoves`), and a heartbeat, which overwrites the vote,
names a server that leads (`LeadersOnly`).  A leader that grants would thus find a
second leader, which `OneLeader` excludes.  Then every
answer to a heartbeat is routed to a leader (`AnswersFindLeader`), since its heartbeat
came from one that is in office still, and the `unreachable!()` arms of the other
two actors are never reached (`follower.rs:189`, `candidate.rs:199`).

*Commit indices of followers.*  A leader's commit index falls (disagreement 4), and a
late request could carry a lower one.  A follower adopts none that is not higher
than its own, but takes the minimum with the last new entry, which could be lower still.
`Covered` says it is not: a request with entries has the last of them at or past the
index it carries, since the lone leader's index is within its log (`Modest`) and its
requests reach to the end of that log.

*The state machine.*  `MachinesStayClose` rests on saturation being monotone and
never stretching a distance.  For `MachineIsExact` the invariant adds that every
value is in range.

`CommittableIsHighest` counts: the peers whose index is below the middle
value are at most half, those up to it more than half, so the majority for the
index before it holds, and fails for every later one, for an even and for an odd
number of peers.  `CommittableIsAlwaysMajority` is that of the data type,
`CommitsHaveMajority` that of the leader's step that uses it; alone, a server has
no peers and no middle.

*Only model-checked.*  Liveness under fairness (`LeaderEmerges`,
`HeartbeatsContinue`, `RequestsSettled`, `SendsComplete`), which is out of the
prover's reach, and every run's instance as a whole, which also checks that the
theorems' hypotheses can be met.  Not even true, and so neither proved nor checked, are
`OneLeader` beyond the first term or when more servers stand (disagreement 1 and
`two_leaders`), and `NoRivalNoPanic` among rivals.  A second term takes a leader out
of office (`two_terms`), so neither do the theorems about it reach further.

## What is not modelled

- *Time.*  Intervals, timeouts and the client's pauses.  Nor is tokio's budget,
  which makes a task yield after some number of operations: every `await` may
  yield here.
- *The state machine inside a server.*  No entry is ever applied; `last_applied`
  is never read.  `StateMachine` models the type by itself.
- *Match indices.*  Written at start, read by nothing.
- *Cancellation.*  No code cancels the token the actors watch.
- *The listener, node ids, logging, error types.*  Unused, identifiers, or wording.

## Plan

Done: the modules, runs and theorems above.  The order was: `ServerLog`,
`VolatileLeaderState`, `Server` and the actors; `MiniRaft` with its types; role
and election properties; replication; clients and their contract; proofs of
types, cursors, roles, requests in flight and commit indices; bounded channels,
their runs and the transfer of every proved invariant to them; the state machine;
the order of requests and the majority behind a commit index; the proof that no
request is lost, and of the contract with clients; a lone candidate, its ballots
and the queue they fit in; several candidates in the first term, their one leader
and how long it stays.

Next: *elections of four and five servers*, reduced to the actors that take part in
them, so that two rivals and an abandoned election fit one instance.
