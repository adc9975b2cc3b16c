------------------------------- MODULE Server -------------------------------
(***************************************************************************)
(* The state of a cluster of servers (src/server.rs), the messages they    *)
(* exchange (src/server/request.rs, src/server/handle.rs, src/message.rs)  *)
(* and the operations every actor of a server uses.                        *)
(*                                                                         *)
(* A server is five actors run by one task: the root actor reads the       *)
(* server's mailbox and hands each message to the actor of the role the    *)
(* server is in; a follower, a candidate and a leader actor each have a    *)
(* queue of their own; the fifth answers clients.  The role is the value   *)
(* of a tokio watch channel.  An actor learns of a change of role only     *)
(* when its own receiver of that channel is polled, so between the change  *)
(* and the poll it may go on acting in its former role.  The set unseen[s] *)
(* names the actors that still have such a change ahead of them.           *)
(***************************************************************************)
EXTENDS ServerLog, VolatileLeaderState

CONSTANTS
    Node,          \* The ids of the servers of the cluster.
    NoVote,        \* voted_for when it is None.
    Reads,         \* The read requests clients make.
    Writes         \* The write requests clients make, each with its command.

\* Bounds.  They are no part of the program: they keep instances finite.
CONSTANTS
    Impatient,     \* The servers whose election timer may expire.
    MaxTerm        \* No election is started above this term.

Request == Reads \cup Writes

ASSUME NodeAssumption ==
    /\ IsFiniteSet(Node)
    /\ NoVote \notin Node

ASSUME RequestAssumption == Reads \cap Writes = {}

ASSUME BoundAssumption ==
    /\ Impatient \subseteq Node
    /\ MaxTerm \in Nat

VARIABLES
    state,         \* The value of the watch channel: the role of each server.
    unseen,        \* The actors whose receiver has an unseen change of role.
    currentTerm,
    votedFor,      \* Also the leader a server follows: AppendEntries sets it.
    log,
    commitIndex,
    nextIndex,     \* The volatile leader state: an index for each peer.
    inbox,         \* The mailbox of each server.
    queue,         \* The queue of each role's actor.
    clientQueue,   \* The queue of the actor that answers clients.
    outbox,        \* Requests handed to tasks that have not yet sent them.
    follower,      \* Locals of the follower actor.
    candidate,     \* Locals of the candidate actor.
    leading,       \* Whether the leader actor is in its heartbeat loop.
    request,       \* Where each client request stands.
    panicked       \* Why the process died, or "no".

roleVars       == <<state, unseen>>
persistentVars == <<currentTerm, votedFor, log>>
volatileVars   == <<commitIndex, nextIndex>>
channelVars    == <<inbox, queue, clientQueue, outbox>>
actorVars      == <<follower, candidate, leading>>

vars == <<roleVars, persistentVars, volatileVars, channelVars, actorVars,
          request, panicked>>

Role == {"Follower", "Candidate", "Leader"}

\* A variant with a bug: the server is not removed from its own peer list.
PeersAndItself(s) == Node

\* The peer list, less the server itself.
Peers(s) == Node \ {s}

\* Every actor of every server runs in the one task of the program: a panic in
\* any of them ends all of them.
Running == panicked = "no"

PanicReason == {"no", "fencing", "unreachable", "no leader known"}
-----------------------------------------------------------------------------
(***************************************************************************)
(* Messages.  The candidate_id and the leader_id of a request are always   *)
(* the id of its sender.                                                   *)
(***************************************************************************)
RequestVote(from, term) ==
    [type |-> "RequestVote", from |-> from, term |-> term]

RequestVoteResponse(from, term, granted) ==
    [type |-> "RequestVoteResponse", from |-> from, term |-> term,
     granted |-> granted]

AppendEntries(from, prevIndex, prevTerm, entries, leaderCommit, term) ==
    [type |-> "AppendEntries", from |-> from, term |-> term,
     prevLogIndex |-> prevIndex, prevLogTerm |-> prevTerm,
     entries |-> entries, leaderCommit |-> leaderCommit]

AppendEntriesResponse(from, term, success) ==
    [type |-> "AppendEntriesResponse", from |-> from, term |-> term,
     success |-> success]

ClientRequest(r) == [type |-> "ClientRequest", request |-> r]

VoteRequests  == [type : {"RequestVote"}, from : Node, term : Nat]
VoteResponses == [type : {"RequestVoteResponse"}, from : Node, term : Nat,
                  granted : BOOLEAN]
AppendRequests == [type : {"AppendEntries"}, from : Node, term : Nat,
                   prevLogIndex : Nat, prevLogTerm : Nat,
                   entries : Seq(LogEntries(Writes)), leaderCommit : Nat]
AppendResponses == [type : {"AppendEntriesResponse"}, from : Node, term : Nat,
                    success : BOOLEAN]
ClientRequests == [type : {"ClientRequest"}, request : Request]

ServerMessage == VoteRequests \cup VoteResponses \cup AppendRequests
                 \cup AppendResponses

\* A request a spawned task has yet to put in the mailbox of `to'.
Parcel == [to : Node, message : VoteRequests \cup AppendRequests]
-----------------------------------------------------------------------------
\* ServerHandle: the message goes to the end of the receiver's mailbox.
Send(to, message) == inbox' = [inbox EXCEPT ![to] = Append(@, message)]

Mail(s, role) == Head(queue[s][role])

Receives(s, role, type) ==
    /\ queue[s][role] # <<>>
    /\ Mail(s, role).type = type

Take(s, role) == queue' = [queue EXCEPT ![s][role] = Tail(@)]

\* A variant with a bug: only the actor of the new role is notified.
SwitchUnnoticed(s, role, seenBy) ==
    /\ state' = [state EXCEPT ![s] = role]
    /\ unseen' = [unseen EXCEPT ![s] =
                      (IF state[s] = role THEN @ ELSE @ \cup {role}) \ seenBy]

\* upgrade_to_candidate, upgrade_to_leader and downgrade_to_follower: the
\* channel is written, and every receiver notified, only if the role changes.
\* The actors in seenBy poll their receiver before they next await anything.
SwitchTo(s, role, seenBy) ==
    /\ state' = [state EXCEPT ![s] = role]
    /\ unseen' = [unseen EXCEPT ![s] =
                      (IF state[s] = role THEN @ ELSE Role) \ seenBy]

\* The role stays; the actors in seenBy poll their receiver.
Keep(s, seenBy) == SwitchTo(s, state[s], seenBy)

\* join_all: an actor that has spawned requests of this type waits for them.
Sending(s, type) == \E parcel \in outbox[s] : parcel.message.type = type

\* One of the tasks spawned by a candidate or a leader delivers its request.
Transmit(s) ==
    /\ Running
    /\ \E parcel \in outbox[s] :
          /\ outbox' = [outbox EXCEPT ![s] = @ \ {parcel}]
          /\ Send(parcel.to, parcel.message)
    /\ UNCHANGED <<roleVars, persistentVars, volatileVars, queue, clientQueue,
                   actorVars, request, panicked>>

\* A panic unwinds the task all servers run in; nothing else is assigned.
Panic(reason) ==
    /\ panicked' = reason
    /\ UNCHANGED <<roleVars, persistentVars, volatileVars, inbox, outbox,
                   actorVars, request>>
=============================================================================
