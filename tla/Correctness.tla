----------------------------- MODULE Correctness -----------------------------
(***************************************************************************)
(* What is checked and proved of the cluster of MiniRaft: the invariants,  *)
(* the action properties, the liveness properties under the fairness of    *)
(* the scheduler, and the contract with clients that it implements.        *)
(***************************************************************************)
EXTENDS MiniRaft, Functions

(***************************************************************************)
(* Roles: the watch channel and the actors that follow it.                 *)
(***************************************************************************)
\* The actor of a role is in its working loop.
Active(s, role) ==
    CASE role = "Follower"  -> follower[s].watching
      [] role = "Candidate" -> candidate[s].campaigning
      [] role = "Leader"    -> leading[s]

\* No change of role is lost on an actor.  The actor of the role a server is in
\* works, or has the change that put it to work still to see; an actor at work
\* in a role the server has left has the change that ends its work still to
\* see.  The three select! loops poll the watch channel's own version counter
\* (follower.rs:35-45, candidate.rs:29-78, leader.rs:24-81); a wake-up consumed
\* without acting on it would leave a server with no actor for its role.
RolesFollowed ==
    \A s \in Node, role \in Role :
        (state[s] = role) # Active(s, role) => role \in unseen[s]

\* Only one server is leader at any one time (src/server.rs:38-39).  Among three
\* servers it holds in the first term, although a candidate may vote for itself
\* and for others: a winner needs the votes of both peers, a candidate that
\* grants a vote is a follower from then on, and the root actor routes whatever
\* votes reach it later to a queue in which no one counts them.
OneLeader ==
    \A l, k \in Node : state[l] = "Leader" /\ state[k] = "Leader" => l = k

\* Nothing a leader actor does ends its office: it is ended behind its back, by
\* a follower actor of the same server that has not yet seen the change to
\* leader, and never by the candidate actor, whose election is over.
DeposedOnlyByLingeringFollower ==
    [][\A s \in Node :
          state[s] = "Leader" /\ state'[s] # "Leader" =>
              /\ follower[s].watching /\ "Follower" \in unseen[s]
              /\ ~candidate[s].campaigning]_vars

\* In the first term no actor finds an answer it did not ask for
\* (follower.rs:189, candidate.rs:199).  The root actor routes by the role of
\* the moment, so this needs the leader's role to outlast every answer to it.
NoStrayAnswer == panicked # "unreachable"

\* The term of a server never falls (src/server.rs:50-51).
CurrentTermMonotonic ==
    [][\A s \in Node : currentTerm'[s] >= currentTerm[s]]_vars

\* A server that becomes leader has its term acknowledged by a majority of the
\* cluster, itself included: it won with the votes of a majority "for the same
\* term" (src/server.rs:198-200).
ElectedByMajorityOfTerm ==
    [][\A s \in Node :
          state[s] # "Leader" /\ state'[s] = "Leader" =>
              2 * Cardinality({p \in Node : currentTerm[p] >= currentTerm[s]})
                  > Cardinality(Node)]_vars
-----------------------------------------------------------------------------
(***************************************************************************)
(* Logs, next indices and commit indices.                                  *)
(***************************************************************************)
\* Entry i of every log carries index i (append_to_log numbers it after the
\* last one, src/server.rs:210-216) and a leader's nextIndex for a peer is the
\* index of an entry of its log or the one just past the end, through every
\* rejection, acknowledgement and change of leader.
CursorsInLog ==
    \A s \in Node :
        /\ \A i \in DOMAIN log[s] : log[s][i].index = i
        /\ \A p \in Peers(s) : nextIndex[s][p] \in 1 .. Len(log[s]) + 1

\* The messages of servers that are with a sending task, in a mailbox or in
\* the queue of an actor.
InFlight ==
    (UNION {{parcel.message : parcel \in outbox[s]} : s \in Node})
    \cup (UNION {Range(inbox[s]) : s \in Node})
    \cup (UNION {Range(queue[s][role]) : s \in Node, role \in Role})

AppendsInFlight == {m \in InFlight : m.type = "AppendEntries"}

\* Whatever its sender appends in the meantime, an AppendEntries request on its
\* way still describes the sender's log: its entries are the stretch that
\* follows prevLogIndex, and prevLogTerm is the term of the entry there, 0
\* standing for the start of the log (leader.rs:43-52).
AppendsMatchSender ==
    \A m \in AppendsInFlight :
        /\ m.prevLogIndex + Len(m.entries) <= Len(log[m.from])
        /\ m.entries = SubSeq(log[m.from], m.prevLogIndex + 1,
                              m.prevLogIndex + Len(m.entries))
        /\ m.prevLogTerm = IF m.prevLogIndex = 0 THEN 0
                           ELSE log[m.from][m.prevLogIndex].term

\* What a request in flight says the length of its sender's log is.
Reach(m) == m.prevLogIndex + Len(m.entries)

\* A leader's requests are not overtaken by each other: of two in the way of a
\* peer's actor, the later one never describes a shorter log.  A round begins
\* only when join_all has returned (leader.rs:69); the tasks of one round, and
\* of the term before, are in no order of their own.
AppendsInOrder ==
    \A p \in Node, role \in Role :
        LET way == queue[p][role] \o inbox[p] IN
        \A i, j \in DOMAIN way :
            /\ i < j
            /\ way[i].type = "AppendEntries" /\ way[j].type = "AppendEntries"
            /\ way[i].from = way[j].from
            => Reach(way[i]) <= Reach(way[j])

\* No server takes an index for committed, and no leader tells a peer it is,
\* that no log of the cluster has reached (src/server.rs:63-64).  Followers
\* adopt the leader's index without storing entries, so this is all that stands
\* between a commit index and an entry that does not exist.
CommitBacked ==
    LET Reached(i) == \E s \in Node : i <= Len(log[s]) IN
    /\ \A s \in Node : Reached(commitIndex[s])
    /\ \A m \in AppendsInFlight : Reached(m.leaderCommit)

\* How many servers a leader's bookkeeping counts as holding entry i.
Holding(s, i) == 1 + Cardinality({p \in Peers(s) : nextIndex[s][p] > i})

\* A leader that handles an acknowledgement sets its commit index to the
\* highest one its bookkeeping credits to a majority of the full cluster, the
\* acknowledgement itself not yet counted (leader.rs:148-149).
CommitHasMajority ==
    [][\A s \in Node :
          (/\ queue'[s]["Leader"] # queue[s]["Leader"]
           /\ commitIndex'[s] # commitIndex[s]) =>
              /\ commitIndex'[s] > 0 =>
                     2 * Holding(s, commitIndex'[s]) > Cardinality(Node)
              /\ 2 * Holding(s, commitIndex'[s] + 1) <= Cardinality(Node)]_vars

\* The commit index of a server never falls (src/server.rs:63-64).
CommitIndexMonotonic ==
    [][\A s \in Node : commitIndex'[s] >= commitIndex[s]]_vars

\* The commit index of a server whose leader actor is not at work never falls,
\* although a leader's own does: a follower keeps the highest index it was told,
\* and the end of the entries it was sent last is not below it (follower.rs:98).
FollowerCommitMonotonic ==
    [][\A s \in Node :
          ~leading[s] => commitIndex'[s] >= commitIndex[s]]_vars

\* An entry below a server's commit index is stored by a majority of the
\* cluster: a peer that answers AppendEntries with success holds the leader's
\* log "up through the new entries" (follower.rs:115-117).
CommittedMeansStored ==
    \A s \in Node : \A i \in 1 .. commitIndex[s] :
        2 * Cardinality({p \in Node : i \in DOMAIN log[p]}) > Cardinality(Node)
-----------------------------------------------------------------------------
(***************************************************************************)
(* Clients.                                                                *)
(***************************************************************************)
\* Where request r is, on its way to or between servers.
MailboxPlaces(r) ==
    {place \in UNION {{s} \X DOMAIN inbox[s] : s \in Node} :
        inbox[place[1]][place[2]] = ClientRequest(r)}

QueuePlaces(r) ==
    {place \in UNION {{s} \X DOMAIN clientQueue[s] : s \in Node} :
        clientQueue[place[1]][place[2]] = r}

\* However often it is forwarded, a pending request is in one place and no
\* other request is anywhere: forwarding neither loses nor duplicates it
\* (client_request.rs:60-66), until a panic takes the request with it.
RequestsConserved ==
    Running => \A r \in Request :
        Cardinality(MailboxPlaces(r)) + Cardinality(QueuePlaces(r)) =
            IF request[r] = "pending" THEN 1 ELSE 0

\* The cluster keeps its contract with clients: one answer for each request,
\* one entry in one log for each answered write, appended in the step that
\* answers it (client_request.rs:42-53).
Contract == INSTANCE ClientContract
    WITH Server <- Node,
         recorded <- [s \in Node |-> [i \in DOMAIN log[s] |-> log[s][i].command]]

ImplementsContract == Contract!Spec
-----------------------------------------------------------------------------
(***************************************************************************)
(* Progress.  Every actor is a future of the one task of the program and   *)
(* is polled whenever something it waits for is ready; a spawned task is   *)
(* scheduled by the runtime.  Timers are among what an actor waits for.    *)
(***************************************************************************)
Fairness ==
    \A s \in Node :
        /\ WF_vars(RootStep(s))
        /\ WF_vars(FollowerStep(s))
        /\ WF_vars(CandidateStep(s))
        /\ WF_vars(LeaderStep(s))
        /\ WF_vars(ClientRequestStep(s))
        /\ WF_vars(Transmit(s))

FairSpec == Spec /\ Fairness

\* Every peer of l has taken l for its leader.
Established(l) ==
    /\ state[l] = "Leader"
    /\ \A p \in Peers(l) : state[p] = "Follower" /\ votedFor[p] = l

\* Where one server alone stands for election, the process dies of nothing but a
\* client's request that comes before the election is settled
\* (client_request.rs:60, 65): no answer of an abandoned election, and no
\* request meant for a role since left, reaches an actor that panics at it
\* (follower.rs:189, candidate.rs:199).  Among rivals leaders do panic, at each
\* other's requests (leader.rs:113, 126).
NoRivalNoPanic ==
    \/ panicked = "no"
    \/ panicked = "no leader known" /\ \A l \in Node : ~Established(l)

\* Where one server alone stands for election, it becomes leader for good and
\* every other server comes to follow it, even if it abandons an election.
LeaderEmerges == <>[](\E l \in Impatient : Established(l))

\* While the process lives, every server that does not stand for election hears
\* from a leader over and over: the round's tasks all come to deliver, and the
\* next round begins, with every mailbox on the way full.  For a leader that
\* beats too far ahead of its peers this is false (see Backpressure).
HeartbeatsContinue ==
    \A p \in Node \ Impatient :
        []<>(Receives(p, "Follower", "AppendEntries") \/ ~Running)

\* Once every peer has taken l for its leader, it stays so, in the same term, and
\* from then on no client's request brings the process down: no vote or request
\* left over from an abandoned election, and no answer to one, undoes it.
EstablishedForGood ==
    [][\A l \in Node : Established(l) /\ Running =>
          /\ Established(l)' /\ Running'
          /\ currentTerm'[l] = currentTerm[l]]_vars

\* Where one server alone stands for election, a request is answered unless the
\* process dies of one that came before the servers knew a leader
\* (client_request.rs:60).  Rivals that voted for each other may pass a request
\* on for ever.
RequestsSettled ==
    \A r \in Request :
        request[r] = "pending" ~> (request[r] = "answered" \/ ~Running)
=============================================================================
