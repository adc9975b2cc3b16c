------------------------------ MODULE MiniRaft ------------------------------
(***************************************************************************)
(* The cluster: the actors of every server, the tasks that deliver their   *)
(* requests and the clients, started as src/main.rs and Server::run start  *)
(* them.                                                                   *)
(***************************************************************************)
EXTENDS RootActor, FollowerActor, CandidateActor, LeaderActor,
        ClientRequestActor

Init ==
    /\ state = [s \in Node |-> "Follower"]
    /\ unseen = [s \in Node |-> {}]
    /\ currentTerm = [s \in Node |-> 0]
    /\ votedFor = [s \in Node |-> NoVote]
    /\ log = [s \in Node |-> <<>>]
    /\ commitIndex = [s \in Node |-> 0]
    /\ nextIndex = [s \in Node |-> NewNextIndices(Peers(s), 0)]
    /\ inbox = [s \in Node |-> <<>>]
    /\ queue = [s \in Node |-> [role \in Role |-> <<>>]]
    /\ clientQueue = [s \in Node |-> <<>>]
    /\ outbox = [s \in Node |-> {}]
    /\ follower = [s \in Node |-> [watching |-> TRUE, term |-> 0]]
    /\ candidate = [s \in Node |-> IdleCandidate]
    /\ leading = [s \in Node |-> FALSE]
    /\ request = [r \in Request |-> "unsent"]
    /\ panicked = "no"

ServerStep(s) ==
    \/ RootStep(s)
    \/ FollowerStep(s)
    \/ CandidateStep(s)
    \/ LeaderStep(s)
    \/ ClientRequestStep(s)
    \/ Transmit(s)

\* The process has died.
Halted == ~Running /\ UNCHANGED vars

Next ==
    \/ \E s \in Node : ServerStep(s)
    \/ \E r \in Request : ClientSends(r)
    \/ Halted

Spec == Init /\ [][Next]_vars
-----------------------------------------------------------------------------
TypeOK ==
    /\ state \in [Node -> Role]
    /\ unseen \in [Node -> SUBSET Role]
    /\ currentTerm \in [Node -> Nat]
    /\ votedFor \in [Node -> Node \cup {NoVote}]
    /\ log \in [Node -> Seq(LogEntries(Writes))]
    /\ commitIndex \in [Node -> Nat]
    /\ nextIndex = [s \in Node |-> nextIndex[s]]
    /\ \A s \in Node : nextIndex[s] \in [Peers(s) -> Nat]
    /\ inbox \in [Node -> Seq(ServerMessage \cup ClientRequests)]
    /\ queue \in [Node -> [Role -> Seq(ServerMessage)]]
    /\ clientQueue \in [Node -> Seq(Request)]
    /\ outbox \in [Node -> SUBSET Parcel]
    /\ follower \in [Node -> [watching : BOOLEAN, term : Nat]]
    /\ candidate \in [Node -> [campaigning : BOOLEAN, term : Nat, votes : Nat]]
    /\ leading \in [Node -> BOOLEAN]
    /\ request \in [Request -> {"unsent", "pending", "answered"}]
    /\ panicked \in PanicReason
=============================================================================
