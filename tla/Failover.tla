------------------------------- MODULE Failover -------------------------------
(***************************************************************************)
(* What a pirc-server cluster does about nodes that fail: the health       *)
(* monitor of the leader (raft/health.rs), the migration service           *)
(* (migration.rs), the commit consumer's user index and graceful shutdown  *)
(* (graceful_shutdown.rs), tasks beside the Raft driver (raft/driver.rs).   *)
(*                                                                         *)
(* Consensus is taken from RaftNode, as what its properties allow: one log *)
(* of committed commands, a tail of entries the current leader has not     *)
(* committed, and nodes that still believe they lead.  Entries of earlier  *)
(* leaders are committed only together with one of the current leader.     *)
(* Users come and go by commands that some code on the leader proposes     *)
(* through its RaftHandle.                                                 *)
(***************************************************************************)
EXTENDS Integers, Sequences, FiniteSets, SequencesExt

CONSTANTS
    Nick, Node, Nil,
    Order,        \* the nodes, by ascending id
    Budgets       \* bounds: how many commands of clients, health events, elections
                  \* and failures (crashes or shutdowns) a behaviour may have, and
                  \* which nodes may lead (of the others only failures count)

-----------------------------------------------------------------------------
(* Which users are homed to which nodes (UserNodeIndex in migration.rs): a *)
(* map from users to nodes and its reverse, kept by the commit consumer as *)
(* it goes through the committed commands.  A node that homes nobody is    *)
(* absent from the reverse map, which is the empty set here.               *)

Index == [home : [Nick -> Node \cup {Nil}], on : [Node -> SUBSET Nick]]

EmptyIndex == [home |-> [u \in Nick |-> Nil], on |-> [k \in Node |-> {}]]

SetHomeNode(idx, u, k) ==
    [home |-> [idx.home EXCEPT ![u] = k],
     on   |-> [x \in Node |-> IF x = k THEN idx.on[x] \cup {u}
                              ELSE IF x = idx.home[u] THEN idx.on[x] \ {u}
                              ELSE idx.on[x]]]

RemoveUser(idx, u) ==
    [home |-> [idx.home EXCEPT ![u] = Nil],
     on   |-> [x \in Node |-> IF x = idx.home[u] THEN idx.on[x] \ {u} ELSE idx.on[x]]]

\* Fault: the reverse entry keeps the old nickname.
FaultRenameUser(idx, u, v) ==
    IF idx.home[u] = Nil THEN idx
    ELSE [idx EXCEPT !.home = [@ EXCEPT ![u] = Nil, ![v] = idx.home[u]]]

\* The new nickname takes over the entry; what was known of it before is
\* overwritten in the map and stays in the reverse map.
RenameUser(idx, u, v) ==
    IF idx.home[u] = Nil THEN idx
    ELSE [home |-> [idx.home EXCEPT ![u] = Nil, ![v] = idx.home[u]],
          on   |-> [idx.on EXCEPT ![idx.home[u]] = (@ \ {u}) \cup {v}]]

\* The committed commands the index reads.
Command ==
    [type : {"registered", "migrated"}, nick : Nick, node : Node]
    \cup [type : {"quit"}, nick : Nick]
    \cup [type : {"renamed"}, nick : Nick, new : Nick]
    \cup [type : {"other"}]

\* update_user_node_index.
Update(idx, cmd) ==
    CASE cmd.type \in {"registered", "migrated"} -> SetHomeNode(idx, cmd.nick, cmd.node)
      [] cmd.type = "quit"                       -> RemoveUser(idx, cmd.nick)
      [] cmd.type = "renamed"                    -> RenameUser(idx, cmd.nick, cmd.new)
      [] cmd.type = "other"                      -> idx

\* The two maps are each other's inverse.
IndexExact(idx) == \A u \in Nick, k \in Node : u \in idx.on[k] <=> idx.home[u] = k

-----------------------------------------------------------------------------
VARIABLES
    up,         \* running nodes
    leader,     \* the leader of the latest term, or Nil
    believes,   \* nodes whose RaftState is Leader
    log,        \* committed commands
    tail,       \* the uncommitted commands each node has appended as leader
    inherited,  \* how many of the leader's are of earlier terms
    proposals,  \* proposal_rx of each driver
    health,     \* the health monitor of each node, "off" unless it leads
    events,     \* health events its migration service has not received
    moves,      \* the proposals its migration service is still to submit
    exit,       \* its graceful shutdown
    applied,    \* how far its commit consumer has come
    idx,        \* its UserNodeIndex
    left        \* what is left of its budget

raft == <<leader, believes, log, tail, inherited>>
monitors == <<health, events>>
vars == <<up, raft, proposals, monitors, moves, exit, applied, idx, left>>

Status == {"online", "suspected", "down"}

\* The status a monitor gives each peer, and whether the node has a monitor.
Off == [on |-> FALSE, status |-> [k \in Node |-> "online"]]
Health == [on : BOOLEAN, status : [Node -> Status]]

NoExit == [at |-> "no", left |-> <<>>, moved |-> 0]
Exit == [at : {"no", "propose", "wait", "remove", "stop"}, left : Seq(Command), moved : Nat]

Majorities == {Q \in SUBSET Node : 2 * Cardinality(Q) > Cardinality(Node)}

HasMajority == up \in Majorities

Spend(what, k) == left[what] >= k /\ left' = [left EXCEPT ![what] = @ - k]

-----------------------------------------------------------------------------
(* Consensus.                                                              *)

\* A majority makes n leader; of the uncommitted entries of some leader it has
\* the first few, and commits none of them before one of its own.
\* The driver starts a health monitor with every peer online.
Elect(n) ==
    /\ Spend("elections", 1)
    /\ n \in (up \cap left.leading) \ believes /\ HasMajority
    /\ leader' = n
    /\ believes' = believes \cup {n}
    /\ \E m \in Node : \E k \in 0..Len(tail[m]) :
          /\ tail' = [tail EXCEPT ![n] = SubSeq(tail[m], 1, k)]
          /\ inherited' = k
    /\ health' = [health EXCEPT ![n] = [Off EXCEPT !.on = TRUE]]
    /\ UNCHANGED <<up, log, proposals, events, moves, exit, applied, idx>>

\* A message of the leader arrives: n follows it, and its monitor stops.
Follow(n) ==
    /\ n \in up \cap believes /\ leader \in up \ {n}
    /\ believes' = believes \ {n}
    /\ health' = [health EXCEPT ![n] = Off]
    /\ UNCHANGED <<up, leader, log, tail, inherited, proposals, events, moves, exit, applied, idx, left>>

\* A request for a vote of a higher term arrives first: n only steps down.
StepDown(n) ==
    /\ n \in up \cap believes
    /\ leader' = IF leader = n THEN Nil ELSE leader
    /\ believes' = believes \ {n}
    /\ health' = [health EXCEPT ![n] = Off]
    /\ UNCHANGED <<up, log, tail, inherited, proposals, events, moves, exit, applied, idx, left>>

\* A majority has the first k entries; no node without them leads again.
Commit ==
    /\ leader \in up /\ HasMajority
    /\ \E k \in (inherited + 1)..Len(tail[leader]) :
          /\ log' = log \o SubSeq(tail[leader], 1, k)
          /\ tail' = [m \in Node |->
                IF m = leader THEN SubSeq(tail[m], k + 1, Len(tail[m])) ELSE <<>>]
    /\ inherited' = 0
    /\ UNCHANGED <<up, leader, believes, proposals, monitors, moves, exit, applied, idx, left>>

\* RaftHandle::propose looks at the published state; the command is queued.
Propose(n, cmd) ==
    proposals' = IF n \in believes THEN [proposals EXCEPT ![n] = Append(@, cmd)] ELSE proposals

\* handle_proposal: dropped without leadership.  A deposed leader that does not
\* know it yet appends, to a log that the next leader may overwrite.
HandleProposal(n) ==
    /\ n \in up /\ proposals[n] # <<>>
    /\ proposals' = [proposals EXCEPT ![n] = Tail(@)]
    /\ tail' = IF n \in believes THEN [tail EXCEPT ![n] = Append(@, Head(proposals[n]))] ELSE tail
    /\ UNCHANGED <<up, leader, believes, log, inherited, monitors, moves, exit, applied, idx, left>>

\* The commit consumer applies the next command.
Consume(n) ==
    /\ n \in up \cap left.leading /\ applied[n] < Len(log)
    /\ applied' = [applied EXCEPT ![n] = @ + 1]
    /\ idx' = [idx EXCEPT ![n] = Update(@, log[applied[n] + 1])]
    /\ UNCHANGED <<up, raft, proposals, monitors, moves, exit, left>>

-----------------------------------------------------------------------------
(* The health monitor of a leader.                                         *)

\* evaluate turns a peer that has been silent for suspect_threshold suspected, and
\* down after failure_threshold; how long the last silence was is left open.
Worse(s) == CASE s = "online" -> Status [] s = "suspected" -> {"suspected", "down"} [] s = "down" -> {"down"}

\* A heartbeat tick of the leader.  The peers are visited in the order of a HashMap.
HeartbeatTick(n) ==
    \E new \in [Node -> Status] :
        LET changed == {k \in Node : new[k] # health[n].status[k]} IN
        /\ n \in up \cap believes /\ health[n].on
        /\ new[n] = "online" /\ \A k \in Node : new[k] \in Worse(health[n].status[k])
        /\ changed # {} /\ Spend("events", Cardinality(changed))
        /\ health' = [health EXCEPT ![n].status = new]
        /\ \E order \in SetToSeqs(changed) :
              events' = [events EXCEPT ![n] =
                            @ \o [i \in DOMAIN order |-> [node |-> order[i], is |-> new[order[i]]]]]
        /\ UNCHANGED <<up, raft, proposals, moves, exit, applied, idx>>

\* record_response, of a peer that was not online.
RecordResponse(n, k) ==
    /\ n \in up /\ health[n].on /\ k \in up \ {n} /\ health[n].status[k] # "online"
    /\ Spend("events", 1)
    /\ health' = [health EXCEPT ![n].status[k] = "online"]
    /\ events' = [events EXCEPT ![n] = Append(@, [node |-> k, is |-> "online"])]
    /\ UNCHANGED <<up, raft, proposals, moves, exit, applied, idx>>

-----------------------------------------------------------------------------
(* The migration service.                                                  *)

\* surviving: every configured peer but the failed one, and the node itself.
Surviving(n, failed) == SelectSeq(Order, LAMBDA k : k # failed)

\* Users in the order the HashSet gives them, targets round robin.
RoundRobin(users, targets) ==
    [i \in DOMAIN users |->
        [type |-> "migrated", nick |-> users[i], node |-> targets[1 + ((i - 1) % Len(targets))]]]

\* Fault: the index of the last user is taken for the number of users.
FaultMigrations(n, failed) ==
    {RoundRobin(Front(users), Surviving(n, failed)) :
        users \in {s \in SetToSeqs(idx[n].on[failed]) : s # <<>>}} \cup {<<>>}

Migrations(n, failed) ==
    {RoundRobin(users, Surviving(n, failed)) : users \in SetToSeqs(idx[n].on[failed])}

\* The next health event; only NodeDown on a leader has consequences.
ReceiveEvent(n) ==
    /\ n \in up /\ moves[n] = <<>> /\ events[n] # <<>>
    /\ events' = [events EXCEPT ![n] = Tail(@)]
    /\ \E m \in IF Head(events[n]).is = "down" /\ n \in believes
                  THEN Migrations(n, Head(events[n]).node) ELSE {<<>>} :
          moves' = [moves EXCEPT ![n] = m]
    /\ UNCHANGED <<up, raft, proposals, health, exit, applied, idx, left>>

\* The loop over the proposals; one that is refused is skipped.
ProposeMove(n) ==
    /\ n \in up /\ moves[n] # <<>>
    /\ Propose(n, Head(moves[n]))
    /\ moves' = [moves EXCEPT ![n] = Tail(@)]
    /\ UNCHANGED <<up, raft, monitors, exit, applied, idx, left>>

-----------------------------------------------------------------------------
(* Graceful shutdown.                                                      *)

BeginShutdown(n) ==
    /\ n \in up \cap left.leading /\ exit[n].at = "no"
    /\ Spend("failures", 1)
    /\ \E users \in SetToSeqs(idx[n].on[n]) :
          exit' = [exit EXCEPT ![n] = [NoExit EXCEPT !.at = "propose",
                      !.left = RoundRobin(users, SelectSeq(Order, LAMBDA k : k # n))]]
    /\ UNCHANGED <<up, raft, proposals, monitors, moves, applied, idx>>

\* Fault: a refused proposal is counted back.
FaultShutdownMove(n) ==
    /\ n \in up /\ exit[n].at = "propose" /\ exit[n].left # <<>>
    /\ Propose(n, Head(exit[n].left))
    /\ exit' = [exit EXCEPT ![n].left = Tail(@),
                            ![n].moved = IF n \in believes THEN @ + 1 ELSE @ - 1]
    /\ UNCHANGED <<up, raft, monitors, moves, applied, idx, left>>

\* A proposal that is refused is skipped and not counted.
ShutdownMove(n) ==
    /\ n \in up /\ exit[n].at = "propose" /\ exit[n].left # <<>>
    /\ Propose(n, Head(exit[n].left))
    /\ exit' = [exit EXCEPT ![n].left = Tail(@),
                            ![n].moved = IF n \in believes THEN @ + 1 ELSE @]
    /\ UNCHANGED <<up, raft, monitors, moves, applied, idx, left>>

\* Nothing proposed, nothing to wait for.
ShutdownProposed(n) ==
    /\ n \in up /\ exit[n].at = "propose" /\ exit[n].left = <<>>
    /\ exit' = [exit EXCEPT ![n].at = IF exit[n].moved > 0 THEN "wait" ELSE "remove"]
    /\ UNCHANGED <<up, raft, proposals, monitors, moves, applied, idx, left>>

\* wait_for_migrations ends when the index shows nobody here, or at its deadline.
ShutdownWaited(n) ==
    /\ n \in up /\ exit[n].at = "wait"
    /\ exit' = [exit EXCEPT ![n].at = "remove"]
    /\ UNCHANGED <<up, raft, proposals, monitors, moves, applied, idx, left>>

\* remove_self_from_membership: an entry of the leader, not waited for.
ShutdownRemoveSelf(n) ==
    /\ n \in up /\ exit[n].at = "remove"
    /\ exit' = [exit EXCEPT ![n].at = "stop"]
    /\ tail' = IF n \in believes THEN [tail EXCEPT ![n] = Append(@, [type |-> "other"])] ELSE tail
    /\ UNCHANGED <<up, leader, believes, log, inherited, proposals, monitors, moves, applied, idx, left>>

\* What a process that ends loses; the committed log is the cluster's.
Stopped(n) ==
    /\ up' = up \ {n}
    /\ believes' = believes \ {n}
    /\ proposals' = [proposals EXCEPT ![n] = <<>>]
    /\ health' = [health EXCEPT ![n] = Off]
    /\ events' = [events EXCEPT ![n] = <<>>]
    /\ moves' = [moves EXCEPT ![n] = <<>>]
    /\ exit' = [exit EXCEPT ![n] = NoExit]
    /\ applied' = [applied EXCEPT ![n] = 0]
    /\ idx' = [idx EXCEPT ![n] = EmptyIndex]
    /\ UNCHANGED <<leader, log, tail, inherited>>

ShutdownRaft(n) == n \in up /\ exit[n].at = "stop" /\ Stopped(n) /\ UNCHANGED left

Crash(n) == n \in up /\ Spend("failures", 1) /\ Stopped(n)

Restart(n) ==
    /\ n \in Node \ up
    /\ up' = up \cup {n}
    /\ leader' = IF leader = n THEN Nil ELSE leader
    /\ UNCHANGED <<believes, log, tail, inherited, proposals, monitors, moves, exit, applied, idx, left>>

-----------------------------------------------------------------------------
(* Users.  A nickname is registered, and another one changed to it, only   *)
(* while no command of the log or on its way to it makes it somebody's.    *)

\* ClusterStateMachine::apply, of its users their home nodes.
Apply(users, cmd) ==
    CASE cmd.type = "registered" -> [users EXCEPT ![cmd.nick] = cmd.node]
      [] cmd.type = "quit"       -> [users EXCEPT ![cmd.nick] = Nil]
      [] cmd.type = "renamed"    -> IF users[cmd.nick] = Nil THEN users
                                    ELSE [users EXCEPT ![cmd.nick] = Nil, ![cmd.new] = users[cmd.nick]]
      [] cmd.type = "migrated"   -> IF users[cmd.nick] = Nil THEN users
                                    ELSE [users EXCEPT ![cmd.nick] = cmd.node]
      [] cmd.type = "other"      -> users

\* The users of a state machine that has applied the first k commands.
Users(k) == FoldLeft(Apply, EmptyIndex.home, SubSeq(log, 1, k))

\* Everything that may still be committed.
Underway == UNION {ToSet(tail[n]) \cup ToSet(proposals[n]) : n \in Node}

Claims(cmd) == CASE cmd.type = "registered" -> {cmd.nick} [] cmd.type = "renamed" -> {cmd.new} [] OTHER -> {}

Free(u) == Users(Len(log))[u] = Nil /\ \A c \in Underway : u \notin Claims(c)

UserCommand(n, cmd) ==
    /\ n \in up \cap believes /\ Spend("commands", 1)
    /\ Propose(n, cmd)
    /\ UNCHANGED <<up, raft, monitors, moves, exit, applied, idx>>

RegisterUser(n, u) ==
    Free(u) /\ \E home \in Node : UserCommand(n, [type |-> "registered", nick |-> u, node |-> home])

RenameUserTo(n, u, v) ==
    /\ Users(applied[n])[u] # Nil /\ Free(v)
    /\ UserCommand(n, [type |-> "renamed", nick |-> u, new |-> v])

QuitUser(n, u) ==
    Users(applied[n])[u] # Nil /\ UserCommand(n, [type |-> "quit", nick |-> u])

-----------------------------------------------------------------------------
Init ==
    /\ up = Node /\ leader = Nil /\ believes = {}
    /\ log = <<>> /\ tail = [n \in Node |-> <<>>] /\ inherited = 0
    /\ proposals = [n \in Node |-> <<>>]
    /\ health = [n \in Node |-> Off]
    /\ events = [n \in Node |-> <<>>]
    /\ moves = [n \in Node |-> <<>>]
    /\ exit = [n \in Node |-> NoExit]
    /\ applied = [n \in Node |-> 0]
    /\ idx = [n \in Node |-> EmptyIndex]
    /\ left \in Budgets

Consensus(n) == Elect(n) \/ Follow(n) \/ StepDown(n)

Monitoring(n) == HeartbeatTick(n) \/ \E k \in Node : RecordResponse(n, k)

\* The tasks beside the driver, and what the driver does for them.
Work(n) ==
    \/ HandleProposal(n) \/ Consume(n) \/ ReceiveEvent(n) \/ ProposeMove(n)

Leaving(n) ==
    \/ BeginShutdown(n) \/ ShutdownMove(n) \/ ShutdownProposed(n) \/ ShutdownWaited(n)
    \/ ShutdownRemoveSelf(n) \/ ShutdownRaft(n) \/ Crash(n) \/ Restart(n)

Clients(n) ==
    \E u \in Nick : RegisterUser(n, u) \/ QuitUser(n, u) \/ \E v \in Nick \ {u} : RenameUserTo(n, u, v)

Next ==
    \/ Commit
    \/ \E n \in Node : Consensus(n) \/ Monitoring(n) \/ Work(n) \/ Leaving(n) \/ Clients(n)

\* The runtime runs every ready task, and a leader with a majority commits.
Fairness ==
    /\ WF_vars(Commit)
    /\ \A n \in Node :
          /\ WF_vars(HandleProposal(n)) /\ WF_vars(Consume(n))
          /\ WF_vars(ReceiveEvent(n)) /\ WF_vars(ProposeMove(n))

Spec == Init /\ [][Next]_vars

FairSpec == Spec /\ Fairness

-----------------------------------------------------------------------------
TypeOK ==
    /\ up \subseteq Node /\ believes \subseteq up
    /\ leader \in Node \cup {Nil}
    /\ log \in Seq(Command) /\ tail \in [Node -> Seq(Command)] /\ inherited \in Nat
    /\ proposals \in [Node -> Seq(Command)]
    /\ health \in [Node -> Health]
    /\ events \in [Node -> Seq([node : Node, is : Status])]
    /\ moves \in [Node -> Seq(Command)]
    /\ exit \in [Node -> Exit]
    /\ applied \in [Node -> Nat]
    /\ idx \in [Node -> Index]
    /\ left \in [commands : Nat, events : Nat, elections : Nat, failures : Nat, leading : SUBSET Node]

\* The index of a node finds every user of the replicated state machine, under
\* its home node in both directions, when both have applied as much of the log:
\* the two are kept by different code from the same commands
\* (update_user_node_index and ClusterStateMachine::apply).
MigrationFindsUsers ==
    \A n \in Node : \A u \in Nick :
        LET home == Users(applied[n])[u]
        IN  home # Nil => idx[n].home[u] = home /\ u \in idx[n].on[home]

Leads(n) == n = leader /\ n \in up /\ n \in believes

LearnsDown(n, f) ==
    /\ Leads(n) /\ moves[n] = <<>>
    /\ events[n] # <<>> /\ Head(events[n]) = [node |-> f, is |-> "down"]

\* When the migration service of the leader is to handle the failure of a node,
\* the users it knows there get another home node, unless it stops leading or
\* the majority is lost (spawn_migration_service).
MigrationCompletes ==
    \A n, f \in Node : \A u \in Nick :
        (LearnsDown(n, f) /\ idx[n].home[u] = f) ~> (idx[n].home[u] # f \/ ~Leads(n) \/ ~HasMajority)

\* The reverse map of a UserNodeIndex lists for a node only users the forward map
\* homes there ("Maintains a reverse index (`node_to_users`) for O(1) lookup of
\* all users on a given node", migration.rs).
ReverseIndexExact == \A n \in Node : IndexExact(idx[n])
=============================================================================
