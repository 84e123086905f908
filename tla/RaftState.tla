------------------------------ MODULE RaftState ------------------------------
(***************************************************************************)
(* The state of pirc-server's consensus layer: what a server keeps in      *)
(* memory (RaftNode in raft/node.rs and the driver's state machine), on    *)
(* disk (raft/file_storage.rs) and has on the way to its peers             *)
(* (raft/rpc.rs), and the histories the properties of RaftNode speak of.   *)
(***************************************************************************)
EXTENDS RaftLog, FiniteSets

CONSTANTS
    Server,             \* node ids
    Nil,                \* None
    Peers,              \* Peers[i]: config.peers of server i
    Command,            \* client commands
    Proposes,           \* Proposes[i]: the commands the clients of server i propose
    SnapshotThreshold,  \* config.snapshot_threshold
    Chunks,             \* messages a snapshot is cut into for a peer
    Changes,            \* the membership changes that may be proposed
    Overtake,           \* how many messages of a peer a message may overtake
    Delivery,           \* what may happen to messages, see below
    Campaigns,          \* bounds: who may campaign for which term, <<server, term>>,
    MaxIndex,           \*   log indices,
    MaxInFlight,        \*   messages in flight,
    MaxRestarts,        \*   restarts,
    MaxFaults           \*   failed writes

ASSUME RaftAssumptions ==
    /\ IsFiniteSet(Server) /\ Server # {}
    /\ Nil \notin Server
    /\ Nil \notin Seq(Command)
    /\ Peers \in [Server -> SUBSET Server]
    /\ \A i \in Server : i \notin Peers[i]
    /\ Proposes \in [Server -> SUBSET Command]
    /\ SnapshotThreshold \in Nat \ {0}
    /\ Chunks \in Nat \ {0}
    /\ Changes \subseteq [kind : {"AddServer", "RemoveServer"}, server : Server]
    /\ Delivery \in {"reliable", "lossy", "breaking"}
    /\ Campaigns \subseteq Server \X Nat
    /\ {Overtake, MaxIndex, MaxInFlight, MaxRestarts, MaxFaults} \subseteq Nat

VARIABLES
    node,     \* node[i]: the fields of RaftNode and the driver's state machine
    disk,     \* disk[i]: the files of FileStorage
    net,      \* net[i][j]: messages on their way from i to j, oldest first
    granted,  \* history: every vote given, [voter, term, candidate]
    elected,  \* history: every election won, [term, leader, votes, members, log]
    odd,      \* history: the ways in which servers have departed from Raft so far
    restarts, \* number of crashes and restarts so far
    faults    \* number of failed writes so far

vars == <<node, disk, net, granted, elected, odd, restarts, faults>>

Entry   == [term : Nat, command : Command]
Log     == [entries : Seq(Entry), offset : Nat, snapTerm : Nat]
Image   == Seq(Command)
Meta    == [index : Nat, term : Nat]
Pending == [index : Nat, change : [kind : {"AddServer", "RemoveServer"}, server : Server]]
Chunk   == [image : Image, part : 1..Chunks]
Won     == [term : Nat, leader : Server, votes : SUBSET Server, members : SUBSET Server, log : Log]

Message ==
    [type : {"RequestVote"}, term : Nat, lastIndex : Nat, lastTerm : Nat]
    \cup [type : {"RequestVoteResponse"}, term : Nat, granted : BOOLEAN]
    \cup [type : {"AppendEntries"}, term : Nat, prevIndex : Nat, prevTerm : Nat,
          entries : Seq(Entry), commit : Nat]
    \cup [type : {"AppendEntriesResponse"}, term : Nat, success : BOOLEAN, match : Nat]
    \cup [type : {"InstallSnapshot"}, term : Nat, meta : Meta, chunk : Chunk]
    \cup [type : {"InstallSnapshotResponse"}, term : Nat]

NodeState ==
    [state    : {"Follower", "Candidate", "Leader"},
     term     : Nat,
     vote     : Server \cup {Nil},       \* voted_for
     leader   : Server \cup {Nil},       \* current_leader
     votes    : SUBSET Server,           \* election_tracker
     log      : Log,
     commit   : Nat,                     \* commit_index
     applied  : Nat,                     \* last_applied
     next     : [Server -> Nat \ {0}],   \* leader_state.next_index, 1 when absent
     match    : [Server -> Nat],         \* leader_state.match_index, 0 when absent
     members  : SUBSET Server,           \* membership.members
     pending  : Pending \cup {Nil},      \* membership.pending_change
     snap     : [meta : Meta, image : Image] \cup {Nil},   \* last_snapshot
     buffer   : Seq(Chunk),              \* pending_snapshot, empty when absent
     machine  : Image]                   \* the commands the state machine applied

DiskState ==
    [term : Nat, vote : Server \cup {Nil},
     bin : Image \cup {Nil},             \* snapshot.bin
     meta : Meta \cup {Nil}]             \* snapshot.meta

\* "stale vote": a candidate counted a vote given in an earlier term.
\* "stale ack": a leader counted an acknowledgement given in an earlier term.
\* "over-report": a follower acknowledged more than an AppendEntries covered.
\* "rollback": a server restored a snapshot older than what it had applied.
\* "torn": the last chunk of a snapshot completed a mixture of two snapshots.
Departures == {"stale vote", "stale ack", "over-report", "rollback", "torn"}

TypeOK ==
    /\ node \in [Server -> NodeState]
    /\ disk \in [Server -> DiskState]
    /\ net \in [Server -> [Server -> Seq(Message)]]
    /\ granted \subseteq [voter : Server, term : Nat, candidate : Server]
    /\ elected \subseteq Won
    /\ odd \subseteq Departures
    /\ restarts \in Nat
    /\ faults \in Nat

-----------------------------------------------------------------------------
(* What the elections, the logs and the state machines promise            *)

\* At most one leader is elected in a term, as long as no vote of another term
\* has been counted, and under the same proviso.
OneLeaderPerTerm ==
    (faults = 0 \/ restarts = 0) /\ "stale vote" \notin odd =>
        \A a, b \in elected : a.term = b.term => a.leader = b.leader

Held(l) == (l.offset + 1)..LastIndex(l)

Agree(a, b, k) == Holds(a, k) /\ Holds(b, k) => a.entries[k - a.offset] = b.entries[k - b.offset]

\* Two logs that hold an entry of the same term at the same index agree on every
\* index up to there that both still hold (given one leader per term).
LogMatching ==
    (faults = 0 \/ restarts = 0) /\ "stale vote" \notin odd =>
        \A i \in Server : \A j \in Server \ {i} :
            LET a == node[i].log
                b == node[j].log
            IN  \A k \in Held(a) \cap Held(b) :
                    TermAt(a, k) = TermAt(b, k) => \A o \in 1..k : Agree(a, b, o)

\* The state machines never disagree on a command at a position: one has applied
\* a prefix of what the other has.
MachinesAgree ==
    \A i \in Server : \A j \in Server \ {i} :
        \A k \in 1..Smaller(Len(node[i].machine), Len(node[j].machine)) :
            node[i].machine[k] = node[j].machine[k]

\* ... which the code guarantees across lost messages and changes of leader, as
\* long as no server restarted, no write failed and no departure happened.
SafeWithoutDepartures == odd = {} /\ restarts = 0 /\ faults = 0 => MachinesAgree
=============================================================================
