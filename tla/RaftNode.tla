------------------------------ MODULE RaftNode ------------------------------
(***************************************************************************)
(* The consensus layer of pirc-server: RaftNode (raft/node.rs,             *)
(* raft/replication.rs, raft/election.rs, raft/membership.rs) driven by    *)
(* the event loop of RaftDriver (raft/driver.rs), its persistent state     *)
(* (raft/file_storage.rs) and the peer connections (raft/transport.rs).    *)
(*                                                                         *)
(* An action is one iteration of a server's event loop: one event, handled *)
(* to the end, then the entries that became committed are applied and, if  *)
(* the log has grown past the threshold, a snapshot is taken.  A server's  *)
(* state changes in nobody's sight, so iterations are atomic, except that  *)
(* a crash may stop one between two writes to disk and a write may fail;   *)
(* those are actions of their own.                                         *)
(*                                                                         *)
(* The log is never written to disk: RaftStorage::append_entries has no    *)
(* caller, and load_log finds no file.                                     *)
(***************************************************************************)
EXTENDS RaftState

-----------------------------------------------------------------------------
(* Starting: RaftNode::new                                                 *)

NoNext  == [p \in Server |-> 1]
NoMatch == [p \in Server |-> 0]

\* load_snapshot: both files must be there.  The log file never is.
SnapshotOn(d) ==
    IF d.meta = Nil \/ d.bin = Nil THEN Nil ELSE [meta |-> d.meta, image |-> d.bin]

\* A server coming up finds its term, its vote and its snapshot on disk.  The
\* state machine starts empty: the snapshot is kept for lagging peers only.
Boot(i, d) ==
    LET snap == SnapshotOn(d)
    IN  [state |-> "Follower", term |-> d.term, vote |-> d.vote, leader |-> Nil,
         votes |-> {}, commit |-> 0, applied |-> 0, next |-> NoNext, match |-> NoMatch,
         log |-> IF snap = Nil THEN EmptyLog
                 ELSE ResetToSnapshot(snap.meta.index, snap.meta.term),
         members |-> Peers[i] \cup {i}, pending |-> Nil,
         snap |-> snap, buffer |-> <<>>, machine |-> <<>>]

NewDisk == [term |-> 0, vote |-> Nil, bin |-> Nil, meta |-> Nil]

Init ==
    /\ disk = [i \in Server |-> NewDisk]
    /\ node = [i \in Server |-> Boot(i, NewDisk)]
    /\ net = [i \in Server |-> [j \in Server |-> <<>>]]
    /\ granted = {}
    /\ elected = {}
    /\ odd = {}
    /\ restarts = 0
    /\ faults = 0

-----------------------------------------------------------------------------
(* Pieces the handlers share, as functions of a server's state n.          *)

\* ClusterMembership::rollback_change: undo the change that is still pending.
RollbackChange(n) ==
    IF n.pending = Nil THEN n
    ELSE LET c == n.pending.change
         IN  [n EXCEPT !.pending = Nil,
                       !.members = IF c.kind = "AddServer" THEN @ \ {c.server}
                                   ELSE @ \cup {c.server}]

\* Fault: a pending membership change survives the loss of leadership.
FaultTermUpdate(n, t) ==
    IF t =< n.term THEN n
    ELSE [n EXCEPT !.term = t, !.vote = Nil, !.state = "Follower", !.votes = {},
                   !.next = NoNext, !.match = NoMatch]

\* handle_term_update, in memory: a higher term makes the server a follower.
TermUpdate(n, t) ==
    IF t =< n.term THEN n
    ELSE [RollbackChange(n) EXCEPT
            !.term = t, !.vote = Nil, !.state = "Follower", !.votes = {},
            !.next = NoNext, !.match = NoMatch]

\* Fault: the new term is not saved.
FaultTermSaved(d, t) == d

\* handle_term_update, on disk: save_term, then save_voted_for.
TermSaved(d, t) == [d EXCEPT !.term = t]
VoteSaved(d, v) == [d EXCEPT !.vote = v]
TermUpdateSaved(d, n, t) ==
    IF t =< n.term THEN d ELSE VoteSaved(TermSaved(d, t), Nil)

\* Fault: half of the cluster is taken for a majority.
FaultHasQuorum(i, votes) == Cardinality(votes) >= Cardinality(Peers[i] \cup {i}) \div 2

\* ElectionTracker: the cluster size is the one of the configuration at start.
HasQuorum(i, votes) ==
    Cardinality(votes) >= Cardinality(Peers[i] \cup {i}) \div 2 + 1

\* A message of the current leader makes the server its follower.
Follow(n, leader) ==
    [n EXCEPT !.state = "Follower", !.leader = leader, !.votes = {},
              !.next = NoNext, !.match = NoMatch]

Election(n, i) ==
    [term |-> n.term, leader |-> i, votes |-> n.votes, members |-> n.members, log |-> n.log]

\* become_leader
BecomeLeader(n, i) ==
    [n EXCEPT !.state = "Leader", !.leader = i,
              !.next = [p \in Server |-> IF p \in n.members \ {i}
                                           THEN LastIndex(n.log) + 1 ELSE 1],
              !.match = NoMatch]

\* replicate_to_peer: the entries the peer lacks, or the latest snapshot, in
\* chunks, when they have been compacted away.
Replicate(n, p) ==
    IF n.log.offset > 0 /\ n.next[p] =< n.log.offset
      THEN IF n.snap = Nil THEN <<>>
           ELSE [c \in 1..Chunks |->
                   [type |-> "InstallSnapshot", term |-> n.term, meta |-> n.snap.meta,
                    chunk |-> [image |-> n.snap.image, part |-> c]]]
      ELSE LET prev == n.next[p] - 1
           IN  <<[type |-> "AppendEntries", term |-> n.term, prevIndex |-> prev,
                  prevTerm |-> IF TermAt(n.log, prev) = NoTerm THEN 0
                               ELSE TermAt(n.log, prev),
                  entries |-> EntriesFrom(n.log, n.next[p]), commit |-> n.commit]>>

\* send_append_entries_to_all: to each peer of the current membership.
ToPeers(n, i) ==
    [p \in Server |-> IF p \in n.members \ {i} THEN Replicate(n, p) ELSE <<>>]

\* commit_membership_change_if_pending: the peers of a committed configuration
\* are the only ones whose progress is kept; a leader that removed itself stops.
CommitChange(n, i) ==
    IF n.pending = Nil \/ n.commit < n.pending.index THEN n
    ELSE LET gone == n.pending.change = [kind |-> "RemoveServer", server |-> i]
         IN  [n EXCEPT
                !.pending = Nil,
                !.next = [p \in Server |-> IF p \in n.members /\ ~gone THEN @[p] ELSE 1],
                !.match = [p \in Server |-> IF p \in n.members /\ ~gone THEN @[p] ELSE 0],
                !.state = IF gone THEN "Follower" ELSE @,
                !.leader = IF gone THEN Nil ELSE @]

Replicas(n, k) == 1 + Cardinality({p \in Server : n.match[p] >= k})

\* Indices advance_commit_index may commit: entries of the current term on a
\* majority of the membership, above every entry of an older term.
Committable(n) ==
    {k \in n.commit + 1 .. LastIndex(n.log) :
        /\ TermAt(n.log, k) = n.term
        /\ Replicas(n, k) >= Cardinality(n.members) \div 2 + 1
        /\ \A o \in k .. LastIndex(n.log) :
              TermAt(n.log, o) = NoTerm \/ TermAt(n.log, o) >= n.term}

\* ... of which it commits the highest.
Highest(n) == {k \in Committable(n) : \A o \in Committable(n) : o =< k}

\* advance_commit_index
AdvanceCommit(n, i) ==
    IF n.state # "Leader" \/ Highest(n) = {} THEN n
    ELSE CommitChange([n EXCEPT !.commit = CHOOSE k \in Highest(n) : TRUE], i)

-----------------------------------------------------------------------------
(* The end of an iteration: apply_committed_entries, maybe_snapshot.       *)

\* apply_committed_with_entries: an index the log does not hold is skipped.
ApplyCommitted(n) ==
    IF n.applied >= n.commit THEN n
    ELSE LET es == SubSeq(n.log.entries, Larger(n.applied, n.log.offset) + 1 - n.log.offset,
                          Smaller(n.commit, LastIndex(n.log)) - n.log.offset)
         IN  [n EXCEPT !.applied = n.commit,
                       !.machine = @ \o [k \in 1..Len(es) |-> es[k].command]]

\* should_snapshot, and create_snapshot's early returns.
TakesSnapshot(n) ==
    /\ Len(n.log.entries) >= SnapshotThreshold
    /\ n.applied > 0
    /\ n.snap # Nil => n.snap.meta.index < n.applied

SnapshotOf(n) ==
    [meta |-> [index |-> n.applied,
               term  |-> IF TermAt(n.log, n.applied) = NoTerm THEN n.log.snapTerm
                         ELSE TermAt(n.log, n.applied)],
     image |-> n.machine]

\* Fault: the whole log is compacted, the entries not yet applied included.
FaultMaybeSnapshot(n) ==
    IF TakesSnapshot(n)
      THEN [n EXCEPT !.snap = SnapshotOf(n), !.log = CompactTo(@, LastIndex(@))]
      ELSE n

\* create_snapshot
MaybeSnapshot(n) ==
    IF TakesSnapshot(n)
      THEN [n EXCEPT !.snap = SnapshotOf(n), !.log = CompactTo(@, n.applied)]
      ELSE n

\* save_snapshot: snapshot.bin, then snapshot.meta.  When a write fails neither
\* file is new, or only the first one is.
SnapshotSaved(d, s) == [d EXCEPT !.bin = s.image, !.meta = s.meta]
SaveFailed(d, image) == {d, [d EXCEPT !.bin = image]}

InFlight(w) == Cardinality(UNION {{<<i, j>>} \X DOMAIN w[i][j] : i \in Server, j \in Server})

\* The peers server i reaches while it sends, as far as the bound allows.
\* Delivery "reliable": all of them (the server waits for room).
\* Delivery "lossy": any (send_to drops the message when the connection fails).
\* Delivery "breaking": also, a message already sent may be lost (Lose below).
Sends(w, i, out, to) == [w EXCEPT ![i] = [p \in Server |-> IF p \in to THEN @[p] \o out[p] ELSE @[p]]]

Reachable(w, i, out) ==
    LET meant == {p \in Server : out[p] # <<>>}
        room  == MaxInFlight - InFlight(w)
    IN  {to \in IF Delivery = "reliable" THEN {meant} ELSE SUBSET meant :
            Cardinality(UNION {{p} \X DOMAIN out[p] : p \in to}) =< room}

\* Server i ends an iteration: its state after the event was n, its disk d, and
\* it leaves the messages out for the others; w is net without what it consumed.
\* When the snapshot cannot be saved, create_snapshot returns before it touches
\* the log, and maybe_snapshot tries again at the end of the next iteration.  (A
\* crash between the two files is that failure, and then a restart.)  As a bound,
\* only the snapshots of the first MaxFaults entries fail; these do not count as
\* faults, for the server stays as it was.
EndIteration(i, n, d, w, out) ==
    \E after \in {n} :
        LET a == ApplyCommitted(after)
        IN  /\ \/ /\ node' = [node EXCEPT ![i] = MaybeSnapshot(a)]
                  /\ disk' = [disk EXCEPT ![i] = IF TakesSnapshot(a)
                                                  THEN SnapshotSaved(d, SnapshotOf(a)) ELSE d]
               \/ /\ TakesSnapshot(a) /\ a.applied =< MaxFaults
                  /\ node' = [node EXCEPT ![i] = a]
                  /\ \E e \in SaveFailed(d, a.machine) : disk' = [disk EXCEPT ![i] = e]
            /\ \E to \in Reachable(w, i, out) : net' = Sends(w, i, out, to)

Silence == [p \in Server |-> <<>>]
Reply(j, m) == [p \in Server |-> IF p = j THEN <<m>> ELSE <<>>]

-----------------------------------------------------------------------------
(* Elections                                                               *)

\* start_election, in memory.
Campaign(n, i) ==
    [n EXCEPT !.term = @ + 1, !.state = "Candidate", !.vote = i, !.leader = Nil,
              !.votes = {i}, !.next = NoNext, !.match = NoMatch]

VoteRequests(n, i) ==
    [p \in Server |-> IF p \in Peers[i]
        THEN <<[type |-> "RequestVote", term |-> n.term,
                lastIndex |-> LastIndex(n.log), lastTerm |-> LastTerm(n.log)]>>
        ELSE <<>>]

MayCampaign(i) ==
    /\ node[i].state # "Leader"
    /\ <<i, node[i].term + 1>> \in Campaigns

\* The election timer fires: handle_election_timeout, start_election.
StartElection(i) ==
    LET n == Campaign(node[i], i)
        d == VoteSaved(TermSaved(disk[i], n.term), i)
    IN  /\ MayCampaign(i)
        /\ granted' = granted \cup {[voter |-> i, term |-> n.term, candidate |-> i]}
        /\ IF HasQuorum(i, {i})
             THEN /\ EndIteration(i, BecomeLeader(n, i), d, net, ToPeers(BecomeLeader(n, i), i))
                  /\ elected' = elected \cup {Election(n, i)}
             ELSE /\ EndIteration(i, n, d, net, VoteRequests(n, i))
                  /\ UNCHANGED elected
        /\ UNCHANGED <<odd, restarts, faults>>

\* Server i takes message k of those on their way from j.  Messages of one
\* connection arrive in order; while a new connection replaces a broken one,
\* those still buffered on the old one may be overtaken.
Deliverable(i, j) == 1..Smaller(Len(net[j][i]), 1 + Overtake)

Takes(i, j, k, type) ==
    /\ k \in Deliverable(i, j)
    /\ net[j][i][k].type = type

Without(i, j, k) ==
    [net EXCEPT ![j][i] = SubSeq(@, 1, k - 1) \o SubSeq(@, k + 1, Len(@))]

\* Fault: an earlier vote of this term is forgotten.
FaultGrants(n, j, m) == m.term >= n.term /\ UpToDate(m, n.log)

\* handle_request_vote after the term update: whether the vote is granted.
Grants(n, j, m) ==
    /\ m.term >= n.term
    /\ n.vote \in {Nil, j}
    /\ UpToDate(m, n.log)

\* Fault: a vote that is refused is answered like one that is granted.
FaultVoteReply(n, yes) == [type |-> "RequestVoteResponse", term |-> n.term, granted |-> TRUE]

VoteReply(n, yes) == [type |-> "RequestVoteResponse", term |-> n.term, granted |-> yes]

\* handle_request_vote
HandleRequestVote(i, j, k) ==
    LET m == net[j][i][k]
        n == TermUpdate(node[i], m.term)
        d == TermUpdateSaved(disk[i], node[i], m.term)
        v == [n EXCEPT !.vote = j]
    IN  /\ Takes(i, j, k, "RequestVote")
        /\ \/ /\ Grants(n, j, m)
              /\ granted' = granted \cup {[voter |-> i, term |-> n.term, candidate |-> j]}
              /\ EndIteration(i, v, VoteSaved(d, j), Without(i, j, k), Reply(j, VoteReply(v, TRUE)))
           \/ /\ ~Grants(n, j, m)
              /\ UNCHANGED granted
              /\ EndIteration(i, n, d, Without(i, j, k), Reply(j, VoteReply(n, FALSE)))
        /\ UNCHANGED <<elected, odd, restarts, faults>>

\* handle_request_vote_response: a candidate counts every granted vote, whatever
\* term it was given in.
HandleRequestVoteResponse(i, j, k) ==
    LET m == net[j][i][k]
        n == TermUpdate(node[i], m.term)
        d == TermUpdateSaved(disk[i], node[i], m.term)
        v == [n EXCEPT !.votes = @ \cup {j}]
        b == BecomeLeader(v, i)
    IN  /\ Takes(i, j, k, "RequestVoteResponse")
        /\ \/ /\ ~(n.state = "Candidate" /\ m.granted)
              /\ EndIteration(i, n, d, Without(i, j, k), Silence)
              /\ UNCHANGED <<elected, odd>>
           \/ /\ n.state = "Candidate" /\ m.granted
              /\ ~HasQuorum(i, v.votes)
              /\ EndIteration(i, v, d, Without(i, j, k), Silence)
              /\ odd' = odd \cup (IF m.term = n.term THEN {} ELSE {"stale vote"})
              /\ UNCHANGED elected
           \/ /\ n.state = "Candidate" /\ m.granted
              /\ HasQuorum(i, v.votes)
              /\ EndIteration(i, b, d, Without(i, j, k), ToPeers(b, i))
              /\ odd' = odd \cup (IF m.term = n.term THEN {} ELSE {"stale vote"})
              /\ elected' = elected \cup {Election(v, i)}
        /\ UNCHANGED <<granted, restarts, faults>>

-----------------------------------------------------------------------------
(* Replication                                                             *)

\* The heartbeat interval of a leader: send_heartbeats.
HeartbeatTick(i) ==
    /\ node[i].state = "Leader"
    /\ EndIteration(i, node[i], disk[i], net, ToPeers(node[i], i))
    /\ UNCHANGED <<granted, elected, odd, restarts, faults>>

\* handle_proposal, client_request.  (A proposal that reaches a server that is
\* not the leader is dropped.)
ClientRequest(i, c) ==
    LET n == [node[i] EXCEPT !.log = Append1(@, [term |-> node[i].term, command |-> c])]
    IN  /\ node[i].state = "Leader"
        /\ LastIndex(node[i].log) < MaxIndex
        /\ EndIteration(i, AdvanceCommit(n, i), disk[i], net, ToPeers(n, i))
        /\ UNCHANGED <<granted, elected, odd, restarts, faults>>

AppendReply(n, yes, k) ==
    [type |-> "AppendEntriesResponse", term |-> n.term, success |-> yes, match |-> k]

\* handle_append_entries once the term and the prev_log check are passed.
Accept(n, j, m) ==
    LET l == Merge(n.log, m.prevIndex, m.entries)
    IN  [Follow(n, j) EXCEPT
           !.log = l,
           !.commit = IF m.commit > @ THEN Smaller(m.commit, LastIndex(l)) ELSE @]

\* handle_append_entries
HandleAppendEntries(i, j, k) ==
    LET m == net[j][i][k]
        n == TermUpdate(node[i], m.term)
        d == TermUpdateSaved(disk[i], node[i], m.term)
        a == Accept(n, j, m)
    IN  /\ Takes(i, j, k, "AppendEntries")
        /\ \/ /\ m.term < n.term
              /\ EndIteration(i, n, d, Without(i, j, k), Reply(j, AppendReply(n, FALSE, 0)))
              /\ UNCHANGED odd
           \/ /\ m.term >= n.term
              /\ ~Matches(n.log, m.prevIndex, m.prevTerm)
              /\ EndIteration(i, Follow(n, j), d, Without(i, j, k),
                              Reply(j, AppendReply(n, FALSE, 0)))
              /\ UNCHANGED odd
           \/ /\ m.term >= n.term
              /\ Matches(n.log, m.prevIndex, m.prevTerm)
              /\ EndIteration(i, a, d, Without(i, j, k),
                              Reply(j, AppendReply(a, TRUE, LastIndex(a.log))))
              /\ odd' = odd \cup (IF LastIndex(a.log) =< m.prevIndex + Len(m.entries) THEN {}
                                 ELSE {"over-report"})
        /\ UNCHANGED <<granted, elected, restarts, faults>>

\* Fault: next_index is taken below 1.
FaultProgress(n, j, m) ==
    IF m.success THEN [n EXCEPT !.match[j] = m.match, !.next[j] = m.match + 1]
    ELSE [n EXCEPT !.next[j] = @ - 1]

\* Fault: a refusal changes nothing.
FaultRefused(n, j, m) ==
    IF m.success THEN [n EXCEPT !.match[j] = m.match, !.next[j] = m.match + 1] ELSE n

\* The leader's record of a peer after an AppendEntriesResponse.
Progress(n, j, m) ==
    IF m.success THEN [n EXCEPT !.match[j] = m.match, !.next[j] = m.match + 1]
    ELSE [n EXCEPT !.next[j] = IF @ > 1 THEN @ - 1 ELSE @]

\* handle_append_entries_response: a leader takes an answer of any earlier term.
HandleAppendEntriesResponse(i, j, k) ==
    LET m == net[j][i][k]
        n == TermUpdate(node[i], m.term)
        d == TermUpdateSaved(disk[i], node[i], m.term)
    IN  /\ Takes(i, j, k, "AppendEntriesResponse")
        /\ EndIteration(i, IF n.state = "Leader" THEN AdvanceCommit(Progress(n, j, m), i) ELSE n,
                        d, Without(i, j, k), Silence)
        /\ odd' = odd \cup (IF n.state = "Leader" /\ m.success /\ m.term # n.term
                               THEN {"stale ack"} ELSE {})
        /\ UNCHANGED <<granted, elected, restarts, faults>>

-----------------------------------------------------------------------------
(* Snapshots for lagging peers                                             *)

\* The chunks of one snapshot, all of them and in order.
Complete(b) ==
    \E image \in {b[c].image : c \in DOMAIN b} :
        b = [c \in 1..Chunks |-> [image |-> image, part |-> c]]

\* What restore may make of other chunks, if their bytes parse at all: up to some
\* point the snapshot of the first one, from there on that of the last one.
Mixtures(b) ==
    LET first == b[1].image
        last  == b[Len(b)].image
    IN  {SubSeq(first, 1, k) \o SubSeq(last, k + 1, Len(last)) : k \in 0..Len(first)}

\* pending_snapshot after a chunk: the first one starts it afresh, another one
\* is added to what is there, or skipped when nothing is.
Buffered(n, m) ==
    IF m.chunk.part = 1 THEN <<m.chunk>>
    ELSE IF n.buffer = <<>> THEN <<>>
    ELSE Append(n.buffer, m.chunk)

\* handle_install_snapshot, the last chunk: the log, then the state machine.
Installed(n, m) ==
    [n EXCEPT !.buffer = <<>>,
              !.log = IF TermAt(@, m.meta.index) = m.meta.term
                        THEN CompactTo(@, m.meta.index)
                        ELSE ResetToSnapshot(m.meta.index, m.meta.term)]

Restored(n, m) ==
    [Installed(n, m) EXCEPT
       !.machine = m.chunk.image,
       !.commit = Larger(@, m.meta.index), !.applied = Larger(@, m.meta.index),
       !.snap = [meta |-> m.meta, image |-> m.chunk.image]]

\* The log, and maybe the state machine, go back to before what was applied.
Regress(n, m) == IF m.meta.index >= n.applied THEN {} ELSE {"rollback"}

SnapshotReply(n) == [type |-> "InstallSnapshotResponse", term |-> n.term]

\* handle_install_snapshot
HandleInstallSnapshot(i, j, k) ==
    LET m == net[j][i][k]
        n == TermUpdate(node[i], m.term)
        d == TermUpdateSaved(disk[i], node[i], m.term)
        f == Follow(n, j)
        b == Buffered(n, m)
        last == m.chunk.part = Chunks /\ b # <<>>
    IN  /\ Takes(i, j, k, "InstallSnapshot")
        /\ \/ /\ m.term < n.term
              /\ EndIteration(i, n, d, Without(i, j, k), Reply(j, SnapshotReply(n)))
              /\ UNCHANGED odd
           \/ /\ m.term >= n.term /\ ~last
              /\ EndIteration(i, [f EXCEPT !.buffer = b], d, Without(i, j, k),
                              Reply(j, SnapshotReply(n)))
              /\ UNCHANGED odd
           \/ /\ m.term >= n.term /\ last /\ ~Complete(b)
              /\ EndIteration(i, Installed(f, m), d, Without(i, j, k), Silence)
              /\ odd' = odd \cup {"torn"} \cup Regress(n, m)
           \/ /\ m.term >= n.term /\ last /\ ~Complete(b)
              /\ \E image \in Mixtures(b) :
                    LET r == Restored(f, [m EXCEPT !.chunk.image = image])
                    IN  EndIteration(i, r, SnapshotSaved(d, r.snap), Without(i, j, k),
                                     Reply(j, SnapshotReply(n)))
              /\ odd' = odd \cup {"torn"} \cup Regress(n, m)
           \/ /\ m.term >= n.term /\ last /\ Complete(b)
              /\ EndIteration(i, Restored(f, m), SnapshotSaved(d, Restored(f, m).snap),
                              Without(i, j, k), Reply(j, SnapshotReply(n)))
              /\ odd' = odd \cup Regress(n, m)
        /\ UNCHANGED <<granted, elected, restarts, faults>>

\* handle_install_snapshot_response: the peer is taken to hold the leader's
\* current snapshot, whichever chunk of whichever snapshot is acknowledged.
HandleInstallSnapshotResponse(i, j, k) ==
    LET m == net[j][i][k]
        n == TermUpdate(node[i], m.term)
        d == TermUpdateSaved(disk[i], node[i], m.term)
        s == IF n.snap = Nil THEN n
             ELSE [n EXCEPT !.next[j] = n.snap.meta.index + 1, !.match[j] = n.snap.meta.index]
    IN  /\ Takes(i, j, k, "InstallSnapshotResponse")
        /\ EndIteration(i, IF n.state = "Leader" THEN AdvanceCommit(s, i) ELSE n,
                        d, Without(i, j, k), Silence)
        /\ UNCHANGED <<granted, elected, odd, restarts, faults>>

-----------------------------------------------------------------------------
(* Membership changes                                                      *)

CommittedInTerm(n) ==
    \E k \in 1..n.commit :
        /\ TermAt(n.log, k) = n.term
        /\ \A o \in k..n.commit : TermAt(n.log, o) = NoTerm \/ TermAt(n.log, o) >= n.term

\* ClusterMembership::begin_change, and the progress record of a new member.
BeginChange(n, c) ==
    LET k == LastIndex(n.log)
    IN  IF c.kind = "AddServer"
          THEN [n EXCEPT !.pending = [index |-> k, change |-> c], !.members = @ \cup {c.server},
                         !.next[c.server] = k + 1, !.match[c.server] = 0]
          ELSE [n EXCEPT !.pending = [index |-> k, change |-> c], !.members = @ \ {c.server}]

\* propose_membership_change: a no-op entry carries the change.
ProposeMembershipChange(i, c, noop) ==
    LET n == BeginChange([node[i] EXCEPT
               !.log = Append1(@, [term |-> node[i].term, command |-> noop])], c)
    IN  /\ node[i].state = "Leader"
        /\ node[i].pending = Nil
        /\ CommittedInTerm(node[i])
        /\ c.kind = "AddServer" <=> c.server \notin node[i].members
        /\ c.kind = "RemoveServer" => Cardinality(node[i].members) > 1
        /\ LastIndex(node[i].log) < MaxIndex
        /\ EndIteration(i, AdvanceCommit(n, i), disk[i], net, ToPeers(n, i))
        /\ UNCHANGED <<granted, elected, odd, restarts, faults>>

-----------------------------------------------------------------------------
(* What can go wrong outside the handlers                                  *)

\* A connection breaks with a message on it.
Lose(i, j) ==
    /\ Delivery = "breaking"
    /\ net[i][j] # <<>>
    /\ net' = [net EXCEPT ![i][j] = Tail(@)]
    /\ UNCHANGED <<node, disk, granted, elected, odd, restarts, faults>>

\* Server i stops with d on its disk and comes up again.
Reboot(i, d) ==
    /\ restarts < MaxRestarts
    /\ restarts' = restarts + 1
    /\ disk' = [disk EXCEPT ![i] = d]
    /\ node' = [node EXCEPT ![i] = Boot(i, d)]
    /\ UNCHANGED <<granted, elected, odd, faults>>

\* A crash between two iterations.
Restart(i) == Reboot(i, disk[i]) /\ UNCHANGED net

\* A crash inside handle_term_update, after save_term or after save_voted_for.
CrashInTermUpdate(i, j, k) ==
    /\ k \in Deliverable(i, j)
    /\ net[j][i][k].term > node[i].term
    /\ \E d \in {TermSaved(disk[i], net[j][i][k].term),
                 VoteSaved(TermSaved(disk[i], net[j][i][k].term), Nil)} : Reboot(i, d)
    /\ net' = Without(i, j, k)

\* A crash inside start_election, after save_term or after save_voted_for.
CrashInElection(i) ==
    /\ MayCampaign(i)
    /\ \E d \in {TermSaved(disk[i], node[i].term + 1),
                 VoteSaved(TermSaved(disk[i], node[i].term + 1), i)} : Reboot(i, d)
    /\ UNCHANGED net

\* A crash inside handle_request_vote, after the vote is saved.
CrashInVote(i, j, k) ==
    LET m == net[j][i][k]
    IN  /\ Takes(i, j, k, "RequestVote")
        /\ Grants(TermUpdate(node[i], m.term), j, m)
        /\ Reboot(i, VoteSaved(TermUpdateSaved(disk[i], node[i], m.term), j))
        /\ net' = Without(i, j, k)

\* A crash inside handle_install_snapshot, between snapshot.bin and snapshot.meta.
CrashInInstall(i, j, k) ==
    LET m == net[j][i][k]
        b == Buffered(TermUpdate(node[i], m.term), m)
        d == TermUpdateSaved(disk[i], node[i], m.term)
    IN  /\ Takes(i, j, k, "InstallSnapshot")
        /\ m.term >= node[i].term
        /\ m.chunk.part = Chunks /\ b # <<>> /\ Complete(b)
        /\ Reboot(i, [d EXCEPT !.bin = m.chunk.image])
        /\ net' = Without(i, j, k)

\* A write fails and the handler stops there: what it changed in memory stays.
Fail(i, n, d, w, departures) ==
    /\ faults < MaxFaults
    /\ faults' = faults + 1
    /\ EndIteration(i, n, d, w, Silence)
    /\ odd' = odd \cup departures
    /\ UNCHANGED <<granted, elected, restarts>>

\* save_term, or save_voted_for after it, fails in handle_term_update.
TermUpdateFails(i, j, k) ==
    LET m == net[j][i][k]
    IN  /\ k \in Deliverable(i, j)
        /\ m.term > node[i].term
        /\ \E d \in {disk[i], TermSaved(disk[i], m.term)} :
              Fail(i, TermUpdate(node[i], m.term), d, Without(i, j, k), {})

\* save_term, or save_voted_for after it, fails in start_election.
ElectionFails(i) ==
    /\ MayCampaign(i)
    /\ \E d \in {disk[i], TermSaved(disk[i], node[i].term + 1)} :
          Fail(i, Campaign(node[i], i), d, net, {})

\* save_voted_for fails for a vote that would be granted.
VoteFails(i, j, k) ==
    LET m == net[j][i][k]
        n == TermUpdate(node[i], m.term)
    IN  /\ Takes(i, j, k, "RequestVote")
        /\ Grants(n, j, m)
        /\ Fail(i, [n EXCEPT !.vote = j], TermUpdateSaved(disk[i], node[i], m.term),
                Without(i, j, k), {})

\* save_snapshot fails in handle_install_snapshot: the log and the state machine
\* are already those of the snapshot, the indices stay.
InstallFails(i, j, k) ==
    LET m == net[j][i][k]
        n == TermUpdate(node[i], m.term)
        b == Buffered(n, m)
    IN  /\ Takes(i, j, k, "InstallSnapshot")
        /\ m.term >= n.term
        /\ m.chunk.part = Chunks /\ b # <<>> /\ Complete(b)
        /\ \E d \in SaveFailed(TermUpdateSaved(disk[i], node[i], m.term), m.chunk.image) :
              Fail(i, [Installed(Follow(n, j), m) EXCEPT !.machine = m.chunk.image], d,
                   Without(i, j, k), Regress(n, m))

Receive(i, j, k) ==
    \/ HandleRequestVote(i, j, k) \/ HandleRequestVoteResponse(i, j, k)
    \/ HandleAppendEntries(i, j, k) \/ HandleAppendEntriesResponse(i, j, k)
    \/ HandleInstallSnapshot(i, j, k) \/ HandleInstallSnapshotResponse(i, j, k)

Disturb(i, j, k) ==
    \/ CrashInTermUpdate(i, j, k) \/ CrashInVote(i, j, k) \/ CrashInInstall(i, j, k)
    \/ TermUpdateFails(i, j, k) \/ VoteFails(i, j, k) \/ InstallFails(i, j, k)

Next ==
    \E i \in Server :
        \/ StartElection(i)
        \/ HeartbeatTick(i)
        \/ \E c \in Proposes[i] : ClientRequest(i, c)
        \/ \E c \in Changes, noop \in Proposes[i] : ProposeMembershipChange(i, c, noop)
        \/ Restart(i) \/ CrashInElection(i) \/ ElectionFails(i)
        \/ \E j \in Server \ {i} :
              \/ Lose(i, j)
              \/ \E k \in Deliverable(i, j) : Receive(i, j, k) \/ Disturb(i, j, k)

Spec == Init /\ [][Next]_vars

-----------------------------------------------------------------------------
(* Properties                                                              *)

\* A server gives at most one candidate its vote in a term.
NoDoubleVote == \A a, b \in granted : a.voter = b.voter /\ a.term = b.term => a = b

\* ... across crashes between any two writes, because save_term and
\* save_voted_for come before the reply, and across failed writes, because the
\* memory still knows; only both together break it.
VoteOnce == faults = 0 \/ restarts = 0 => NoDoubleVote

\* A server's term never goes back, restarts included, unless a write failed.
TermNeverDecreases ==
    [][faults' = 0 => \A i \in Server : node'[i].term >= node[i].term]_vars

\* SafeWithoutDepartures across restarts: what a majority has acknowledged is on disk.
SafeAcrossRestarts == odd = {} /\ faults = 0 => MachinesAgree

\* Every committed command is applied exactly once and in order: the state
\* machine has seen as many commands as last_applied says.
AppliedMatchesMachine == \A i \in Server : Len(node[i].machine) = node[i].applied

\* A snapshot holds what its metadata says, in memory as on the way to a peer,
\* and the log starts no later than the state machine stopped, so that nothing
\* is ever skipped: as long as no server restarted, no write failed in a handler
\* and no departure happened.  A snapshot of its own that a server cannot save
\* does no harm.
SnapshotsFaithful ==
    odd = {} /\ restarts = 0 /\ faults = 0 =>
        /\ AppliedMatchesMachine
        /\ MachinesAgree
        /\ \A i \in Server :
              /\ node[i].log.offset =< node[i].applied
              /\ node[i].snap # Nil => Len(node[i].snap.image) = node[i].snap.meta.index

\* A leader's match_index never exceeds what the peer's log shares with its own
\* (given one leader per term).
MatchIndexSound ==
    "stale vote" \notin odd => \A i, j \in Server :
        node[i].state = "Leader" /\ node[j].term = node[i].term =>
            \A k \in 1..node[i].match[j] :
                k =< LastIndex(node[j].log) /\ Agree(node[i].log, node[j].log, k)

\* A server that is elected has been given the votes of a majority, in that
\* term, of the cluster it was started with.
ElectedByMajority ==
    \A e \in elected :
        HasQuorum(e.leader,
                  {v \in Server : [voter |-> v, term |-> e.term, candidate |-> e.leader] \in granted})

\* ... which the code guarantees as long as no vote of another term is counted.
MajorityElected == "stale vote" \notin odd => ElectedByMajority

\* A server that is elected has been given the votes of a majority of the members
\* it knew when it was.
ElectedByMembers ==
    \A e \in elected :
        Cardinality({v \in e.members :
                       [voter |-> v, term |-> e.term, candidate |-> e.leader] \in granted})
            >= Cardinality(e.members) \div 2 + 1

\* A change of membership is in progress only on the leader that proposed it, and
\* it sits above everything that leader has committed (given that no snapshot
\* took the log back).
PendingOnLeader ==
    "rollback" \notin odd => \A i \in Server : node[i].pending # Nil =>
        /\ node[i].state = "Leader"
        /\ node[i].commit < node[i].pending.index
        /\ node[i].pending.index =< LastIndex(node[i].log)
=============================================================================
