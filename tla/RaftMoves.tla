------------------------------ MODULE RaftMoves ------------------------------
(***************************************************************************)
(* What a step of RaftNode does to the logs, the commit indices, the votes *)
(* and the messages about them, as long as no log has been compacted.      *)
(* Move(i) is a step of server i; RaftMoveProofs shows that every step of  *)
(* RaftNode is one, RaftLogProofs and RaftCommitProofs what follows.       *)
(***************************************************************************)
EXTENDS RaftState

-----------------------------------------------------------------------------
(* Pieces of a log                                                         *)

\* What comes after a point, given by its index and its term: a whole log is a
\* piece, and so is what an AppendEntries carries.
Piece == {p \in [prev : Nat, term : Nat, entries : Seq(Entry)] : p.prev = 0 => p.term = 0}

Whole(l) == [prev |-> 0, term |-> 0, entries |-> l.entries]
Sent(m)  == [prev |-> m.prevIndex, term |-> m.prevTerm, entries |-> m.entries]

Has(P, k)    == P.prev < k /\ k =< P.prev + Len(P.entries)
At(P, k)     == P.entries[k - P.prev]
Knows(P, k)  == k = P.prev \/ Has(P, k)
TermOf(P, k) == IF k = P.prev THEN P.term ELSE At(P, k).term

\* What M has, it has from L.  (A term of 0 is that of an index L does not hold.)
Part(M, L) ==
    /\ M.term # 0 => Has(L, M.prev) /\ At(L, M.prev).term = M.term
    /\ \A k \in Nat : Has(M, k) =>
          /\ Has(L, k) /\ At(M, k) = At(L, k)
          /\ Knows(L, M.prev) /\ TermOf(L, M.prev) = M.term

-----------------------------------------------------------------------------
(* Messages                                                                *)

Carries(w, p, q) == {w[p][q][x] : x \in 1..Len(w[p][q])}

Mail(w) == UNION {Carries(w, p, q) : p \in Server, q \in Server}

\* No log has been compacted, so no server has sent a snapshot.
Uncompacted == \A i \in Server : node[i].log.offset = 0
NoSnapshots == \A m \in Mail(net) : m.type \notin {"InstallSnapshot", "InstallSnapshotResponse"}

-----------------------------------------------------------------------------
(* Steps                                                                   *)

\* The state machine takes what has been committed.
Applies(i) ==
    \/ node'[i] = node[i]
    \/ /\ node'[i].commit =< node[i].applied
       /\ node'[i].applied = node[i].applied /\ node'[i].machine = node[i].machine
    \/ /\ node[i].applied < node'[i].commit
       /\ node'[i].applied = node'[i].commit
       /\ LET es == SubSeq(node'[i].log.entries, node[i].applied + 1,
                           Smaller(node'[i].commit, LastIndex(node'[i].log)))
          IN  node'[i].machine = node[i].machine \o [k \in 1..Len(es) |-> es[k].command]

SelfVote(i, t) == [voter |-> i, term |-> t, candidate |-> i]

\* The log stays, and the server goes on as it was or becomes a follower.  It may
\* give a candidate its vote.
Stays(i) ==
    /\ node'[i].log = node[i].log /\ node'[i].commit = node[i].commit
    /\ \/ /\ node'[i].term = node[i].term /\ node'[i].state = node[i].state
          /\ node'[i].match = node[i].match
       \/ node'[i].term >= node[i].term /\ node'[i].state = "Follower"
    /\ elected' = elected
    /\ \/ granted' = granted
       \/ \E j \in Server : \E m \in Carries(net, j, i) :
             /\ m.type = "RequestVote" /\ m.term = node'[i].term
             /\ UpToDate(m, node[i].log)
             /\ granted' = granted \cup {[voter |-> i, term |-> m.term, candidate |-> j]}

Stands(i) ==
    /\ node'[i].log = node[i].log /\ node'[i].commit = node[i].commit
    /\ node'[i].term = node[i].term + 1 /\ node'[i].state = "Candidate"
    /\ elected' = elected
    /\ granted \subseteq granted' /\ granted' \subseteq granted \cup {SelfVote(i, node'[i].term)}

Wins(i) ==
    /\ node'[i].log = node[i].log /\ node'[i].commit = node[i].commit
    /\ node'[i].state = "Leader" /\ node'[i].match = [p \in Server |-> 0]
    /\ \E e \in elected' :
          /\ e.term = node'[i].term /\ e.leader = i /\ e.log = node[i].log
          /\ elected' = elected \cup {e}
    /\ \/ /\ node[i].state = "Candidate" /\ node'[i].term = node[i].term
          /\ granted' = granted
       \/ /\ node'[i].term = node[i].term + 1
          /\ granted' = granted \cup {SelfVote(i, node'[i].term)}

\* A leader commits what its own log and the acknowledgements in acks allow.
Commits(i, acks) ==
    \/ node'[i].commit = node[i].commit
    \/ /\ node'[i].commit > node[i].commit /\ node'[i].commit =< LastIndex(node'[i].log)
       /\ TermAt(node'[i].log, node'[i].commit) = node'[i].term
       /\ 1 + Cardinality({p \in Server : acks[p] >= node'[i].commit})
             >= Cardinality(node'[i].members) \div 2 + 1

\* What a leader remembers of the acknowledgements in acks.
Remembers(i, acks) == \A p \in Server : node'[i].match[p] \in {0, acks[p]}

LeaderStays(i) ==
    /\ node[i].state = "Leader" /\ node'[i].state \in {"Leader", "Follower"}
    /\ node'[i].term = node[i].term
    /\ elected' = elected /\ granted' = granted

Grows(i) ==
    /\ LeaderStays(i)
    /\ \E c \in Command : node'[i].log = Append1(node[i].log, [term |-> node[i].term, command |-> c])
    /\ Commits(i, node[i].match) /\ Remembers(i, node[i].match)

\* What server i may send to p in a step.
Posted(i, p, m) ==
    /\ m \in Message
    /\ m.term = node'[i].term
    /\ m.type \notin {"InstallSnapshot", "InstallSnapshotResponse"}
    /\ m.type = "RequestVote" =>
          /\ node'[i].state = "Candidate"
          /\ m.lastIndex = LastIndex(node'[i].log) /\ m.lastTerm = LastTerm(node'[i].log)
    /\ m.type = "AppendEntries" =>
          /\ Sent(m) \in Piece /\ Part(Sent(m), Whole(node'[i].log))
          /\ m.commit =< node'[i].commit
          /\ node'[i].state = "Leader" \/ Grows(i)
    /\ m.type = "AppendEntriesResponse" /\ m.success => m.match = LastIndex(node'[i].log)

MailMoves(i) ==
    \A p, q \in Server : \A m \in Carries(net', p, q) :
        m \in Carries(net, p, q) \/ (p = i /\ Posted(i, q, m))

Counts(i) ==
    /\ LeaderStays(i)
    /\ node'[i].log = node[i].log
    /\ \E j \in Server \ {i} : \E m \in Carries(net, j, i) :
          LET acks == IF m.success THEN [node[i].match EXCEPT ![j] = m.match] ELSE node[i].match
          IN  /\ m.type = "AppendEntriesResponse"
              /\ m.success /\ m.term # node'[i].term => "stale ack" \in odd'
              /\ Commits(i, acks) /\ Remembers(i, acks)

Learns(i) ==
    /\ node'[i].state = "Follower" /\ node'[i].term >= node[i].term
    /\ elected' = elected /\ granted' = granted
    /\ \E j \in Server : \E m \in Carries(net, j, i) :
          /\ m.type = "AppendEntries" /\ m.term = node'[i].term
          /\ Matches(node[i].log, m.prevIndex, m.prevTerm)
          /\ node'[i].log = Merge(node[i].log, m.prevIndex, m.entries)
          /\ node'[i].commit = IF m.commit > node[i].commit
                                 THEN Smaller(m.commit, LastIndex(node'[i].log))
                                 ELSE node[i].commit
          /\ \/ LastIndex(node'[i].log) =< m.prevIndex + Len(m.entries)
             \/ "over-report" \in odd'
          /\ \A q \in Server : \A a \in Carries(net', i, q) :
                a.type = "AppendEntriesResponse" => a \in Carries(net, i, q) \/ q = j

\* Only an accepted AppendEntries is acknowledged.
Acknowledges(i) ==
    \/ Learns(i)
    \/ \A q \in Server : \A a \in Carries(net', i, q) :
          a.type = "AppendEntriesResponse" /\ a.success => a \in Carries(net, i, q)

Restarts(i) ==
    /\ restarts' > 0
    /\ node'[i].state = "Follower" /\ node'[i].log.entries = <<>>
    /\ elected' = elected /\ granted' = granted

Move(i) ==
    /\ \A j \in Server \ {i} : node'[j] = node[j]
    /\ MailMoves(i) /\ Acknowledges(i)
    /\ odd \subseteq odd'
    /\ \/ /\ Stays(i) \/ Stands(i) \/ Wins(i) \/ Grows(i) \/ Counts(i) \/ Learns(i)
          /\ Applies(i)
          /\ Changes = {} => node'[i].members = node[i].members
       \/ Restarts(i)

\* Nothing has happened yet.
Fresh ==
    /\ \A i \in Server : /\ node[i].log = EmptyLog /\ node[i].state = "Follower"
                         /\ node[i].members = Peers[i] \cup {i} /\ node[i].pending = Nil
                         /\ node[i].commit = 0 /\ node[i].applied = 0 /\ node[i].machine = <<>>
    /\ elected = {} /\ granted = {}
    /\ \A p, q \in Server : Carries(net, p, q) = {}
=============================================================================
