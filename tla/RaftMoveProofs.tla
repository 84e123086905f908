-------------------------- MODULE RaftMoveProofs --------------------------
(***************************************************************************)
(* As long as no log is compacted, every step of RaftNode is a Move of     *)
(* RaftMoves: what each handler, and the end of each iteration of the      *)
(* event loop, does to the logs, the state machines and the messages.      *)
(***************************************************************************)
EXTENDS RaftTypeProofs

USE Zenon

-----------------------------------------------------------------------------
(* What the pieces of the handlers do to a log                             *)

\* The log and the state machine are left alone, and so is the membership
\* unless a change of it is pending.
Carried(n, a) ==
    /\ a \in NodeState
    /\ a.log = n.log /\ a.commit = n.commit /\ a.applied = n.applied /\ a.machine = n.machine
    /\ n.pending = Nil => a.members = n.members /\ a.pending = Nil

LEMMA TermUpdateCarries ==
  ASSUME NEW n \in NodeState, NEW t \in Nat
  PROVE  /\ Carried(n, TermUpdate(n, t))
         /\ \/ t =< n.term /\ TermUpdate(n, t) = n
            \/ /\ t > n.term /\ TermUpdate(n, t).term = t /\ TermUpdate(n, t).state = "Follower"
<1>1. CASE t =< n.term
  BY <1>1 DEF TermUpdate, Carried
<1>2. CASE ~(t =< n.term)
  <2> DEFINE r == RollbackChange(n)
             u == TermUpdate(n, t)
  <2>1. r \in NodeState
    BY KeepsRollback DEF Keeps
  <2>2. /\ r.log = n.log /\ r.commit = n.commit /\ r.applied = n.applied /\ r.machine = n.machine
        /\ n.pending = Nil => r = n
    BY Zenon DEF RollbackChange, NodeState
  <2>3. u = [r EXCEPT !.term = t, !.vote = Nil, !.state = "Follower", !.votes = {},
                      !.next = NoNext, !.match = NoMatch]
    BY <1>2, Zenon DEF TermUpdate
  <2> HIDE DEF r
  <2>4. /\ u.log = r.log /\ u.commit = r.commit /\ u.applied = r.applied /\ u.machine = r.machine
        /\ u.members = r.members /\ u.pending = r.pending
    BY <2>1, <2>3, Zenon DEF NodeState
  <2>5. u \in NodeState /\ t > n.term /\ u.term = t /\ u.state = "Follower"
    <3>1. n.term \in Nat
      BY NodeFacts
    <3>2. t > n.term
      BY SMTT(60), <1>2, <3>1
    <3> QED
      BY <3>2, TermUpdateType
  <2> QED
    BY <2>2, <2>4, <2>5 DEF Carried
<1> QED
  BY <1>1, <1>2

LEMMA FollowCarries ==
  ASSUME NEW n \in NodeState, NEW j \in Server
  PROVE  /\ Carried(n, Follow(n, j))
         /\ Follow(n, j).state = "Follower" /\ Follow(n, j).term = n.term
<1>1. Follow(n, j) \in NodeState
  BY KeepsFollow DEF Keeps
<1> QED
  BY <1>1, Zenon DEF Carried, Follow, NodeState

LEMMA CampaignCarries ==
  ASSUME NEW n \in NodeState, NEW i \in Server
  PROVE  /\ Carried(n, Campaign(n, i))
         /\ Campaign(n, i).state = "Candidate" /\ Campaign(n, i).term = n.term + 1
<1>1. Campaign(n, i) \in NodeState
  BY CampaignType
<1> QED
  BY <1>1, Zenon DEF Carried, Campaign, NodeState

LEMMA BecomeLeaderCarries ==
  ASSUME NEW n \in NodeState, NEW i \in Server
  PROVE  LET b == BecomeLeader(n, i)
         IN  /\ Carried(n, b)
             /\ b.state = "Leader" /\ b.term = n.term /\ b.match = NoMatch
<1>1. BecomeLeader(n, i) \in NodeState
  BY KeepsBecomeLeader DEF Keeps
<1> QED
  BY <1>1, Zenon DEF Carried, BecomeLeader, NodeState

LEMMA VoteCarries ==
  ASSUME NEW n \in NodeState, NEW j \in Server
  PROVE  LET v == [n EXCEPT !.vote = j]
             w == [n EXCEPT !.votes = @ \cup {j}]
         IN  /\ Carried(n, v) /\ v.state = n.state /\ v.term = n.term /\ v.match = n.match
             /\ Carried(n, w) /\ w.state = n.state /\ w.term = n.term /\ w.match = n.match
<1>1. n.votes \cup {j} \in SUBSET Server
  BY NodeFacts
<1> QED
  BY <1>1, Zenon DEF Carried, NodeState

-----------------------------------------------------------------------------
(* An iteration of the event loop                                          *)

Outgoing(out, q) == {out[q][x] : x \in 1..Len(out[q])}

\* Server i comes out of an iteration with the state n but for what it has applied,
\* and out is all that it sent.
Iteration(i, n, out) ==
    /\ \A j \in Server \ {i} : node'[j] = node[j]
    /\ node'[i].term = n.term /\ node'[i].state = n.state
    /\ node'[i].log = n.log /\ node'[i].commit = n.commit /\ node'[i].match = n.match
    /\ node'[i].members = n.members /\ node'[i].pending = n.pending
    /\ Applies(i)
    /\ \A p, q \in Server : \A m \in Carries(net', p, q) :
          m \in Carries(net, p, q) \/ (p = i /\ m \in Outgoing(out, q))

\* Nothing is on its way in w that is not in net.
Within(w) == w \in Net /\ \A p, q \in Server : Carries(w, p, q) \subseteq Carries(net, p, q)

LEMMA SentMail ==
  ASSUME NEW i \in Server, NEW w, Within(w), NEW out \in Outbox, NEW to, net' = Sends(w, i, out, to),
         NEW p \in Server, NEW q \in Server, NEW m \in Carries(net', p, q)
  PROVE  m \in Carries(net, p, q) \/ (p = i /\ m \in Outgoing(out, q))
<1>1. /\ w[i] \in [Server -> Seq(Message)] /\ w \in [Server -> [Server -> Seq(Message)]]
      /\ out \in [Server -> Seq(Message)]
  BY DEF Within, Net, Outbox
<1>2. PICK x \in 1..Len(net'[p][q]) : m = net'[p][q][x]
  BY DEF Carries
<1>3. net'[p][q] = IF p = i /\ q \in to THEN w[i][q] \o out[q] ELSE w[p][q]
  BY <1>1 DEF Sends
<1>4. CASE ~(p = i /\ q \in to)
  <2>1. m \in Carries(w, p, q)
    BY <1>2, <1>3, <1>4, Zenon DEF Carries
  <2> QED
    BY <2>1 DEF Within
<1>5. CASE p = i /\ q \in to
  <2> DEFINE a == w[i][q]
             b == out[q]
  <2>1. a \in Seq(Message) /\ b \in Seq(Message)
    BY <1>1
  <2>2. m = (a \o b)[x] /\ x \in 1..Len(a \o b)
    BY <1>2, <1>3, <1>5, Zenon
  <2> HIDE DEF a, b
  <2>3. Len(a) \in Nat /\ Len(b) \in Nat
    BY <2>1, LenProperties
  <2>4. Len(a \o b) = Len(a) + Len(b)
    BY <2>1, ConcatProperties
  <2>5. CASE x =< Len(a)
    <3>1. m = a[x] /\ x \in 1..Len(a)
      BY SMTT(60), <2>1, <2>2, <2>3, <2>4, <2>5
    <3>2. m \in Carries(w, p, q)
      BY <1>5, <3>1 DEF Carries, a
    <3> QED
      BY <3>2 DEF Within
  <2>6. CASE x > Len(a)
    <3>1. m = b[x - Len(a)] /\ x - Len(a) \in 1..Len(b)
      BY SMTT(60), <2>1, <2>2, <2>3, <2>4, <2>6
    <3> QED
      BY <1>5, <3>1 DEF Outgoing, b
  <2> QED
    BY SMTT(60), <2>2, <2>3, <2>4, <2>5, <2>6
<1> QED
  BY <1>4, <1>5

\* Nothing is applied and no log is compacted, or the state machine goes on.
LEMMA Iterated ==
  ASSUME TypeOK, Uncompacted', NEW i \in Server, NEW n \in NodeState, n.log.offset = 0,
         n.applied = node[i].applied, n.machine = node[i].machine, NEW d, NEW w, Within(w),
         NEW out \in Outbox, EndIteration(i, n, d, w, out)
  PROVE  Iteration(i, n, out)
<1> DEFINE a == ApplyCommitted(n)
<1>0. PICK v \in {a, MaybeSnapshot(a)} : node' = [node EXCEPT ![i] = v]
  BY Zenon DEF EndIteration
<1>1. /\ node' = [node EXCEPT ![i] = v]
      /\ \E to \in Reachable(w, i, out) : net' = Sends(w, i, out, to)
  BY <1>0, Zenon DEF EndIteration
<1>2. node'[i] = v /\ \A j \in Server \ {i} : node'[j] = node[j]
  BY <1>1 DEF TypeOK
<1>3. a \in NodeState
  BY KeepsApply DEF Keeps
<1>4. /\ a.term = n.term /\ a.state = n.state /\ a.log = n.log /\ a.commit = n.commit
      /\ a.match = n.match /\ a.members = n.members /\ a.pending = n.pending
  BY Zenon DEF ApplyCommitted, NodeState
<1>5. n.log \in Log /\ n.applied \in Nat /\ n.commit \in Nat
  BY NodeFacts
<1>6. /\ v.term = a.term /\ v.state = a.state /\ v.log = a.log /\ v.commit = a.commit
      /\ v.match = a.match /\ v.members = a.members /\ v.pending = a.pending
      /\ v.applied = a.applied /\ v.machine = a.machine
  <2> HIDE DEF a
  <2>1. CASE ~TakesSnapshot(a) \/ v = a
    BY <1>0, <2>1 DEF MaybeSnapshot
  <2>2. CASE TakesSnapshot(a) /\ v = MaybeSnapshot(a)
    <3>1. v = [a EXCEPT !.snap = SnapshotOf(a), !.log = CompactTo(a.log, a.applied)]
      BY <2>2, Zenon DEF MaybeSnapshot
    <3>2. /\ v.term = a.term /\ v.state = a.state /\ v.log = CompactTo(a.log, a.applied)
          /\ v.commit = a.commit /\ v.match = a.match /\ v.members = a.members
          /\ v.pending = a.pending /\ v.applied = a.applied /\ v.machine = a.machine
      BY <1>3, <3>1, Zenon DEF NodeState
    <3>3. v.log = a.log
      <4>1. v.log.offset = 0 /\ a.applied > 0
        BY <1>2, <2>2 DEF Uncompacted, TakesSnapshot
      <4> QED
        BY SMTT(60), <3>2, <4>1 DEF CompactTo
    <3> QED
      BY <3>2, <3>3
  <2> QED
    BY <1>0, <2>1, <2>2
<1>7. Applies(i)
  <2>1. CASE n.applied >= n.commit
    <3>1. a = n
      BY <2>1 DEF ApplyCommitted
    <3> HIDE DEF a
    <3> QED
      BY <1>2, <1>5, <1>6, <2>1, <3>1, Zenon DEF Applies
  <2>2. CASE ~(n.applied >= n.commit)
    <3> DEFINE es == SubSeq(n.log.entries, n.applied + 1, Smaller(n.commit, LastIndex(n.log)))
    <3>1. LastIndex(n.log) \in Nat
      BY <1>5, LogFacts
    <3>2. /\ Larger(n.applied, n.log.offset) + 1 - n.log.offset = n.applied + 1
          /\ Smaller(n.commit, LastIndex(n.log)) - n.log.offset = Smaller(n.commit, LastIndex(n.log))
      BY SMTT(60), <1>5, <3>1 DEF Larger, Smaller
    <3>3. a = [n EXCEPT !.applied = n.commit, !.machine = @ \o [k \in 1..Len(es) |-> es[k].command]]
      BY <2>2, <3>2, Zenon DEF ApplyCommitted
    <3> HIDE DEF es
    <3>4. a.applied = n.commit /\ a.machine = n.machine \o [k \in 1..Len(es) |-> es[k].command]
      BY <3>3, Zenon DEF NodeState
    <3>5. node[i].applied < node'[i].commit /\ node'[i].applied = node'[i].commit
      <4> HIDE DEF a
      <4> QED
        BY SMTT(60), <1>2, <1>4, <1>5, <1>6, <2>2, <3>4
    <3>6. es = SubSeq(node'[i].log.entries, node[i].applied + 1, Smaller(node'[i].commit, LastIndex(node'[i].log)))
      <4> HIDE DEF a
      <4> QED
        BY <1>2, <1>4, <1>6 DEF es
    <3>7. node'[i].machine = node[i].machine \o [k \in 1..Len(es) |-> es[k].command]
      <4> HIDE DEF a
      <4> QED
        BY <1>2, <1>6, <3>4
    <3> HIDE DEF a
    <3> QED
      BY <3>5, <3>6, <3>7, Zenon DEF Applies
  <2> QED
    BY <2>1, <2>2
<1>8. \A p, q \in Server : \A m \in Carries(net', p, q) :
         m \in Carries(net, p, q) \/ (p = i /\ m \in Outgoing(out, q))
  BY <1>1, SentMail
<1> HIDE DEF a
<1> QED
  BY <1>2, <1>4, <1>6, <1>7, <1>8 DEF Iteration

-----------------------------------------------------------------------------
(* What a server sends                                                     *)

LEMMA TakenMail ==
  ASSUME TypeOK, NEW i \in Server, NEW j \in Server, NEW k \in Deliverable(i, j)
  PROVE  Within(Without(i, j, k)) /\ net[j][i][k] \in Carries(net, j, i)
<1>1. net \in Net
  BY DEF TypeOK, Net, Outbox
<1>2. k \in 1..Len(net[j][i]) /\ Without(i, j, k) \in Net
  BY <1>1, DeliverableIndex, WithoutType
<1>3. net[j][i] \in Seq(Message)
  BY <1>1 DEF Net, Outbox
<1> DEFINE s == net[j][i]
           a == SubSeq(s, 1, k - 1)
           b == SubSeq(s, k + 1, Len(s))
<1>4. Without(i, j, k)[j][i] = a \o b
  BY <1>1, Zenon DEF Without, Net, Outbox
<1>5. \A p, q \in Server : ~(p = j /\ q = i) => Without(i, j, k)[p][q] = net[p][q]
  BY <1>1 DEF Without, Net, Outbox
<1>6. ASSUME NEW x \in 1..Len(a \o b) PROVE \E y \in 1..Len(s) : (a \o b)[x] = s[y]
  <2> HIDE DEF s
  <2>1. s \in Seq(Message) /\ k \in 1..Len(s) /\ Len(s) \in Nat
    BY <1>2, <1>3, LenProperties DEF s
  <2>2. /\ a \in Seq(Message) /\ Len(a) = k - 1
        /\ \A o \in 1..(k - 1) : a[o] = s[o]
    BY SMTT(60), <2>1
  <2>3. /\ b \in Seq(Message) /\ Len(b) = Len(s) - k
        /\ \A o \in 1..(Len(s) - k) : b[o] = s[k + o]
    BY SMTT(60), <2>1
  <2> HIDE DEF a, b
  <2>4. /\ Len(a \o b) = Len(a) + Len(b)
        /\ \A o \in 1..(Len(a) + Len(b)) : (a \o b)[o] = IF o <= Len(a) THEN a[o] ELSE b[o - Len(a)]
    BY <2>2, <2>3, ConcatProperties, Zenon
  <2>5. x \in 1..(Len(a) + Len(b))
    BY <1>6, <2>4
  <2>6. CASE x =< Len(a)
    <3>1. (a \o b)[x] = s[x] /\ x \in 1..Len(s)
      BY SMTT(60), <2>1, <2>2, <2>4, <2>5, <2>6
    <3> QED
      BY <3>1
  <2>7. CASE x > Len(a)
    <3>1. (a \o b)[x] = b[x - Len(a)] /\ x - Len(a) \in 1..(Len(s) - k)
      BY SMTT(60), <2>1, <2>2, <2>3, <2>4, <2>5, <2>7
    <3>2. b[x - Len(a)] = s[k + (x - Len(a))] /\ k + (x - Len(a)) \in 1..Len(s)
      BY SMTT(60), <2>1, <2>2, <2>3, <3>1
    <3> QED
      BY <3>1, <3>2
  <2> QED
    BY SMTT(60), <2>1, <2>2, <2>5, <2>6, <2>7
<1>7. \A p, q \in Server : Carries(Without(i, j, k), p, q) \subseteq Carries(net, p, q)
  <2> HIDE DEF a, b, s
  <2> SUFFICES ASSUME NEW p \in Server, NEW q \in Server, NEW m \in Carries(Without(i, j, k), p, q)
               PROVE  m \in Carries(net, p, q)
    OBVIOUS
  <2>1. PICK x \in 1..Len(Without(i, j, k)[p][q]) : m = Without(i, j, k)[p][q][x]
    BY DEF Carries
  <2>2. \E y \in 1..Len(net[p][q]) : m = net[p][q][y]
    <3>1. CASE p = j /\ q = i
      BY <1>4, <1>6, <2>1, <3>1 DEF s
    <3>2. CASE ~(p = j /\ q = i)
      BY <1>5, <2>1, <3>2
    <3> QED
      BY <3>1, <3>2
  <2> QED
    BY <2>2 DEF Carries
<1> QED
  BY <1>2, <1>7, Zenon DEF Within, Carries

LEMMA AllMail ==
  ASSUME TypeOK
  PROVE  Within(net)
  BY DEF TypeOK, Within, Net, Outbox

LEMMA SilentOut ==
  ASSUME NEW q \in Server
  PROVE  Outgoing(Silence, q) = {}
  BY SMTT(60) DEF Outgoing, Silence

LEMMA ReplyOut ==
  ASSUME NEW j \in Server, NEW m, NEW q \in Server
  PROVE  Outgoing(Reply(j, m), q) = IF q = j THEN {m} ELSE {}
  BY SMTT(60) DEF Outgoing, Reply

LEMMA RequestsOut ==
  ASSUME NEW n \in NodeState, NEW i \in Server, NEW q \in Server, NEW m \in Outgoing(VoteRequests(n, i), q)
  PROVE  /\ m \in Message /\ m.type = "RequestVote" /\ m.term = n.term
         /\ m.lastIndex = LastIndex(n.log) /\ m.lastTerm = LastTerm(n.log)
<1> DEFINE r == [type |-> "RequestVote", term |-> n.term,
                 lastIndex |-> LastIndex(n.log), lastTerm |-> LastTerm(n.log)]
<1>1. r \in Message
  BY NodeFacts, LogFacts DEF Message
<1>2. VoteRequests(n, i)[q] \in {<<r>>, <<>>}
  BY DEF VoteRequests
<1> HIDE DEF r
<1>3. m = r
  BY SMTT(60), <1>2 DEF Outgoing
<1> QED
  BY <1>1, <1>3 DEF r

(* What follows an index in a log is a part of it. *)
LEMMA RestIsPart ==
  ASSUME NEW l \in Log, l.offset = 0, NEW x \in Nat \ {0}
  PROVE  LET M == [prev |-> x - 1,
                   term |-> IF TermAt(l, x - 1) = NoTerm THEN 0 ELSE TermAt(l, x - 1),
                   entries |-> EntriesFrom(l, x)]
         IN  M \in Piece /\ Part(M, Whole(l))
<1> DEFINE pt == IF TermAt(l, x - 1) = NoTerm THEN 0 ELSE TermAt(l, x - 1)
           es == EntriesFrom(l, x)
           M == [prev |-> x - 1, term |-> pt, entries |-> es]
           L == Whole(l)
           len == Len(l.entries)
<1>1. l.entries \in Seq(Entry) /\ len \in Nat /\ LastIndex(l) = len /\ x - 1 \in Nat
  BY SMTT(60), LogFacts DEF LastIndex
<1>2. /\ TermAt(l, x - 1) = IF 0 < x - 1 /\ x - 1 =< len THEN l.entries[x - 1].term ELSE NoTerm
      /\ Holds(l, x) <=> x =< len
  BY SMTT(60), <1>1 DEF TermAt, Holds
<1>3. pt \in Nat /\ es \in Seq(Entry)
  BY <1>1, TermAtType, EntriesFromType
<1>4. M \in Piece
  <2>1. x - 1 = 0 => pt = 0
    BY SMTT(60), <1>2
  <2> HIDE DEF pt, es
  <2> QED
    BY <1>1, <1>3, <2>1 DEF Piece
<1>5. L.prev = 0 /\ L.term = 0 /\ L.entries = l.entries
  BY DEF Whole
<1>6. M.prev = x - 1 /\ M.term = pt /\ M.entries = es
  OBVIOUS
<1>7. pt # 0 => /\ 0 < x - 1 /\ x - 1 =< len
                /\ l.entries[x - 1].term = pt
  BY <1>2
<1>8. x =< len => /\ Len(es) = len - x + 1 /\ \A o \in 1..(len - x + 1) : es[o] = l.entries[x + o - 1]
                  /\ x - 1 > 0 => pt = l.entries[x - 1].term
                  /\ x - 1 = 0 => pt = 0
  <2> SUFFICES ASSUME x =< len
               PROVE  /\ Len(es) = len - x + 1 /\ \A o \in 1..(len - x + 1) : es[o] = l.entries[x + o - 1]
                      /\ x - 1 > 0 => pt = l.entries[x - 1].term
                      /\ x - 1 = 0 => pt = 0
    OBVIOUS
  <2>1. es = SubSeq(l.entries, x, len)
    BY SMTT(60), <1>1, <1>2 DEF EntriesFrom
  <2>2. Len(es) = len - x + 1 /\ \A o \in 1..(len - x + 1) : es[o] = l.entries[x + o - 1]
    <3> HIDE DEF es
    <3> QED
      BY SMTT(60), <1>1, <2>1
  <2>3. x - 1 > 0 => l.entries[x - 1].term \in Nat
    <3> SUFFICES ASSUME x - 1 > 0 PROVE l.entries[x - 1].term \in Nat
      OBVIOUS
    <3>1. x - 1 \in 1..len
      BY SMTT(60), <1>1
    <3>2. l.entries[x - 1] \in Entry
      BY <1>1, <3>1, ElementOfSeq
    <3> QED
      BY <3>2 DEF Entry
  <2> QED
    BY SMTT(60), <1>1, <1>2, <2>2, <2>3 DEF NoTerm
<1>9. x > len => Len(es) = 0
  BY SMTT(60), <1>1, <1>2 DEF EntriesFrom
<1> HIDE DEF pt, es
<1>10. M.term # 0 => Has(L, M.prev) /\ At(L, M.prev).term = M.term
  <2> SUFFICES ASSUME pt # 0 PROVE Has(L, x - 1) /\ At(L, x - 1).term = pt
    BY <1>6
  <2> HIDE DEF M, L
  <2>1. Has(L, x - 1)
    BY SMTT(60), <1>1, <1>5, <1>7 DEF Has
  <2>2. (x - 1) - 0 = x - 1
    BY SMTT(60), <1>1
  <2> QED
    BY <1>5, <1>7, <2>1, <2>2 DEF At
<1>11. ASSUME NEW k \in Nat, Has(M, k)
       PROVE  /\ Has(L, k) /\ At(M, k) = At(L, k)
              /\ Knows(L, M.prev) /\ TermOf(L, M.prev) = M.term
  <2> HIDE DEF M, L
  <2>1. x - 1 < k /\ k =< (x - 1) + Len(es)
    BY <1>6, <1>11 DEF Has
  <2>2. Len(es) \in Nat
    BY <1>3, LenProperties
  <2>3. x =< len /\ x =< k /\ k =< len
    BY SMTT(60), <1>1, <1>8, <1>9, <2>1, <2>2
  <2>4. k - (x - 1) \in 1..(len - x + 1) /\ x + (k - (x - 1)) - 1 = k /\ k - 0 = k
    BY SMTT(60), <1>1, <2>3
  <2>5. es[k - (x - 1)] = l.entries[k]
    BY <1>8, <2>3, <2>4
  <2>6. Has(L, k) /\ At(M, k) = At(L, k)
    BY SMTT(60), <1>1, <1>5, <1>6, <2>3, <2>4, <2>5 DEF Has, At
  <2>7. Knows(L, x - 1)
    BY SMTT(60), <1>1, <1>5, <2>3 DEF Knows, Has
  <2>8. TermOf(L, x - 1) = pt
    <3>1. (x - 1) - 0 = x - 1
      BY SMTT(60), <1>1
    <3> QED
      BY SMTT(60), <1>1, <1>5, <1>8, <2>3, <3>1 DEF TermOf, At
  <2> QED
    BY <1>6, <2>6, <2>7, <2>8
<1> QED
  BY <1>4, <1>10, <1>11 DEF Part, pt, es

LEMMA EntriesOut ==
  ASSUME NEW n \in NodeState, n.log.offset = 0, NEW i \in Server, NEW q \in Server,
         NEW m \in Outgoing(ToPeers(n, i), q)
  PROVE  /\ m \in Message /\ m.type = "AppendEntries" /\ m.term = n.term /\ m.commit = n.commit
         /\ Sent(m) \in Piece /\ Part(Sent(m), Whole(n.log))
<1> DEFINE x == n.next[q]
           pt == IF TermAt(n.log, x - 1) = NoTerm THEN 0 ELSE TermAt(n.log, x - 1)
           ae == [type |-> "AppendEntries", term |-> n.term, prevIndex |-> x - 1,
                  prevTerm |-> pt, entries |-> EntriesFrom(n.log, x), commit |-> n.commit]
<1>1. n.log \in Log /\ x \in Nat \ {0}
  BY NodeFacts
<1>2. Replicate(n, q) = <<ae>>
  BY SMTT(60) DEF Replicate
<1>3. ae \in Message
  <2> HIDE DEF ae
  <2>1. <<ae>> \in Seq(Message)
    BY <1>2, ReplicateType
  <2> QED
    BY SMTT(60), <2>1
<1>4. ToPeers(n, i)[q] \in {<<ae>>, <<>>}
  BY <1>2 DEF ToPeers
<1>5. Sent(ae) = [prev |-> x - 1, term |-> pt, entries |-> EntriesFrom(n.log, x)]
  BY DEF Sent
<1>6. Sent(ae) \in Piece /\ Part(Sent(ae), Whole(n.log))
  BY <1>1, <1>5, RestIsPart
<1>7. ae.type = "AppendEntries" /\ ae.term = n.term /\ ae.commit = n.commit
  OBVIOUS
<1> HIDE DEF ae
<1>8. m = ae
  BY SMTT(60), <1>4 DEF Outgoing
<1> QED
  BY <1>3, <1>6, <1>7, <1>8

\* The step of server i sends and acknowledges only what a Move may.
Mails(i) == MailMoves(i) /\ Acknowledges(i)

LEMMA SilencePosted ==
  ASSUME NEW i \in Server, NEW n, Iteration(i, n, Silence)
  PROVE  Mails(i)
  BY SilentOut DEF Mails, Iteration, MailMoves, Acknowledges

LEMMA ReplyPosted ==
  ASSUME NEW i \in Server, NEW n, NEW j \in Server, NEW m \in Message, Iteration(i, n, Reply(j, m)),
         m.term = n.term,
         \/ m.type = "RequestVoteResponse"
         \/ m.type = "AppendEntriesResponse" /\ ~m.success
  PROVE  Mails(i)
<1>1. \A q \in Server : \A a \in Outgoing(Reply(j, m), q) : a = m
  BY SMTT(60), ReplyOut
<1>2. \A q \in Server : Posted(i, q, m)
  BY DEF Posted, Iteration
<1>3. ~(m.type = "AppendEntriesResponse" /\ m.success)
  OBVIOUS
<1> QED
  BY SMTT(60), <1>1, <1>2, <1>3 DEF Mails, Iteration, MailMoves, Acknowledges

LEMMA RequestsPosted ==
  ASSUME NEW i \in Server, NEW n \in NodeState, Iteration(i, n, VoteRequests(n, i)), n.state = "Candidate"
  PROVE  Mails(i)
<1>1. ASSUME NEW q \in Server, NEW m \in Outgoing(VoteRequests(n, i), q)
      PROVE  Posted(i, q, m) /\ m.type # "AppendEntriesResponse"
  <2>1. /\ m \in Message /\ m.type = "RequestVote" /\ m.term = n.term
        /\ m.lastIndex = LastIndex(n.log) /\ m.lastTerm = LastTerm(n.log)
    BY RequestsOut
  <2> QED
    BY <2>1 DEF Posted, Iteration
<1> QED
  BY <1>1 DEF Mails, Iteration, MailMoves, Acknowledges

LEMMA EntriesPosted ==
  ASSUME NEW i \in Server, NEW n \in NodeState, n.log.offset = 0, NEW a,
         Iteration(i, a, ToPeers(n, i)),
         a.term = n.term, a.log = n.log, n.commit =< a.commit, a.state = "Leader" \/ Grows(i)
  PROVE  Mails(i)
<1>1. ASSUME NEW q \in Server, NEW m \in Outgoing(ToPeers(n, i), q)
      PROVE  Posted(i, q, m) /\ m.type # "AppendEntriesResponse"
  <2>1. /\ m \in Message /\ m.type = "AppendEntries" /\ m.term = n.term /\ m.commit = n.commit
        /\ Sent(m) \in Piece /\ Part(Sent(m), Whole(n.log))
    BY EntriesOut
  <2>2. /\ node'[i].term = a.term /\ node'[i].state = a.state /\ node'[i].log = a.log
        /\ node'[i].commit = a.commit
    BY DEF Iteration
  <2> QED
    BY <2>1, <2>2 DEF Posted
<1> QED
  BY <1>1 DEF Mails, Iteration, MailMoves, Acknowledges

-----------------------------------------------------------------------------
(* Every step is a Move                                                    *)

\* Without changes of membership, none is ever pending.
Unpended == Changes = {} => \A i \in Server : node[i].pending = Nil

Ready == TypeOK /\ Uncompacted /\ Uncompacted' /\ NoSnapshots /\ Unpended /\ Counting

Moved(i) == Move(i) /\ (Changes = {} => node'[i].pending = Nil)

LEMMA ReadyFacts ==
  ASSUME Ready, NEW i \in Server
  PROVE  node[i] \in NodeState /\ node[i].log.offset = 0 /\ node[i].term \in Nat
<1>1. node[i] \in NodeState
  BY DEF Ready, TypeOK
<1> QED
  BY <1>1, NodeFacts DEF Ready, Uncompacted

LEMMA CarriedIteration ==
  ASSUME Ready, NEW i \in Server, NEW n, Carried(node[i], n), NEW d, NEW w, Within(w),
         NEW out \in Outbox, EndIteration(i, n, d, w, out)
  PROVE  Iteration(i, n, out)
<1>1. n \in NodeState /\ n.log.offset = 0 /\ n.applied = node[i].applied /\ n.machine = node[i].machine
  BY ReadyFacts DEF Carried
<1> QED
  BY <1>1, Iterated DEF Ready

LEMMA CarriedMoves ==
  ASSUME Ready, NEW i \in Server, NEW n, Carried(node[i], n), NEW out, Iteration(i, n, out),
         Mails(i), odd \subseteq odd', Stays(i) \/ Stands(i) \/ Wins(i)
  PROVE  Moved(i)
<1>1. Changes = {} => node'[i].members = node[i].members /\ node'[i].pending = Nil
  BY DEF Ready, Unpended, Carried, Iteration
<1> QED
  BY <1>1 DEF Moved, Move, Mails, Iteration

\* The server does nothing but, perhaps, become a follower.
LEMMA CarriedStays ==
  ASSUME NEW i \in Server, NEW n, Carried(node[i], n), NEW out, Iteration(i, n, out),
         \/ n.term = node[i].term /\ n.state = node[i].state /\ n.match = node[i].match
         \/ n.term >= node[i].term /\ n.state = "Follower",
         elected' = elected, granted' = granted
  PROVE  Stays(i)
  BY DEF Stays, Carried, Iteration

LEMMA HeartbeatMoves ==
  ASSUME Ready, NEW i \in Server, HeartbeatTick(i)
  PROVE  Moved(i)
<1> DEFINE n == node[i]
<1>1. n \in NodeState /\ n.log.offset = 0 /\ Carried(n, n) /\ n.commit =< n.commit
  BY SMTT(60), ReadyFacts, NodeFacts DEF Carried
<1>2. /\ n.state = "Leader" /\ EndIteration(i, n, disk[i], net, ToPeers(n, i))
      /\ granted' = granted /\ elected' = elected /\ odd' = odd
  BY DEF HeartbeatTick
<1>3. Iteration(i, n, ToPeers(n, i))
  BY <1>1, <1>2, CarriedIteration, AllMail, ToPeersType DEF Ready
<1>4. Mails(i)
  BY <1>1, <1>2, <1>3, EntriesPosted
<1>5. Stays(i)
  BY <1>1, <1>2, <1>3, CarriedStays
<1> QED
  BY <1>1, <1>2, <1>3, <1>4, <1>5, CarriedMoves

LEMMA StartElectionMoves ==
  ASSUME Ready, NEW i \in Server, StartElection(i)
  PROVE  Moved(i)
<1> DEFINE c == Campaign(node[i], i)
           b == BecomeLeader(c, i)
           d == VoteSaved(TermSaved(disk[i], c.term), i)
<1>1. node[i] \in NodeState /\ node[i].log.offset = 0
  BY ReadyFacts
<1>2. /\ c \in NodeState /\ Carried(node[i], c) /\ c.state = "Candidate" /\ c.term = node[i].term + 1
  BY <1>1, CampaignCarries DEF Carried
<1>3. Carried(c, b) /\ b.state = "Leader" /\ b.term = c.term /\ b.match = NoMatch
  BY <1>2, BecomeLeaderCarries
<1>4. Carried(node[i], b)
  BY <1>2, <1>3 DEF Carried
<1>5. /\ granted' = granted \cup {SelfVote(i, c.term)} /\ odd' = odd
      /\ \/ /\ EndIteration(i, b, d, net, ToPeers(b, i)) /\ elected' = elected \cup {Election(c, i)}
         \/ /\ EndIteration(i, c, d, net, VoteRequests(c, i)) /\ elected' = elected
  BY DEF StartElection, SelfVote
<1> HIDE DEF c, b, d
<1>6. CASE EndIteration(i, c, d, net, VoteRequests(c, i)) /\ elected' = elected
  <2>1. Iteration(i, c, VoteRequests(c, i))
    BY <1>2, <1>6, CarriedIteration, AllMail, VoteRequestsType DEF Ready
  <2>2. Mails(i)
    BY <1>2, <2>1, RequestsPosted
  <2>3. Stands(i)
    BY <1>2, <1>5, <1>6, <2>1 DEF Stands, Carried, Iteration
  <2> QED
    BY <1>2, <1>5, <2>1, <2>2, <2>3, CarriedMoves
<1>7. CASE EndIteration(i, b, d, net, ToPeers(b, i)) /\ elected' = elected \cup {Election(c, i)}
  <2>1. b \in NodeState /\ b.log.offset = 0 /\ b.commit =< b.commit
    BY SMTT(60), <1>1, <1>4, NodeFacts DEF Carried
  <2>2. Iteration(i, b, ToPeers(b, i))
    BY <1>4, <1>7, <2>1, CarriedIteration, AllMail, ToPeersType DEF Ready
  <2>3. Mails(i)
    BY <1>3, <2>1, <2>2, EntriesPosted
  <2>4. /\ node'[i].log = node[i].log /\ node'[i].commit = node[i].commit
        /\ node'[i].state = "Leader" /\ node'[i].match = NoMatch
        /\ node'[i].term = c.term
    BY <1>3, <1>4, <2>2 DEF Carried, Iteration
  <2>5. /\ Election(c, i).term = c.term /\ Election(c, i).leader = i
        /\ Election(c, i).log = node[i].log
    BY <1>2 DEF Carried, Election
  <2>6. Wins(i)
    BY <1>2, <1>5, <1>7, <2>4, <2>5 DEF Wins, NoMatch
  <2> QED
    BY <1>4, <1>5, <2>2, <2>3, <2>6, CarriedMoves
<1> QED
  BY <1>5, <1>6, <1>7

\* What a server knows of a message it takes, and of itself after the term update.
LEMMA Taking ==
  ASSUME Ready, NEW i \in Server, NEW j \in Server, NEW k \in Deliverable(i, j)
  PROVE  LET m == net[j][i][k]
             n == TermUpdate(node[i], m.term)
         IN  /\ m \in Message /\ m.term \in Nat /\ m \in Carries(net, j, i)
             /\ m.type \notin {"InstallSnapshot", "InstallSnapshotResponse"}
             /\ Within(Without(i, j, k))
             /\ n \in NodeState /\ Carried(node[i], n) /\ n.term \in Nat
             /\ n.term >= m.term /\ n.term >= node[i].term
             /\ n = node[i] \/ n.state = "Follower"
<1> DEFINE m == net[j][i][k]
           n == TermUpdate(node[i], m.term)
<1>1. m \in Message /\ m.term \in Nat
  BY StateTyped, Arrival DEF Ready
<1>2. Within(Without(i, j, k)) /\ m \in Carries(net, j, i)
  BY TakenMail DEF Ready
<1>3. m.type \notin {"InstallSnapshot", "InstallSnapshotResponse"}
  BY SMTT(60), <1>2 DEF Ready, NoSnapshots, Mail
<1>4. node[i] \in NodeState /\ node[i].term \in Nat
  BY ReadyFacts
<1> HIDE DEF m
<1>5. /\ Carried(node[i], n)
      /\ \/ m.term =< node[i].term /\ n = node[i]
         \/ m.term > node[i].term /\ n.term = m.term /\ n.state = "Follower"
  BY <1>1, <1>4, TermUpdateCarries
<1> HIDE DEF n
<1>6. n.term \in Nat /\ n.term >= m.term /\ n.term >= node[i].term /\ (n = node[i] \/ n.state = "Follower")
  BY SMTT(60), <1>1, <1>4, <1>5
<1>7. n \in NodeState
  BY <1>5 DEF Carried
<1> QED
  BY <1>1, <1>2, <1>3, <1>5, <1>6, <1>7, Zenon DEF m, n

LEMMA CarriedTwice ==
  ASSUME NEW n, NEW a, NEW b, Carried(n, a), Carried(a, b)
  PROVE  Carried(n, b)
  BY DEF Carried

LEMMA RequestVoteMoves ==
  ASSUME Ready, NEW i \in Server, NEW j \in Server, NEW k \in Deliverable(i, j), HandleRequestVote(i, j, k)
  PROVE  Moved(i)
<1> DEFINE m == net[j][i][k]
           n == TermUpdate(node[i], m.term)
           d == TermUpdateSaved(disk[i], node[i], m.term)
           w == Without(i, j, k)
           v == [n EXCEPT !.vote = j]
<1>1. /\ m \in Message /\ m.term \in Nat /\ m \in Carries(net, j, i)
      /\ Within(w)
      /\ n \in NodeState /\ Carried(node[i], n) /\ n.term \in Nat
      /\ n.term >= m.term /\ n.term >= node[i].term
      /\ n = node[i] \/ n.state = "Follower"
  BY Taking
<1>2. /\ Carried(n, v) /\ v.state = n.state /\ v.term = n.term /\ v.match = n.match
  BY <1>1, VoteCarries, Zenon
<1>3. Carried(node[i], v) /\ v \in NodeState
  BY <1>1, <1>2, CarriedTwice, Zenon DEF Carried
<1>4. /\ m.type = "RequestVote" /\ elected' = elected /\ odd' = odd
      /\ \/ /\ Grants(n, j, m)
            /\ granted' = granted \cup {[voter |-> i, term |-> n.term, candidate |-> j]}
            /\ EndIteration(i, v, VoteSaved(d, j), w, Reply(j, VoteReply(v, TRUE)))
         \/ /\ granted' = granted
            /\ EndIteration(i, n, d, w, Reply(j, VoteReply(n, FALSE)))
  BY Zenon DEF HandleRequestVote, Takes
<1> HIDE DEF m, n, d, w, v
<1>5. ASSUME NEW a \in NodeState, NEW yes \in BOOLEAN, NEW e, Carried(node[i], a),
             EndIteration(i, a, e, w, Reply(j, VoteReply(a, yes)))
      PROVE  Iteration(i, a, Reply(j, VoteReply(a, yes))) /\ Mails(i)
  <2>1. VoteReply(a, yes) \in Message
    BY <1>5, RepliesType
  <2>2. Reply(j, VoteReply(a, yes)) \in Outbox
    BY <2>1, ReplyType
  <2>3. Iteration(i, a, Reply(j, VoteReply(a, yes)))
    BY <1>1, <1>5, <2>2, CarriedIteration
  <2>4. VoteReply(a, yes).term = a.term /\ VoteReply(a, yes).type = "RequestVoteResponse"
    BY DEF VoteReply
  <2> QED
    BY <2>1, <2>3, <2>4, ReplyPosted
<1>6. CASE /\ Grants(n, j, m)
           /\ granted' = granted \cup {[voter |-> i, term |-> n.term, candidate |-> j]}
           /\ EndIteration(i, v, VoteSaved(d, j), w, Reply(j, VoteReply(v, TRUE)))
  <2>1. Iteration(i, v, Reply(j, VoteReply(v, TRUE))) /\ Mails(i)
    BY <1>3, <1>5, <1>6, Zenon
  <2>2. m.term = n.term /\ UpToDate(m, node[i].log)
    <3>1. m.term >= n.term /\ UpToDate(m, n.log)
      BY <1>6 DEF Grants
    <3>2. n.log = node[i].log
      BY <1>1 DEF Carried
    <3> QED
      BY SMTT(60), <1>1, <3>1, <3>2
  <2>3. /\ node'[i].log = node[i].log /\ node'[i].commit = node[i].commit
        /\ node'[i].term = n.term
        /\ node'[i].state = n.state /\ node'[i].match = n.match
    BY <1>2, <1>3, <2>1 DEF Carried, Iteration
  <2>4. Stays(i)
    BY <1>1, <1>4, <1>6, <2>2, <2>3 DEF Stays
  <2> QED
    BY <1>3, <1>4, <2>1, <2>4, CarriedMoves, Zenon
<1>7. CASE granted' = granted /\ EndIteration(i, n, d, w, Reply(j, VoteReply(n, FALSE)))
  <2>1. Iteration(i, n, Reply(j, VoteReply(n, FALSE))) /\ Mails(i)
    BY <1>1, <1>5, <1>7, Zenon
  <2>2. Stays(i)
    BY <1>1, <1>4, <1>7, <2>1, CarriedStays, Zenon
  <2> QED
    BY <1>1, <1>4, <2>1, <2>2, CarriedMoves, Zenon
<1> QED
  BY <1>4, <1>6, <1>7, Zenon

LEMMA RequestVoteResponseMoves ==
  ASSUME Ready, NEW i \in Server, NEW j \in Server, NEW k \in Deliverable(i, j),
         HandleRequestVoteResponse(i, j, k)
  PROVE  Moved(i)
<1> DEFINE m == net[j][i][k]
           n == TermUpdate(node[i], m.term)
           d == TermUpdateSaved(disk[i], node[i], m.term)
           w == Without(i, j, k)
           v == [n EXCEPT !.votes = @ \cup {j}]
           b == BecomeLeader(v, i)
<1>1. /\ Within(w)
      /\ n \in NodeState /\ Carried(node[i], n) /\ n.term \in Nat
      /\ n.term >= node[i].term
      /\ n = node[i] \/ n.state = "Follower"
  BY Taking
<1>2. /\ Carried(n, v) /\ v.state = n.state /\ v.term = n.term /\ v.match = n.match
  BY <1>1, VoteCarries, Zenon
<1>3. Carried(node[i], v) /\ v \in NodeState
  BY <1>1, <1>2, CarriedTwice, Zenon DEF Carried
<1>4. Carried(v, b) /\ b.state = "Leader" /\ b.term = v.term /\ b.match = NoMatch
  <2> HIDE DEF v
  <2> QED
    BY <1>3, BecomeLeaderCarries
<1>5. Carried(node[i], b) /\ b \in NodeState
  <2> HIDE DEF v, b
  <2> QED
    BY <1>3, <1>4, CarriedTwice DEF Carried
<1>6. /\ granted' = granted /\ odd \subseteq odd'
      /\ \/ /\ EndIteration(i, n, d, w, Silence)
            /\ elected' = elected
         \/ /\ EndIteration(i, v, d, w, Silence)
            /\ elected' = elected
         \/ /\ n.state = "Candidate"
            /\ EndIteration(i, b, d, w, ToPeers(b, i))
            /\ elected' = elected \cup {Election(v, i)}
  BY Zenon DEF HandleRequestVoteResponse
<1> HIDE DEF m, n, d, w, v, b
<1>7. CASE EndIteration(i, n, d, w, Silence) /\ elected' = elected
  <2>1. Iteration(i, n, Silence) /\ Mails(i)
    BY <1>1, <1>7, CarriedIteration, SilenceType, SilencePosted
  <2>2. Stays(i)
    BY <1>1, <1>6, <1>7, <2>1, CarriedStays
  <2> QED
    BY <1>1, <1>6, <2>1, <2>2, CarriedMoves
<1>8. CASE EndIteration(i, v, d, w, Silence) /\ elected' = elected
  <2>1. Iteration(i, v, Silence) /\ Mails(i)
    BY <1>1, <1>3, <1>8, CarriedIteration, SilenceType, SilencePosted
  <2>2. Stays(i)
    BY <1>1, <1>2, <1>3, <1>6, <1>8, <2>1, CarriedStays
  <2> QED
    BY <1>3, <1>6, <2>1, <2>2, CarriedMoves
<1>9. CASE /\ n.state = "Candidate"
           /\ EndIteration(i, b, d, w, ToPeers(b, i))
           /\ elected' = elected \cup {Election(v, i)}
  <2>1. b.log.offset = 0 /\ b.commit =< b.commit
    BY SMTT(60), <1>5, ReadyFacts, NodeFacts DEF Carried
  <2>2. Iteration(i, b, ToPeers(b, i))
    BY <1>1, <1>5, <1>9, CarriedIteration, ToPeersType
  <2>3. Mails(i)
    BY <1>4, <1>5, <2>1, <2>2, EntriesPosted
  <2>4. /\ node'[i].log = node[i].log /\ node'[i].commit = node[i].commit
        /\ node'[i].state = "Leader" /\ node'[i].match = NoMatch
        /\ node'[i].term = v.term
    BY <1>4, <1>5, <2>2 DEF Carried, Iteration
  <2>5. /\ Election(v, i).term = v.term /\ Election(v, i).leader = i
        /\ Election(v, i).log = node[i].log
    BY <1>3 DEF Carried, Election
  <2>6. node[i].state = "Candidate" /\ v.term = node[i].term
    BY <1>1, <1>2, <1>9
  <2>7. Wins(i)
    BY <1>6, <1>9, <2>4, <2>5, <2>6 DEF Wins, NoMatch
  <2> QED
    BY <1>5, <1>6, <2>2, <2>3, <2>7, CarriedMoves
<1> QED
  BY <1>6, <1>7, <1>8, <1>9

-----------------------------------------------------------------------------
(* Steps of a leader                                                       *)

\* What advance_commit_index makes of n.
Advanced(n, a) ==
    /\ a \in NodeState /\ a.log = n.log /\ a.term = n.term /\ a.members = n.members
    /\ a.applied = n.applied /\ a.machine = n.machine
    /\ a.state \in {n.state, "Follower"}
    /\ n.pending = Nil => a.pending = Nil
    /\ \A p \in Server : a.match[p] \in {0, n.match[p]}
    /\ \/ a.commit = n.commit
       \/ /\ a.commit > n.commit /\ a.commit =< LastIndex(n.log)
          /\ TermAt(n.log, a.commit) = n.term
          /\ Replicas(n, a.commit) >= Cardinality(n.members) \div 2 + 1

LEMMA CommitChangeFacts ==
  ASSUME NEW n \in NodeState, NEW i \in Server
  PROVE  LET a == CommitChange(n, i)
         IN  /\ a \in NodeState /\ a.log = n.log /\ a.term = n.term /\ a.members = n.members
             /\ a.applied = n.applied /\ a.machine = n.machine /\ a.commit = n.commit
             /\ a.state \in {n.state, "Follower"}
             /\ n.pending = Nil => a.pending = Nil
             /\ \A p \in Server : a.match[p] \in {0, n.match[p]}
<1> DEFINE a == CommitChange(n, i)
           gone == n.pending.change = [kind |-> "RemoveServer", server |-> i]
           match == [p \in Server |-> IF p \in n.members /\ ~gone THEN n.match[p] ELSE 0]
<1>1. a \in NodeState
  BY KeepsCommitChange DEF Keeps
<1>2. CASE n.pending = Nil \/ n.commit < n.pending.index
  BY <1>2 DEF CommitChange
<1>3. CASE ~(n.pending = Nil \/ n.commit < n.pending.index)
  <2>1. /\ a.log = n.log /\ a.term = n.term /\ a.members = n.members
        /\ a.applied = n.applied /\ a.machine = n.machine /\ a.commit = n.commit
        /\ a.match = match /\ a.state \in {n.state, "Follower"}
    <3>1. CASE gone
      BY <1>3, <3>1, Zenon DEF CommitChange, NodeState
    <3>2. CASE ~gone
      BY <1>3, <3>2, Zenon DEF CommitChange, NodeState
    <3> QED
      BY <3>1, <3>2
  <2>2. \A p \in Server : match[p] \in {0, n.match[p]}
    OBVIOUS
  <2> HIDE DEF a, match
  <2> QED
    BY <1>1, <1>3, <2>1, <2>2 DEF a
<1> QED
  BY <1>2, <1>3

LEMMA AdvanceFacts ==
  ASSUME NEW n \in NodeState, NEW i \in Server
  PROVE  Advanced(n, AdvanceCommit(n, i))
<1> DEFINE C == Highest(n)
           top == CHOOSE k \in C : TRUE
           m == [n EXCEPT !.commit = top]
<1>1. CASE n.state # "Leader" \/ C = {}
  BY <1>1 DEF AdvanceCommit, Advanced
<1>2. CASE ~(n.state # "Leader" \/ C = {})
  <2>1. C \subseteq Nat
    BY SMTT(60), NodeFacts, LogFacts DEF Highest, Committable
  <2>3. top \in C /\ top \in Nat
    <3> HIDE DEF C
    <3> QED
      BY <1>2, <2>1, Zenon
  <2>4. /\ top > n.commit /\ top =< LastIndex(n.log)
        /\ TermAt(n.log, top) = n.term
        /\ Replicas(n, top) >= Cardinality(n.members) \div 2 + 1
    <3> HIDE DEF top
    <3> QED
      BY SMTT(60), <2>1, <2>3, NodeFacts DEF Highest, Committable
  <2>5. /\ m \in NodeState /\ m.log = n.log /\ m.term = n.term /\ m.members = n.members
        /\ m.applied = n.applied /\ m.machine = n.machine /\ m.state = n.state
        /\ m.pending = n.pending /\ m.match = n.match /\ m.commit = top
    <3> HIDE DEF top
    <3> QED
      BY <2>3, Zenon DEF NodeState
  <2>6. AdvanceCommit(n, i) = CommitChange(m, i)
    BY <1>2 DEF AdvanceCommit
  <2> HIDE DEF m, top, C
  <2> DEFINE a == CommitChange(m, i)
  <2>7. /\ a \in NodeState /\ a.log = m.log /\ a.term = m.term /\ a.members = m.members
        /\ a.applied = m.applied /\ a.machine = m.machine /\ a.commit = m.commit
        /\ a.state \in {m.state, "Follower"}
        /\ m.pending = Nil => a.pending = Nil
        /\ \A p \in Server : a.match[p] \in {0, m.match[p]}
    BY <2>5, CommitChangeFacts
  <2> HIDE DEF a
  <2>8. AdvanceCommit(n, i) = a
    BY <2>6 DEF a
  <2> QED
    BY <2>4, <2>5, <2>7, <2>8 DEF Advanced
<1> QED
  BY <1>1, <1>2

\* Server i leads and has n before it looks for what is committed.
Leads(i, n) ==
    /\ n \in NodeState /\ n.log.offset = 0
    /\ n.commit = node[i].commit /\ n.applied = node[i].applied /\ n.machine = node[i].machine
    /\ n.term = node[i].term /\ n.state = "Leader" /\ node[i].state = "Leader"
    /\ Changes = {} => n.members = node[i].members /\ n.pending = Nil

LEMMA LeaderIteration ==
  ASSUME Ready, NEW i \in Server, NEW n, Leads(i, n), NEW d, NEW w, Within(w), NEW out \in Outbox,
         EndIteration(i, AdvanceCommit(n, i), d, w, out), elected' = elected, granted' = granted
  PROVE  /\ Iteration(i, AdvanceCommit(n, i), out) /\ Advanced(n, AdvanceCommit(n, i))
         /\ node'[i].log = n.log /\ LeaderStays(i)
         /\ Commits(i, n.match) /\ Remembers(i, n.match)
         /\ Changes = {} => node'[i].members = node[i].members /\ node'[i].pending = Nil
<1> DEFINE a == AdvanceCommit(n, i)
<1>1. Advanced(n, a)
  BY AdvanceFacts DEF Leads
<1> HIDE DEF a
<1>2. a \in NodeState /\ a.log.offset = 0 /\ a.applied = node[i].applied /\ a.machine = node[i].machine
  BY <1>1 DEF Advanced, Leads
<1>3. Iteration(i, a, out)
  BY <1>2, Iterated DEF Ready, a
<1>4. /\ node'[i].term = a.term /\ node'[i].state = a.state
      /\ node'[i].log = a.log /\ node'[i].commit = a.commit /\ node'[i].match = a.match
      /\ node'[i].members = a.members /\ node'[i].pending = a.pending
  BY <1>3 DEF Iteration
<1>5. LeaderStays(i)
  BY <1>1, <1>4 DEF LeaderStays, Advanced, Leads
<1>6. Remembers(i, n.match)
  BY <1>1, <1>4 DEF Remembers, Advanced
<1>7. Commits(i, n.match)
  BY <1>1, <1>4 DEF Commits, Advanced, Leads, Replicas
<1>8. Changes = {} => node'[i].members = node[i].members /\ node'[i].pending = Nil
  BY <1>1, <1>4 DEF Advanced, Leads
<1> QED
  BY <1>1, <1>3, <1>4, <1>5, <1>6, <1>7, <1>8 DEF Advanced, a

LEMMA Unforgotten ==
  ASSUME NEW x \in Nat, NEW y \in Nat, NEW k \in Nat, NEW e \in Nat, x \in {0, y}, k > e, x >= k
  PROVE  x = y
  BY SMT

LEMMA StillMajority ==
  ASSUME NEW v \in Nat, NEW w \in Nat, NEW s \in Nat, v =< w, 1 + v >= s \div 2 + 1
  PROVE  1 + w >= s \div 2 + 1
  BY SMT

LEMMA GrowingMoves ==
  ASSUME Ready, NEW i \in Server, NEW n, Leads(i, n), NEW c \in Command,
         n.log = Append1(node[i].log, [term |-> node[i].term, command |-> c]),
         \A p \in Server : n.match[p] \in {0, node[i].match[p]},
         EndIteration(i, AdvanceCommit(n, i), disk[i], net, ToPeers(n, i)),
         elected' = elected, granted' = granted, odd' = odd
  PROVE  Moved(i)
<1> DEFINE a == AdvanceCommit(n, i)
<1>1. n \in NodeState /\ n.log.offset = 0 /\ n.commit \in Nat /\ n.match \in [Server -> Nat]
  BY NodeFacts DEF Leads
<1>2. /\ Iteration(i, a, ToPeers(n, i)) /\ Advanced(n, a)
      /\ node'[i].log = n.log /\ LeaderStays(i)
      /\ Commits(i, n.match) /\ Remembers(i, n.match)
      /\ Changes = {} => node'[i].members = node[i].members /\ node'[i].pending = Nil
  BY <1>1, LeaderIteration, AllMail, ToPeersType, Zenon DEF Ready
<1> HIDE DEF a
<1>3. node[i].commit \in Nat /\ node'[i].commit \in Nat /\ node[i].match \in [Server -> Nat]
  <2>1. node[i] \in NodeState
    BY ReadyFacts
  <2>2. a \in NodeState /\ node'[i].commit = a.commit
    BY <1>2, Zenon DEF Advanced, Iteration
  <2> QED
    BY <2>1, <2>2, NodeFacts, Zenon
<1>4. Remembers(i, node[i].match)
  <2> SUFFICES ASSUME NEW p \in Server PROVE node'[i].match[p] \in {0, node[i].match[p]}
    BY DEF Remembers
  <2>1. node'[i].match[p] \in {0, n.match[p]} /\ n.match[p] \in {0, node[i].match[p]}
    BY <1>2 DEF Remembers
  <2> QED
    BY <2>1
<1>5. Commits(i, node[i].match)
  <2>1. CASE node'[i].commit = node[i].commit
    BY <2>1 DEF Commits
  <2>2. CASE ~(node'[i].commit = node[i].commit)
    <3> DEFINE k == node'[i].commit
               V == {p \in Server : n.match[p] >= k}
               W == {p \in Server : node[i].match[p] >= k}
    <3>1. /\ k > node[i].commit /\ k =< LastIndex(node'[i].log)
          /\ TermAt(node'[i].log, k) = node'[i].term
          /\ 1 + Cardinality(V) >= Cardinality(node'[i].members) \div 2 + 1
      BY <1>2, <2>2 DEF Commits
    <3>2. V \subseteq W
      <4> SUFFICES ASSUME NEW p \in Server, n.match[p] >= k PROVE node[i].match[p] >= k
        OBVIOUS
      <4>1. /\ n.match[p] \in Nat /\ node[i].match[p] \in Nat /\ k \in Nat /\ node[i].commit \in Nat
            /\ n.match[p] \in {0, node[i].match[p]} /\ k > node[i].commit
        BY <1>1, <1>3, <3>1
      <4>2. n.match[p] = node[i].match[p]
        <5> HIDE DEF k
        <5> QED
          BY <4>1, Unforgotten
      <4> QED
        BY <4>2
    <3>3. V \in SUBSET Server /\ W \in SUBSET Server
      OBVIOUS
    <3>4. Cardinality(V) =< Cardinality(W) /\ Cardinality(V) \in Nat /\ Cardinality(W) \in Nat
      <4> HIDE DEF V, W
      <4> QED
        BY <3>2, <3>3 DEF Ready, Counting
    <3>5. Cardinality(node'[i].members) \in Nat
      <4>1. node'[i].members \subseteq Server
        BY <1>2, NodeFacts DEF Advanced, Iteration
      <4> QED
        BY <4>1 DEF Ready, Counting
    <3> HIDE DEF V
    <3>6. 1 + Cardinality(W) >= Cardinality(node'[i].members) \div 2 + 1
      <4> HIDE DEF W
      <4> QED
        BY <3>1, <3>4, <3>5, StillMajority
    <3> QED
      BY <3>1, <3>6 DEF Commits
  <2> QED
    BY <2>1, <2>2
<1>6. Grows(i)
  BY <1>2, <1>4, <1>5 DEF Grows
<1>7. a.term = n.term /\ a.log = n.log /\ n.commit =< a.commit
  <2>1. a.commit \in Nat
    BY <1>2, NodeFacts DEF Advanced
  <2>2. a.commit = n.commit \/ a.commit > n.commit
    BY <1>2 DEF Advanced
  <2>3. n.commit =< a.commit
    BY SMT, <1>1, <2>1, <2>2
  <2> QED
    BY <1>2, <2>3 DEF Advanced
<1>8. Mails(i)
  BY <1>1, <1>2, <1>6, <1>7, EntriesPosted, Zenon
<1> QED
  BY <1>2, <1>6, <1>8 DEF Moved, Move, Mails, Iteration

LEMMA EntryFields ==
  ASSUME NEW n \in NodeState, n.log.offset = 0, NEW c \in Command
  PROVE  LET a == [n EXCEPT !.log = Append1(@, [term |-> n.term, command |-> c])]
         IN  /\ a \in NodeState /\ a.log = Append1(n.log, [term |-> n.term, command |-> c])
             /\ a.log.offset = 0
             /\ a.commit = n.commit /\ a.applied = n.applied /\ a.machine = n.machine
             /\ a.term = n.term /\ a.state = n.state /\ a.match = n.match
             /\ a.members = n.members /\ a.pending = n.pending
<1> DEFINE l == Append1(n.log, [term |-> n.term, command |-> c])
           a == [n EXCEPT !.log = Append1(@, [term |-> n.term, command |-> c])]
<1>1. a \in NodeState
  BY KeepsEntry DEF Keeps
<1>2. l.offset = 0
  BY NodeFacts DEF Append1, Log
<1>3. /\ a.log = l /\ a.commit = n.commit /\ a.applied = n.applied /\ a.machine = n.machine
      /\ a.term = n.term /\ a.state = n.state /\ a.match = n.match
      /\ a.members = n.members /\ a.pending = n.pending
  BY Zenon DEF NodeState
<1> QED
  BY <1>1, <1>2, <1>3

LEMMA ClientRequestMoves ==
  ASSUME Ready, NEW i \in Server, NEW c \in Proposes[i], ClientRequest(i, c)
  PROVE  Moved(i)
<1> DEFINE n == [node[i] EXCEPT !.log = Append1(@, [term |-> node[i].term, command |-> c])]
<1>1. node[i] \in NodeState /\ node[i].log.offset = 0 /\ c \in Command
  BY ReadyFacts, RaftAssumptions
<1>2. /\ n \in NodeState /\ n.log = Append1(node[i].log, [term |-> node[i].term, command |-> c])
      /\ n.log.offset = 0
      /\ n.commit = node[i].commit /\ n.applied = node[i].applied /\ n.machine = node[i].machine
      /\ n.term = node[i].term /\ n.state = node[i].state /\ n.match = node[i].match
      /\ n.members = node[i].members /\ n.pending = node[i].pending
  BY <1>1, EntryFields
<1>3. /\ node[i].state = "Leader"
      /\ EndIteration(i, AdvanceCommit(n, i), disk[i], net, ToPeers(n, i))
      /\ elected' = elected /\ granted' = granted /\ odd' = odd
  BY DEF ClientRequest
<1> HIDE DEF n
<1>4. Leads(i, n)
  BY <1>2, <1>3 DEF Leads, Ready, Unpended
<1> QED
  BY <1>1, <1>2, <1>3, <1>4, GrowingMoves

LEMMA BeginChangeFields ==
  ASSUME NEW n \in NodeState, NEW c \in [kind : {"AddServer", "RemoveServer"}, server : Server]
  PROVE  LET a == BeginChange(n, c)
         IN  /\ a \in NodeState /\ a.log = n.log
             /\ a.commit = n.commit /\ a.applied = n.applied /\ a.machine = n.machine
             /\ a.term = n.term /\ a.state = n.state
             /\ \A p \in Server : a.match[p] \in {0, n.match[p]}
<1> DEFINE a == BeginChange(n, c)
           k == LastIndex(n.log)
<1>1. a \in NodeState
  BY KeepsBeginChange DEF Keeps
<1>2. CASE c.kind = "AddServer"
  <2>1. a = [n EXCEPT !.pending = [index |-> k, change |-> c], !.members = @ \cup {c.server},
                      !.next[c.server] = k + 1, !.match[c.server] = 0]
    BY <1>2, Zenon DEF BeginChange
  <2> HIDE DEF k, a
  <2>2. /\ a.log = n.log /\ a.commit = n.commit /\ a.applied = n.applied /\ a.machine = n.machine
        /\ a.term = n.term /\ a.state = n.state /\ a.match = [n.match EXCEPT ![c.server] = 0]
    BY <2>1, Zenon DEF NodeState
  <2>3. n.match \in [Server -> Nat]
    BY NodeFacts
  <2>4. \A p \in Server : a.match[p] \in {0, n.match[p]}
    BY <2>2, <2>3
  <2> QED
    BY <1>1, <2>2, <2>4 DEF a
<1>3. CASE c.kind # "AddServer"
  <2>1. a = [n EXCEPT !.pending = [index |-> k, change |-> c], !.members = @ \ {c.server}]
    BY <1>3, Zenon DEF BeginChange
  <2> HIDE DEF k, a
  <2>2. /\ a.log = n.log /\ a.commit = n.commit /\ a.applied = n.applied /\ a.machine = n.machine
        /\ a.term = n.term /\ a.state = n.state /\ a.match = n.match
    BY <2>1, Zenon DEF NodeState
  <2> QED
    BY <1>1, <2>2 DEF a
<1> QED
  BY <1>2, <1>3

LEMMA MembershipMoves ==
  ASSUME Ready, NEW i \in Server, NEW c \in Changes, NEW noop \in Proposes[i],
         ProposeMembershipChange(i, c, noop)
  PROVE  Moved(i)
<1> DEFINE e == [node[i] EXCEPT !.log = Append1(@, [term |-> node[i].term, command |-> noop])]
           n == BeginChange(e, c)
<1>1. node[i] \in NodeState /\ node[i].log.offset = 0 /\ noop \in Command
      /\ c \in [kind : {"AddServer", "RemoveServer"}, server : Server]
  BY ReadyFacts, RaftAssumptions
<1>2. /\ e \in NodeState /\ e.log = Append1(node[i].log, [term |-> node[i].term, command |-> noop])
      /\ e.log.offset = 0
      /\ e.commit = node[i].commit /\ e.applied = node[i].applied /\ e.machine = node[i].machine
      /\ e.term = node[i].term /\ e.state = node[i].state /\ e.match = node[i].match
  BY <1>1, EntryFields
<1>3. /\ node[i].state = "Leader"
      /\ EndIteration(i, AdvanceCommit(n, i), disk[i], net, ToPeers(n, i))
      /\ elected' = elected /\ granted' = granted /\ odd' = odd
  BY DEF ProposeMembershipChange
<1> HIDE DEF e
<1>4. /\ n \in NodeState /\ n.log = e.log
      /\ n.commit = e.commit /\ n.applied = e.applied /\ n.machine = e.machine
      /\ n.term = e.term /\ n.state = e.state
      /\ \A p \in Server : n.match[p] \in {0, e.match[p]}
  BY <1>1, <1>2, BeginChangeFields
<1> HIDE DEF n
<1>5. Leads(i, n)
  BY <1>2, <1>3, <1>4 DEF Leads
<1> QED
  BY <1>1, <1>2, <1>3, <1>4, <1>5, GrowingMoves

LEMMA ProgressFields ==
  ASSUME NEW n \in NodeState, NEW j \in Server,
         NEW m \in [type : {"AppendEntriesResponse"}, term : Nat, success : BOOLEAN, match : Nat]
  PROVE  LET a == Progress(n, j, m)
         IN  /\ a \in NodeState /\ a.log = n.log /\ a.commit = n.commit /\ a.applied = n.applied
             /\ a.machine = n.machine /\ a.term = n.term /\ a.state = n.state
             /\ a.members = n.members /\ a.pending = n.pending
             /\ a.match = IF m.success THEN [n.match EXCEPT ![j] = m.match] ELSE n.match
<1>1. Progress(n, j, m) \in NodeState
  BY KeepsAcknowledged DEF Keeps
<1>2. CASE m.success
  BY <1>1, <1>2, Zenon DEF Progress, NodeState
<1>3. CASE ~m.success
  BY <1>1, <1>3, Zenon DEF Progress, NodeState
<1> QED
  BY <1>2, <1>3

LEMMA AppendEntriesResponseMoves ==
  ASSUME Ready, NEW i \in Server, NEW j \in Server \ {i}, NEW k \in Deliverable(i, j),
         HandleAppendEntriesResponse(i, j, k)
  PROVE  Moved(i)
<1> DEFINE m == net[j][i][k]
           n == TermUpdate(node[i], m.term)
           d == TermUpdateSaved(disk[i], node[i], m.term)
           w == Without(i, j, k)
           g == Progress(n, j, m)
<1>1. /\ m \in Message /\ m.term \in Nat /\ m \in Carries(net, j, i)
      /\ Within(w)
      /\ n \in NodeState /\ Carried(node[i], n) /\ n.term \in Nat
      /\ n.term >= node[i].term
      /\ n = node[i] \/ n.state = "Follower"
  BY Taking, Zenon
<1>2. /\ m.type = "AppendEntriesResponse" /\ granted' = granted /\ elected' = elected
      /\ EndIteration(i, IF n.state = "Leader" THEN AdvanceCommit(g, i) ELSE n, d, w, Silence)
      /\ odd' = odd \cup (IF n.state = "Leader" /\ m.success /\ m.term # n.term
                             THEN {"stale ack"} ELSE {})
  BY Zenon DEF HandleAppendEntriesResponse, Takes
<1> HIDE DEF m, n, d, w
<1>3. CASE n.state # "Leader"
  <2>1. EndIteration(i, n, d, w, Silence)
    BY <1>2, <1>3
  <2>2. Iteration(i, n, Silence)
    BY <1>1, <2>1, CarriedIteration, SilenceType
  <2>3. Mails(i)
    BY <2>2, SilencePosted
  <2>4. Stays(i)
    BY <1>1, <1>2, <2>2, CarriedStays, Zenon
  <2>5. odd \subseteq odd'
    BY <1>2, Zenon
  <2> QED
    BY <1>1, <2>2, <2>3, <2>4, <2>5, CarriedMoves
<1>4. CASE n.state = "Leader"
  <2>1. n = node[i] /\ node[i].state = "Leader" /\ node[i].log.offset = 0
    BY <1>1, <1>4, ReadyFacts
  <2>2. m \in [type : {"AppendEntriesResponse"}, term : Nat, success : BOOLEAN, match : Nat]
    BY <1>1, <1>2, Zenon DEF Message
  <2>3. /\ g \in NodeState /\ g.log = n.log /\ g.commit = n.commit /\ g.applied = n.applied
        /\ g.machine = n.machine /\ g.term = n.term /\ g.state = n.state
        /\ g.members = n.members /\ g.pending = n.pending
        /\ g.match = IF m.success THEN [n.match EXCEPT ![j] = m.match] ELSE n.match
    BY <1>1, <2>2, ProgressFields
  <2> HIDE DEF g
  <2>4. Leads(i, g)
    BY <1>4, <2>1, <2>3 DEF Leads, Ready, Unpended
  <2>5. EndIteration(i, AdvanceCommit(g, i), d, w, Silence)
    BY <1>2, <1>4, Zenon
  <2>6. /\ Iteration(i, AdvanceCommit(g, i), Silence) /\ Advanced(g, AdvanceCommit(g, i))
        /\ node'[i].log = g.log /\ LeaderStays(i)
        /\ Commits(i, g.match) /\ Remembers(i, g.match)
        /\ Changes = {} => node'[i].members = node[i].members /\ node'[i].pending = Nil
    BY <1>1, <1>2, <2>4, <2>5, LeaderIteration, SilenceType, Zenon
  <2>7. Mails(i)
    BY <2>6, SilencePosted
  <2>8. m.success /\ m.term # node'[i].term => "stale ack" \in odd'
    <3>1. node'[i].term = n.term
      BY <2>1, <2>6 DEF LeaderStays
    <3> QED
      BY <1>2, <1>4, <3>1, Zenon
  <2>9. Counts(i)
    BY <1>1, <1>2, <2>1, <2>3, <2>6, <2>8, Zenon DEF Counts
  <2>10. odd \subseteq odd'
    BY <1>2, Zenon
  <2> QED
    BY <2>6, <2>7, <2>9, <2>10 DEF Moved, Move, Mails, Iteration
<1> QED
  BY <1>3, <1>4

LEMMA AcceptFields ==
  ASSUME NEW n \in NodeState, NEW j \in Server,
         NEW m \in [type : {"AppendEntries"}, term : Nat, prevIndex : Nat, prevTerm : Nat,
                    entries : Seq(Entry), commit : Nat],
         Matches(n.log, m.prevIndex, m.prevTerm)
  PROVE  LET a == Accept(n, j, m)
             l == Merge(n.log, m.prevIndex, m.entries)
         IN  /\ a \in NodeState /\ a.log = l /\ a.log.offset = n.log.offset
             /\ a.commit = IF m.commit > n.commit THEN Smaller(m.commit, LastIndex(l)) ELSE n.commit
             /\ a.applied = n.applied /\ a.machine = n.machine
             /\ a.term = n.term /\ a.state = "Follower"
             /\ a.members = n.members /\ a.pending = n.pending
<1> DEFINE f == Follow(n, j)
           l == Merge(n.log, m.prevIndex, m.entries)
           a == Accept(n, j, m)
<1>1. a \in NodeState
  BY KeepsAccept DEF Keeps
<1>2. /\ f \in NodeState /\ f.commit = n.commit /\ f.applied = n.applied /\ f.machine = n.machine
      /\ f.term = n.term /\ f.state = "Follower"
      /\ f.members = n.members /\ f.pending = n.pending
  <2>1. f \in NodeState
    BY KeepsFollow DEF Keeps
  <2> QED
    BY <2>1, Zenon DEF Follow, NodeState
<1>3. l.offset = n.log.offset
  BY NodeFacts DEF Merge, Log
<1>4. a = [f EXCEPT !.log = l, !.commit = IF m.commit > @ THEN Smaller(m.commit, LastIndex(l)) ELSE @]
  BY Zenon DEF Accept
<1> HIDE DEF a, l, f
<1>5. /\ a.log = l
      /\ a.commit = IF m.commit > f.commit THEN Smaller(m.commit, LastIndex(l)) ELSE f.commit
      /\ a.applied = f.applied /\ a.machine = f.machine
      /\ a.term = f.term /\ a.state = f.state /\ a.members = f.members /\ a.pending = f.pending
  BY <1>2, <1>4, Zenon DEF NodeState
<1> QED
  BY <1>1, <1>2, <1>3, <1>5 DEF a, l

LEMMA AppendEntriesMoves ==
  ASSUME Ready, NEW i \in Server, NEW j \in Server, NEW k \in Deliverable(i, j),
         HandleAppendEntries(i, j, k)
  PROVE  Moved(i)
<1> DEFINE m == net[j][i][k]
           n == TermUpdate(node[i], m.term)
           d == TermUpdateSaved(disk[i], node[i], m.term)
           w == Without(i, j, k)
           f == Follow(n, j)
           a == Accept(n, j, m)
           no == AppendReply(n, FALSE, 0)
           yes == AppendReply(a, TRUE, LastIndex(a.log))
<1>1. /\ m \in Message /\ m.term \in Nat /\ m \in Carries(net, j, i)
      /\ Within(w)
      /\ n \in NodeState /\ Carried(node[i], n) /\ n.term \in Nat
      /\ n.term >= m.term /\ n.term >= node[i].term
      /\ n = node[i] \/ n.state = "Follower"
  BY Taking
<1>2. /\ m.type = "AppendEntries" /\ granted' = granted /\ elected' = elected
      /\ \/ EndIteration(i, n, d, w, Reply(j, no)) /\ odd' = odd
         \/ EndIteration(i, f, d, w, Reply(j, no)) /\ odd' = odd
         \/ /\ m.term >= n.term /\ Matches(n.log, m.prevIndex, m.prevTerm)
            /\ EndIteration(i, a, d, w, Reply(j, yes))
            /\ odd' = odd \cup (IF LastIndex(a.log) =< m.prevIndex + Len(m.entries) THEN {}
                                ELSE {"over-report"})
  BY Zenon DEF HandleAppendEntries, Takes
<1>3. no \in Message /\ no.type = "AppendEntriesResponse" /\ ~no.success /\ no.term = n.term
  <2>1. no \in Message
    BY <1>1, RepliesType, Zenon
  <2> QED
    BY <2>1 DEF AppendReply
<1>4. Carried(n, f) /\ f.state = "Follower" /\ f.term = n.term
  BY <1>1, FollowCarries, Zenon
<1> HIDE DEF m, n, d, w, f, a, no, yes
<1>5. Carried(node[i], f)
  BY <1>1, <1>4, CarriedTwice
<1>6. ASSUME NEW v, Carried(node[i], v), v.term = n.term, v = n \/ v.state = "Follower",
             EndIteration(i, v, d, w, Reply(j, no)), odd' = odd
      PROVE  Moved(i)
  <2>1. Reply(j, no) \in Outbox
    BY <1>3, ReplyType
  <2>2. Iteration(i, v, Reply(j, no))
    BY <1>1, <1>6, <2>1, CarriedIteration
  <2>3. Mails(i)
    BY <1>3, <1>6, <2>2, ReplyPosted
  <2>4. Stays(i)
    BY <1>1, <1>2, <1>6, <2>2, CarriedStays
  <2> QED
    BY <1>6, <2>2, <2>3, <2>4, CarriedMoves
<1>7. CASE EndIteration(i, n, d, w, Reply(j, no)) /\ odd' = odd
  BY <1>1, <1>6, <1>7
<1>8. CASE EndIteration(i, f, d, w, Reply(j, no)) /\ odd' = odd
  BY <1>4, <1>5, <1>6, <1>8
<1>9. CASE /\ m.term >= n.term /\ Matches(n.log, m.prevIndex, m.prevTerm)
           /\ EndIteration(i, a, d, w, Reply(j, yes))
           /\ odd' = odd \cup (IF LastIndex(a.log) =< m.prevIndex + Len(m.entries) THEN {}
                               ELSE {"over-report"})
  <2>1. m \in [type : {"AppendEntries"}, term : Nat, prevIndex : Nat, prevTerm : Nat,
               entries : Seq(Entry), commit : Nat]
    BY <1>1, <1>2 DEF Message
  <2>2. /\ n.log = node[i].log /\ n.commit = node[i].commit /\ n.applied = node[i].applied
        /\ n.machine = node[i].machine
        /\ Changes = {} => n.members = node[i].members /\ n.pending = Nil
    BY <1>1 DEF Carried, Ready, Unpended
  <2> DEFINE l == Merge(n.log, m.prevIndex, m.entries)
  <2>3. /\ a \in NodeState /\ a.log = l /\ a.log.offset = n.log.offset
        /\ a.commit = IF m.commit > n.commit THEN Smaller(m.commit, LastIndex(l)) ELSE n.commit
        /\ a.applied = n.applied /\ a.machine = n.machine
        /\ a.term = n.term /\ a.state = "Follower"
        /\ a.members = n.members /\ a.pending = n.pending
    BY <1>1, <1>9, <2>1, AcceptFields, Zenon DEF a
  <2> HIDE DEF l
  <2>4. LastIndex(a.log) \in Nat
    BY <2>3, NodeFacts, LogFacts
  <2>5. /\ yes \in Message /\ yes.type = "AppendEntriesResponse" /\ yes.term = a.term
        /\ yes.match = LastIndex(a.log)
    <3>1. yes \in Message
      BY <2>3, <2>4, RepliesType, Zenon DEF yes
    <3> QED
      BY <3>1 DEF AppendReply, yes
  <2>6. Reply(j, yes) \in Outbox
    BY <2>5, ReplyType
  <2>7. Iteration(i, a, Reply(j, yes))
    <3>1. a.log.offset = 0
      BY <2>2, <2>3, ReadyFacts
    <3> QED
      BY <1>1, <1>9, <2>2, <2>3, <2>6, <3>1, Iterated DEF Ready
  <2>8. /\ \A q \in Server : \A r \in Outgoing(Reply(j, yes), q) : r = yes /\ q = j
        /\ \A q \in Server : Posted(i, q, yes)
    <3>1. \A q \in Server : \A r \in Outgoing(Reply(j, yes), q) : r = yes /\ q = j
      BY SMTT(60), ReplyOut
    <3>2. \A q \in Server : Posted(i, q, yes)
      BY <2>5, <2>7 DEF Posted, Iteration
    <3> QED
      BY <3>1, <3>2
  <2>9. m.term = n.term
    BY SMTT(60), <1>1, <1>9
  <2>10. \A q \in Server : \A r \in Carries(net', i, q) :
            r \in Carries(net, i, q) \/ q = j
    BY <2>7, <2>8 DEF Iteration
  <2>11. /\ node'[i].state = "Follower" /\ node'[i].term = n.term /\ node'[i].log = l
         /\ node'[i].commit = a.commit /\ node'[i].members = n.members /\ node'[i].pending = n.pending
         /\ Applies(i)
    BY <2>3, <2>7, Zenon DEF Iteration
  <2>12. LastIndex(node'[i].log) =< m.prevIndex + Len(m.entries) \/ "over-report" \in odd'
    BY <1>9, <2>3, <2>11
  <2>13. node'[i].commit = IF m.commit > node[i].commit
                             THEN Smaller(m.commit, LastIndex(node'[i].log)) ELSE node[i].commit
    BY <2>2, <2>3, <2>11
  <2>14. Matches(node[i].log, m.prevIndex, m.prevTerm)
         /\ node'[i].log = Merge(node[i].log, m.prevIndex, m.entries)
    BY <1>9, <2>2, <2>11 DEF l
  <2>15. Learns(i)
    BY <1>1, <1>2, <2>9, <2>10, <2>11, <2>12, <2>13, <2>14, Zenon DEF Learns
  <2>16. MailMoves(i) /\ \A p \in Server \ {i} : node'[p] = node[p]
    BY <2>7, <2>8 DEF Iteration, MailMoves
  <2>17. odd \subseteq odd'
    BY <1>9
  <2> QED
    BY <2>2, <2>11, <2>15, <2>16, <2>17 DEF Moved, Move, Acknowledges
<1> QED
  BY <1>2, <1>7, <1>8, <1>9

\* A server that stops comes up with an empty log.
LEMMA RebootMoves ==
  ASSUME Ready, NEW i \in Server, Crashes(i), Within(net')
  PROVE  Moved(i)
<1>1. PICK d \in DiskState : Reboot(i, d)
  BY DEF Crashes
<1>2. /\ node'[i] = Boot(i, d) /\ \A j \in Server \ {i} : node'[j] = node[j]
      /\ restarts' = restarts + 1 /\ elected' = elected /\ granted' = granted /\ odd' = odd
  BY <1>1 DEF Reboot, Ready, TypeOK
<1>3. restarts' > 0
  BY SMTT(60), <1>2 DEF Ready, TypeOK
<1>4. /\ Boot(i, d).state = "Follower" /\ Boot(i, d).log.entries = <<>> /\ Boot(i, d).pending = Nil
  BY DEF Boot, EmptyLog, ResetToSnapshot
<1>5. Restarts(i)
  BY <1>2, <1>3, <1>4 DEF Restarts
<1>6. MailMoves(i) /\ Acknowledges(i)
  BY DEF Within, MailMoves, Acknowledges
<1> QED
  BY <1>2, <1>4, <1>5, <1>6 DEF Moved, Move

LEMMA CrashMoves ==
  ASSUME Ready, NEW i \in Server,
         \/ Restart(i) \/ CrashInElection(i)
         \/ \E j \in Server : \E k \in Deliverable(i, j) :
               CrashInTermUpdate(i, j, k) \/ CrashInVote(i, j, k) \/ CrashInInstall(i, j, k)
  PROVE  Moved(i)
<1>1. StateType
  BY StateTyped DEF Ready
<1>2. CASE Restart(i) \/ CrashInElection(i)
  <2>1. Crashes(i)
    BY <1>1, <1>2, RestartCrashes
  <2>2. net' = net
    BY <1>2 DEF Restart, CrashInElection
  <2>3. Within(net')
    BY <2>2, AllMail DEF Ready
  <2> QED
    BY <2>1, <2>3, RebootMoves
<1>3. ASSUME NEW j \in Server, NEW k \in Deliverable(i, j),
             CrashInTermUpdate(i, j, k) \/ CrashInVote(i, j, k) \/ CrashInInstall(i, j, k)
      PROVE  Moved(i)
  <2>1. Crashes(i)
    BY <1>1, <1>3, CrashInHandler
  <2>2. net' = Without(i, j, k)
    BY <1>3, Zenon DEF CrashInTermUpdate, CrashInVote, CrashInInstall
  <2>3. Within(net')
    BY <2>2, TakenMail DEF Ready
  <2> QED
    BY <2>1, <2>3, RebootMoves
<1> QED
  BY <1>2, <1>3

\* A handler that stops at a failed write sends nothing.
LEMMA FailMoves ==
  ASSUME Ready, NEW i \in Server, NEW n, Carried(node[i], n), NEW d, NEW w, Within(w),
         NEW D, Fail(i, n, d, w, D),
         \/ n.term = node[i].term /\ n.state = node[i].state /\ n.match = node[i].match
         \/ n.term >= node[i].term /\ n.state = "Follower"
         \/ n.term = node[i].term + 1 /\ n.state = "Candidate"
  PROVE  Moved(i)
<1>1. /\ EndIteration(i, n, d, w, Silence)
      /\ granted' = granted /\ elected' = elected /\ odd \subseteq odd'
  BY DEF Fail
<1>2. Iteration(i, n, Silence)
  BY <1>1, CarriedIteration, SilenceType
<1>3. Mails(i)
  BY <1>2, SilencePosted
<1>4. Stays(i) \/ Stands(i)
  BY <1>1, <1>2, Zenon DEF Stays, Stands, Carried, Iteration
<1> QED
  BY <1>1, <1>2, <1>3, <1>4, CarriedMoves

LEMMA FailuresMove ==
  ASSUME Ready, NEW i \in Server,
         \/ ElectionFails(i)
         \/ \E j \in Server : \E k \in Deliverable(i, j) :
               TermUpdateFails(i, j, k) \/ VoteFails(i, j, k) \/ InstallFails(i, j, k)
  PROVE  Moved(i)
<1>1. node[i] \in NodeState
  BY ReadyFacts
<1>2. CASE ElectionFails(i)
  <2>1. PICK d : Fail(i, Campaign(node[i], i), d, net, {})
    BY <1>2 DEF ElectionFails
  <2>2. /\ Carried(node[i], Campaign(node[i], i)) /\ Campaign(node[i], i).state = "Candidate"
        /\ Campaign(node[i], i).term = node[i].term + 1
    BY <1>1, CampaignCarries
  <2>3. Within(net)
    BY AllMail DEF Ready
  <2> QED
    BY <2>1, <2>2, <2>3, FailMoves
<1>3. ASSUME NEW j \in Server, NEW k \in Deliverable(i, j),
             TermUpdateFails(i, j, k) \/ VoteFails(i, j, k) \/ InstallFails(i, j, k)
      PROVE  Moved(i)
  <2> DEFINE n == TermUpdate(node[i], net[j][i][k].term)
             v == [n EXCEPT !.vote = j]
             w == Without(i, j, k)
  <2>1. /\ Within(w) /\ n \in NodeState /\ Carried(node[i], n)
        /\ n.term >= node[i].term
        /\ n = node[i] \/ n.state = "Follower"
    BY Taking
  <2>2. /\ Carried(n, v) /\ v.state = n.state /\ v.term = n.term /\ v.match = n.match
    BY <2>1, VoteCarries, Zenon
  <2>3. Carried(node[i], v)
    BY <2>1, <2>2, CarriedTwice
  <2>4. \E d : Fail(i, n, d, w, {}) \/ Fail(i, v, d, w, {})
    <3>1. ~InstallFails(i, j, k)
      BY Taking, Zenon DEF InstallFails, Takes
    <3> QED
      BY <1>3, <3>1, Zenon DEF TermUpdateFails, VoteFails
  <2> HIDE DEF n, v, w
  <2> QED
    BY <2>1, <2>2, <2>3, <2>4, FailMoves
<1> QED
  BY <1>2, <1>3

LEMMA LoseMoves ==
  ASSUME Ready, NEW i \in Server, NEW j \in Server, Lose(i, j)
  PROVE  Moved(i)
<1>1. /\ node' = node /\ granted' = granted /\ elected' = elected /\ odd' = odd
      /\ net[i][j] # <<>> /\ net' = [net EXCEPT ![i][j] = Tail(@)]
  BY DEF Lose
<1>2. net \in Net
  BY DEF Ready, TypeOK, Net, Outbox
<1> DEFINE s == net[i][j]
<1>3. s \in Seq(Message)
  BY <1>2 DEF Net, Outbox
<1>4. /\ net'[i][j] = Tail(s)
      /\ \A p, q \in Server : p # i \/ q # j => net'[p][q] = net[p][q]
  BY <1>1, <1>2 DEF Net, Outbox
<1> HIDE DEF s
<1>5. \A x \in 1..Len(Tail(s)) : x + 1 \in 1..Len(s) /\ Tail(s)[x] = s[x + 1]
  BY SMTT(60), <1>1, <1>3 DEF s
<1>6. Carries(net', i, j) \subseteq Carries(net, i, j)
  BY SMTT(60), <1>4, <1>5 DEF Carries, s
<1>7. ASSUME NEW p \in Server, NEW q \in Server
      PROVE  Carries(net', p, q) \subseteq Carries(net, p, q)
  <2>1. CASE p = i /\ q = j
    BY <1>6, <2>1
  <2>2. CASE ~(p = i /\ q = j)
    BY <1>4, <2>2 DEF Carries
  <2> QED
    BY <2>1, <2>2
<1>8. MailMoves(i) /\ Acknowledges(i)
  BY <1>7 DEF MailMoves, Acknowledges
<1>9. Stays(i) /\ Applies(i)
  BY <1>1 DEF Stays, Applies
<1>10. Changes = {} => node'[i].pending = Nil
  BY <1>1 DEF Ready, Unpended
<1> QED
  BY <1>1, <1>8, <1>9, <1>10 DEF Moved, Move

\* No snapshot is on its way, so none is taken.
LEMMA SnapshotsIdle ==
  ASSUME Ready, NEW i \in Server, NEW j \in Server, NEW k \in Deliverable(i, j)
  PROVE  ~HandleInstallSnapshot(i, j, k) /\ ~HandleInstallSnapshotResponse(i, j, k)
<1>1. net[j][i][k].type \notin {"InstallSnapshot", "InstallSnapshotResponse"}
  BY Taking
<1> QED
  BY <1>1, Zenon DEF HandleInstallSnapshot, HandleInstallSnapshotResponse, Takes

LEMMA NextMoves ==
  ASSUME Ready, Next
  PROVE  \E i \in Server : Moved(i)
<1>1. PICK i \in Server :
         \/ StartElection(i)
         \/ HeartbeatTick(i)
         \/ \E c \in Proposes[i] : ClientRequest(i, c)
         \/ \E c \in Changes, noop \in Proposes[i] : ProposeMembershipChange(i, c, noop)
         \/ Restart(i) \/ CrashInElection(i) \/ ElectionFails(i)
         \/ \E j \in Server \ {i} :
               \/ Lose(i, j)
               \/ \E k \in Deliverable(i, j) : Receive(i, j, k) \/ Disturb(i, j, k)
  BY DEF Next
<1>2. CASE StartElection(i) \/ HeartbeatTick(i)
  BY <1>2, StartElectionMoves, HeartbeatMoves
<1>3. CASE \E c \in Proposes[i] : ClientRequest(i, c)
  BY <1>3, ClientRequestMoves
<1>4. CASE \E c \in Changes, noop \in Proposes[i] : ProposeMembershipChange(i, c, noop)
  BY <1>4, MembershipMoves
<1>5. CASE Restart(i) \/ CrashInElection(i)
  BY <1>5, CrashMoves
<1>6. CASE ElectionFails(i)
  BY <1>6, FailuresMove
<1>7. ASSUME NEW j \in Server \ {i}, Lose(i, j)
      PROVE  Moved(i)
  BY <1>7, LoseMoves
<1>8. ASSUME NEW j \in Server \ {i}, NEW k \in Deliverable(i, j), Receive(i, j, k)
      PROVE  Moved(i)
  BY <1>8, RequestVoteMoves, RequestVoteResponseMoves, AppendEntriesMoves, AppendEntriesResponseMoves,
     SnapshotsIdle DEF Receive
<1>9. ASSUME NEW j \in Server \ {i}, NEW k \in Deliverable(i, j), Disturb(i, j, k)
      PROVE  Moved(i)
  BY <1>9, CrashMoves, FailuresMove DEF Disturb
<1> QED
  BY <1>1, <1>2, <1>3, <1>4, <1>5, <1>6, <1>7, <1>8, <1>9, Zenon

\* Nothing of a snapshot is sent, and no change of membership becomes pending
\* where none is proposed.
LEMMA MovedStaysReady ==
  ASSUME Ready, NEW i \in Server, Moved(i)
  PROVE  NoSnapshots' /\ Unpended'
<1>1. NoSnapshots'
  <2>1. \A p, q \in Server : \A m \in Carries(net', p, q) :
           m.type \notin {"InstallSnapshot", "InstallSnapshotResponse"}
    <3> SUFFICES ASSUME NEW p \in Server, NEW q \in Server, NEW m \in Carries(net', p, q)
                 PROVE  m.type \notin {"InstallSnapshot", "InstallSnapshotResponse"}
      OBVIOUS
    <3>1. m \in Carries(net, p, q) \/ Posted(i, q, m)
      BY DEF Moved, Move, MailMoves
    <3>2. m \in Carries(net, p, q) => m \in Mail(net)
      BY SMT DEF Mail
    <3> QED
      BY <3>1, <3>2 DEF Posted, Ready, NoSnapshots
  <2> QED
    BY SMTT(60), <2>1 DEF NoSnapshots, Mail
<1>2. Unpended'
  BY DEF Moved, Move, Ready, Unpended
<1> QED
  BY <1>1, <1>2

=============================================================================
