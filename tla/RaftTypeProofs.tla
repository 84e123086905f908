--------------------------- MODULE RaftTypeProofs ---------------------------
(***************************************************************************)
(* Type correctness of RaftNode, and the lemmas the other proofs about it  *)
(* rest on: what each piece of a handler, each message and each iteration  *)
(* of the event loop does to a server's state.                             *)
(***************************************************************************)
EXTENDS RaftNode, RaftLogProofs

USE Zenon

-----------------------------------------------------------------------------
(* The pieces of the handlers                                              *)

\* A piece that leaves the term, the vote and a candidate's votes alone.
Keeps(n, a) ==
    /\ a \in NodeState /\ a.term = n.term /\ a.vote = n.vote
    /\ a.state = "Candidate" => n.state = "Candidate" /\ a.votes = n.votes

LEMMA KeepsTrans ==
  ASSUME NEW n, NEW a, NEW b, Keeps(n, a), Keeps(a, b)
  PROVE  Keeps(n, b)
  BY Zenon DEF Keeps

LEMMA NodeFacts ==
  ASSUME NEW n \in NodeState
  PROVE  /\ n.term \in Nat /\ n.commit \in Nat /\ n.applied \in Nat /\ n.log \in Log
         /\ n.next \in [Server -> Nat \ {0}] /\ n.match \in [Server -> Nat]
         /\ n.members \in SUBSET Server /\ n.votes \in SUBSET Server
         /\ n.vote \in Server \cup {Nil} /\ n.machine \in Image /\ n.buffer \in Seq(Chunk)
         /\ n.pending \in Pending \cup {Nil}
         /\ n.snap \in [meta : Meta, image : Image] \cup {Nil}
  BY Zenon DEF NodeState

LEMMA NoProgress == NoNext \in [Server -> Nat \ {0}] /\ NoMatch \in [Server -> Nat]
  BY SMT DEF NoNext, NoMatch

LEMMA KeepsRollback ==
  ASSUME NEW n \in NodeState
  PROVE  Keeps(n, RollbackChange(n))
<1>1. CASE n.pending = Nil
  BY <1>1 DEF RollbackChange, Keeps
<1>2. CASE n.pending # Nil
  <2>1. n.pending.change.server \in Server
    BY <1>2, NodeFacts DEF Pending
  <2>2. n.members \ {n.pending.change.server} \in SUBSET Server
        /\ n.members \cup {n.pending.change.server} \in SUBSET Server
    BY <2>1, NodeFacts
  <2> QED
    BY <1>2, <2>2, Zenon DEF RollbackChange, NodeState, Keeps
<1> QED
  BY <1>1, <1>2

LEMMA TermUpdateType ==
  ASSUME NEW n \in NodeState, NEW t \in Nat
  PROVE  /\ TermUpdate(n, t) \in NodeState
         /\ t > n.term => TermUpdate(n, t).term = t /\ TermUpdate(n, t).vote = Nil
                          /\ TermUpdate(n, t).state = "Follower"
         /\ ~(t > n.term) => TermUpdate(n, t) = n
<1>1. CASE t =< n.term
  BY SMT, <1>1, NodeFacts DEF TermUpdate
<1>2. CASE ~(t =< n.term)
  <2>1. RollbackChange(n) \in NodeState
    BY KeepsRollback DEF Keeps
  <2>2. TermUpdate(n, t) = [RollbackChange(n) EXCEPT
            !.term = t, !.vote = Nil, !.state = "Follower", !.votes = {},
            !.next = NoNext, !.match = NoMatch]
    BY <1>2, Zenon DEF TermUpdate
  <2>3. TermUpdate(n, t) \in NodeState /\ TermUpdate(n, t).term = t
        /\ TermUpdate(n, t).vote = Nil /\ TermUpdate(n, t).state = "Follower"
    BY <2>1, <2>2, NoProgress, ZenonT(60) DEF NodeState
  <2> QED
    BY SMT, <1>2, <2>3, NodeFacts
<1> QED
  BY <1>1, <1>2

LEMMA KeepsFollow ==
  ASSUME NEW n \in NodeState, NEW j \in Server
  PROVE  Keeps(n, Follow(n, j))
  BY NoProgress, Zenon DEF Keeps, Follow, NodeState

LEMMA KeepsBecomeLeader ==
  ASSUME NEW n \in NodeState, NEW i \in Server
  PROVE  Keeps(n, BecomeLeader(n, i)) /\ BecomeLeader(n, i).members = n.members
<1>1. [p \in Server |-> IF p \in n.members \ {i} THEN LastIndex(n.log) + 1 ELSE 1]
        \in [Server -> Nat \ {0}]
  BY SMT, NodeFacts, LogFacts
<1> QED
  BY <1>1, NoProgress, Zenon DEF Keeps, BecomeLeader, NodeState

LEMMA KeepsCommitChange ==
  ASSUME NEW n \in NodeState, NEW i \in Server
  PROVE  Keeps(n, CommitChange(n, i))
<1> DEFINE gone == n.pending.change = [kind |-> "RemoveServer", server |-> i]
<1>1. CASE n.pending = Nil \/ n.commit < n.pending.index
  BY <1>1 DEF CommitChange, Keeps
<1>2. CASE ~(n.pending = Nil \/ n.commit < n.pending.index)
  <2>1. [p \in Server |-> IF p \in n.members /\ ~gone THEN n.next[p] ELSE 1]
          \in [Server -> Nat \ {0}]
        /\ [p \in Server |-> IF p \in n.members /\ ~gone THEN n.match[p] ELSE 0]
          \in [Server -> Nat]
    BY SMT, NodeFacts
  <2>2. CASE gone
    BY <1>2, <2>1, <2>2, Zenon DEF CommitChange, NodeState, Keeps
  <2>3. CASE ~gone
    BY <1>2, <2>1, <2>3, Zenon DEF CommitChange, NodeState, Keeps
  <2> QED
    BY <2>2, <2>3
<1> QED
  BY <1>1, <1>2

LEMMA KeepsAdvance ==
  ASSUME NEW n \in NodeState, NEW i \in Server
  PROVE  Keeps(n, AdvanceCommit(n, i))
<1> DEFINE C == Highest(n)
           top == CHOOSE k \in C : TRUE
           m == [n EXCEPT !.commit = top]
<1>1. CASE n.state # "Leader" \/ C = {}
  BY <1>1 DEF AdvanceCommit, Keeps
<1>2. CASE ~(n.state # "Leader" \/ C = {})
  <2>1. C \subseteq Nat
    BY SMT, NodeFacts, LogFacts DEF Highest, Committable
  <2>3. top \in Nat
    <3> HIDE DEF C
    <3> QED
      BY <1>2, <2>1, Zenon
  <2>4. Keeps(n, m)
    <3> HIDE DEF top
    <3> QED
      BY <2>3, Zenon DEF Keeps, NodeState
  <2>5. AdvanceCommit(n, i) = CommitChange(m, i)
    BY <1>2 DEF AdvanceCommit
  <2>6. Keeps(m, CommitChange(m, i))
    <3> HIDE DEF m
    <3> QED
      BY <2>4, KeepsCommitChange DEF Keeps
  <2> QED
    <3> HIDE DEF m
    <3> QED
      BY <2>4, <2>5, <2>6, KeepsTrans
<1> QED
  BY <1>1, <1>2

LEMMA ApplyBounds ==
  ASSUME NEW a \in Nat, NEW c \in Nat, NEW o \in Nat, NEW len \in Nat
  PROVE  /\ Larger(a, o) + 1 - o \in Int /\ Larger(a, o) + 1 - o >= 1
         /\ Smaller(c, o + len) - o \in Int /\ Smaller(c, o + len) - o =< len
  BY SMT DEF Larger, Smaller

LEMMA KeepsApply ==
  ASSUME NEW n \in NodeState
  PROVE  Keeps(n, ApplyCommitted(n))
<1> DEFINE lo == Larger(n.applied, n.log.offset) + 1 - n.log.offset
           hi == Smaller(n.commit, LastIndex(n.log)) - n.log.offset
           es == SubSeq(n.log.entries, lo, hi)
           cs == [k \in 1..Len(es) |-> es[k].command]
<1>1. CASE n.applied >= n.commit
  BY <1>1 DEF ApplyCommitted, Keeps
<1>2. CASE ~(n.applied >= n.commit)
  <2>1. lo \in Int /\ lo >= 1 /\ hi \in Int /\ hi =< Len(n.log.entries)
    <3>1. n.applied \in Nat /\ n.commit \in Nat /\ n.log.offset \in Nat
          /\ Len(n.log.entries) \in Nat /\ LastIndex(n.log) = n.log.offset + Len(n.log.entries)
      BY NodeFacts, LogFacts DEF LastIndex
    <3> QED
      BY <3>1, ApplyBounds, Zenon
  <2>2. es \in Seq(Entry)
    BY <2>1, NodeFacts, LogFacts, PartType
  <2>3. cs \in Seq(Command)
    <3> HIDE DEF es
    <3>1. Len(es) \in Nat /\ \A k \in 1..Len(es) : es[k] \in Entry
      BY <2>2, LenProperties, ElementOfSeq
    <3>2. cs \in [1..Len(es) -> Command]
      BY <3>1 DEF Entry
    <3> QED
      BY <3>1, <3>2, ListLen
  <2>4. n.machine \o cs \in Image
    <3> HIDE DEF cs
    <3> QED
      BY <2>3, NodeFacts, ConcatProperties DEF Image
  <2>5. ApplyCommitted(n) = [n EXCEPT !.applied = n.commit, !.machine = n.machine \o cs]
    BY <1>2, Zenon DEF ApplyCommitted
  <2> QED
    <3> HIDE DEF cs
    <3> QED
      BY <2>4, <2>5, Zenon DEF NodeState, Keeps
<1> QED
  BY <1>1, <1>2

LEMMA SnapshotOfType ==
  ASSUME NEW n \in NodeState
  PROVE  SnapshotOf(n) \in [meta : Meta, image : Image]
<1>1. (IF TermAt(n.log, n.applied) = NoTerm THEN n.log.snapTerm ELSE TermAt(n.log, n.applied))
        \in Nat
  BY NodeFacts, LogFacts, TermAtType
<1> QED
  BY <1>1, NodeFacts DEF SnapshotOf, Meta

LEMMA KeepsSnapshot ==
  ASSUME NEW n \in NodeState
  PROVE  Keeps(n, MaybeSnapshot(n))
<1>1. CASE TakesSnapshot(n)
  <2>1. CompactTo(n.log, n.applied) \in Log
    BY NodeFacts, CompactToType
  <2>2. MaybeSnapshot(n) = [n EXCEPT !.snap = SnapshotOf(n), !.log = CompactTo(n.log, n.applied)]
    BY <1>1, Zenon DEF MaybeSnapshot
  <2> QED
    BY <2>1, <2>2, SnapshotOfType, Zenon DEF NodeState, Keeps
<1>2. CASE ~TakesSnapshot(n)
  BY <1>2 DEF MaybeSnapshot, Keeps
<1> QED
  BY <1>1, <1>2

LEMMA KeepsProgress ==
  ASSUME NEW n \in NodeState, NEW j \in Server, NEW k \in Nat
  PROVE  /\ Keeps(n, [n EXCEPT !.match[j] = k, !.next[j] = k + 1])
         /\ Keeps(n, [n EXCEPT !.next[j] = k + 1])
<1>1. [n.match EXCEPT ![j] = k] \in [Server -> Nat]
      /\ [n.next EXCEPT ![j] = k + 1] \in [Server -> Nat \ {0}]
  BY SMT, NodeFacts
<1> QED
  BY <1>1, Zenon DEF NodeState, Keeps

LEMMA KeepsAcknowledged ==
  ASSUME NEW n \in NodeState, NEW j \in Server,
         NEW m \in [type : {"AppendEntriesResponse"}, term : Nat, success : BOOLEAN, match : Nat]
  PROVE  Keeps(n, Progress(n, j, m))
<1>1. CASE m.success
  <2>1. \A k \in Nat : Keeps(n, [n EXCEPT !.match[j] = k, !.next[j] = k + 1])
    BY KeepsProgress, Zenon
  <2>2. Progress(n, j, m) = [n EXCEPT !.match[j] = m.match, !.next[j] = m.match + 1]
    BY <1>1, Zenon DEF Progress
  <2> QED
    <3>1. m.match \in Nat
      OBVIOUS
    <3> QED
      BY <2>1, <2>2, <3>1, Zenon
<1>2. CASE ~m.success
  <2>1. (IF n.next[j] > 1 THEN n.next[j] - 1 ELSE n.next[j]) \in Nat \ {0}
    BY SMT, NodeFacts
  <2>2. [n.next EXCEPT ![j] = IF n.next[j] > 1 THEN n.next[j] - 1 ELSE n.next[j]]
          \in [Server -> Nat \ {0}]
    BY <2>1, NodeFacts
  <2> QED
    BY <1>2, <2>2, Zenon DEF Progress, NodeState, Keeps
<1> QED
  BY <1>1, <1>2

LEMMA KeepsAccept ==
  ASSUME NEW n \in NodeState, NEW j \in Server,
         NEW m \in [type : {"AppendEntries"}, term : Nat, prevIndex : Nat, prevTerm : Nat,
                    entries : Seq(Entry), commit : Nat],
         Matches(n.log, m.prevIndex, m.prevTerm)
  PROVE  Keeps(n, Accept(n, j, m))
<1> DEFINE f == Follow(n, j)
           l == Merge(n.log, m.prevIndex, m.entries)
           c == IF m.commit > f.commit THEN Smaller(m.commit, LastIndex(l)) ELSE f.commit
<1>1. m.prevIndex \in Nat /\ m.prevTerm \in Nat /\ m.entries \in Seq(Entry) /\ m.commit \in Nat
  OBVIOUS
<1>2. l \in Log
  BY <1>1, NodeFacts, MergeFacts DEF Merged
<1>3. Keeps(n, f)
  BY KeepsFollow
<1>4. f.commit \in Nat
  BY <1>3, NodeFacts DEF Keeps
<1>5. c \in Nat
  <2> HIDE DEF l, f
  <2> QED
    BY <1>1, <1>2, <1>4, LogFacts DEF Smaller
<1>6. Accept(n, j, m) = [f EXCEPT !.log = l, !.commit = c]
  BY Zenon DEF Accept
<1> QED
  <2> HIDE DEF l, f, c
  <2> QED
    BY <1>2, <1>3, <1>5, <1>6, Zenon DEF NodeState, Keeps

LEMMA ChunksPositive == Chunks \in Nat \ {0} /\ 1 \in 1..Chunks
  BY SMT, RaftAssumptions

SnapshotChunk == [type : {"InstallSnapshot"}, term : Nat, meta : Meta, chunk : Chunk]

LEMMA ChunkFacts ==
  ASSUME NEW m \in SnapshotChunk
  PROVE  /\ m.meta \in Meta /\ m.meta.index \in Nat /\ m.meta.term \in Nat
         /\ m.chunk \in Chunk /\ m.chunk.image \in Image /\ m.term \in Nat
  BY DEF SnapshotChunk, Meta, Chunk

LEMMA BufferedType ==
  ASSUME NEW n \in NodeState, NEW m \in SnapshotChunk
  PROVE  Buffered(n, m) \in Seq(Chunk)
<1>1. m.chunk \in Chunk
  BY ChunkFacts
<1>2. <<m.chunk>> \in Seq(Chunk) /\ <<>> \in Seq(Chunk)
  BY SMT, <1>1, EmptySeq
<1>3. Append(n.buffer, m.chunk) \in Seq(Chunk)
  BY <1>1, NodeFacts, AppendProperties
<1> QED
  BY <1>2, <1>3, Zenon DEF Buffered

LEMMA KeepsBuffer ==
  ASSUME NEW n \in NodeState, NEW b \in Seq(Chunk)
  PROVE  Keeps(n, [n EXCEPT !.buffer = b])
  BY Zenon DEF NodeState, Keeps

LEMMA MixtureType ==
  ASSUME NEW b \in Seq(Chunk), b # <<>>, NEW image \in Mixtures(b)
  PROVE  image \in Image
<1> DEFINE first == b[1].image
           last  == b[Len(b)].image
<1>1. Len(b) \in Nat /\ 1 \in 1..Len(b) /\ Len(b) \in 1..Len(b)
  BY SMT
<1>2. first \in Seq(Command) /\ last \in Seq(Command)
  <2>1. b[1] \in Chunk /\ b[Len(b)] \in Chunk
    BY <1>1, ElementOfSeq
  <2> QED
    BY <2>1 DEF Chunk, Image
<1>3. PICK k \in 0..Len(first) : image = SubSeq(first, 1, k) \o SubSeq(last, k + 1, Len(last))
  BY Zenon DEF Mixtures
<1> HIDE DEF first, last
<1>4. k \in Nat /\ k + 1 \in Nat /\ 1 =< k + 1 /\ k =< Len(first) /\ Len(last) \in Nat
  BY SMT, <1>2
<1>5. SubSeq(first, 1, k) \in Seq(Command)
  BY SMT, <1>2, <1>4, PartType
<1>6. SubSeq(last, k + 1, Len(last)) \in Seq(Command)
  BY SMT, <1>2, <1>4, PartType
<1> QED
  BY SMT, <1>3, <1>5, <1>6 DEF Image

LEMMA KeepsInstalled ==
  ASSUME NEW n \in NodeState, NEW m \in SnapshotChunk
  PROVE  Keeps(n, Installed(n, m))
<1>1. CompactTo(n.log, m.meta.index) \in Log
  BY NodeFacts, ChunkFacts, CompactToType
<1>2. ResetToSnapshot(m.meta.index, m.meta.term) \in Log
  BY ChunkFacts, ResetType
<1>3. <<>> \in Seq(Chunk)
  BY EmptySeq
<1> QED
  BY <1>1, <1>2, <1>3, ZenonT(60) DEF Installed, NodeState, Keeps

LEMMA KeepsRestored ==
  ASSUME NEW n \in NodeState, NEW m \in SnapshotChunk
  PROVE  /\ Keeps(n, Restored(n, m))
         /\ Restored(n, m).snap = [meta |-> m.meta, image |-> m.chunk.image]
<1> DEFINE a == Installed(n, m)
<1>1. Keeps(n, a)
  BY KeepsInstalled
<1>2. Larger(a.commit, m.meta.index) \in Nat /\ Larger(a.applied, m.meta.index) \in Nat
  <2>1. a.commit \in Nat /\ a.applied \in Nat
    BY <1>1, NodeFacts DEF Keeps
  <2> QED
    BY <2>1, ChunkFacts DEF Larger
<1>3. m.chunk.image \in Image
  BY ChunkFacts
<1>4. [meta |-> m.meta, image |-> m.chunk.image] \in [meta : Meta, image : Image]
  BY <1>3, ChunkFacts
<1>5. Restored(n, m) = [a EXCEPT !.machine = m.chunk.image,
          !.commit = Larger(a.commit, m.meta.index), !.applied = Larger(a.applied, m.meta.index),
          !.snap = [meta |-> m.meta, image |-> m.chunk.image]]
  BY Zenon DEF Restored
<1>6. Keeps(a, Restored(n, m)) /\ Restored(n, m).snap = [meta |-> m.meta, image |-> m.chunk.image]
  <2> HIDE DEF a
  <2> QED
    BY <1>1, <1>2, <1>3, <1>4, <1>5, ZenonT(60) DEF NodeState, Keeps
<1> QED
  BY <1>1, <1>6, KeepsTrans

LEMMA KeepsEntry ==
  ASSUME NEW n \in NodeState, NEW c \in Command
  PROVE  Keeps(n, [n EXCEPT !.log = Append1(@, [term |-> n.term, command |-> c])])
<1>1. [term |-> n.term, command |-> c] \in Entry
  BY NodeFacts DEF Entry
<1>2. Append1(n.log, [term |-> n.term, command |-> c]) \in Log
  BY <1>1, NodeFacts, Append1Type
<1> QED
  BY <1>2, Zenon DEF NodeState, Keeps

LEMMA KeepsBeginChange ==
  ASSUME NEW n \in NodeState,
         NEW c \in [kind : {"AddServer", "RemoveServer"}, server : Server]
  PROVE  Keeps(n, BeginChange(n, c))
<1> DEFINE k == LastIndex(n.log)
<1>1. c.server \in Server /\ k \in Nat
  BY NodeFacts, LogFacts
<1>2. [index |-> k, change |-> c] \in Pending
  BY <1>1 DEF Pending
<1>3. n.members \cup {c.server} \in SUBSET Server /\ n.members \ {c.server} \in SUBSET Server
  BY <1>1, NodeFacts
<1>4. [n.match EXCEPT ![c.server] = 0] \in [Server -> Nat]
      /\ [n.next EXCEPT ![c.server] = k + 1] \in [Server -> Nat \ {0}]
  BY SMT, <1>1, NodeFacts
<1> QED
  <2>1. CASE c.kind = "AddServer"
    <3>1. BeginChange(n, c) = [n EXCEPT !.pending = [index |-> k, change |-> c],
              !.members = n.members \cup {c.server}, !.next[c.server] = k + 1, !.match[c.server] = 0]
      BY <2>1, Zenon DEF BeginChange
    <3> HIDE DEF k
    <3> QED
      BY <1>2, <1>3, <1>4, <3>1, ZenonT(60) DEF NodeState, Keeps
  <2>2. CASE c.kind # "AddServer"
    <3>1. BeginChange(n, c) = [n EXCEPT !.pending = [index |-> k, change |-> c],
              !.members = n.members \ {c.server}]
      BY <2>2, Zenon DEF BeginChange
    <3> HIDE DEF k
    <3> QED
      BY <1>2, <1>3, <3>1, ZenonT(60) DEF NodeState, Keeps
  <2> QED
    BY <2>1, <2>2

LEMMA DiskFacts ==
  ASSUME NEW d \in DiskState
  PROVE  /\ d.term \in Nat /\ d.vote \in Server \cup {Nil}
         /\ d.bin \in Image \cup {Nil} /\ d.meta \in Meta \cup {Nil}
  BY Zenon DEF DiskState

LEMMA BootType ==
  ASSUME NEW i \in Server, NEW d \in DiskState
  PROVE  /\ Boot(i, d) \in NodeState
         /\ Boot(i, d).term = d.term /\ Boot(i, d).vote = d.vote
         /\ Boot(i, d).state = "Follower"
<1> DEFINE snap == SnapshotOn(d)
           log == IF snap = Nil THEN EmptyLog ELSE ResetToSnapshot(snap.meta.index, snap.meta.term)
<1>1. snap \in [meta : Meta, image : Image] \cup {Nil}
  BY DiskFacts DEF SnapshotOn
<1>2. log \in Log
  <2> HIDE DEF snap
  <2>1. CASE snap = Nil
    BY <2>1, EmptyLogType
  <2>2. CASE snap # Nil
    <3>1. snap.meta.index \in Nat /\ snap.meta.term \in Nat
      BY <1>1, <2>2 DEF Meta
    <3> QED
      BY <2>2, <3>1, ResetType
  <2> QED
    BY <2>1, <2>2
<1>3. Peers[i] \cup {i} \in SUBSET Server
  BY RaftAssumptions
<1>4. <<>> \in Seq(Chunk) /\ <<>> \in Image
  BY EmptySeq DEF Image
<1>5. 0 \in Nat
  OBVIOUS
<1>6. Boot(i, d) = [state |-> "Follower", term |-> d.term, vote |-> d.vote, leader |-> Nil,
         votes |-> {}, commit |-> 0, applied |-> 0, next |-> NoNext, match |-> NoMatch,
         log |-> log, members |-> Peers[i] \cup {i}, pending |-> Nil,
         snap |-> snap, buffer |-> <<>>, machine |-> <<>>]
  BY Zenon DEF Boot
<1>7. d.term \in Nat /\ d.vote \in Server \cup {Nil}
  BY DiskFacts
<1> HIDE DEF log, snap
<1> QED
  BY SMT, <1>1, <1>2, <1>3, <1>4, <1>5, <1>6, <1>7, NoProgress DEF NodeState

-----------------------------------------------------------------------------
(* The disk                                                                *)

LEMMA TermSavedType ==
  ASSUME NEW d \in DiskState, NEW t \in Nat
  PROVE  TermSaved(d, t) \in DiskState /\ TermSaved(d, t).term = t /\ TermSaved(d, t).vote = d.vote
  BY Zenon DEF TermSaved, DiskState

LEMMA VoteSavedType ==
  ASSUME NEW d \in DiskState, NEW v \in Server \cup {Nil}
  PROVE  VoteSaved(d, v) \in DiskState /\ VoteSaved(d, v).term = d.term /\ VoteSaved(d, v).vote = v
  BY Zenon DEF VoteSaved, DiskState

LEMMA TermUpdateSavedType ==
  ASSUME NEW d \in DiskState, NEW n \in NodeState, NEW t \in Nat
  PROVE  /\ TermUpdateSaved(d, n, t) \in DiskState
         /\ t > n.term => TermUpdateSaved(d, n, t).term = t /\ TermUpdateSaved(d, n, t).vote = Nil
         /\ ~(t > n.term) => TermUpdateSaved(d, n, t) = d
<1>1. CASE t =< n.term
  BY SMT, <1>1, NodeFacts DEF TermUpdateSaved
<1>2. CASE ~(t =< n.term)
  <2>1. TermUpdateSaved(d, n, t) = VoteSaved(TermSaved(d, t), Nil)
    BY <1>2 DEF TermUpdateSaved
  <2>2. TermSaved(d, t) \in DiskState /\ TermSaved(d, t).term = t
    BY TermSavedType
  <2>3. VoteSaved(TermSaved(d, t), Nil) \in DiskState
        /\ VoteSaved(TermSaved(d, t), Nil).term = t /\ VoteSaved(TermSaved(d, t), Nil).vote = Nil
    BY <2>2, VoteSavedType
  <2> QED
    BY SMT, <1>2, <2>1, <2>3, NodeFacts
<1> QED
  BY <1>1, <1>2

LEMMA SnapshotSavedType ==
  ASSUME NEW d \in DiskState, NEW s \in [meta : Meta, image : Image]
  PROVE  /\ SnapshotSaved(d, s) \in DiskState
         /\ SnapshotSaved(d, s).term = d.term /\ SnapshotSaved(d, s).vote = d.vote
<1>1. s.meta \in Meta \cup {Nil} /\ s.image \in Image \cup {Nil}
  OBVIOUS
<1> QED
  BY <1>1, Zenon DEF SnapshotSaved, DiskState

LEMMA BinSavedType ==
  ASSUME NEW d \in DiskState, NEW b \in Image
  PROVE  /\ [d EXCEPT !.bin = b] \in DiskState
         /\ [d EXCEPT !.bin = b].term = d.term /\ [d EXCEPT !.bin = b].vote = d.vote
  BY Zenon DEF DiskState

-----------------------------------------------------------------------------
(* Messages                                                                *)

Outbox == [Server -> Seq(Message)]
Net    == [Server -> Outbox]

LEMMA OneMessage ==
  ASSUME NEW m \in Message
  PROVE  <<m>> \in Seq(Message)
  BY SMT

LEMMA ReplicateType ==
  ASSUME NEW n \in NodeState, NEW p \in Server
  PROVE  Replicate(n, p) \in Seq(Message)
<1> DEFINE chunk(c) == [type |-> "InstallSnapshot", term |-> n.term, meta |-> n.snap.meta,
                        chunk |-> [image |-> n.snap.image, part |-> c]]
           prev == n.next[p] - 1
           pt == IF TermAt(n.log, prev) = NoTerm THEN 0 ELSE TermAt(n.log, prev)
           es == EntriesFrom(n.log, n.next[p])
           ae == [type |-> "AppendEntries", term |-> n.term, prevIndex |-> prev,
                  prevTerm |-> pt, entries |-> es, commit |-> n.commit]
<1>1. n.term \in Nat /\ n.next[p] \in Nat \ {0} /\ n.log \in Log /\ n.commit \in Nat
  BY NodeFacts
<1>2. CASE n.log.offset > 0 /\ n.next[p] =< n.log.offset
  <2>1. CASE n.snap = Nil
    BY <1>2, <2>1, EmptySeq DEF Replicate
  <2>2. CASE n.snap # Nil
    <3>1. n.snap.meta \in Meta /\ n.snap.image \in Image
      BY <2>2, NodeFacts
    <3>2. \A c \in 1..Chunks : chunk(c) \in Message
      BY <1>1, <3>1 DEF Message, Chunk
    <3>3. [c \in 1..Chunks |-> chunk(c)] \in [1..Chunks -> Message]
      BY <3>2
    <3>4. [c \in 1..Chunks |-> chunk(c)] \in Seq(Message)
      BY <3>3, ChunksPositive, ListLen
    <3> QED
      BY <1>2, <2>2, <3>4 DEF Replicate
  <2> QED
    BY <2>1, <2>2
<1>3. CASE ~(n.log.offset > 0 /\ n.next[p] =< n.log.offset)
  <2>1. prev \in Nat
    BY SMT, <1>1
  <2>2. pt \in Nat
    <3> HIDE DEF prev
    <3> QED
      BY <1>1, <2>1, TermAtType
  <2>3. es \in Seq(Entry)
    BY <1>1, EntriesFromType
  <2>4. ae \in Message
    <3> HIDE DEF prev, pt, es
    <3> QED
      BY <1>1, <2>1, <2>2, <2>3 DEF Message
  <2>5. Replicate(n, p) = <<ae>>
    BY <1>3 DEF Replicate
  <2> QED
    BY <2>4, <2>5, OneMessage
<1> QED
  BY <1>2, <1>3

LEMMA ToPeersType ==
  ASSUME NEW n \in NodeState, NEW i \in Server
  PROVE  ToPeers(n, i) \in Outbox
  BY ReplicateType, EmptySeq DEF ToPeers, Outbox

LEMMA SilenceType == Silence \in Outbox
  BY EmptySeq DEF Silence, Outbox

LEMMA ReplyType ==
  ASSUME NEW j \in Server, NEW m \in Message
  PROVE  Reply(j, m) \in Outbox
  BY OneMessage, EmptySeq DEF Reply, Outbox

LEMMA VoteRequestsType ==
  ASSUME NEW n \in NodeState, NEW i \in Server
  PROVE  VoteRequests(n, i) \in Outbox
<1> DEFINE m == [type |-> "RequestVote", term |-> n.term,
                 lastIndex |-> LastIndex(n.log), lastTerm |-> LastTerm(n.log)]
<1>1. m \in Message
  BY NodeFacts, LogFacts DEF Message
<1>2. <<m>> \in Seq(Message)
  BY <1>1, OneMessage
<1>3. VoteRequests(n, i) = [p \in Server |-> IF p \in Peers[i] THEN <<m>> ELSE <<>>]
  BY DEF VoteRequests
<1> HIDE DEF m
<1> QED
  BY <1>2, <1>3, EmptySeq DEF Outbox

LEMMA RepliesType ==
  ASSUME NEW n \in NodeState, NEW yes \in BOOLEAN, NEW k \in Nat
  PROVE  /\ VoteReply(n, yes) \in Message
         /\ AppendReply(n, yes, k) \in Message
         /\ SnapshotReply(n) \in Message
<1>1. n.term \in Nat
  BY NodeFacts
<1> QED
  BY <1>1 DEF VoteReply, AppendReply, SnapshotReply, Message

\* What is left of a sequence without its k-th element.
LEMMA WithoutOne ==
  ASSUME NEW S, NEW s \in Seq(S), NEW k \in 1..Len(s)
  PROVE  /\ SubSeq(s, 1, k - 1) \o SubSeq(s, k + 1, Len(s)) \in Seq(S)
<1>1. Len(s) \in Nat
  BY LenProperties
<1>2. SubSeq(s, 1, k - 1) \in Seq(S)
  <2>1. k - 1 \in Int /\ k - 1 =< Len(s)
    BY SMT, <1>1
  <2> QED
    BY SMT, <2>1, PartType
<1>3. SubSeq(s, k + 1, Len(s)) \in Seq(S)
  <2>1. k + 1 \in Int /\ k + 1 >= 1
    BY SMT, <1>1
  <2> QED
    BY SMT, <1>1, <2>1, PartType
<1> QED
  BY <1>2, <1>3, ConcatProperties

LEMMA DeliverableIndex ==
  ASSUME NEW i \in Server, NEW j \in Server, net \in Net, NEW k \in Deliverable(i, j)
  PROVE  k \in 1..Len(net[j][i]) /\ net[j][i][k] \in Message /\ net[j][i][k].term \in Nat
<1>1. net[j][i] \in Seq(Message) /\ Len(net[j][i]) \in Nat /\ Overtake \in Nat
  BY SMT, LenProperties, RaftAssumptions DEF Net, Outbox
<1>2. k \in 1..Len(net[j][i])
  BY SMT, <1>1 DEF Deliverable, Smaller
<1>3. net[j][i][k] \in Message
  BY <1>1, <1>2, ElementOfSeq
<1> QED
  BY <1>2, <1>3 DEF Message

LEMMA WithoutType ==
  ASSUME NEW i \in Server, NEW j \in Server, net \in Net, NEW k \in Deliverable(i, j)
  PROVE  Without(i, j, k) \in Net
<1> DEFINE q == net[j][i]
           rest == SubSeq(q, 1, k - 1) \o SubSeq(q, k + 1, Len(q))
<1>1. q \in Seq(Message) /\ k \in 1..Len(q)
  BY DeliverableIndex DEF Net, Outbox
<1>2. rest \in Seq(Message)
  <2> HIDE DEF q
  <2> QED
    BY <1>1, WithoutOne
<1>3. Without(i, j, k) = [net EXCEPT ![j] = [net[j] EXCEPT ![i] = rest]]
  BY Zenon DEF Without, Net, Outbox
<1> HIDE DEF rest
<1> QED
  BY SMT, <1>2, <1>3 DEF Net, Outbox

LEMMA SendsType ==
  ASSUME NEW w \in Net, NEW i \in Server, NEW out \in Outbox, NEW to
  PROVE  Sends(w, i, out, to) \in Net
<1>1. \A p \in Server : w[i][p] \o out[p] \in Seq(Message)
  BY SMT, ConcatProperties DEF Net, Outbox
<1>2. [p \in Server |-> IF p \in to THEN w[i][p] \o out[p] ELSE w[i][p]] \in Outbox
  BY <1>1 DEF Net, Outbox
<1> QED
  BY <1>2 DEF Sends, Net

-----------------------------------------------------------------------------
(* An iteration of the event loop                                          *)

StateType ==
    /\ node \in [Server -> NodeState]
    /\ disk \in [Server -> DiskState]
    /\ net \in Net

LEMMA StateTyped == TypeOK => StateType
  BY DEF TypeOK, StateType, Net, Outbox

\* Nobody but server i changes.
Only(i) == \A j \in Server \ {i} : node'[j] = node[j] /\ disk'[j] = disk[j]

LEMMA SaveFailedType ==
  ASSUME NEW d \in DiskState, NEW image \in Image, NEW e \in SaveFailed(d, image)
  PROVE  e \in DiskState /\ e.term = d.term /\ e.vote = d.vote
<1>1. e = d \/ e = [d EXCEPT !.bin = image]
  BY DEF SaveFailed
<1> QED
  BY <1>1, Zenon DEF DiskState

\* A snapshot is taken, or it cannot be saved.
LEMMA EndIterationOutcome ==
  ASSUME NEW i, NEW n, NEW d, NEW w, NEW out, EndIteration(i, n, d, w, out)
  PROVE  LET a == ApplyCommitted(n)
         IN  /\ \E v \in {a, MaybeSnapshot(a)} : \E e \in SaveFailed(d, a.machine) \cup {SnapshotSaved(d, SnapshotOf(a))} :
                   node' = [node EXCEPT ![i] = v] /\ disk' = [disk EXCEPT ![i] = e]
             /\ \E to \in Reachable(w, i, out) : net' = Sends(w, i, out, to)
<1> DEFINE a == ApplyCommitted(n)
           s == SnapshotSaved(d, SnapshotOf(a))
<1>1. /\ \/ /\ node' = [node EXCEPT ![i] = MaybeSnapshot(a)]
            /\ disk' = [disk EXCEPT ![i] = IF TakesSnapshot(a) THEN s ELSE d]
         \/ /\ node' = [node EXCEPT ![i] = a]
            /\ \E e \in SaveFailed(d, a.machine) : disk' = [disk EXCEPT ![i] = e]
      /\ \E to \in Reachable(w, i, out) : net' = Sends(w, i, out, to)
  BY Zenon DEF EndIteration
<1>2. d \in SaveFailed(d, a.machine)
  BY DEF SaveFailed
<1> HIDE DEF a, s
<1>3. \E v \in {a, MaybeSnapshot(a)} : \E e \in SaveFailed(d, a.machine) \cup {s} :
         node' = [node EXCEPT ![i] = v] /\ disk' = [disk EXCEPT ![i] = e]
  <2>1. CASE TakesSnapshot(a)
    BY <1>1, <1>2, <2>1, Zenon
  <2>2. CASE ~TakesSnapshot(a)
    BY <1>1, <1>2, <2>2, Zenon
  <2> QED
    BY <2>1, <2>2
<1> QED
  BY <1>1, <1>3, Zenon DEF a, s

LEMMA EndIterationType ==
  ASSUME NEW i \in Server, NEW n \in NodeState, NEW d \in DiskState, NEW w \in Net,
         NEW out \in Outbox, StateType, EndIteration(i, n, d, w, out)
  PROVE  /\ StateType' /\ Only(i) /\ Keeps(n, node'[i])
         /\ disk'[i].term = d.term /\ disk'[i].vote = d.vote
         /\ \E to : net' = Sends(w, i, out, to)
<1> DEFINE a == ApplyCommitted(n)
<1>1. PICK v \in {a, MaybeSnapshot(a)}, e \in SaveFailed(d, a.machine) \cup {SnapshotSaved(d, SnapshotOf(a))} :
         node' = [node EXCEPT ![i] = v] /\ disk' = [disk EXCEPT ![i] = e]
  BY EndIterationOutcome, Zenon
<1>2. Keeps(n, a)
  BY KeepsApply
<1> HIDE DEF a
<1>3. a \in NodeState /\ a.machine \in Image
  BY <1>2, NodeFacts DEF Keeps, NodeState
<1>4. Keeps(n, v)
  <2>1. Keeps(a, MaybeSnapshot(a))
    BY <1>3, KeepsSnapshot
  <2>2. Keeps(n, MaybeSnapshot(a))
    BY <1>2, <2>1, KeepsTrans
  <2> QED
    BY <1>1, <1>2, <2>2
<1>5. e \in DiskState /\ e.term = d.term /\ e.vote = d.vote
  <2>1. CASE e \in SaveFailed(d, a.machine)
    BY <1>3, <2>1, SaveFailedType
  <2>2. CASE e = SnapshotSaved(d, SnapshotOf(a))
    <3>1. SnapshotOf(a) \in [meta : Meta, image : Image]
      BY <1>3, SnapshotOfType
    <3> QED
      BY <2>2, <3>1, SnapshotSavedType
  <2> QED
    BY <1>1, <2>1, <2>2
<1>6. PICK to : net' = Sends(w, i, out, to)
  BY Zenon DEF EndIteration
<1>7. net' \in Net
  BY <1>6, SendsType
<1>8. node' \in [Server -> NodeState] /\ node'[i] = v
      /\ \A j \in Server \ {i} : node'[j] = node[j]
  BY <1>1, <1>4 DEF StateType, Keeps
<1>9. disk' \in [Server -> DiskState] /\ disk'[i] = e
      /\ \A j \in Server \ {i} : disk'[j] = disk[j]
  BY <1>1, <1>5 DEF StateType
<1> QED
  BY <1>4, <1>5, <1>6, <1>7, <1>8, <1>9 DEF StateType, Only

\* What a server makes of the term of a message, in memory and on disk.
LEMMA Arrival ==
  ASSUME NEW i \in Server, NEW j \in Server, StateType, NEW k \in Deliverable(i, j)
  PROVE  /\ net[j][i][k] \in Message /\ net[j][i][k].term \in Nat
         /\ TermUpdate(node[i], net[j][i][k].term) \in NodeState
         /\ TermUpdateSaved(disk[i], node[i], net[j][i][k].term) \in DiskState
         /\ Without(i, j, k) \in Net
<1>1. net[j][i][k] \in Message /\ net[j][i][k].term \in Nat
  BY DeliverableIndex DEF StateType
<1>2. node[i] \in NodeState /\ disk[i] \in DiskState
  BY DEF StateType
<1> QED
  BY <1>1, <1>2, TermUpdateType, TermUpdateSavedType, WithoutType DEF StateType

\* The variables an iteration does not touch are typed as before.
HistoryType ==
    /\ granted \subseteq [voter : Server, term : Nat, candidate : Server]
    /\ elected \subseteq Won
    /\ odd \subseteq Departures
    /\ restarts \in Nat /\ faults \in Nat

LEMMA TypeSplit == TypeOK <=> StateType /\ HistoryType
  BY DEF TypeOK, StateType, HistoryType, Net, Outbox

LEMMA CampaignType ==
  ASSUME NEW n \in NodeState, NEW i \in Server
  PROVE  /\ Campaign(n, i) \in NodeState /\ Campaign(n, i).term = n.term + 1
         /\ Campaign(n, i).vote = i /\ Campaign(n, i).votes = {i}
         /\ Campaign(n, i).members = n.members
<1>1. n.term + 1 \in Nat /\ {i} \in SUBSET Server
  BY SMT, NodeFacts
<1> QED
  BY <1>1, NoProgress, Zenon DEF Campaign, NodeState

LEMMA ElectionType ==
  ASSUME NEW n \in NodeState, NEW i \in Server
  PROVE  /\ Election(n, i) \in Won
  BY NodeFacts DEF Election, Won

LEMMA StartElectionType ==
  ASSUME TypeOK, NEW i \in Server, StartElection(i)
  PROVE  TypeOK'
<1> DEFINE n == Campaign(node[i], i)
           d == VoteSaved(TermSaved(disk[i], n.term), i)
           b == BecomeLeader(n, i)
<1>1. StateType /\ HistoryType /\ node[i] \in NodeState /\ disk[i] \in DiskState /\ net \in Net
  BY TypeSplit DEF StateType
<1>2. n \in NodeState /\ n.term \in Nat
  BY <1>1, CampaignType, NodeFacts
<1>3. d \in DiskState
  <2> HIDE DEF n
  <2>1. TermSaved(disk[i], n.term) \in DiskState
    BY <1>1, <1>2, TermSavedType
  <2> QED
    BY <2>1, VoteSavedType
<1>4. b \in NodeState
  <2> HIDE DEF n
  <2> QED
    BY <1>2, KeepsBecomeLeader DEF Keeps
<1>5. StateType'
  <2>1. EndIteration(i, b, d, net, ToPeers(b, i)) \/ EndIteration(i, n, d, net, VoteRequests(n, i))
    BY DEF StartElection
  <2> HIDE DEF n, d, b
  <2> QED
    BY <1>1, <1>2, <1>3, <1>4, <2>1, EndIterationType, ToPeersType, VoteRequestsType
<1>6. HistoryType'
  <2>1. granted' = granted \cup {[voter |-> i, term |-> n.term, candidate |-> i]}
        /\ (elected' = elected \/ elected' = elected \cup {Election(n, i)})
        /\ odd' = odd /\ restarts' = restarts /\ faults' = faults
    BY DEF StartElection
  <2> HIDE DEF n
  <2>2. Election(n, i) \in Won
    BY <1>2, ElectionType
  <2> QED
    BY SMT, <1>1, <1>2, <2>1, <2>2 DEF HistoryType
<1> QED
  BY <1>5, <1>6, TypeSplit, Zenon DEF TypeOK, StateType, HistoryType, Net, Outbox

-----------------------------------------------------------------------------
(* Iterations that neither ask for votes nor give any                      *)

NoVotes(out) ==
    \A p \in Server : \A q \in 1..Len(out[p]) :
        out[p][q].type \notin {"RequestVote", "RequestVoteResponse"}

Quiet(i, n0, d0, w) ==
    \E n \in NodeState, d \in DiskState, out \in Outbox :
        /\ Keeps(n0, n) /\ d.term = d0.term /\ d.vote = d0.vote
        /\ NoVotes(out)
        /\ EndIteration(i, n, d, w, out)

LEMMA NoVotesSilence == NoVotes(Silence)
  BY SMT, EmptySeq DEF NoVotes, Silence

LEMMA NoVotesReply ==
  ASSUME NEW j \in Server, NEW m, m.type \notin {"RequestVote", "RequestVoteResponse"}
  PROVE  NoVotes(Reply(j, m))
  BY SMT DEF NoVotes, Reply

LEMMA NoVotesToPeers ==
  ASSUME NEW n \in NodeState, NEW i \in Server
  PROVE  NoVotes(ToPeers(n, i))
<1> SUFFICES ASSUME NEW p \in Server, NEW q \in 1..Len(ToPeers(n, i)[p])
             PROVE  ToPeers(n, i)[p][q].type \in {"InstallSnapshot", "AppendEntries"}
  BY DEF NoVotes
<1>1. ToPeers(n, i)[p] = <<>> \/ ToPeers(n, i)[p] = Replicate(n, p)
  BY DEF ToPeers
<1>2. ToPeers(n, i)[p] # <<>>
  BY SMT, EmptySeq
<1>3. q \in 1..Len(Replicate(n, p)) /\ ToPeers(n, i)[p][q] = Replicate(n, p)[q]
  BY <1>1, <1>2
<1>4. CASE n.log.offset > 0 /\ n.next[p] =< n.log.offset /\ n.snap # Nil
  <2> DEFINE f == [c \in 1..Chunks |->
                     [type |-> "InstallSnapshot", term |-> n.term, meta |-> n.snap.meta,
                      chunk |-> [image |-> n.snap.image, part |-> c]]]
  <2>1. Replicate(n, p) = f
    BY <1>4 DEF Replicate
  <2>2. Len(f) = Chunks
    <3>1. f \in [1..Chunks -> {f[c] : c \in DOMAIN f}] /\ Chunks \in Nat
      BY ChunksPositive
    <3> HIDE DEF f
    <3> QED
      BY <3>1, ListLen
  <2>3. f[q].type = "InstallSnapshot"
    <3>1. q \in 1..Chunks
      BY <1>3, <2>1, <2>2, Zenon
    <3> QED
      BY <3>1
  <2> QED
    BY <1>3, <2>1, <2>3
<1>5. CASE n.log.offset > 0 /\ n.next[p] =< n.log.offset /\ n.snap = Nil
  BY <1>1, <1>2, <1>5 DEF Replicate
<1>6. CASE ~(n.log.offset > 0 /\ n.next[p] =< n.log.offset)
  <2>1. PICK ae : Replicate(n, p) = <<ae>> /\ ae.type = "AppendEntries"
    BY SMT, <1>6 DEF Replicate
  <2>2. q = 1
    BY SMT, <1>3, <2>1
  <2> QED
    BY SMT, <1>3, <2>1, <2>2
<1> QED
  BY <1>4, <1>5, <1>6

LEMMA QuietType ==
  ASSUME NEW i \in Server, NEW n0, NEW d0, NEW w \in Net, StateType, Quiet(i, n0, d0, w)
  PROVE  StateType'
  BY EndIterationType DEF Quiet

LEMMA KeepsSelf ==
  ASSUME NEW n \in NodeState
  PROVE  Keeps(n, n)
  BY DEF Keeps

LEMMA HeartbeatQuiet ==
  ASSUME StateType, NEW i \in Server, HeartbeatTick(i)
  PROVE  Quiet(i, node[i], disk[i], net)
<1>1. node[i] \in NodeState /\ disk[i] \in DiskState
  BY DEF StateType
<1>2. ToPeers(node[i], i) \in Outbox /\ NoVotes(ToPeers(node[i], i))
  BY <1>1, ToPeersType, NoVotesToPeers
<1>3. EndIteration(i, node[i], disk[i], net, ToPeers(node[i], i))
  BY DEF HeartbeatTick
<1> QED
  BY <1>1, <1>2, <1>3, KeepsSelf DEF Quiet

LEMMA ClientRequestQuiet ==
  ASSUME StateType, NEW i \in Server, NEW c \in Proposes[i], ClientRequest(i, c)
  PROVE  Quiet(i, node[i], disk[i], net)
<1> DEFINE n == [node[i] EXCEPT !.log = Append1(@, [term |-> node[i].term, command |-> c])]
<1>1. node[i] \in NodeState /\ disk[i] \in DiskState /\ c \in Command
  BY RaftAssumptions DEF StateType
<1>2. Keeps(node[i], n)
  BY <1>1, KeepsEntry
<1>3. n \in NodeState
  BY <1>2 DEF Keeps
<1>4. EndIteration(i, AdvanceCommit(n, i), disk[i], net, ToPeers(n, i))
  BY DEF ClientRequest
<1> HIDE DEF n
<1>5. Keeps(node[i], AdvanceCommit(n, i))
  BY <1>2, <1>3, KeepsAdvance, KeepsTrans
<1>6. AdvanceCommit(n, i) \in NodeState
  BY <1>5 DEF Keeps
<1>7. ToPeers(n, i) \in Outbox /\ NoVotes(ToPeers(n, i))
  BY <1>3, ToPeersType, NoVotesToPeers
<1> QED
  BY <1>1, <1>4, <1>5, <1>6, <1>7 DEF Quiet

LEMMA MembershipQuiet ==
  ASSUME StateType, NEW i \in Server, NEW c \in Changes, NEW noop \in Proposes[i],
         ProposeMembershipChange(i, c, noop)
  PROVE  Quiet(i, node[i], disk[i], net)
<1> DEFINE a == [node[i] EXCEPT !.log = Append1(@, [term |-> node[i].term, command |-> noop])]
           n == BeginChange(a, c)
<1>1. node[i] \in NodeState /\ disk[i] \in DiskState /\ noop \in Command
      /\ c \in [kind : {"AddServer", "RemoveServer"}, server : Server]
  BY RaftAssumptions DEF StateType
<1>2. Keeps(node[i], a)
  BY <1>1, KeepsEntry
<1>3. EndIteration(i, AdvanceCommit(n, i), disk[i], net, ToPeers(n, i))
  BY DEF ProposeMembershipChange
<1>4. Keeps(node[i], n) /\ n \in NodeState
  <2> HIDE DEF a
  <2> QED
    BY <1>1, <1>2, KeepsBeginChange, KeepsTrans DEF Keeps
<1> HIDE DEF n
<1>5. Keeps(node[i], AdvanceCommit(n, i))
  BY <1>4, KeepsAdvance, KeepsTrans
<1>6. AdvanceCommit(n, i) \in NodeState
  BY <1>5 DEF Keeps
<1>7. ToPeers(n, i) \in Outbox /\ NoVotes(ToPeers(n, i))
  BY <1>4, ToPeersType, NoVotesToPeers
<1> QED
  BY <1>1, <1>3, <1>5, <1>6, <1>7 DEF Quiet

\* The handlers of a message, from the state the term update leaves.
QuietReceive(i, j, k) ==
    Quiet(i, TermUpdate(node[i], net[j][i][k].term),
          TermUpdateSaved(disk[i], node[i], net[j][i][k].term), Without(i, j, k))

LEMMA QuietIf ==
  ASSUME NEW i \in Server, NEW n0, NEW d0, NEW w, NEW n, NEW d, NEW out,
         Keeps(n0, n), d \in DiskState, d.term = d0.term, d.vote = d0.vote,
         out \in Outbox, NoVotes(out), EndIteration(i, n, d, w, out)
  PROVE  Quiet(i, n0, d0, w)
  BY DEF Quiet, Keeps

LEMMA AppendEntriesQuiet ==
  ASSUME StateType, NEW i \in Server, NEW j \in Server, NEW k, HandleAppendEntries(i, j, k)
  PROVE  QuietReceive(i, j, k)
<1> DEFINE m == net[j][i][k]
           n == TermUpdate(node[i], m.term)
           d == TermUpdateSaved(disk[i], node[i], m.term)
           a == Accept(n, j, m)
           w == Without(i, j, k)
<1>1. k \in Deliverable(i, j) /\ m.type = "AppendEntries"
  BY Zenon DEF HandleAppendEntries, Takes
<1>2. m \in Message /\ n \in NodeState /\ d \in DiskState
  BY <1>1, Arrival
<1>3. m \in [type : {"AppendEntries"}, term : Nat, prevIndex : Nat, prevTerm : Nat,
             entries : Seq(Entry), commit : Nat]
  <2> HIDE DEF m
  <2> QED
    BY <1>1, <1>2 DEF Message
<1>4. \/ EndIteration(i, n, d, w, Reply(j, AppendReply(n, FALSE, 0)))
      \/ EndIteration(i, Follow(n, j), d, w, Reply(j, AppendReply(n, FALSE, 0)))
      \/ /\ Matches(n.log, m.prevIndex, m.prevTerm)
         /\ EndIteration(i, a, d, w, Reply(j, AppendReply(a, TRUE, LastIndex(a.log))))
  BY Zenon DEF HandleAppendEntries
<1> HIDE DEF m, n, d, w
<1>5. Keeps(n, n) /\ Keeps(n, Follow(n, j))
  BY <1>2, KeepsSelf, KeepsFollow
<1>6. Reply(j, AppendReply(n, FALSE, 0)) \in Outbox /\ NoVotes(Reply(j, AppendReply(n, FALSE, 0)))
  BY <1>2, RepliesType, ReplyType, NoVotesReply, Zenon DEF AppendReply
<1>7. ASSUME Matches(n.log, m.prevIndex, m.prevTerm)
      PROVE  /\ Keeps(n, a)
             /\ Reply(j, AppendReply(a, TRUE, LastIndex(a.log))) \in Outbox
             /\ NoVotes(Reply(j, AppendReply(a, TRUE, LastIndex(a.log))))
  <2>1. Keeps(n, a) /\ a \in NodeState
    BY <1>2, <1>3, <1>7, KeepsAccept DEF Keeps
  <2> HIDE DEF a
  <2>2. LastIndex(a.log) \in Nat
    BY <2>1, NodeFacts, LogFacts
  <2> QED
    BY <2>1, <2>2, RepliesType, ReplyType, NoVotesReply, Zenon DEF AppendReply
<1>8. Quiet(i, n, d, w)
  <2> HIDE DEF a
  <2> QED
    BY <1>2, <1>4, <1>5, <1>6, <1>7, QuietIf, Zenon
<1> QED
  BY <1>8 DEF QuietReceive, m, n, d, w

LEMMA AppendEntriesResponseQuiet ==
  ASSUME StateType, NEW i \in Server, NEW j \in Server, NEW k, HandleAppendEntriesResponse(i, j, k)
  PROVE  QuietReceive(i, j, k)
<1> DEFINE m == net[j][i][k]
           n == TermUpdate(node[i], m.term)
           d == TermUpdateSaved(disk[i], node[i], m.term)
           w == Without(i, j, k)
           a == AdvanceCommit(Progress(n, j, m), i)
<1>1. k \in Deliverable(i, j) /\ m.type = "AppendEntriesResponse"
  BY Zenon DEF HandleAppendEntriesResponse, Takes
<1>2. m \in Message /\ n \in NodeState /\ d \in DiskState
  BY <1>1, Arrival
<1>3. EndIteration(i, IF n.state = "Leader" THEN a ELSE n, d, w, Silence)
  BY Zenon DEF HandleAppendEntriesResponse
<1> HIDE DEF m, n, d, w
<1>4. m \in [type : {"AppendEntriesResponse"}, term : Nat, success : BOOLEAN, match : Nat]
  BY <1>1, <1>2 DEF Message
<1>5. Keeps(n, Progress(n, j, m)) /\ Progress(n, j, m) \in NodeState
  BY <1>2, <1>4, KeepsAcknowledged DEF Keeps
<1>6. Keeps(n, a)
  BY <1>5, KeepsAdvance, KeepsTrans
<1>7. Quiet(i, n, d, w)
  <2> HIDE DEF a
  <2>1. EndIteration(i, a, d, w, Silence) \/ EndIteration(i, n, d, w, Silence)
    BY <1>3
  <2> QED
    BY <1>2, <1>6, <2>1, KeepsSelf, SilenceType, NoVotesSilence, QuietIf
<1> QED
  BY <1>7 DEF QuietReceive, m, n, d, w

LEMMA InstallSnapshotQuiet ==
  ASSUME StateType, NEW i \in Server, NEW j \in Server, NEW k, HandleInstallSnapshot(i, j, k)
  PROVE  QuietReceive(i, j, k)
<1> DEFINE m == net[j][i][k]
           n == TermUpdate(node[i], m.term)
           d == TermUpdateSaved(disk[i], node[i], m.term)
           w == Without(i, j, k)
           f == Follow(n, j)
           b == Buffered(n, m)
           r == Restored(f, m)
           s == SnapshotSaved(d, r.snap)
           mixed(image) == [m EXCEPT !.chunk.image = image]
           answer == Reply(j, SnapshotReply(n))
<1>1. k \in Deliverable(i, j) /\ m.type = "InstallSnapshot"
  BY Zenon DEF HandleInstallSnapshot, Takes
<1>2. m \in Message /\ n \in NodeState /\ d \in DiskState
  BY <1>1, Arrival
<1>3. \/ EndIteration(i, n, d, w, answer)
      \/ EndIteration(i, [f EXCEPT !.buffer = b], d, w, answer)
      \/ EndIteration(i, Installed(f, m), d, w, Silence)
      \/ b # <<>> /\ \E image \in Mixtures(b) :
            EndIteration(i, Restored(f, mixed(image)), SnapshotSaved(d, Restored(f, mixed(image)).snap), w, answer)
      \/ EndIteration(i, r, s, w, answer)
  BY Zenon DEF HandleInstallSnapshot
<1> HIDE DEF m, n, d, w
<1>4. m \in SnapshotChunk
  BY <1>1, <1>2 DEF Message, SnapshotChunk
<1>5. Keeps(n, n) /\ Keeps(n, f) /\ f \in NodeState
  BY <1>2, KeepsSelf, KeepsFollow DEF Keeps
<1> HIDE DEF f
<1>6. Keeps(n, [f EXCEPT !.buffer = b])
  <2>1. b \in Seq(Chunk)
    BY <1>2, <1>4, BufferedType
  <2> HIDE DEF b
  <2>2. Keeps(f, [f EXCEPT !.buffer = b])
    BY <1>5, <2>1, KeepsBuffer
  <2> QED
    BY <1>5, <2>2, KeepsTrans
<1>7. Keeps(n, Installed(f, m))
  BY <1>4, <1>5, KeepsInstalled, KeepsTrans
<1>8. Keeps(n, r)
  BY <1>4, <1>5, KeepsRestored, KeepsTrans, Zenon
<1>9. s \in DiskState /\ s.term = d.term /\ s.vote = d.vote
  <2>1. r.snap = [meta |-> m.meta, image |-> m.chunk.image]
    BY <1>4, <1>5, KeepsRestored
  <2>2. r.snap \in [meta : Meta, image : Image]
    BY SMT, <1>4, <2>1, ChunkFacts
  <2> HIDE DEF r
  <2> QED
    BY <1>2, <2>2, SnapshotSavedType
<1>10. answer \in Outbox /\ NoVotes(answer)
  BY <1>2, RepliesType, ReplyType, NoVotesReply, Zenon DEF SnapshotReply
<1>11. Quiet(i, n, d, w)
  <2>0. b \in Seq(Chunk)
    BY <1>2, <1>4, BufferedType
  <2> HIDE DEF b, r, s, answer
  <2>1. CASE EndIteration(i, n, d, w, answer)
    BY <1>2, <1>5, <1>10, <2>1, QuietIf
  <2>2. CASE EndIteration(i, [f EXCEPT !.buffer = b], d, w, answer)
    <3> DEFINE g == [f EXCEPT !.buffer = b]
    <3>1. Keeps(n, g) /\ EndIteration(i, g, d, w, answer)
      BY <1>6, <2>2
    <3> HIDE DEF g
    <3> QED
      BY <1>2, <3>1, <1>10, QuietIf
  <2>3. CASE EndIteration(i, Installed(f, m), d, w, Silence)
    BY <1>2, <1>7, <2>3, SilenceType, NoVotesSilence, QuietIf
  <2>4. CASE EndIteration(i, r, s, w, answer)
    BY <1>8, <1>9, <1>10, <2>4, QuietIf
  <2>5. ASSUME b # <<>>, NEW image \in Mixtures(b),
               EndIteration(i, Restored(f, mixed(image)), SnapshotSaved(d, Restored(f, mixed(image)).snap), w, answer)
        PROVE  Quiet(i, n, d, w)
    <3> DEFINE x == mixed(image)
               q == Restored(f, x)
               u == SnapshotSaved(d, q.snap)
    <3>1. image \in Image
      BY <2>0, <2>5, MixtureType
    <3>2. x \in SnapshotChunk
      BY SMT, <1>4, <3>1 DEF SnapshotChunk, Chunk
    <3>3. EndIteration(i, q, u, w, answer)
      BY <2>5
    <3> HIDE DEF x
    <3>4. Keeps(n, q) /\ q.snap = [meta |-> x.meta, image |-> x.chunk.image]
      BY <1>5, <3>2, KeepsRestored, KeepsTrans, Zenon
    <3>5. q.snap \in [meta : Meta, image : Image]
      BY SMT, <3>2, <3>4, ChunkFacts
    <3> HIDE DEF q
    <3>6. u \in DiskState /\ u.term = d.term /\ u.vote = d.vote
      BY <1>2, <3>5, SnapshotSavedType
    <3> QED
      BY <1>10, <3>3, <3>4, <3>6, QuietIf
  <2> QED
    BY <1>3, <2>1, <2>2, <2>3, <2>4, <2>5
<1> QED
  BY <1>11 DEF QuietReceive, m, n, d, w

LEMMA InstallSnapshotResponseQuiet ==
  ASSUME StateType, NEW i \in Server, NEW j \in Server, NEW k, HandleInstallSnapshotResponse(i, j, k)
  PROVE  QuietReceive(i, j, k)
<1> DEFINE m == net[j][i][k]
           n == TermUpdate(node[i], m.term)
           d == TermUpdateSaved(disk[i], node[i], m.term)
           w == Without(i, j, k)
           s == IF n.snap = Nil THEN n
                ELSE [n EXCEPT !.next[j] = n.snap.meta.index + 1, !.match[j] = n.snap.meta.index]
<1>1. k \in Deliverable(i, j)
  BY DEF HandleInstallSnapshotResponse, Takes
<1>2. n \in NodeState /\ d \in DiskState
  BY <1>1, Arrival
<1>3. EndIteration(i, IF n.state = "Leader" THEN AdvanceCommit(s, i) ELSE n, d, w, Silence)
  BY Zenon DEF HandleInstallSnapshotResponse
<1> HIDE DEF m, n, d, w
<1>4. Keeps(n, s)
  <2>1. CASE n.snap = Nil
    BY <1>2, <2>1, KeepsSelf
  <2>2. CASE n.snap # Nil
    <3> DEFINE x == n.snap.meta.index
    <3>1. x \in Nat
      BY <1>2, <2>2, NodeFacts DEF Meta
    <3>2. [n.match EXCEPT ![j] = x] \in [Server -> Nat]
          /\ [n.next EXCEPT ![j] = x + 1] \in [Server -> Nat \ {0}]
      <4> HIDE DEF x
      <4> QED
        BY SMT, <1>2, <3>1, NodeFacts
    <3>3. s = [n EXCEPT !.next[j] = x + 1, !.match[j] = x]
      BY <2>2, Zenon
    <3> HIDE DEF x, s
    <3> QED
      BY <1>2, <3>2, <3>3, Zenon DEF NodeState, Keeps
  <2> QED
    BY <2>1, <2>2
<1>5. Keeps(n, AdvanceCommit(s, i))
  <2> HIDE DEF s
  <2>1. s \in NodeState
    BY <1>4 DEF Keeps
  <2> QED
    BY <1>4, <2>1, KeepsAdvance, KeepsTrans
<1>6. Quiet(i, n, d, w)
  <2> DEFINE a == AdvanceCommit(s, i)
  <2>1. Keeps(n, a) /\ EndIteration(i, IF n.state = "Leader" THEN a ELSE n, d, w, Silence)
    BY <1>3, <1>5
  <2> HIDE DEF a, s
  <2>2. EndIteration(i, a, d, w, Silence) \/ EndIteration(i, n, d, w, Silence)
    BY <2>1
  <2> QED
    BY <1>2, <2>1, <2>2, KeepsSelf, SilenceType, NoVotesSilence, QuietIf
<1> QED
  BY <1>6 DEF QuietReceive, m, n, d, w

-----------------------------------------------------------------------------
(* Votes                                                                   *)

LEMMA VoteType ==
  ASSUME NEW n \in NodeState, NEW j \in Server
  PROVE  /\ [n EXCEPT !.vote = j] \in NodeState
         /\ [n EXCEPT !.vote = j].term = n.term /\ [n EXCEPT !.vote = j].vote = j
         /\ [n EXCEPT !.vote = j].state = n.state /\ [n EXCEPT !.vote = j].votes = n.votes
  BY Zenon DEF NodeState

LEMMA VotesType ==
  ASSUME NEW n \in NodeState, NEW j \in Server
  PROVE  /\ [n EXCEPT !.votes = @ \cup {j}] \in NodeState
         /\ [n EXCEPT !.votes = @ \cup {j}].votes = n.votes \cup {j}
         /\ [n EXCEPT !.votes = @ \cup {j}].term = n.term
         /\ [n EXCEPT !.votes = @ \cup {j}].vote = n.vote
         /\ [n EXCEPT !.votes = @ \cup {j}].state = n.state
<1>1. n.votes \cup {j} \in SUBSET Server
  BY NodeFacts
<1> QED
  BY <1>1, Zenon DEF NodeState

LEMMA RequestVoteType ==
  ASSUME StateType, NEW i \in Server, NEW j \in Server, NEW k, HandleRequestVote(i, j, k)
  PROVE  /\ StateType'
         /\ \E t \in Nat : granted' \subseteq granted \cup {[voter |-> i, term |-> t, candidate |-> j]}
<1> DEFINE m == net[j][i][k]
           n == TermUpdate(node[i], m.term)
           d == TermUpdateSaved(disk[i], node[i], m.term)
           w == Without(i, j, k)
           v == [n EXCEPT !.vote = j]
<1>1. k \in Deliverable(i, j)
  BY DEF HandleRequestVote, Takes
<1>2. n \in NodeState /\ d \in DiskState /\ w \in Net
  BY <1>1, Arrival
<1>3. \/ /\ granted' = granted \cup {[voter |-> i, term |-> n.term, candidate |-> j]}
         /\ EndIteration(i, v, VoteSaved(d, j), w, Reply(j, VoteReply(v, TRUE)))
      \/ /\ granted' = granted
         /\ EndIteration(i, n, d, w, Reply(j, VoteReply(n, FALSE)))
  BY Zenon DEF HandleRequestVote
<1> HIDE DEF m, n, d, w
<1>4. v \in NodeState
  BY <1>2, VoteType
<1> HIDE DEF v
<1>5. VoteSaved(d, j) \in DiskState
  BY <1>2, VoteSavedType
<1>6. Reply(j, VoteReply(v, TRUE)) \in Outbox /\ Reply(j, VoteReply(n, FALSE)) \in Outbox
  BY <1>2, <1>4, RepliesType, ReplyType, Zenon
<1>7. n.term \in Nat
  BY <1>2, NodeFacts
<1>8. StateType'
  BY <1>2, <1>3, <1>4, <1>5, <1>6, EndIterationType, Zenon
<1>9. granted' \subseteq granted \cup {[voter |-> i, term |-> n.term, candidate |-> j]}
  BY <1>3, Zenon
<1> QED
  BY <1>7, <1>8, <1>9

LEMMA RequestVoteResponseType ==
  ASSUME StateType, NEW i \in Server, NEW j \in Server, NEW k, HandleRequestVoteResponse(i, j, k)
  PROVE  /\ StateType'
         /\ \E n \in NodeState : elected' \subseteq elected \cup {Election(n, i)}
         /\ odd' \subseteq odd \cup {"stale vote"}
<1> DEFINE m == net[j][i][k]
           n == TermUpdate(node[i], m.term)
           d == TermUpdateSaved(disk[i], node[i], m.term)
           w == Without(i, j, k)
           v == [n EXCEPT !.votes = @ \cup {j}]
           b == BecomeLeader(v, i)
<1>1. k \in Deliverable(i, j)
  BY Zenon DEF HandleRequestVoteResponse, Takes
<1>2. n \in NodeState /\ d \in DiskState /\ w \in Net
  BY <1>1, Arrival
<1>3. \/ EndIteration(i, n, d, w, Silence)
      \/ EndIteration(i, v, d, w, Silence)
      \/ EndIteration(i, b, d, w, ToPeers(b, i))
  BY Zenon DEF HandleRequestVoteResponse
<1>4. elected' \subseteq elected \cup {Election(v, i)} /\ odd' \subseteq odd \cup {"stale vote"}
  <2>1. elected' = elected \/ elected' = elected \cup {Election(v, i)}
    BY Zenon DEF HandleRequestVoteResponse
  <2>2. odd' = odd \/ odd' = odd \cup (IF m.term = n.term THEN {} ELSE {"stale vote"})
    BY Zenon DEF HandleRequestVoteResponse
  <2> HIDE DEF m, n, v
  <2> QED
    BY <2>1, <2>2, Zenon
<1> HIDE DEF m, n, d, w
<1>5. v \in NodeState
  BY <1>2, VotesType
<1> HIDE DEF v
<1>6. b \in NodeState
  BY <1>5, KeepsBecomeLeader DEF Keeps
<1> HIDE DEF b
<1>7. StateType'
  BY <1>2, <1>3, <1>5, <1>6, EndIterationType, SilenceType, ToPeersType
<1> QED
  BY <1>4, <1>5, <1>7, Zenon

-----------------------------------------------------------------------------
(* Crashes, failed writes and broken connections                           *)

LEMMA RebootType ==
  ASSUME StateType, NEW i \in Server, NEW d \in DiskState, Reboot(i, d)
  PROVE  /\ node' \in [Server -> NodeState] /\ disk' \in [Server -> DiskState] /\ Only(i)
         /\ node'[i] = Boot(i, d) /\ disk'[i] = d
<1>1. Boot(i, d) \in NodeState
  BY BootType
<1> QED
  BY <1>1 DEF Reboot, StateType, Only

LEMMA TailType ==
  ASSUME net \in Net, NEW i \in Server, NEW j \in Server, Lose(i, j)
  PROVE  net' \in Net
<1>1. Tail(net[i][j]) \in Seq(Message)
  BY TailProperties DEF Lose, Net, Outbox
<1> QED
  BY <1>1 DEF Lose, Net, Outbox

\* What the disk of server i may hold when it stops inside a handler.
LEMMA CrashDisk ==
  ASSUME StateType, NEW i \in Server, NEW t \in Nat, NEW v \in Server \cup {Nil}
  PROVE  /\ TermSaved(disk[i], t) \in DiskState
         /\ VoteSaved(TermSaved(disk[i], t), v) \in DiskState
<1>1. TermSaved(disk[i], t) \in DiskState
  BY TermSavedType DEF StateType
<1> QED
  BY <1>1, VoteSavedType

\* The iterations that end in a crash.
Crashes(i) == \E d \in DiskState : Reboot(i, d) /\ net' \in Net

LEMMA RestartCrashes ==
  ASSUME StateType, NEW i \in Server, Restart(i) \/ CrashInElection(i)
  PROVE  Crashes(i)
<1>1. disk[i] \in DiskState /\ node[i].term + 1 \in Nat
  BY SMT, NodeFacts DEF StateType
<1>2. CASE Restart(i)
  BY <1>1, <1>2 DEF Restart, Crashes, StateType
<1>3. CASE CrashInElection(i)
  BY <1>1, <1>3, CrashDisk DEF CrashInElection, Crashes, StateType
<1> QED
  BY <1>2, <1>3

LEMMA CrashInHandler ==
  ASSUME StateType, NEW i \in Server, NEW j \in Server, NEW k,
         CrashInTermUpdate(i, j, k) \/ CrashInVote(i, j, k) \/ CrashInInstall(i, j, k)
  PROVE  Crashes(i)
<1> DEFINE m == net[j][i][k]
           d == TermUpdateSaved(disk[i], node[i], m.term)
<1>1. k \in Deliverable(i, j)
  BY DEF CrashInTermUpdate, CrashInVote, CrashInInstall, Takes
<1>2. m \in Message /\ m.term \in Nat /\ d \in DiskState /\ Without(i, j, k) \in Net
  BY <1>1, Arrival
<1>3. CASE CrashInTermUpdate(i, j, k)
  <2>1. PICK e \in {TermSaved(disk[i], m.term), VoteSaved(TermSaved(disk[i], m.term), Nil)} :
          Reboot(i, e)
    BY <1>3, Zenon DEF CrashInTermUpdate
  <2>2. e \in DiskState
    BY <1>2, CrashDisk
  <2> QED
    BY <1>2, <1>3, <2>1, <2>2 DEF CrashInTermUpdate, Crashes
<1>4. CASE CrashInVote(i, j, k)
  <2>1. VoteSaved(d, j) \in DiskState
    <3> HIDE DEF d
    <3> QED
      BY <1>2, VoteSavedType
  <2>2. Reboot(i, VoteSaved(d, j)) /\ net' = Without(i, j, k)
    BY <1>4, Zenon DEF CrashInVote
  <2> QED
    BY <1>2, <2>1, <2>2 DEF Crashes
<1>5. CASE CrashInInstall(i, j, k)
  <2>1. m.type = "InstallSnapshot"
    BY <1>5 DEF CrashInInstall, Takes
  <2>2. Reboot(i, [d EXCEPT !.bin = m.chunk.image]) /\ net' = Without(i, j, k)
    BY <1>5, Zenon DEF CrashInInstall
  <2> HIDE DEF d, m
  <2>3. m \in SnapshotChunk
    BY <1>2, <2>1 DEF Message, SnapshotChunk
  <2>4. [d EXCEPT !.bin = m.chunk.image] \in DiskState
    BY <1>2, <2>3, ChunkFacts, BinSavedType
  <2> QED
    BY <1>2, <2>2, <2>4 DEF Crashes
<1> QED
  BY <1>3, <1>4, <1>5

\* The iterations that end in a failed write.
Fails(i) ==
    \E n \in NodeState, d \in DiskState, w \in Net, D \in SUBSET Departures : Fail(i, n, d, w, D)

LEMMA ElectionFailsType ==
  ASSUME StateType, NEW i \in Server, ElectionFails(i)
  PROVE  Fails(i)
<1>1. disk[i] \in DiskState /\ node[i].term + 1 \in Nat /\ Campaign(node[i], i) \in NodeState /\ net \in Net
  BY SMT, NodeFacts, CampaignType DEF StateType
<1>2. TermSaved(disk[i], node[i].term + 1) \in DiskState
  BY <1>1, CrashDisk
<1>3. PICK d \in {disk[i], TermSaved(disk[i], node[i].term + 1)} : Fail(i, Campaign(node[i], i), d, net, {})
  BY DEF ElectionFails
<1>4. d \in DiskState
  BY <1>1, <1>2
<1> QED
  BY <1>1, <1>3, <1>4 DEF Fails

\* The log and the state machine are the snapshot's, the indices are not.
Unindexed(n, m) == [Installed(n, m) EXCEPT !.machine = m.chunk.image]

FailedInstall(i, j, k, e) ==
    LET m == net[j][i][k]
        n == TermUpdate(node[i], m.term)
        d == TermUpdateSaved(disk[i], node[i], m.term)
    IN  /\ Keeps(n, Unindexed(Follow(n, j), m))
        /\ e \in DiskState /\ e.term = d.term /\ e.vote = d.vote

LEMMA InstallFailsAt ==
  ASSUME StateType, NEW i \in Server, NEW j \in Server, NEW k \in Deliverable(i, j), InstallFails(i, j, k)
  PROVE  LET m == net[j][i][k]
             n == TermUpdate(node[i], m.term)
         IN  \E e \in DiskState, D \in SUBSET Departures :
                FailedInstall(i, j, k, e)
                  /\ Fail(i, Unindexed(Follow(n, j), m), e, Without(i, j, k), D)
<1> DEFINE m == net[j][i][k]
           n == TermUpdate(node[i], m.term)
           d == TermUpdateSaved(disk[i], node[i], m.term)
           w == Without(i, j, k)
           f == Follow(n, j)
           v == Installed(f, m)
           D == Regress(n, m)
<1>1. m.type = "InstallSnapshot"
  BY DEF InstallFails, Takes
<1>2. m \in Message /\ n \in NodeState /\ d \in DiskState
  BY Arrival
<1>3. PICK e \in SaveFailed(d, m.chunk.image) : Fail(i, Unindexed(f, m), e, w, D)
  BY Zenon DEF InstallFails, Unindexed
<1>4. D \in SUBSET Departures
  BY Zenon DEF Regress, Departures
<1> HIDE DEF m, n, d, w, D
<1>5. m \in SnapshotChunk
  BY <1>1, <1>2 DEF Message, SnapshotChunk
<1>6. Keeps(n, f) /\ f \in NodeState
  BY <1>2, KeepsFollow DEF Keeps
<1> HIDE DEF f
<1>7. Keeps(n, v) /\ v \in NodeState
  BY <1>5, <1>6, KeepsInstalled, KeepsTrans DEF Keeps
<1>8. m.chunk.image \in Image
  BY <1>5, ChunkFacts
<1>9. Keeps(v, Unindexed(f, m))
  <2>1. Unindexed(f, m) = [v EXCEPT !.machine = m.chunk.image]
    BY DEF Unindexed
  <2> HIDE DEF v
  <2> QED
    BY <1>7, <1>8, <2>1, ZenonT(60) DEF NodeState, Keeps
<1>10. Keeps(n, Unindexed(f, m))
  BY <1>7, <1>9, KeepsTrans
<1>11. e \in DiskState /\ e.term = d.term /\ e.vote = d.vote
  BY <1>2, <1>3, <1>8, SaveFailedType
<1>12. FailedInstall(i, j, k, e)
  BY <1>10, <1>11, Zenon DEF FailedInstall, m, n, d, f
<1> QED
  BY <1>3, <1>4, <1>11, <1>12, Zenon DEF m, n, w, f

LEMMA HandlerFailsType ==
  ASSUME StateType, NEW i \in Server, NEW j \in Server, NEW k,
         TermUpdateFails(i, j, k) \/ VoteFails(i, j, k) \/ InstallFails(i, j, k)
  PROVE  Fails(i)
<1> DEFINE m == net[j][i][k]
           n == TermUpdate(node[i], m.term)
           d == TermUpdateSaved(disk[i], node[i], m.term)
           w == Without(i, j, k)
<1>1. k \in Deliverable(i, j)
  BY DEF TermUpdateFails, VoteFails, InstallFails, Takes
<1>2. m.term \in Nat /\ n \in NodeState /\ d \in DiskState /\ w \in Net /\ disk[i] \in DiskState
  BY <1>1, Arrival DEF StateType
<1>3. CASE TermUpdateFails(i, j, k)
  <2>1. PICK e \in {disk[i], TermSaved(disk[i], m.term)} : Fail(i, n, e, w, {})
    BY <1>3, Zenon DEF TermUpdateFails
  <2>2. e \in DiskState
    BY <1>2, CrashDisk
  <2> HIDE DEF n, w
  <2> QED
    BY <1>2, <2>1, <2>2 DEF Fails
<1>4. CASE VoteFails(i, j, k)
  <2>1. Fail(i, [n EXCEPT !.vote = j], d, w, {})
    BY <1>4, Zenon DEF VoteFails
  <2> HIDE DEF n, d, w
  <2>2. [n EXCEPT !.vote = j] \in NodeState
    BY <1>2, VoteType
  <2> QED
    BY <1>2, <2>1, <2>2 DEF Fails
<1>5. CASE InstallFails(i, j, k)
  <2>1. PICK e \in DiskState, D \in SUBSET Departures : FailedInstall(i, j, k, e) /\ Fail(i, Unindexed(Follow(n, j), m), e, w, D)
    BY <1>1, <1>5, InstallFailsAt, Zenon
  <2>2. e \in DiskState /\ Unindexed(Follow(n, j), m) \in NodeState
    BY <2>1, Zenon DEF FailedInstall, Keeps
  <2> HIDE DEF n, m, w
  <2> QED
    BY <1>2, <2>1, <2>2 DEF Fails
<1> QED
  BY <1>3, <1>4, <1>5

-----------------------------------------------------------------------------
(* The type invariant                                                      *)

LEMMA InitType == Init => TypeOK
<1> SUFFICES ASSUME Init PROVE TypeOK
  OBVIOUS
<1>1. NewDisk \in DiskState
  BY DEF NewDisk, DiskState
<1>2. \A i \in Server : Boot(i, NewDisk) \in NodeState
  BY <1>1, BootType
<1>3. StateType
  BY <1>1, <1>2, EmptySeq DEF Init, StateType, Net, Outbox
<1>4. HistoryType
  BY DEF Init, HistoryType
<1> QED
  BY <1>3, <1>4, TypeSplit

LEMMA TypedAfter ==
  ASSUME StateType', HistoryType'
  PROVE  TypeOK'
  BY DEF TypeOK, StateType, HistoryType, Net, Outbox

LEMMA LocalType ==
  ASSUME TypeOK, NEW i \in Server,
         \/ HeartbeatTick(i)
         \/ \E c \in Proposes[i] : ClientRequest(i, c)
         \/ \E c \in Changes, noop \in Proposes[i] : ProposeMembershipChange(i, c, noop)
  PROVE  TypeOK'
<1>1. StateType /\ HistoryType
  BY TypeSplit
<1>2. Quiet(i, node[i], disk[i], net)
  BY <1>1, HeartbeatQuiet, ClientRequestQuiet, MembershipQuiet
<1>3. StateType'
  BY <1>1, <1>2, QuietType DEF StateType
<1>4. HistoryType'
  BY <1>1, Zenon DEF HistoryType, HeartbeatTick, ClientRequest, ProposeMembershipChange
<1> QED
  BY <1>3, <1>4, TypedAfter

LEMMA ReceiveType ==
  ASSUME TypeOK, NEW i \in Server, NEW j \in Server, NEW k, Receive(i, j, k)
  PROVE  TypeOK'
<1>1. StateType /\ HistoryType
  BY TypeSplit
<1>2. CASE HandleRequestVote(i, j, k)
  <2>1. PICK t \in Nat : granted' \subseteq granted \cup {[voter |-> i, term |-> t, candidate |-> j]}
    BY <1>1, <1>2, RequestVoteType
  <2>2. HistoryType'
    BY SMT, <1>1, <1>2, <2>1 DEF HistoryType, HandleRequestVote
  <2> QED
    BY <1>1, <1>2, <2>2, RequestVoteType, TypedAfter
<1>3. CASE HandleRequestVoteResponse(i, j, k)
  <2>1. PICK n \in NodeState : elected' \subseteq elected \cup {Election(n, i)}
    BY <1>1, <1>3, RequestVoteResponseType, Zenon
  <2>2. Election(n, i) \in Won
    BY ElectionType
  <2>3. odd' \subseteq odd \cup {"stale vote"}
    BY <1>1, <1>3, RequestVoteResponseType, Zenon
  <2>4. granted' = granted /\ restarts' = restarts /\ faults' = faults
    BY <1>3, Zenon DEF HandleRequestVoteResponse
  <2>5. HistoryType'
    BY <1>1, <2>1, <2>2, <2>3, <2>4, Zenon DEF HistoryType, Departures
  <2> QED
    BY <1>1, <1>3, <2>5, RequestVoteResponseType, TypedAfter, Zenon
<1>4. CASE \/ HandleAppendEntries(i, j, k) \/ HandleAppendEntriesResponse(i, j, k)
           \/ HandleInstallSnapshot(i, j, k) \/ HandleInstallSnapshotResponse(i, j, k)
  <2>1. QuietReceive(i, j, k)
    BY <1>1, <1>4, AppendEntriesQuiet, AppendEntriesResponseQuiet, InstallSnapshotQuiet,
       InstallSnapshotResponseQuiet
  <2>2. k \in Deliverable(i, j)
    BY <1>4, Zenon DEF HandleAppendEntries, HandleAppendEntriesResponse, HandleInstallSnapshot,
       HandleInstallSnapshotResponse, Takes
  <2>3. StateType'
    BY <1>1, <2>1, <2>2, Arrival, QuietType DEF QuietReceive
  <2>4. granted' = granted /\ elected' = elected /\ restarts' = restarts /\ faults' = faults
    BY <1>4, Zenon DEF HandleAppendEntries, HandleAppendEntriesResponse, HandleInstallSnapshot,
       HandleInstallSnapshotResponse
  <2>5. odd' \subseteq odd \cup {"stale ack", "over-report", "torn", "rollback"}
    <3>1. CASE HandleAppendEntries(i, j, k)
      <4>1. odd' = odd \/ odd' = odd \cup {} \/ odd' = odd \cup {"over-report"}
        BY <3>1, Zenon DEF HandleAppendEntries
      <4> QED
        BY <4>1, Zenon
    <3>2. CASE HandleAppendEntriesResponse(i, j, k) \/ HandleInstallSnapshotResponse(i, j, k)
      <4>1. odd' = odd \/ odd' = odd \cup {} \/ odd' = odd \cup {"stale ack"}
        BY <3>2, Zenon DEF HandleAppendEntriesResponse, HandleInstallSnapshotResponse
      <4> QED
        BY <4>1, Zenon
    <3>3. CASE HandleInstallSnapshot(i, j, k)
      <4> DEFINE R == Regress(TermUpdate(node[i], net[j][i][k].term), net[j][i][k])
      <4>1. odd' = odd \/ odd' = odd \cup {"torn"} \cup R \/ odd' = odd \cup R
        BY <3>3, Zenon DEF HandleInstallSnapshot
      <4>2. R \subseteq {"rollback"}
        BY Zenon DEF Regress
      <4> HIDE DEF R
      <4> QED
        BY <4>1, <4>2, Zenon
    <3> QED
      BY <1>4, <3>1, <3>2, <3>3, Zenon
  <2>6. HistoryType'
    BY <1>1, <2>4, <2>5, Zenon DEF HistoryType, Departures
  <2> QED
    BY <2>3, <2>6, TypedAfter
<1> QED
  BY <1>2, <1>3, <1>4 DEF Receive

LEMMA CrashType ==
  ASSUME TypeOK, NEW i \in Server, Crashes(i)
  PROVE  TypeOK'
<1>1. StateType /\ HistoryType
  BY TypeSplit
<1>2. PICK d \in DiskState : Reboot(i, d) /\ net' \in Net
  BY DEF Crashes
<1>3. StateType'
  BY <1>1, <1>2, RebootType DEF StateType
<1>4. HistoryType'
  BY SMT, <1>1, <1>2 DEF HistoryType, Reboot
<1> QED
  BY <1>3, <1>4, TypedAfter

LEMMA FailType ==
  ASSUME TypeOK, NEW i \in Server, Fails(i)
  PROVE  TypeOK'
<1>1. StateType /\ HistoryType
  BY TypeSplit
<1>2. PICK n \in NodeState, d \in DiskState, w \in Net, D \in SUBSET Departures : Fail(i, n, d, w, D)
  BY DEF Fails
<1>3. EndIteration(i, n, d, w, Silence)
  BY <1>2 DEF Fail
<1>4. StateType'
  BY <1>1, <1>3, EndIterationType, SilenceType
<1>5. HistoryType'
  BY SMT, <1>1, <1>2 DEF HistoryType, Fail
<1> QED
  BY <1>4, <1>5, TypedAfter

LEMMA NextType ==
  ASSUME TypeOK, Next
  PROVE  TypeOK'
<1>1. StateType /\ HistoryType
  BY TypeSplit
<1>2. PICK i \in Server :
        \/ StartElection(i)
        \/ HeartbeatTick(i)
        \/ \E c \in Proposes[i] : ClientRequest(i, c)
        \/ \E c \in Changes, noop \in Proposes[i] : ProposeMembershipChange(i, c, noop)
        \/ Restart(i) \/ CrashInElection(i) \/ ElectionFails(i)
        \/ \E j \in Server \ {i} :
              \/ Lose(i, j)
              \/ \E k \in Deliverable(i, j) : Receive(i, j, k) \/ Disturb(i, j, k)
  BY Zenon DEF Next
<1>3. CASE StartElection(i)
  BY <1>3, StartElectionType
<1>4. CASE \/ HeartbeatTick(i)
           \/ \E c \in Proposes[i] : ClientRequest(i, c)
           \/ \E c \in Changes, noop \in Proposes[i] : ProposeMembershipChange(i, c, noop)
  BY <1>4, LocalType
<1>5. CASE Restart(i) \/ CrashInElection(i)
  BY <1>1, <1>5, RestartCrashes, CrashType
<1>6. CASE ElectionFails(i)
  BY <1>1, <1>6, ElectionFailsType, FailType
<1>7. ASSUME NEW j \in Server, Lose(i, j) PROVE TypeOK'
  <2>1. net' \in Net
    BY <1>1, <1>7, TailType DEF StateType
  <2> QED
    BY <1>1, <1>7, <2>1, TypedAfter DEF Lose, StateType, HistoryType
<1>8. ASSUME NEW j \in Server, NEW k, Receive(i, j, k) PROVE TypeOK'
  BY <1>8, ReceiveType
<1>9. ASSUME NEW j \in Server, NEW k, Disturb(i, j, k) PROVE TypeOK'
  <2>1. Crashes(i) \/ Fails(i)
    BY <1>1, <1>9, CrashInHandler, HandlerFailsType DEF Disturb
  <2> QED
    BY <2>1, CrashType, FailType
<1> QED
  BY <1>2, <1>3, <1>4, <1>5, <1>6, <1>7, <1>8, <1>9

\* Every server's state stays what the Rust types say, with the subtractions of
\* the handlers (next_index - 1, index - offset) never going below zero, for any
\* cluster, any configuration of peers and any order of events.
THEOREM TypeCorrect == Spec => []TypeOK
<1>1. Init => TypeOK
  BY InitType
<1>2. TypeOK /\ [Next]_vars => TypeOK'
  <2>1. TypeOK /\ Next => TypeOK'
    BY NextType
  <2>2. TypeOK /\ UNCHANGED vars => TypeOK'
    BY DEF TypeOK, vars
  <2> QED
    BY <2>1, <2>2
<1> QED
  BY <1>1, <1>2, PTL DEF Spec

=============================================================================
