---------------------------- MODULE RaftLogProofs ----------------------------
(***************************************************************************)
(* What the operators of RaftLog compute, and why logs match as long as no *)
(* log has been compacted.                                                 *)
(*                                                                         *)
(* Move(i) is what a step of server i does to the logs, the commit indices *)
(* and the messages about them (RaftMoveProofs shows that every step is    *)
(* one).  The invariants rest on what the history knows of each election:  *)
(* the log the leader had when it was elected, which its own entries then  *)
(* sit on.                                                                 *)
(***************************************************************************)
EXTENDS RaftMoves, TLAPS

USE Zenon

-----------------------------------------------------------------------------
(* Sequences                                                               *)

LEMMA ListLen ==
  ASSUME NEW S, NEW c \in Nat, NEW f \in [1..c -> S]
  PROVE  f \in Seq(S) /\ Len(f) = c
  BY SMT

LEMMA EmptySeq ==
  ASSUME NEW S
  PROVE  /\ <<>> \in Seq(S) /\ Len(<<>>) = 0
         /\ \A s \in Seq(S) : s # <<>> => Len(s) \in Nat \ {0}
  BY SMT

LEMMA LenProperties ==
  ASSUME NEW S, NEW s \in Seq(S)
  PROVE  Len(s) \in Nat /\ s \in [1..Len(s) -> S] /\ DOMAIN s = 1..Len(s)
  BY SMT

LEMMA ElementOfSeq ==
  ASSUME NEW S, NEW s \in Seq(S), NEW k \in 1..Len(s)
  PROVE  s[k] \in S
  BY SMT

LEMMA SeqEqual ==
  ASSUME NEW S, NEW s \in Seq(S), NEW t \in Seq(S), Len(s) = Len(t), \A k \in 1..Len(s) : s[k] = t[k]
  PROVE  s = t
  BY SMT

LEMMA AppendProperties ==
  ASSUME NEW S, NEW s \in Seq(S), NEW e \in S
  PROVE  /\ Append(s, e) \in Seq(S) /\ Append(s, e) # <<>> /\ Len(Append(s, e)) = Len(s) + 1
         /\ \A k \in 1..Len(s) : Append(s, e)[k] = s[k]
         /\ Append(s, e)[Len(s) + 1] = e
  BY SMT

LEMMA ConcatProperties ==
  ASSUME NEW S, NEW s \in Seq(S), NEW t \in Seq(S)
  PROVE  /\ s \o t \in Seq(S) /\ Len(s \o t) = Len(s) + Len(t)
         /\ \A k \in 1 .. Len(s) + Len(t) : (s \o t)[k] = IF k =< Len(s) THEN s[k] ELSE t[k - Len(s)]
  BY SMT

LEMMA SubSeqProperties ==
  ASSUME NEW S, NEW s, NEW m \in Int, NEW n \in Int, \A k \in m..n : s[k] \in S
  PROVE  /\ SubSeq(s, m, n) \in Seq(S)
         /\ Len(SubSeq(s, m, n)) = IF m =< n THEN n - m + 1 ELSE 0
         /\ \A k \in 1 .. n - m + 1 : SubSeq(s, m, n)[k] = s[m + k - 1]
  BY SMT

LEMMA TailProperties ==
  ASSUME NEW S, NEW s \in Seq(S), s # <<>>
  PROVE  /\ Tail(s) \in Seq(S) /\ Len(Tail(s)) = Len(s) - 1
         /\ \A k \in 1..Len(Tail(s)) : Tail(s)[k] = s[k + 1]
  BY SMT

-----------------------------------------------------------------------------
(* The log                                                                 *)

LEMMA LogFacts ==
  ASSUME NEW l \in Log
  PROVE  /\ l.entries \in Seq(Entry) /\ Len(l.entries) \in Nat
         /\ l.offset \in Nat /\ l.snapTerm \in Nat
         /\ LastIndex(l) \in Nat /\ LastTerm(l) \in Nat
         /\ l.offset =< LastIndex(l)
<1>1. l.entries \in Seq(Entry) /\ l.offset \in Nat /\ l.snapTerm \in Nat
  BY DEF Log
<1>2. Len(l.entries) \in Nat
  BY <1>1, LenProperties
<1>3. LastTerm(l) \in Nat
  <2>1. CASE l.entries = <<>>
    BY <1>1, <2>1 DEF LastTerm
  <2>2. CASE l.entries # <<>>
    <3>1. Len(l.entries) \in 1..Len(l.entries)
      BY SMT, <1>1, <2>2, EmptySeq
    <3>2. l.entries[Len(l.entries)] \in Entry
      BY <1>1, <3>1, ElementOfSeq
    <3> QED
      BY <2>2, <3>2 DEF LastTerm, Entry
  <2> QED
    BY <2>1, <2>2
<1> QED
  BY SMT, <1>1, <1>2, <1>3 DEF LastIndex

LEMMA TermAtType ==
  ASSUME NEW l \in Log, NEW k \in Nat
  PROVE  /\ TermAt(l, k) \in Nat \cup {NoTerm}
         /\ Holds(l, k) => TermAt(l, k) \in Nat
         /\ TermAt(l, k) # NoTerm => k =< LastIndex(l)
<1>1. Holds(l, k) => l.entries[k - l.offset].term \in Nat
  <2> SUFFICES ASSUME Holds(l, k) PROVE l.entries[k - l.offset].term \in Nat
    OBVIOUS
  <2>1. k - l.offset \in 1..Len(l.entries)
    BY SMT, LogFacts DEF Holds, LastIndex
  <2>2. l.entries[k - l.offset] \in Entry
    BY <2>1, LogFacts, ElementOfSeq
  <2> QED
    BY <2>2 DEF Entry
<1> QED
  BY <1>1, LogFacts DEF TermAt, Holds, NoTerm

LEMMA EmptyLogType == EmptyLog \in Log
  BY EmptySeq DEF EmptyLog, Log

LEMMA Append1Type ==
  ASSUME NEW l \in Log, NEW e \in Entry
  PROVE  Append1(l, e) \in Log
<1>1. Append(l.entries, e) \in Seq(Entry)
  BY LogFacts, AppendProperties
<1> QED
  BY <1>1, Zenon DEF Append1, Log

LEMMA PartType ==
  ASSUME NEW S, NEW s \in Seq(S), NEW a \in Int, NEW b \in Int, a >= 1, b =< Len(s)
  PROVE  SubSeq(s, a, b) \in Seq(S)
<1>1. \A i \in a..b : s[i] \in S
  BY SMT, LenProperties, ElementOfSeq
<1> QED
  BY <1>1, SubSeqProperties

LEMMA EntriesFromType ==
  ASSUME NEW l \in Log, NEW k \in Nat
  PROVE  EntriesFrom(l, k) \in Seq(Entry)
<1>1. CASE Holds(l, k)
  <2>1. k - l.offset \in Int /\ k - l.offset >= 1
    BY SMT, <1>1, LogFacts DEF Holds
  <2>2. SubSeq(l.entries, k - l.offset, Len(l.entries)) \in Seq(Entry)
    BY SMT, <2>1, LogFacts, PartType
  <2> QED
    BY <1>1, <2>2 DEF EntriesFrom
<1>2. CASE ~Holds(l, k)
  BY <1>2, EmptySeq DEF EntriesFrom
<1> QED
  BY <1>1, <1>2

\* The log append_entries leaves: l up to the first conflict, then es.
Merged(l, prev, es) ==
    LET h == Merge(l, prev, es)
        n == MergedLast(l, prev, es) - l.offset
    IN  /\ h \in Log /\ h.offset = l.offset /\ h.snapTerm = l.snapTerm
        /\ n \in Nat /\ Len(h.entries) = n
        /\ \A x \in 1..n : h.entries[x] = IF Kept(l, prev, es, l.offset + x)
                                           THEN l.entries[x] ELSE es[l.offset + x - prev]

LEMMA MergeFacts ==
  ASSUME NEW l \in Log, NEW prev \in Nat, NEW t \in Nat, NEW es \in Seq(Entry), Matches(l, prev, t)
  PROVE  Merged(l, prev, es)
<1> DEFINE C == Conflicts(l, prev, es)
           n == MergedLast(l, prev, es) - l.offset
           r == [x \in 1..n |-> IF Kept(l, prev, es, l.offset + x)
                                  THEN l.entries[x] ELSE es[l.offset + x - prev]]
<1>1. /\ l.entries \in Seq(Entry) /\ Len(l.entries) \in Nat /\ l.offset \in Nat /\ Len(es) \in Nat
      /\ LastIndex(l) = l.offset + Len(l.entries) /\ LastIndex(l) \in Nat
  BY LogFacts, LenProperties DEF LastIndex
<1>2. prev =< LastIndex(l)
  BY SMT, TermAtType, LogFacts DEF Matches, NoTerm
<1>3. \A c \in C : c \in 1..Len(es) /\ prev + c > l.offset
  BY <1>1 DEF Conflicts, Holds
<1>4. n \in Nat /\ (n > Len(l.entries) \/ C # {} => l.offset + n = prev + Len(es))
  <2> HIDE DEF C
  <2>1. CASE C = {}
    BY SMT, <1>1, <2>1 DEF MergedLast, Larger, C
  <2>2. CASE C # {}
    <3>1. PICK c \in C : c \in 1..Len(es) /\ prev + c > l.offset
      BY <1>3, <2>2
    <3>2. MergedLast(l, prev, es) = prev + Len(es)
      BY <2>2 DEF MergedLast, C
    <3> QED
      BY SMT, <1>1, <3>1, <3>2
  <2> QED
    BY <2>1, <2>2
<1>5. ASSUME NEW x \in 1..n PROVE r[x] \in Entry
  <2> HIDE DEF n, C
  <2>1. CASE Kept(l, prev, es, l.offset + x)
    <3>1. x \in 1..Len(l.entries)
      BY SMT, <1>1, <1>4, <2>1 DEF Kept
    <3> QED
      BY <1>1, <2>1, <3>1, ElementOfSeq
  <2>2. CASE ~Kept(l, prev, es, l.offset + x)
    <3>1. l.offset + x - prev \in 1..Len(es)
      <4> DEFINE o == l.offset
                 m == Len(l.entries)
                 e == Len(es)
      <4>1. /\ o \in Nat /\ m \in Nat /\ e \in Nat /\ n \in Nat /\ prev =< o + m
            /\ n > m \/ C # {} => o + n = prev + e
            /\ \A c \in C : c \in 1..e
        BY <1>1, <1>2, <1>3, <1>4
      <4>2. x =< m => \E c \in C : o + x >= prev + c
        BY SMT, <1>1, <1>3, <2>2 DEF Kept, C
      <4> HIDE DEF o, m, e
      <4>3. CASE x > m
        <5>1. o + x - prev \in 1..e
          BY SMT, <4>1, <4>3
        <5> QED
          BY <5>1 DEF o, e
      <4>4. CASE x =< m
        <5>1. PICK c \in C : o + x >= prev + c
          BY <4>2, <4>4
        <5>2. c \in 1..e /\ o + n = prev + e
          BY <4>1, <5>1
        <5>3. o + x - prev \in 1..e
          BY SMT, <4>1, <5>1, <5>2
        <5> QED
          BY <5>3 DEF o, e
      <4> QED
        BY SMT, <4>1, <4>3, <4>4
    <3> QED
      BY <2>2, <3>1, ElementOfSeq
  <2> QED
    BY <2>1, <2>2
<1>6. r \in [1..n -> Entry]
  BY <1>5, Zenon
<1>7. r \in Seq(Entry) /\ Len(r) = n
  <2> HIDE DEF r, n
  <2> QED
    BY <1>4, <1>6, ListLen
<1>8. /\ Merge(l, prev, es) \in Log /\ Merge(l, prev, es).entries = r
      /\ Merge(l, prev, es).offset = l.offset /\ Merge(l, prev, es).snapTerm = l.snapTerm
  <2>1. Merge(l, prev, es) = [l EXCEPT !.entries = r]
    BY DEF Merge
  <2> HIDE DEF r
  <2> QED
    BY <1>7, <2>1, Zenon DEF Log
<1> QED
  <2> HIDE DEF n
  <2> QED
    BY <1>4, <1>7, <1>8 DEF Merged, n

LEMMA CompactToType ==
  ASSUME NEW l \in Log, NEW k \in Nat
  PROVE  CompactTo(l, k) \in Log
<1>1. CASE Holds(l, k)
  <2>1. SubSeq(l.entries, k - l.offset + 1, Len(l.entries)) \in Seq(Entry)
    BY SMT, <1>1, LogFacts, PartType DEF Holds
  <2>2. TermAt(l, k) \in Nat
    BY <1>1, TermAtType
  <2> QED
    BY <1>1, <2>1, <2>2 DEF CompactTo, Log
<1>2. CASE ~Holds(l, k)
  BY <1>2 DEF CompactTo
<1> QED
  BY <1>1, <1>2

LEMMA ResetType ==
  ASSUME NEW k \in Nat, NEW t \in Nat
  PROVE  ResetToSnapshot(k, t) \in Log
  BY EmptySeq DEF ResetToSnapshot, Log
-----------------------------------------------------------------------------
(* Majorities                                                              *)

\* What the proofs use of cardinalities; RaftSafetyProofs derives it from the
\* finiteness of Server.
Counting ==
    /\ \A W \in SUBSET Server : Cardinality(W) \in Nat
    /\ \A V, W \in SUBSET Server : V \subseteq W => Cardinality(V) =< Cardinality(W)
    /\ \A V \in SUBSET Server : \A i \in Server \ V : Cardinality(V \cup {i}) = Cardinality(V) + 1
    /\ \A Q, R \in SUBSET Server :
          /\ Cardinality(Q) >= Cardinality(Server) \div 2 + 1
          /\ Cardinality(R) >= Cardinality(Server) \div 2 + 1
          => \E v \in Q : v \in R

-----------------------------------------------------------------------------
(* Pieces of a log                                                         *)

LEMMA PieceFacts ==
  ASSUME NEW P \in Piece
  PROVE  /\ P.prev \in Nat /\ P.term \in Nat /\ P.entries \in Seq(Entry) /\ Len(P.entries) \in Nat
         /\ P.prev = 0 => P.term = 0
         /\ \A k \in Nat : Has(P, k) => At(P, k) \in Entry /\ k > 0
<1>1. P.prev \in Nat /\ P.term \in Nat /\ P.entries \in Seq(Entry) /\ (P.prev = 0 => P.term = 0)
  BY DEF Piece
<1>2. Len(P.entries) \in Nat
  BY <1>1, LenProperties
<1>3. ASSUME NEW k \in Nat, Has(P, k) PROVE At(P, k) \in Entry /\ k > 0
  <2>1. k - P.prev \in 1..Len(P.entries) /\ k > 0
    BY SMT, <1>1, <1>2, <1>3 DEF Has
  <2> QED
    BY <1>1, <2>1, ElementOfSeq DEF At
<1> QED
  BY <1>1, <1>2, <1>3

LEMMA WholePiece ==
  ASSUME NEW l \in Log
  PROVE  Whole(l) \in Piece
  BY LogFacts DEF Whole, Piece

-----------------------------------------------------------------------------
(* Merging a piece into a log                                              *)

\* What the log after a merge of piece M has of log l and of M.
Blended(l, M) ==
    LET F == Whole(l)
        G == Whole(Merge(l, M.prev, M.entries))
    IN  /\ M.prev > 0 => Has(F, M.prev) /\ At(F, M.prev).term = M.term
        /\ \A x \in Nat : Has(G, x) => \/ Has(F, x) /\ At(G, x) = At(F, x)
                                       \/ Has(M, x) /\ At(G, x) = At(M, x)
        /\ \A x \in Nat : x =< M.prev /\ Has(F, x) => Has(G, x) /\ At(G, x) = At(F, x)
        /\ \A x \in Nat : Has(M, x) =>
               /\ Has(G, x)
               /\ \/ At(G, x) = At(M, x)
                  \/ Has(F, x) /\ At(G, x) = At(F, x) /\ At(F, x).term = At(M, x).term
        /\ \/ \A x \in Nat : Has(G, x) => x =< M.prev + Len(M.entries)
           \/ G = F
        /\ (\A o \in Nat : Has(F, o) /\ Has(M, o) => At(F, o).term = At(M, o).term) =>
              \A x \in Nat : Has(F, x) => Has(G, x) /\ At(G, x) = At(F, x)

LEMMA MergeParts ==
  ASSUME NEW l \in Log, l.offset = 0, NEW M \in Piece, Matches(l, M.prev, M.term)
  PROVE  Blended(l, M)
<1> DEFINE p == M.prev
           es == M.entries
           n == Len(es)
           m == Len(l.entries)
           C == Conflicts(l, p, es)
           h == Merge(l, p, es)
           last == MergedLast(l, p, es)
           K(x) == Kept(l, p, es, x)
           F == Whole(l)
           G == Whole(h)
<1>1. /\ p \in Nat /\ M.term \in Nat /\ es \in Seq(Entry) /\ n \in Nat
      /\ l.entries \in Seq(Entry) /\ m \in Nat /\ LastIndex(l) = m
  BY SMT, PieceFacts, LogFacts DEF LastIndex
<1>2. \A x \in Nat : /\ Has(F, x) <=> 1 =< x /\ x =< m
                     /\ At(F, x) = l.entries[x]
  BY SMT, <1>1 DEF Has, At, Whole
<1>3. \A x \in Nat : Holds(l, x) <=> Has(F, x)
  BY SMT, <1>1, <1>2 DEF Holds
<1>4. \A x \in Nat : Has(F, x) => TermAt(l, x) = At(F, x).term /\ x - l.offset = x
  BY SMT, <1>1, <1>2 DEF TermAt, Holds, At, Whole
<1>5. \A x \in Nat : /\ Has(M, x) <=> p < x /\ x =< p + n
                     /\ At(M, x) = es[x - p]
  BY <1>1 DEF Has, At
<1>6. p =< m /\ (p > 0 => Has(F, p) /\ At(F, p).term = M.term)
  <2>1. CASE p = 0
    BY SMT, <1>1, <2>1
  <2>2. CASE p > 0
    <3>1. TermAt(l, p) = M.term /\ M.term # NoTerm
      BY SMT, <1>1, <2>2 DEF Matches, NoTerm
    <3>2. Holds(l, p)
      BY SMT, <1>1, <2>2, <3>1 DEF TermAt
    <3> QED
      BY <1>1, <1>2, <1>3, <1>4, <3>1, <3>2
  <2> QED
    BY SMT, <1>1, <2>1, <2>2
<1>7. \A c \in C : c \in 1..n
  BY DEF Conflicts
<1>8. \A c \in 1..n : c \in C <=> Has(F, p + c) /\ At(F, p + c).term # es[c].term
  <2> SUFFICES ASSUME NEW c \in 1..n PROVE c \in C <=> Has(F, p + c) /\ At(F, p + c).term # es[c].term
    OBVIOUS
  <2>1. p + c \in Nat
    BY SMT, <1>1
  <2> QED
    BY <1>3, <1>4, <2>1 DEF Conflicts
<1>9. \A x \in Nat : K(x) <=> x =< m /\ \A c \in C : x < p + c
  BY <1>1 DEF Kept
<1>10. last = IF C = {} THEN (IF m > p + n THEN m ELSE p + n) ELSE p + n
  BY <1>1 DEF MergedLast, Larger
<1>11. /\ h \in Log /\ last \in Nat /\ Len(h.entries) = last
       /\ \A x \in 1..last : h.entries[x] = IF K(x) THEN l.entries[x] ELSE es[x - p]
  <2>1. /\ h \in Log /\ last - l.offset \in Nat /\ Len(h.entries) = last - l.offset
        /\ \A x \in 1..last - l.offset : h.entries[x] = IF Kept(l, p, es, l.offset + x)
                                                        THEN l.entries[x] ELSE es[l.offset + x - p]
    <3>1. Merged(l, p, es)
      BY <1>1, MergeFacts
    <3> QED
      BY <3>1 DEF Merged
  <2>2. last \in Int
    BY SMT, <1>1, <1>10
  <2> HIDE DEF h, last, K
  <2>3. last - l.offset = last /\ \A x \in 1..last : l.offset + x = x
    BY SMT, <2>2
  <2>4. ASSUME NEW x \in 1..last PROVE h.entries[x] = IF K(x) THEN l.entries[x] ELSE es[x - p]
    <3> DEFINE y == l.offset + x
               z == l.offset + x - p
    <3>1. y = x
      BY <2>3
    <3>2. z = x - p
      BY SMT, <2>2, <1>1
    <3>3. h.entries[x] = IF Kept(l, p, es, y) THEN l.entries[x] ELSE es[z]
      BY <2>1, <2>3
    <3> HIDE DEF y, z
    <3> QED
      BY <3>1, <3>2, <3>3 DEF K
  <2> QED
    BY <2>1, <2>3, <2>4
<1>12. \A x \in Nat : /\ Has(G, x) <=> 1 =< x /\ x =< last
                      /\ At(G, x) = h.entries[x]
  <2> HIDE DEF h
  <2> QED
    BY SMT, <1>11 DEF Has, At, Whole
<1> HIDE DEF p, n, m, C, h, last, K, F, G
<1>13. \A x \in Nat : Has(G, x) => At(G, x) = IF K(x) THEN At(F, x) ELSE At(M, x)
  BY SMT, <1>2, <1>5, <1>11, <1>12
<1>14. \A x \in Nat : K(x) /\ 1 =< x => Has(G, x) /\ Has(F, x)
  <2> SUFFICES ASSUME NEW x \in Nat, K(x), 1 =< x PROVE x =< last /\ x =< m
    BY <1>2, <1>12
  <2>1. x =< m /\ \A c \in C : x < p + c
    BY <1>9
  <2>2. CASE C = {}
    BY SMT, <1>1, <1>10, <2>1, <2>2
  <2>3. CASE C # {}
    <3>1. PICK c \in C : x < p + c /\ c \in 1..n
      BY <1>7, <2>1, <2>3
    <3> QED
      BY SMT, <1>1, <1>10, <2>1, <2>3, <3>1
  <2> QED
    BY <2>2, <2>3
<1>15. \A x \in Nat : Has(G, x) /\ ~K(x) => Has(M, x)
  <2> SUFFICES ASSUME NEW x \in Nat, Has(G, x), ~K(x) PROVE p < x /\ x =< p + n
    BY <1>5
  <2>1. CASE x > m
    BY SMT, <1>1, <1>6, <1>10, <1>12, <2>1
  <2>2. CASE x =< m
    <3>1. PICK c \in C : ~(x < p + c)
      BY <1>9, <2>2
    <3>2. c \in 1..n /\ C # {}
      BY <1>7
    <3> QED
      BY SMT, <1>1, <1>10, <1>12, <3>1, <3>2
  <2> QED
    BY SMT, <1>1, <2>1, <2>2
<1>16. \A x \in Nat : Has(M, x) => Has(G, x) /\ (K(x) => At(F, x).term = At(M, x).term)
  <2> SUFFICES ASSUME NEW x \in Nat, Has(M, x) PROVE Has(G, x) /\ (K(x) => At(F, x).term = At(M, x).term)
    OBVIOUS
  <2>1. p < x /\ x =< p + n /\ x - p \in 1..n /\ p + (x - p) = x
    BY SMT, <1>1, <1>5
  <2>2. Has(G, x)
    BY SMT, <1>1, <1>10, <1>12, <2>1
  <2>3. K(x) => Has(F, x) /\ (x - p) \notin C
    BY SMT, <1>1, <1>9, <1>14, <2>1
  <2> QED
    BY <1>5, <1>8, <2>1, <2>2, <2>3
<1>17. C = {} => \A x \in Nat : Has(F, x) => K(x)
  BY <1>2, <1>9
<1>18. (\A x \in Nat : Has(G, x) => x =< p + n) \/ G = F
  <2>1. CASE C = {} /\ m > p + n
    <3>1. last = m
      BY <1>10, <2>1
    <3>2. \A x \in 1..m : h.entries[x] = l.entries[x]
      BY SMT, <1>1, <1>2, <1>11, <1>17, <2>1, <3>1
    <3>3. h.entries = l.entries
      BY <1>1, <1>11, <3>1, <3>2, LogFacts, SeqEqual DEF m
    <3> QED
      BY <3>3 DEF F, G, Whole
  <2>2. CASE C # {} \/ ~(m > p + n)
    BY <1>10, <1>12, <2>2
  <2> QED
    BY <2>1, <2>2
<1>19. \A x \in Nat : x =< p /\ Has(F, x) => K(x) /\ 1 =< x
  BY SMT, <1>1, <1>2, <1>7, <1>9
<1>20. (\A o \in Nat : Has(F, o) /\ Has(M, o) => At(F, o).term = At(M, o).term) => C = {}
  <2> SUFFICES ASSUME \A o \in Nat : Has(F, o) /\ Has(M, o) => At(F, o).term = At(M, o).term,
                      NEW c \in C
               PROVE  FALSE
    OBVIOUS
  <2>1. c \in 1..n /\ p + c \in Nat /\ (p + c) - p = c
    BY SMT, <1>1, <1>7
  <2>2. Has(M, p + c) /\ At(M, p + c) = es[c]
    BY SMT, <1>1, <1>5, <2>1
  <2> QED
    BY <1>8, <2>1, <2>2
<1>21. \A x \in Nat : Has(F, x) => 1 =< x
  BY <1>2
<1>22. \A x \in Nat : Has(G, x) =>
          \/ Has(F, x) /\ At(G, x) = At(F, x)
          \/ Has(M, x) /\ At(G, x) = At(M, x)
  BY <1>12, <1>13, <1>14, <1>15
<1>23. \A x \in Nat : K(x) /\ 1 =< x => Has(G, x) /\ At(G, x) = At(F, x)
  BY <1>13, <1>14
<1>24. \A x \in Nat : Has(M, x) =>
            /\ Has(G, x)
            /\ \/ At(G, x) = At(M, x)
               \/ Has(F, x) /\ At(G, x) = At(F, x) /\ At(F, x).term = At(M, x).term
  BY <1>12, <1>13, <1>14, <1>16
<1>25. \A x \in Nat : x =< p /\ Has(F, x) => Has(G, x) /\ At(G, x) = At(F, x)
  BY <1>19, <1>23
<1>26. (\A o \in Nat : Has(F, o) /\ Has(M, o) => At(F, o).term = At(M, o).term) =>
          \A x \in Nat : Has(F, x) => Has(G, x) /\ At(G, x) = At(F, x)
  BY <1>17, <1>20, <1>21, <1>23
<1> QED
  BY <1>6, <1>18, <1>22, <1>24, <1>25, <1>26 DEF Blended, p, n, es, F, G, h

-----------------------------------------------------------------------------
(* What is known of logs                                                   *)

Appends(w) == {m \in Mail(w) : m.type = "AppendEntries"}

\* The logs of the servers, the logs leaders were elected with, and the pieces on
\* their way.
Pieces ==
    {Whole(node[i].log) : i \in Server} \cup {Whole(e.log) : e \in elected}
    \cup {Sent(m) : m \in Appends(net)}

\* The term of index o in the log of the leader that won election e.
Under(e, o) == IF o =< Len(e.log.entries) THEN e.log.entries[o].term ELSE e.term

\* Up to j, P has the terms of that log, and j is an entry of that leader.
Sits(P, j, e) ==
    /\ e.term = At(P, j).term /\ j > Len(e.log.entries)
    /\ \A o \in 1..j : Knows(P, o) => TermOf(P, o) = Under(e, o)

Grown(P, E) == \A j \in Nat : Has(P, j) => \E e \in E : Sits(P, j, e)

\* A leader has written one entry at an index.
Same(P, Q) ==
    \A k \in Nat : Has(P, k) /\ Has(Q, k) /\ At(P, k).term = At(Q, k).term => At(P, k) = At(Q, k)

\* The log of a leader: what it was elected with, then all entries of its term.
LedBy(l, e) ==
    /\ Len(e.log.entries) =< Len(l.entries)
    /\ \A o \in 1..Len(l.entries) : l.entries[o].term = Under(e, o)

Leading(i, e) ==
    /\ e.term = node[i].term /\ e.leader = i
    /\ LedBy(node[i].log, e)
    /\ \A P \in Pieces : \A k \in Nat :
          Has(P, k) /\ At(P, k).term = e.term => k =< Len(node[i].log.entries)

PiecesSound ==
    /\ \A P \in Pieces : P \in Piece /\ Grown(P, elected)
    /\ \A P, Q \in Pieces : Same(P, Q)

ElectionsSound ==
    /\ \A e, f \in elected : e.term = f.term => e = f
    /\ \A e \in elected : e.term > 0 /\ e.term =< node[e.leader].term
    /\ \A e \in elected : \A o \in 1..Len(e.log.entries) : e.log.entries[o].term < e.term

ServersSound ==
    \A i \in Server :
        /\ node[i].state = "Leader" => \E e \in elected : Leading(i, e)
        /\ node[i].state = "Candidate" =>
              /\ node[i].term > 0
              /\ \A e \in elected : e.leader = i => e.term < node[i].term
              /\ \A o \in 1..Len(node[i].log.entries) : node[i].log.entries[o].term < node[i].term
        /\ \A o \in 1..Len(node[i].log.entries) : node[i].log.entries[o].term =< node[i].term

AppendsSound ==
    \A m \in Appends(net) : \A k \in Nat : Has(Sent(m), k) => At(Sent(m), k).term =< m.term

LogInv == PiecesSound /\ ElectionsSound /\ ServersSound /\ AppendsSound

\* The proviso of OneLeaderPerTerm.
Sane == (faults = 0 \/ restarts = 0) /\ "stale vote" \notin odd

-----------------------------------------------------------------------------
(* Whole logs and parts of them                                            *)

LEMMA WholeFacts ==
  ASSUME NEW l \in Log
  PROVE  /\ Whole(l) \in Piece
         /\ \A k \in Nat :
               /\ Has(Whole(l), k) <=> 1 =< k /\ k =< Len(l.entries)
               /\ Knows(Whole(l), k) <=> k =< Len(l.entries)
               /\ At(Whole(l), k) = l.entries[k]
               /\ TermOf(Whole(l), k) = IF k = 0 THEN 0 ELSE l.entries[k].term
<1>1. Len(l.entries) \in Nat
  BY LogFacts
<1>2. ASSUME NEW k \in Nat
      PROVE  /\ Has(Whole(l), k) <=> 1 =< k /\ k =< Len(l.entries)
             /\ Knows(Whole(l), k) <=> k =< Len(l.entries)
             /\ At(Whole(l), k) = l.entries[k]
             /\ TermOf(Whole(l), k) = IF k = 0 THEN 0 ELSE l.entries[k].term
  <2>1. k - 0 = k
    BY SMTT(60)
  <2> QED
    BY SMTT(60), <1>1, <2>1 DEF Has, Knows, At, TermOf, Whole
<1> QED
  BY <1>2, WholePiece

LEMMA EntryFacts ==
  ASSUME NEW l \in Log, NEW o \in 1..Len(l.entries)
  PROVE  l.entries[o] \in Entry /\ l.entries[o].term \in Nat
<1>1. l.entries[o] \in Entry
  BY LogFacts, ElementOfSeq
<1> QED
  BY <1>1 DEF Entry

LEMMA PartOfItself ==
  ASSUME NEW l \in Log
  PROVE  Part(Whole(l), Whole(l))
  BY DEF Part, Whole, Knows, TermOf

LEMMA PartGrown ==
  ASSUME NEW E, NEW M \in Piece, NEW L \in Piece, Part(M, L), Grown(L, E)
  PROVE  Grown(M, E)
<1> SUFFICES ASSUME NEW j \in Nat, Has(M, j)
             PROVE  \E e \in E : Sits(M, j, e)
  BY DEF Grown
<1>1. Has(L, j) /\ At(M, j) = At(L, j)
  BY DEF Part
<1>2. PICK e \in E : Sits(L, j, e)
  BY <1>1 DEF Grown
<1>3. ASSUME NEW o \in 1..j, Knows(M, o) PROVE TermOf(M, o) = Under(e, o)
  <2>1. CASE o = M.prev
    <3>1. Knows(L, o) /\ TermOf(L, o) = M.term
      BY <2>1 DEF Part
    <3> QED
      BY <1>2, <2>1, <3>1 DEF Sits, TermOf
  <2>2. CASE o # M.prev
    <3>1. o \in Nat /\ Has(M, o)
      BY SMTT(60), <1>3, <2>2 DEF Knows
    <3>2. Has(L, o) /\ At(M, o) = At(L, o)
      BY <3>1 DEF Part
    <3>3. o # L.prev
      BY SMTT(60), <3>2, PieceFacts DEF Has
    <3> QED
      BY <1>2, <2>2, <3>2, <3>3 DEF Sits, TermOf, Knows
  <2> QED
    BY <2>1, <2>2
<1> QED
  BY <1>1, <1>2, <1>3 DEF Sits

LEMMA PartSame ==
  ASSUME NEW M, NEW L, NEW Q, Part(M, L), Same(L, Q)
  PROVE  Same(M, Q)
  BY DEF Part, Same

LEMMA PartsSame ==
  ASSUME NEW M, NEW N, NEW L, Part(M, L), Part(N, L)
  PROVE  Same(M, N)
  BY DEF Part, Same

LEMMA SameSym ==
  ASSUME NEW P, NEW Q, Same(P, Q)
  PROVE  Same(Q, P)
  BY DEF Same

-----------------------------------------------------------------------------
(* Logs and elections                                                      *)

LEMMA UnderType ==
  ASSUME NEW e \in Won, NEW o \in Nat \ {0}
  PROVE  Under(e, o) \in Nat
<1>1. e.log \in Log /\ e.term \in Nat
  BY DEF Won
<1>2. CASE o =< Len(e.log.entries)
  <2>1. e.log.entries[o] \in Entry
    BY SMTT(60), <1>1, <1>2, LogFacts, ElementOfSeq
  <2> QED
    BY <1>2, <2>1 DEF Under, Entry
<1> QED
  BY <1>1, <1>2 DEF Under

(* A log with an entry of the leader's log has all that come before it: each
   of the two sits on the election of that entry's term. *)
LEMMA UnderMatch ==
  ASSUME NEW E \in SUBSET Won, \A e, f \in E : e.term = f.term => e = f,
         \A e \in E : Grown(Whole(e.log), E),
         NEW l \in Log, Grown(Whole(l), E), NEW e \in E,
         NEW c \in Nat, Has(Whole(l), c), l.entries[c].term = Under(e, c)
  PROVE  \A o \in 1..c : l.entries[o].term = Under(e, o)
<1>1. e.log \in Log
  BY DEF Won
<1>2. 1 =< c /\ c =< Len(l.entries) /\ Len(l.entries) \in Nat /\ Len(e.log.entries) \in Nat
  BY <1>1, WholeFacts, LogFacts
<1>3. ASSUME NEW h \in Log, NEW f \in E, Sits(Whole(h), c, f), c =< Len(h.entries)
      PROVE  /\ f.term = h.entries[c].term
             /\ \A o \in 1..c : h.entries[o].term = Under(f, o)
  <2>1. \A o \in 1..c : Knows(Whole(h), o) /\ TermOf(Whole(h), o) = h.entries[o].term
    BY SMTT(60), <1>2, <1>3, WholeFacts, LogFacts
  <2> QED
    BY <1>3, <2>1, WholeFacts DEF Sits
<1>4. PICK f \in E : Sits(Whole(l), c, f)
  BY DEF Grown
<1>5. CASE c =< Len(e.log.entries)
  <2>1. PICK g \in E : Sits(Whole(e.log), c, g)
    BY <1>1, <1>2, <1>5, WholeFacts DEF Grown
  <2>2. f.term = g.term
    BY <1>1, <1>2, <1>3, <1>4, <1>5, <2>1 DEF Under
  <2>3. \A o \in 1..c : l.entries[o].term = e.log.entries[o].term
    BY SMTT(60), <1>1, <1>2, <1>3, <1>4, <1>5, <2>1, <2>2
  <2> QED
    BY SMTT(60), <1>2, <1>5, <2>3 DEF Under
<1>6. CASE c > Len(e.log.entries)
  <2>1. f.term = e.term
    BY SMTT(60), <1>2, <1>3, <1>4, <1>6 DEF Under
  <2> QED
    BY <1>2, <1>3, <1>4, <2>1
<1> QED
  BY SMTT(60), <1>2, <1>5, <1>6

(* A log that grows as the leader's log of election e does. *)
LEMMA AppendGrown ==
  ASSUME NEW E \in SUBSET Won, NEW l \in Log, NEW x \in Entry, NEW e \in E,
         Grown(Whole(l), E), x.term = e.term, LedBy(l, e)
  PROVE  /\ Grown(Whole(Append1(l, x)), E)
         /\ Len(Append1(l, x).entries) = Len(l.entries) + 1
         /\ \A o \in 1..Len(l.entries) : Append1(l, x).entries[o] = l.entries[o]
         /\ Append1(l, x).entries[Len(l.entries) + 1] = x
<1> DEFINE n == Len(l.entries)
           h == Append1(l, x)
<1>1. n \in Nat /\ l.entries \in Seq(Entry) /\ e.log \in Log
  BY LogFacts DEF Won
<1>2. h \in Log /\ h.entries = Append(l.entries, x)
  BY Append1Type DEF Append1, Log
<1>3. Len(h.entries) = n + 1 /\ h.entries[n + 1] = x /\ \A o \in 1..n : h.entries[o] = l.entries[o]
  BY SMTT(60), <1>1, <1>2, AppendProperties
<1> HIDE DEF n, h
<1>4. ASSUME NEW j \in Nat, Has(Whole(h), j) PROVE \E f \in E : Sits(Whole(h), j, f)
  <2>1. 1 =< j /\ j =< n + 1
    BY <1>2, <1>3, <1>4, WholeFacts
  <2>2. ASSUME NEW f \in E, f.term = h.entries[j].term, j > Len(f.log.entries),
               \A o \in 1..j : h.entries[o].term = Under(f, o)
        PROVE  Sits(Whole(h), j, f)
    <3>1. \A o \in 1..j : o \in Nat /\ o # 0
      BY SMTT(60)
    <3>2. \A o \in 1..j : TermOf(Whole(h), o) = h.entries[o].term
      BY <1>2, <3>1, WholeFacts, Zenon
    <3> QED
      BY <1>2, <2>2, <3>2, WholeFacts, Zenon DEF Sits
  <2>3. CASE j =< n
    <3>1. Has(Whole(l), j)
      BY <2>1, <2>3, WholeFacts DEF n
    <3>2. PICK f \in E : Sits(Whole(l), j, f)
      BY <3>1 DEF Grown
    <3>3. \A o \in 1..j : Knows(Whole(l), o) /\ TermOf(Whole(l), o) = l.entries[o].term
      BY SMTT(60), <1>1, <2>3, WholeFacts DEF n
    <3>4. \A o \in 1..j : h.entries[o] = l.entries[o]
      BY SMTT(60), <1>1, <1>3, <2>3
    <3>5. f.term = h.entries[j].term /\ j > Len(f.log.entries)
      BY SMTT(60), <2>1, <3>2, <3>4, WholeFacts DEF Sits
    <3> QED
      BY <2>2, <3>2, <3>3, <3>4, <3>5 DEF Sits
  <2>4. CASE j = n + 1
    <3>1. Len(e.log.entries) \in Nat /\ Len(e.log.entries) =< n
      BY <1>1, LogFacts DEF n, LedBy
    <3>2. \A o \in 1..n : h.entries[o].term = Under(e, o)
      BY <1>3 DEF n, LedBy
    <3>3. h.entries[j].term = Under(e, j)
      BY SMTT(60), <1>1, <1>3, <2>4, <3>1 DEF Under
    <3>4. \A o \in 1..j : h.entries[o].term = Under(e, o)
      BY SMTT(60), <1>1, <2>4, <3>2, <3>3
    <3>5. h.entries[j].term = e.term
      BY <1>3, <2>4
    <3>6. j > Len(e.log.entries)
      BY SMTT(60), <1>1, <2>4, <3>1
    <3> QED
      BY <2>2, <3>4, <3>5, <3>6
  <2> QED
    BY SMTT(60), <1>1, <2>1, <2>3, <2>4
<1> QED
  BY <1>3, <1>4 DEF Grown, n, h

(* A log into which a piece is merged. *)
LEMMA MergeGrown ==
  ASSUME NEW E \in SUBSET Won, \A e, f \in E : e.term = f.term => e = f,
         \A e \in E : Grown(Whole(e.log), E),
         NEW l \in Log, l.offset = 0, Grown(Whole(l), E),
         NEW M \in Piece, Grown(M, E), Matches(l, M.prev, M.term),
         Merge(l, M.prev, M.entries) \in Log
  PROVE  Grown(Whole(Merge(l, M.prev, M.entries)), E)
<1> DEFINE h == Merge(l, M.prev, M.entries)
           p == M.prev
<1>1. p \in Nat /\ M.term \in Nat /\ Len(l.entries) \in Nat /\ Len(h.entries) \in Nat
      /\ Len(M.entries) \in Nat
  BY PieceFacts, LogFacts
<1>2. /\ p > 0 => Has(Whole(l), p) /\ l.entries[p].term = M.term
      /\ \A x \in Nat : x =< p /\ Has(Whole(l), x) => Has(Whole(h), x) /\ h.entries[x] = l.entries[x]
      /\ \A x \in Nat : Has(M, x) => Has(Whole(h), x) /\ h.entries[x].term = At(M, x).term
      /\ (\A x \in Nat : Has(Whole(h), x) => x =< p + Len(M.entries)) \/ Whole(h) = Whole(l)
  <2>1. \A x \in Nat : At(Whole(l), x) = l.entries[x] /\ At(Whole(h), x) = h.entries[x]
    BY WholeFacts
  <2>2. /\ p > 0 => Has(Whole(l), p) /\ At(Whole(l), p).term = M.term
        /\ \A x \in Nat : x =< p /\ Has(Whole(l), x) =>
              Has(Whole(h), x) /\ At(Whole(h), x) = At(Whole(l), x)
        /\ \A x \in Nat : Has(M, x) => Has(Whole(h), x) /\ At(Whole(h), x).term = At(M, x).term
        /\ (\A x \in Nat : Has(Whole(h), x) => x =< p + Len(M.entries)) \/ Whole(h) = Whole(l)
    <3>1. Blended(l, M)
      BY MergeParts
    <3> QED
      BY <3>1 DEF Blended
  <2> HIDE DEF h
  <2> QED
    BY <1>1, <2>1, <2>2
<1> HIDE DEF h
<1>3. CASE Whole(h) = Whole(l)
  BY <1>3 DEF h
<1>4. CASE \A x \in Nat : Has(Whole(h), x) => x =< p + Len(M.entries)
  <2> SUFFICES ASSUME NEW j \in Nat, Has(Whole(h), j) PROVE \E f \in E : Sits(Whole(h), j, f)
    BY DEF Grown, h
  <2>1. 1 =< j /\ j =< Len(h.entries) /\ j =< p + Len(M.entries)
    BY <1>4, WholeFacts DEF h
  <2>2. ASSUME NEW f \in E, f.term = h.entries[j].term, j > Len(f.log.entries),
               \A o \in 1..j : h.entries[o].term = Under(f, o)
        PROVE  Sits(Whole(h), j, f)
    <3>1. \A o \in 1..j : TermOf(Whole(h), o) = h.entries[o].term
      BY SMTT(60), WholeFacts DEF h
    <3> QED
      BY <2>2, <3>1, WholeFacts DEF Sits, h
  <2>3. \A o \in Nat : 1 =< o /\ o =< p => Has(Whole(l), o) /\ h.entries[o] = l.entries[o]
    BY SMTT(60), <1>1, <1>2, WholeFacts
  <2>4. CASE j =< p
    <3>1. PICK f \in E : Sits(Whole(l), j, f)
      BY <2>1, <2>3, <2>4 DEF Grown
    <3>2. \A o \in 1..j : Knows(Whole(l), o) /\ TermOf(Whole(l), o) = l.entries[o].term
      BY SMTT(60), <1>1, <2>3, <2>4, WholeFacts
    <3>3. \A o \in 1..j : h.entries[o] = l.entries[o]
      BY SMTT(60), <1>1, <2>3, <2>4
    <3>4. f.term = h.entries[j].term /\ j > Len(f.log.entries)
      BY SMTT(60), <2>1, <3>1, <3>3, WholeFacts DEF Sits
    <3> QED
      BY SMTT(60), <2>2, <3>1, <3>2, <3>3, <3>4 DEF Sits
  <2>5. CASE j > p
    <3>1. Has(M, j)
      BY <2>1, <2>5 DEF Has
    <3>2. PICK f \in E : Sits(M, j, f)
      BY <3>1 DEF Grown
    <3>3. \A o \in 1..j : o > p => Has(M, o)
      BY SMTT(60), <1>1, <2>1 DEF Has
    <3>4. ASSUME NEW o \in 1..j, o > p PROVE h.entries[o].term = Under(f, o)
      BY SMTT(60), <1>1, <1>2, <3>2, <3>3, <3>4 DEF Sits, Knows, TermOf
    <3>5. ASSUME NEW o \in 1..j, o =< p PROVE h.entries[o].term = Under(f, o)
      <4>1. p > 0 /\ p \in 1..j
        BY SMTT(60), <1>1, <2>5, <3>5
      <4>2. l.entries[p].term = Under(f, p)
        BY <1>2, <3>2, <4>1 DEF Sits, Knows, TermOf
      <4>3. \A q \in 1..p : l.entries[q].term = Under(f, q)
        BY SMTT(60), <1>1, <1>2, <4>1, <4>2, UnderMatch
      <4> QED
        BY SMTT(60), <1>1, <2>3, <3>5, <4>3
    <3>6. f.term = h.entries[j].term /\ j > Len(f.log.entries)
      BY <1>2, <3>1, <3>2 DEF Sits
    <3> QED
      BY SMTT(60), <1>1, <2>2, <3>4, <3>5, <3>6
  <2> QED
    BY SMTT(60), <1>1, <2>4, <2>5
<1> QED
  BY <1>2, <1>3, <1>4 DEF h

-----------------------------------------------------------------------------
(* A step                                                                  *)

\* A step of server i, in a state where the invariant holds.
LogStep(i) ==
    /\ TypeOK /\ TypeOK' /\ LogInv /\ Uncompacted
    /\ Move(i) /\ Sane' /\ OneLeaderPerTerm'
    /\ node'[i].term >= node[i].term

LEMMA ServerFacts ==
  ASSUME NEW n \in NodeState
  PROVE  /\ n.log \in Log /\ n.term \in Nat /\ n.commit \in Nat
         /\ n.applied \in Nat /\ n.machine \in Seq(Command)
         /\ n.match \in [Server -> Nat] /\ n.members \subseteq Server
         /\ n.state \in {"Follower", "Candidate", "Leader"}
         /\ Len(n.log.entries) \in Nat
<1>1. /\ n.log \in Log /\ n.term \in Nat /\ n.commit \in Nat
      /\ n.applied \in Nat /\ n.machine \in Seq(Command)
      /\ n.match \in [Server -> Nat] /\ n.members \subseteq Server
      /\ n.state \in {"Follower", "Candidate", "Leader"}
  BY DEF NodeState, Image
<1> QED
  BY <1>1, LogFacts

\* What TypeOK says of the state before and after a step.
LEMMA StepTypes ==
  ASSUME NEW i \in Server, LogStep(i)
  PROVE  /\ \A j \in Server : node[j] \in NodeState /\ node'[j] \in NodeState
         /\ elected \subseteq Won /\ elected' \subseteq Won
         /\ net \in [Server -> [Server -> Seq(Message)]]
         /\ net' \in [Server -> [Server -> Seq(Message)]]
  BY DEF LogStep, TypeOK

LEMMA MailFacts ==
  ASSUME net \in [Server -> [Server -> Seq(Message)]], NEW p \in Server, NEW q \in Server,
         NEW m \in Carries(net, p, q)
  PROVE  m \in Message /\ m \in Mail(net)
<1>1. PICK x \in 1..Len(net[p][q]) : m = net[p][q][x]
  BY DEF Carries
<1> QED
  BY SMTT(60), <1>1, ElementOfSeq DEF Mail

LEMMA AppendMessage ==
  ASSUME NEW m \in Message, m.type = "AppendEntries"
  PROVE  /\ m.term \in Nat /\ m.prevIndex \in Nat /\ m.prevTerm \in Nat
         /\ m.entries \in Seq(Entry) /\ m.commit \in Nat
         /\ Sent(m).prev = m.prevIndex /\ Sent(m).term = m.prevTerm /\ Sent(m).entries = m.entries
  BY DEF Message, Sent

(* The log a server is left with has grown on elections, agrees with every other
   piece, and has nothing that no piece had but an entry of its own. *)
LEMMA NewLog ==
  ASSUME NEW i \in Server, LogStep(i)
  PROVE  LET h == node'[i].log
         IN  /\ Grown(Whole(h), elected)
             /\ \A P \in Pieces : Same(Whole(h), P)
             /\ \A k \in Nat : Has(Whole(h), k) =>
                   \/ \E Q \in Pieces : Has(Q, k) /\ At(Q, k) = At(Whole(h), k)
                   \/ /\ node[i].state = "Leader" /\ node'[i].term = node[i].term
                      /\ At(Whole(h), k).term = node[i].term /\ k = Len(h.entries)
                      /\ Grows(i)
<1> DEFINE l == node[i].log
           h == node'[i].log
<1>1. l \in Log /\ h \in Log /\ l.offset = 0 /\ Len(l.entries) \in Nat /\ elected \subseteq Won
  BY ServerFacts, StepTypes DEF LogStep, Uncompacted
<1>2. Whole(l) \in Pieces /\ \A e \in elected : Whole(e.log) \in Pieces
  BY DEF Pieces
<1>3. /\ \A P \in Pieces : P \in Piece /\ Grown(P, elected)
      /\ \A P, Q \in Pieces : Same(P, Q)
      /\ \A e, f \in elected : e.term = f.term => e = f
  BY DEF LogStep, LogInv, PiecesSound, ElectionsSound
<1>4. CASE h = l
  BY <1>2, <1>3, <1>4
<1>5. CASE Restarts(i)
  <2>1. \A k \in Nat : ~Has(Whole(h), k)
    BY SMTT(60), <1>1, <1>5, WholeFacts, LogFacts DEF Restarts
  <2> QED
    BY <2>1 DEF Grown, Same
<1>6. CASE Grows(i)
  <2>1. PICK c \in Command : h = Append1(l, [term |-> node[i].term, command |-> c])
    BY <1>6 DEF Grows
  <2> DEFINE x == [term |-> node[i].term, command |-> c]
  <2>2. node[i].state = "Leader" /\ node'[i].term = node[i].term /\ node[i].term \in Nat
    BY <1>6, ServerFacts, StepTypes DEF Grows, LeaderStays
  <2>3. PICK e \in elected : Leading(i, e)
    BY <2>2 DEF LogStep, LogInv, ServersSound
  <2>4. x \in Entry /\ x.term = node[i].term
    BY <2>2 DEF Entry
  <2> HIDE DEF x
  <2>5. /\ Grown(Whole(h), elected) /\ Len(h.entries) = Len(l.entries) + 1
        /\ \A o \in 1..Len(l.entries) : h.entries[o] = l.entries[o]
        /\ h.entries[Len(l.entries) + 1] = x
    <3>1. Grown(Whole(l), elected) /\ h = Append1(l, x)
      BY <1>2, <1>3, <2>1 DEF x
    <3>2. x.term = e.term /\ LedBy(l, e)
      BY <2>3, <2>4 DEF Leading
    <3> HIDE DEF l, h
    <3>3. /\ Grown(Whole(Append1(l, x)), elected)
          /\ Len(Append1(l, x).entries) = Len(l.entries) + 1
          /\ \A o \in 1..Len(l.entries) : Append1(l, x).entries[o] = l.entries[o]
          /\ Append1(l, x).entries[Len(l.entries) + 1] = x
      BY <1>1, <2>4, <3>1, <3>2, AppendGrown, Zenon
    <3> QED
      BY <3>1, <3>3
  <2>6. \A k \in Nat : Has(Whole(h), k) =>
           \/ Has(Whole(l), k) /\ At(Whole(h), k) = At(Whole(l), k)
           \/ k = Len(l.entries) + 1 /\ At(Whole(h), k) = x
    <3> HIDE DEF l, h
    <3> QED
      BY SMTT(60), <1>1, <2>5, WholeFacts
  <2>7. \A P \in Pieces : ~(Has(P, Len(l.entries) + 1) /\ At(P, Len(l.entries) + 1).term = x.term)
    BY SMTT(60), <1>1, <2>3, <2>4 DEF Leading
  <2>8. \A P \in Pieces : Same(Whole(h), P)
    BY SMTT(60), <1>2, <1>3, <2>6, <2>7 DEF Same
  <2> QED
    BY <1>2, <1>6, <2>2, <2>4, <2>5, <2>6, <2>8
<1>7. CASE Learns(i)
  <2>1. PICK j \in Server : \E m \in Carries(net, j, i) :
           /\ m.type = "AppendEntries" /\ Matches(l, m.prevIndex, m.prevTerm)
           /\ h = Merge(l, m.prevIndex, m.entries)
    BY <1>7 DEF Learns
  <2>2. PICK m \in Carries(net, j, i) :
           /\ m.type = "AppendEntries" /\ Matches(l, m.prevIndex, m.prevTerm)
           /\ h = Merge(l, m.prevIndex, m.entries)
    BY <2>1
  <2>3. m \in Message /\ m \in Appends(net)
    BY <2>2, MailFacts DEF LogStep, TypeOK, Appends
  <2> DEFINE M == Sent(m)
  <2>4. M \in Pieces
    BY <2>3 DEF Pieces
  <2>5. M \in Piece /\ Matches(l, M.prev, M.term) /\ h = Merge(l, M.prev, M.entries)
    BY <1>3, <2>2, <2>3, <2>4, AppendMessage
  <2> HIDE DEF M, l, h
  <2>6. Grown(Whole(h), elected)
    BY <1>1, <1>2, <1>3, <2>4, <2>5, MergeGrown DEF l
  <2>7. \A x \in Nat : Has(Whole(h), x) => \/ Has(Whole(l), x) /\ At(Whole(h), x) = At(Whole(l), x)
                                           \/ Has(M, x) /\ At(Whole(h), x) = At(M, x)
    BY <1>1, <2>5, MergeParts DEF Blended
  <2>8. \A P \in Pieces : Same(Whole(h), P)
    BY SMTT(60), <1>2, <1>3, <2>4, <2>7 DEF Same
  <2> QED
    BY <1>2, <2>4, <2>6, <2>7, <2>8 DEF l, h
<1>8. h = l \/ Restarts(i) \/ Grows(i) \/ Learns(i)
  BY Zenon DEF LogStep, Move, Stays, Stands, Wins, Counts
<1> QED
  BY <1>4, <1>5, <1>6, <1>7, <1>8

\* The elections won in a step.
LEMMA NewElection ==
  ASSUME NEW i \in Server, LogStep(i)
  PROVE  /\ elected \subseteq elected'
         /\ \A e \in elected' \ elected :
               /\ e.leader = i /\ e.log = node[i].log /\ e.term = node'[i].term
               /\ Wins(i) /\ elected' = elected \cup {e}
               /\ \A f \in elected : f.term # e.term
               /\ e.term > 0
               /\ \A o \in 1..Len(node[i].log.entries) : node[i].log.entries[o].term < e.term
<1>1. elected' = elected \/ Wins(i)
  BY Zenon DEF LogStep, Move, Stays, Stands, Grows, Counts, Learns, Restarts, LeaderStays
<1>2. CASE Wins(i)
  <2>1. PICK e \in elected' :
           e.term = node'[i].term /\ e.leader = i /\ e.log = node[i].log /\ elected' = elected \cup {e}
    BY <1>2 DEF Wins
  <2>2. \/ node[i].state = "Candidate" /\ node'[i].term = node[i].term
        \/ node'[i].term = node[i].term + 1
    BY <1>2 DEF Wins
  <2>3. node[i].term \in Nat /\ \A f \in elected : f.term \in Nat
    BY StepTypes, ServerFacts DEF Won
  <2>4. ASSUME NEW f \in elected, f.term = e.term PROVE FALSE
    <3>1. f.leader = i
      BY <2>1, <2>4, Zenon DEF LogStep, Sane, OneLeaderPerTerm
    <3>2. f.term =< node[i].term
      BY <3>1 DEF LogStep, LogInv, ElectionsSound
    <3>3. node[i].state = "Candidate" => f.term < node[i].term
      BY <3>1 DEF LogStep, LogInv, ServersSound
    <3> QED
      BY SMTT(60), <2>1, <2>2, <2>3, <2>4, <3>2, <3>3
  <2>5. e.term > 0
    BY SMTT(60), <2>1, <2>2, <2>3 DEF LogStep, LogInv, ServersSound
  <2>6. ASSUME NEW o \in 1..Len(node[i].log.entries) PROVE node[i].log.entries[o].term < e.term
    <3>1. node[i].log.entries[o].term \in Nat
      BY StepTypes, ServerFacts, EntryFacts
    <3>2. node[i].log.entries[o].term =< node[i].term
      BY DEF LogStep, LogInv, ServersSound
    <3>3. node[i].state = "Candidate" => node[i].log.entries[o].term < node[i].term
      BY DEF LogStep, LogInv, ServersSound
    <3> QED
      BY SMTT(60), <2>1, <2>2, <2>3, <3>1, <3>2, <3>3
  <2> QED
    BY <1>2, <2>1, <2>4, <2>5, <2>6
<1> QED
  BY <1>1, <1>2

\* What is a piece after a step is one before it, or part of the log the step left.
LEMMA PiecesAfter ==
  ASSUME NEW i \in Server, LogStep(i), NEW P \in Pieces'
  PROVE  P \in Pieces \/ (P \in Piece /\ Part(P, Whole(node'[i].log)))
<1>1. \A j \in Server : node'[j] = node[j] \/ j = i
  BY DEF LogStep, Move
<1>2. node'[i].log \in Log
  BY StepTypes, ServerFacts
<1>3. CASE \E j \in Server : P = Whole(node'[j].log)
  BY SMTT(60), <1>1, <1>2, <1>3, PartOfItself, WholeFacts DEF Pieces
<1>4. CASE \E e \in elected' : P = Whole(e.log)
  BY SMTT(60), <1>4, NewElection DEF Pieces
<1>5. CASE \E m \in Appends(net') : P = Sent(m)
  <2>1. PICK m \in Appends(net') : P = Sent(m)
    BY <1>5
  <2>2. PICK p \in Server, q \in Server : m \in Carries(net', p, q)
    BY SMTT(60) DEF Appends, Mail
  <2>3. m.type = "AppendEntries"
    BY DEF Appends
  <2>4. m \in Carries(net, p, q) \/ (p = i /\ Posted(i, q, m))
    BY <2>2 DEF LogStep, Move, MailMoves
  <2>5. CASE m \in Carries(net, p, q)
    BY SMTT(60), <2>1, <2>3, <2>5 DEF Pieces, Appends, Mail
  <2>6. CASE Posted(i, q, m)
    BY <2>1, <2>3, <2>6 DEF Posted
  <2> QED
    BY <2>4, <2>5, <2>6
<1> QED
  BY <1>3, <1>4, <1>5 DEF Pieces

LEMMA PiecesStep ==
  ASSUME NEW i \in Server, LogStep(i)
  PROVE  PiecesSound'
<1> DEFINE H == Whole(node'[i].log)
<1>1. H \in Piece
  BY StepTypes, ServerFacts, WholeFacts
<1>2. Grown(H, elected) /\ \A P \in Pieces : Same(H, P)
  BY NewLog
<1>3. /\ \A P \in Pieces : P \in Piece /\ Grown(P, elected)
      /\ \A P, Q \in Pieces : Same(P, Q)
  BY DEF LogStep, LogInv, PiecesSound
<1>4. \A P \in Pieces' : P \in Pieces \/ (P \in Piece /\ Part(P, H))
  BY PiecesAfter
<1> HIDE DEF H
<1>5. ASSUME NEW P \in Pieces' PROVE P \in Piece /\ Grown(P, elected')
  <2>1. P \in Piece /\ Grown(P, elected)
    BY <1>1, <1>2, <1>3, <1>4, PartGrown
  <2> QED
    BY <2>1, NewElection DEF Grown
<1>6. ASSUME NEW P \in Pieces', NEW Q \in Pieces' PROVE Same(P, Q)
  <2>1. CASE P \in Pieces /\ Q \in Pieces
    BY <1>3, <2>1
  <2>2. CASE P \in Pieces /\ Part(Q, H)
    BY <1>2, <2>2, PartSame, SameSym
  <2>3. CASE Part(P, H) /\ Q \in Pieces
    BY <1>2, <2>3, PartSame
  <2>4. CASE Part(P, H) /\ Part(Q, H)
    BY <2>4, PartsSame
  <2> QED
    BY <1>4, <2>1, <2>2, <2>3, <2>4
<1> QED
  BY <1>5, <1>6 DEF PiecesSound

LEMMA ElectionsStep ==
  ASSUME NEW i \in Server, LogStep(i)
  PROVE  ElectionsSound'
<1>1. /\ \A e, f \in elected : e.term = f.term => e = f
      /\ \A e \in elected : e.term > 0 /\ e.term =< node[e.leader].term
      /\ \A e \in elected : \A o \in 1..Len(e.log.entries) : e.log.entries[o].term < e.term
  BY DEF LogStep, LogInv, ElectionsSound
<1>2. ASSUME NEW e \in elected', NEW f \in elected', e.term = f.term PROVE e = f
  BY SMTT(60), <1>1, <1>2, NewElection
<1>3. ASSUME NEW e \in elected' PROVE e.term > 0 /\ e.term =< node'[e.leader].term
  <2>1. e.leader \in Server /\ e.term \in Nat
    BY StepTypes DEF Won
  <2>2. node[e.leader].term \in Nat /\ node'[e.leader].term \in Nat
    BY <2>1, StepTypes, ServerFacts
  <2>3. node'[e.leader].term >= node[e.leader].term
    <3>1. node'[i].term >= node[i].term /\ (e.leader # i => node'[e.leader] = node[e.leader])
      BY <2>1 DEF LogStep, Move
    <3> QED
      BY SMTT(60), <2>2, <3>1
  <2> QED
    BY SMTT(60), <1>1, <2>1, <2>2, <2>3, NewElection
<1>4. ASSUME NEW e \in elected', NEW o \in 1..Len(e.log.entries)
      PROVE  e.log.entries[o].term < e.term
  BY <1>1, NewElection
<1> QED
  BY <1>2, <1>3, <1>4 DEF ElectionsSound

(* An entry of a leader's term is in its log, wherever else it may be. *)
LEMMA LeadingStays ==
  ASSUME NEW i \in Server, LogStep(i), NEW j \in Server, NEW e \in elected, Leading(j, e), NEW P \in Pieces',
         NEW k \in Nat, Has(P, k), At(P, k).term = e.term
  PROVE  \/ k =< Len(node[j].log.entries)
         \/ j = i /\ Grows(i) /\ k =< Len(node'[i].log.entries)
<1> DEFINE H == Whole(node'[i].log)
<1>1. \A Q \in Pieces : Has(Q, k) /\ At(Q, k).term = e.term => k =< Len(node[j].log.entries)
  BY DEF Leading
<1>2. CASE Part(P, H)
  <2>1. Has(H, k) /\ At(H, k) = At(P, k)
    BY <1>2 DEF Part
  <2>2. \/ \E Q \in Pieces : Has(Q, k) /\ At(Q, k) = At(H, k)
        \/ /\ node[i].state = "Leader" /\ At(H, k).term = node[i].term
           /\ k = Len(node'[i].log.entries) /\ Grows(i)
    BY <2>1, NewLog
  <2>3. CASE /\ node[i].state = "Leader" /\ At(H, k).term = node[i].term
             /\ k = Len(node'[i].log.entries) /\ Grows(i)
    <3>1. PICK f \in elected : Leading(i, f)
      BY <2>3 DEF LogStep, LogInv, ServersSound
    <3>2. f = e
      BY SMTT(60), <2>1, <2>3, <3>1 DEF Leading, LogStep, LogInv, ElectionsSound
    <3>3. j = i
      BY <3>1, <3>2 DEF Leading
    <3>4. k =< Len(node'[i].log.entries)
      BY SMTT(60), <2>3
    <3> QED
      BY <2>3, <3>3, <3>4
  <2> QED
    BY <1>1, <2>1, <2>2, <2>3
<1> QED
  BY <1>1, <1>2, PiecesAfter

(* A leader's log grows by an entry of its term. *)
LEMMA GrowsLed ==
  ASSUME NEW i \in Server, LogStep(i), Grows(i), NEW e \in elected, Leading(i, e)
  PROVE  /\ LedBy(node'[i].log, e) /\ node'[i].term = e.term /\ e.leader = i
         /\ Len(node'[i].log.entries) = Len(node[i].log.entries) + 1
<1> DEFINE l == node[i].log
           h == node'[i].log
           n == Len(l.entries)
<1>1. PICK c \in Command : h = Append1(l, [term |-> node[i].term, command |-> c])
  BY DEF Grows
<1> DEFINE x == [term |-> node[i].term, command |-> c]
<1>2. /\ node[i].term = e.term /\ node'[i].term = e.term /\ e.leader = i
      /\ LedBy(l, e) /\ l \in Log /\ x \in Entry /\ x.term = e.term
  BY StepTypes, ServerFacts DEF Leading, Grows, LeaderStays, Entry
<1>3. Grown(Whole(l), elected) /\ elected \subseteq Won
  BY StepTypes DEF LogStep, LogInv, PiecesSound, Pieces
<1> HIDE DEF l, x
<1>4. /\ Len(Append1(l, x).entries) = n + 1
      /\ \A o \in 1..n : Append1(l, x).entries[o] = l.entries[o]
      /\ Append1(l, x).entries[n + 1] = x
  BY <1>2, <1>3, AppendGrown, Zenon
<1>5. Len(h.entries) = n + 1 /\ (\A o \in 1..n : h.entries[o] = l.entries[o]) /\ h.entries[n + 1] = x
  BY <1>1, <1>4 DEF x
<1>6. n \in Nat /\ Len(e.log.entries) \in Nat /\ Len(e.log.entries) =< n
  BY <1>2, <1>3, LogFacts DEF LedBy, Won
<1> HIDE DEF n, h
<1>7. ASSUME NEW o \in 1..(n + 1) PROVE h.entries[o].term = Under(e, o)
  <2>1. CASE o \in 1..n
    BY <1>2, <1>5, <2>1 DEF LedBy, n
  <2>2. CASE o = n + 1
    BY SMTT(60), <1>2, <1>5, <1>6, <2>2 DEF Under
  <2> QED
    BY SMTT(60), <1>6, <2>1, <2>2
<1>8. LedBy(h, e)
  BY SMTT(60), <1>5, <1>6, <1>7 DEF LedBy
<1> QED
  BY <1>2, <1>5, <1>8 DEF h, n, l

LEMMA LeadersStep ==
  ASSUME NEW i \in Server, LogStep(i), NEW j \in Server, node'[j].state = "Leader"
  PROVE  \E e \in elected' : Leading(j, e)'
<1>1. CASE node[j].state = "Leader" /\ node'[j].term = node[j].term /\ node'[j].log = node[j].log /\ ~Grows(i)
  <2>1. PICK e \in elected : Leading(j, e)
    BY <1>1 DEF LogStep, LogInv, ServersSound
  <2>2. \A P \in Pieces' : \A k \in Nat :
           Has(P, k) /\ At(P, k).term = e.term => k =< Len(node[j].log.entries)
    BY <1>1, <2>1, LeadingStays
  <2>3. Leading(j, e)'
    BY <1>1, <2>1, <2>2 DEF Leading
  <2> QED
    BY <2>1, <2>3, NewElection
<1>2. CASE Grows(i)
  <2>1. PICK e \in elected : Leading(j, e)
    BY <1>2 DEF LogStep, LogInv, ServersSound, Move, Grows, LeaderStays
  <2>2. CASE j # i
    <3>1. node'[j] = node[j]
      BY <2>2 DEF LogStep, Move
    <3>2. \A P \in Pieces' : \A k \in Nat :
             Has(P, k) /\ At(P, k).term = e.term => k =< Len(node[j].log.entries)
      BY <2>1, <2>2, LeadingStays
    <3>3. Leading(j, e)'
      BY <2>1, <3>1, <3>2 DEF Leading
    <3> QED
      BY <2>1, <3>3, NewElection
  <2>3. CASE j = i
    <3>1. LedBy(node'[i].log, e) /\ node'[i].term = e.term /\ e.leader = i
      BY <1>2, <2>1, <2>3, GrowsLed
    <3>2. Len(node'[i].log.entries) = Len(node[i].log.entries) + 1 /\ Len(node[i].log.entries) \in Nat
      BY <1>2, <2>1, <2>3, GrowsLed, StepTypes, ServerFacts
    <3>3. \A P \in Pieces' : \A k \in Nat :
             Has(P, k) /\ At(P, k).term = e.term =>
                 k =< Len(node[i].log.entries) \/ k =< Len(node'[i].log.entries)
      BY <2>1, <2>3, LeadingStays
    <3>4. \A P \in Pieces' : \A k \in Nat :
             Has(P, k) /\ At(P, k).term = e.term => k =< Len(node'[i].log.entries)
      BY SMTT(60), <3>2, <3>3
    <3>5. Leading(i, e)'
      BY <3>1, <3>4 DEF Leading
    <3> QED
      BY <2>1, <2>3, <3>5, NewElection
  <2> QED
    BY <2>2, <2>3
<1>3. CASE Wins(i) /\ j = i
  <2>1. PICK e \in elected' :
           e.term = node'[i].term /\ e.leader = i /\ e.log = node[i].log /\ elected' = elected \cup {e}
    BY <1>3 DEF Wins
  <2>2. e \notin elected /\ node'[i].log = node[i].log
    <3>1. node'[i].log = node[i].log
      BY <1>3 DEF Wins
    <3>2. ASSUME e \in elected PROVE FALSE
      <4>1. e.term =< node[i].term /\ (node[i].state = "Candidate" => e.term < node[i].term)
        BY <2>1, <3>2 DEF LogStep, LogInv, ElectionsSound, ServersSound
      <4>2. \/ node[i].state = "Candidate" /\ e.term = node[i].term
            \/ e.term = node[i].term + 1
        BY <1>3, <2>1 DEF Wins
      <4>3. e.term \in Nat /\ node[i].term \in Nat
        BY <2>1, StepTypes, ServerFacts, Zenon DEF Won
      <4> QED
        BY SMTT(60), <4>1, <4>2, <4>3
    <3> QED
      BY <3>1, <3>2
  <2>3. \A f \in elected : f.term # e.term
    BY <2>1, <2>2, NewElection
  <2>4. ASSUME NEW P \in Pieces', NEW k \in Nat, Has(P, k), At(P, k).term = e.term PROVE FALSE
    <3>1. PICK Q \in Pieces : Has(Q, k) /\ At(Q, k).term = e.term
      <4>1. Whole(node'[i].log) \in Pieces
        BY <2>2 DEF Pieces
      <4> QED
        BY <2>4, <4>1, PiecesAfter DEF Part
    <3>2. \E f \in elected : f.term = e.term
      BY <3>1 DEF LogStep, LogInv, PiecesSound, Grown, Sits
    <3> QED
      BY <2>3, <3>2
  <2>5. LedBy(e.log, e)
    <3>1. Len(e.log.entries) \in Nat
      BY <2>1, StepTypes, LogFacts, Zenon DEF Won
    <3> QED
      BY SMTT(60), <3>1 DEF LedBy, Under
  <2>6. Leading(i, e)'
    BY <2>1, <2>2, <2>4, <2>5 DEF Leading
  <2> QED
    BY <1>3, <2>1, <2>6
<1>4. \/ Grows(i) \/ (Wins(i) /\ j = i)
      \/ node[j].state = "Leader" /\ node'[j].term = node[j].term /\ node'[j].log = node[j].log
  <2>1. CASE j # i
    BY <2>1 DEF LogStep, Move
  <2>2. CASE j = i
    BY <2>2, Zenon DEF LogStep, Move, Stays, Stands, Counts, Learns, Restarts, LeaderStays
  <2> QED
    BY <2>1, <2>2
<1> QED
  BY <1>1, <1>2, <1>3, <1>4

LEMMA TermsStep ==
  ASSUME NEW i \in Server, LogStep(i), NEW j \in Server, NEW o \in 1..Len(node'[j].log.entries)
  PROVE  node'[j].log.entries[o].term =< node'[j].term
<1>1. CASE j # i
  BY <1>1 DEF LogStep, Move, LogInv, ServersSound
<1>2. CASE j = i
  <2> DEFINE h == node'[i].log
             t == node'[i].term
  <2>1. h \in Log /\ node[i].term \in Nat /\ t \in Nat /\ t >= node[i].term
    BY StepTypes, ServerFacts DEF LogStep
  <2>2. h.entries[o].term \in Nat /\ o \in Nat /\ Has(Whole(h), o) /\ At(Whole(h), o) = h.entries[o]
    BY SMTT(60), <1>2, <2>1, EntryFacts, WholeFacts
  <2>3. CASE h = node[i].log
    <3>1. h.entries[o].term =< node[i].term
      BY <1>2, <2>3 DEF LogStep, LogInv, ServersSound
    <3> QED
      BY SMTT(60), <1>2, <2>1, <2>2, <3>1
  <2>4. CASE Restarts(i)
    <3>1. Len(h.entries) = 0
      BY SMTT(60), <2>4 DEF Restarts
    <3> QED
      BY SMTT(60), <1>2, <3>1
  <2>5. CASE Grows(i)
    <3>1. \/ h.entries[o].term = node[i].term
          \/ o \in 1..Len(node[i].log.entries) /\ h.entries[o] = node[i].log.entries[o]
      <4>1. PICK c \in Command : h = Append1(node[i].log, [term |-> node[i].term, command |-> c])
        BY <2>5 DEF Grows
      <4> DEFINE x == [term |-> node[i].term, command |-> c]
                 s == node[i].log.entries
      <4>2. x \in Entry /\ node[i].log \in Log /\ s \in Seq(Entry) /\ Len(s) \in Nat
        BY <2>1, StepTypes, ServerFacts, LogFacts, Zenon DEF Entry
      <4>3. h.entries = Append(s, x)
        BY <4>1, <4>2 DEF Append1, Log
      <4> HIDE DEF x, s
      <4>4. /\ Len(h.entries) = Len(s) + 1 /\ h.entries[Len(s) + 1] = x
            /\ \A q \in 1..Len(s) : h.entries[q] = s[q]
        BY SMTT(60), <4>2, <4>3, AppendProperties
      <4>5. o \in 1..Len(s) \/ o = Len(s) + 1
        BY SMTT(60), <1>2, <4>2, <4>4
      <4> QED
        BY SMTT(60), <4>4, <4>5 DEF x, s
    <3>2. \A q \in 1..Len(node[i].log.entries) : node[i].log.entries[q].term =< node[i].term
      BY DEF LogStep, LogInv, ServersSound
    <3>3. h.entries[o].term =< node[i].term
      BY SMTT(60), <2>1, <3>1, <3>2
    <3> QED
      BY SMTT(60), <1>2, <2>1, <2>2, <3>3
  <2>6. CASE Learns(i)
    <3>1. PICK p \in Server : \E m \in Carries(net, p, i) :
             /\ m.type = "AppendEntries" /\ Matches(node[i].log, m.prevIndex, m.prevTerm)
             /\ h = Merge(node[i].log, m.prevIndex, m.entries) /\ m.term = t
      BY <2>6 DEF Learns
    <3>2. PICK m \in Carries(net, p, i) :
             /\ m.type = "AppendEntries" /\ Matches(node[i].log, m.prevIndex, m.prevTerm)
             /\ h = Merge(node[i].log, m.prevIndex, m.entries) /\ m.term = t
      BY <3>1
    <3>3. m \in Message /\ m \in Appends(net)
      BY <3>2, MailFacts, StepTypes DEF Appends
    <3> DEFINE M == Sent(m)
               l == node[i].log
    <3>4. M \in Piece
      BY <3>3 DEF LogStep, LogInv, PiecesSound, Pieces
    <3>5. Matches(l, M.prev, M.term) /\ h = Merge(l, M.prev, M.entries)
      BY <3>2, <3>3, AppendMessage
    <3>6. l \in Log /\ l.offset = 0
      BY StepTypes, ServerFacts, Zenon DEF LogStep, Uncompacted
    <3>7. Has(M, o) => At(M, o).term =< t
      BY <2>2, <3>2, <3>3 DEF LogStep, LogInv, AppendsSound
    <3>8. o \in 1..Len(l.entries) => l.entries[o].term =< node[i].term
      BY DEF LogStep, LogInv, ServersSound
    <3> HIDE DEF M, l, h, t
    <3>9. \/ Has(Whole(l), o) /\ At(Whole(h), o) = At(Whole(l), o)
          \/ Has(M, o) /\ At(Whole(h), o) = At(M, o)
      BY <2>2, <3>4, <3>5, <3>6, MergeParts DEF Blended
    <3>10. Has(Whole(l), o) => o \in 1..Len(l.entries) /\ At(Whole(l), o) = l.entries[o]
      BY SMTT(60), <2>2, <3>6, WholeFacts, LogFacts
    <3>11. h.entries[o].term =< t
      BY SMTT(60), <2>1, <2>2, <3>7, <3>8, <3>9, <3>10
    <3> QED
      BY <1>2, <3>11 DEF h, t
  <2>7. h = node[i].log \/ Restarts(i) \/ Grows(i) \/ Learns(i)
    BY Zenon DEF LogStep, Move, Stays, Stands, Wins, Counts
  <2> QED
    BY <2>3, <2>4, <2>5, <2>6, <2>7
<1> QED
  BY <1>1, <1>2

LEMMA ServersStep ==
  ASSUME NEW i \in Server, LogStep(i)
  PROVE  ServersSound'
<1>1. ASSUME NEW j \in Server, node'[j].state = "Candidate"
      PROVE  /\ node'[j].term > 0
             /\ \A e \in elected' : e.leader = j => e.term < node'[j].term
             /\ \A o \in 1..Len(node'[j].log.entries) : node'[j].log.entries[o].term < node'[j].term
  <2>1. CASE /\ node[j].state = "Candidate" /\ node'[j].term = node[j].term
             /\ node'[j].log = node[j].log /\ (j # i \/ elected' = elected)
    <3>1. \A e \in elected' : e.leader = j => e \in elected
      BY <2>1, NewElection
    <3> QED
      BY <2>1, <3>1 DEF LogStep, LogInv, ServersSound
  <2>2. CASE j = i /\ Stands(i)
    <3>1. /\ node'[i].term = node[i].term + 1 /\ elected' = elected /\ node'[i].log = node[i].log
          /\ node[i].term \in Nat /\ node[i].log \in Log
      BY <2>2, StepTypes, ServerFacts DEF Stands
    <3>2. \A e \in elected : e.leader = i => e.term =< node[i].term /\ e.term \in Nat
      BY StepTypes DEF LogStep, LogInv, ElectionsSound, Won
    <3>3. \A o \in 1..Len(node[i].log.entries) :
             node[i].log.entries[o].term =< node[i].term /\ node[i].log.entries[o].term \in Nat
      BY <3>1, EntryFacts DEF LogStep, LogInv, ServersSound
    <3> QED
      BY SMTT(60), <2>2, <3>1, <3>2, <3>3
  <2>3. CASE j # i
    BY <1>1, <2>1, <2>3 DEF LogStep, Move
  <2>4. CASE j = i
    <3>1. \/ Stands(i)
          \/ /\ node[i].state = "Candidate" /\ node'[i].term = node[i].term
             /\ node'[i].log = node[i].log /\ elected' = elected
      BY <1>1, <2>4, Zenon DEF LogStep, Move, Stays, Wins, Grows, Counts, Learns, Restarts, LeaderStays
    <3> QED
      BY <2>1, <2>2, <2>4, <3>1
  <2> QED
    BY <2>3, <2>4
<1> QED
  BY <1>1, LeadersStep, TermsStep DEF ServersSound

LEMMA AppendsStep ==
  ASSUME NEW i \in Server, LogStep(i)
  PROVE  AppendsSound'
<1> SUFFICES ASSUME NEW m \in Appends(net'), NEW k \in Nat, Has(Sent(m), k)
             PROVE  At(Sent(m), k).term =< m.term
  BY DEF AppendsSound
<1>1. PICK p \in Server, q \in Server : m \in Carries(net', p, q)
  BY SMTT(60) DEF Appends, Mail
<1>2. m.type = "AppendEntries"
  BY DEF Appends
<1>3. CASE m \in Carries(net, p, q)
  <2>1. m \in Appends(net)
    BY SMTT(60), <1>2, <1>3 DEF Appends, Mail
  <2> QED
    BY <2>1 DEF LogStep, LogInv, AppendsSound
<1>4. CASE Posted(i, q, m)
  <2>1. m.term = node'[i].term /\ Part(Sent(m), Whole(node'[i].log))
    BY <1>2, <1>4 DEF Posted
  <2>2. Has(Whole(node'[i].log), k) /\ At(Sent(m), k) = At(Whole(node'[i].log), k)
    BY <2>1 DEF Part
  <2>3. node'[i].log \in Log /\ Len(node'[i].log.entries) \in Nat
    BY StepTypes, ServerFacts, Zenon
  <2>4. k \in 1..Len(node'[i].log.entries) /\ At(Sent(m), k) = node'[i].log.entries[k]
    BY SMTT(60), <2>2, <2>3, WholeFacts
  <2> QED
    BY <2>1, <2>4, TermsStep
<1> QED
  BY <1>1, <1>3, <1>4, Zenon DEF LogStep, Move, MailMoves

LEMMA LogInvStep ==
  ASSUME NEW i \in Server, LogStep(i)
  PROVE  LogInv'
  BY PiecesStep, ElectionsStep, ServersStep, AppendsStep DEF LogInv

-----------------------------------------------------------------------------
(* Logs match                                                              *)

LEMMA LogInvInit ==
  ASSUME Fresh
  PROVE  LogInv
<1>1. \A i \in Server : node[i].log = EmptyLog /\ node[i].state = "Follower"
  BY DEF Fresh
<1>2. elected = {} /\ Appends(net) = {}
  BY SMTT(60) DEF Fresh, Appends, Mail
<1>3. \A P \in Pieces : P = Whole(EmptyLog)
  BY <1>1, <1>2 DEF Pieces
<1>4. EmptyLog \in Log /\ Len(EmptyLog.entries) = 0
  BY EmptyLogType DEF EmptyLog
<1>5. \A k \in Nat : ~Has(Whole(EmptyLog), k)
  BY SMTT(60), <1>4, WholeFacts
<1>6. PiecesSound
  BY <1>3, <1>4, <1>5, WholeFacts DEF PiecesSound, Grown, Same
<1>7. ServersSound
  <2> SUFFICES ASSUME NEW i \in Server
               PROVE  /\ node[i].state \notin {"Leader", "Candidate"}
                      /\ 1..Len(node[i].log.entries) = {}
    BY DEF ServersSound
  <2> QED
    BY SMTT(60), <1>1, <1>4
<1> QED
  BY <1>2, <1>6, <1>7 DEF LogInv, ElectionsSound, AppendsSound

LEMMA LogsMatch ==
  ASSUME TypeOK, Uncompacted, Sane => LogInv
  PROVE  LogMatching
<1> SUFFICES ASSUME Sane, NEW i \in Server, NEW j \in Server,
                    NEW k \in Held(node[i].log) \cap Held(node[j].log),
                    TermAt(node[i].log, k) = TermAt(node[j].log, k), NEW o \in 1..k
             PROVE  Agree(node[i].log, node[j].log, o)
  BY Zenon DEF LogMatching, Sane
<1> DEFINE a == node[i].log
           b == node[j].log
<1>1. LogInv
  OBVIOUS
<1>2. a \in Log /\ b \in Log /\ a.offset = 0 /\ b.offset = 0 /\ elected \subseteq Won
  BY ServerFacts DEF TypeOK, Uncompacted
<1>3. Len(a.entries) \in Nat /\ Len(b.entries) \in Nat
  BY <1>2, LogFacts
<1>4. /\ k \in Nat /\ 1 =< k /\ k =< Len(a.entries) /\ k =< Len(b.entries)
      /\ a.entries[k].term = b.entries[k].term
  BY SMTT(60), <1>2, <1>3 DEF Held, TermAt, Holds, LastIndex
<1>5. Whole(a) \in Pieces /\ Whole(b) \in Pieces
  BY DEF Pieces
<1> HIDE DEF a, b
<1>6. /\ Grown(Whole(a), elected) /\ Grown(Whole(b), elected) /\ Same(Whole(a), Whole(b))
      /\ \A e, f \in elected : e.term = f.term => e = f
  BY <1>1, <1>5 DEF LogInv, PiecesSound, ElectionsSound
<1>7. ASSUME NEW l \in Log, Grown(Whole(l), elected), k =< Len(l.entries), Len(l.entries) \in Nat
      PROVE  \E e \in elected : e.term = l.entries[k].term /\ \A q \in 1..k : l.entries[q].term = Under(e, q)
  <2>1. Has(Whole(l), k) /\ At(Whole(l), k) = l.entries[k]
    BY <1>4, <1>7, WholeFacts
  <2>2. PICK e \in elected : Sits(Whole(l), k, e)
    BY <1>4, <1>7, <2>1 DEF Grown
  <2>3. \A q \in 1..k : q \in Nat /\ q # 0 /\ q =< Len(l.entries)
    BY SMTT(60), <1>4, <1>7
  <2>4. \A q \in 1..k : Knows(Whole(l), q) /\ TermOf(Whole(l), q) = l.entries[q].term
    BY <2>3, WholeFacts
  <2> QED
    BY <2>1, <2>2, <2>4 DEF Sits
<1>8. \A q \in 1..k : a.entries[q].term = b.entries[q].term
  BY SMTT(60), <1>2, <1>3, <1>4, <1>6, <1>7
<1>9. a.entries[o] = b.entries[o]
  <2>1. o \in Nat /\ 1 =< o /\ o =< Len(a.entries) /\ o =< Len(b.entries)
    BY SMTT(60), <1>3, <1>4
  <2>2. Has(Whole(a), o) /\ Has(Whole(b), o) /\ At(Whole(a), o) = a.entries[o] /\ At(Whole(b), o) = b.entries[o]
    BY <1>2, <2>1, WholeFacts
  <2> QED
    BY <1>6, <1>8, <2>1, <2>2 DEF Same
<1> QED
  BY SMTT(60), <1>2, <1>9 DEF Agree, a, b

-----------------------------------------------------------------------------
(* What the servers have stored                                            *)

\* No departure, no restart and no failed write so far.
Calm == odd = {} /\ restarts = 0 /\ faults = 0

HasAt(l, k, t) == 1 =< k /\ k =< Len(l.entries) /\ l.entries[k].term = t

\* A candidate with log l gets the votes of servers that have an entry of term t at k.
Ahead(l, k, t) == LastTerm(l) > t \/ (LastTerm(l) = t /\ LastIndex(l) >= k)

\* A leader of a term after t, up to u, was elected without the entry of term t at k.
Missed(E, k, t, u) == \E e \in E : t < e.term /\ e.term =< u /\ ~HasAt(e.log, k, t)

\* Server v has had the entry of term t at k since term t, and whoever it has voted
\* for since then was ahead of it, unless a leader was elected without it before.
Stored(v, k, t) ==
    /\ node[v].term >= t
    /\ HasAt(node[v].log, k, t) \/ Missed(elected, k, t, node[v].term)
    /\ \A e \in elected : e.term > t /\ v \in e.votes => Missed(elected, k, t, e.term - 1) \/ Ahead(e.log, k, t)
    /\ \A g \in granted : g.voter = v /\ g.term > t =>
          \/ Missed(elected, k, t, g.term)
          \/ node[g.candidate].state = "Candidate" /\ node[g.candidate].term = g.term =>
                Ahead(node[g.candidate].log, k, t)

StoredUpTo(v, n, e) ==
    \A k \in Nat : Len(e.log.entries) < k /\ k =< n => Stored(v, k, e.term)

\* A majority has stored the entry at k that the leader of election e wrote.
Chosen(k, e) ==
    /\ k > Len(e.log.entries)
    /\ \E Q \in SUBSET Server : Cardinality(Q) >= Cardinality(Server) \div 2 + 1
                                /\ \A v \in Q : Stored(v, k, e.term)

\* All up to c is chosen, by an election of a term up to t.
Settled(c, t, e, k) == e.term =< t /\ c =< k /\ Chosen(k, e)

GrantsSound ==
    \A g \in granted : g.term =< node[g.voter].term /\ g.term =< node[g.candidate].term

RequestsSound ==
    \A p, q \in Server : \A m \in Carries(net, p, q) : m.type = "RequestVote" =>
        /\ m.term =< node[p].term
        /\ node[p].state = "Candidate" /\ node[p].term = m.term =>
              m.lastIndex = LastIndex(node[p].log) /\ m.lastTerm = LastTerm(node[p].log)

\* M has the terms of the log of election e's leader, as far as it knows them.
PartUnder(M, e) ==
    \A o \in Nat \ {0} : Knows(M, o) => TermOf(M, o) = Under(e, o) \/ (o = M.prev /\ M.term = 0)

EntriesSound ==
    \A m \in Appends(net) :
        /\ \E e \in elected : e.term = m.term /\ PartUnder(Sent(m), e)
        /\ m.commit > 0 => \E e \in elected : \E k \in Nat : Settled(m.commit, m.term, e, k)

AcksSound ==
    \A p, q \in Server : \A m \in Carries(net, p, q) : m.type = "AppendEntriesResponse" /\ m.success =>
        \E e \in elected : e.term = m.term /\ StoredUpTo(p, m.match, e)

MatchSound ==
    \A i \in Server : node[i].state = "Leader" =>
        /\ node[i].match[i] = 0
        /\ \A p \in Server : \A e \in elected : e.term = node[i].term => StoredUpTo(p, node[i].match[p], e)

CommitsSound ==
    \A i \in Server : node[i].commit > 0 =>
        \E e \in elected : \E k \in Nat :
            /\ Settled(node[i].commit, node[i].term, e, k)
            /\ HasAt(node[i].log, node[i].commit, Under(e, node[i].commit))

MachinesSound ==
    \A i \in Server :
        /\ node[i].applied = node[i].commit /\ Len(node[i].machine) = node[i].commit
        /\ \A x \in 1..node[i].commit : node[i].machine[x] = node[i].log.entries[x].command

\* No snapshot and no change of membership.
Plain ==
    /\ \A i \in Server : node[i].log.snapTerm = 0 /\ node[i].members = Server
    /\ \A e \in elected : e.log.snapTerm = 0 /\ e.log.offset = 0

CommitInv ==
    /\ GrantsSound /\ RequestsSound /\ EntriesSound /\ AcksSound
    /\ MatchSound /\ CommitsSound /\ MachinesSound /\ Plain

-----------------------------------------------------------------------------
(* Merging what a leader sent                                              *)

LEMMA HasAtFacts ==
  ASSUME NEW l \in Log, NEW k \in Nat, NEW t
  PROVE  HasAt(l, k, t) <=> Has(Whole(l), k) /\ l.entries[k].term = t
  BY WholeFacts DEF HasAt

Proper(E) ==
    /\ E \in SUBSET Won
    /\ \A e, f \in E : e.term = f.term => e = f
    /\ \A e \in E : Grown(Whole(e.log), E)

Positive(l) == \A o \in 1..Len(l.entries) : l.entries[o].term > 0

(* What a server has in common with the leader stays when it takes entries from
   it; and unless it keeps more than the leader sent, its log is the leader's. *)
LEMMA MergeUnder ==
  ASSUME NEW E, Proper(E), NEW l \in Log, l.offset = 0, Grown(Whole(l), E), Positive(l),
         NEW M \in Piece, Matches(l, M.prev, M.term), NEW e \in E, PartUnder(M, e),
         NEW h \in Log, h = Merge(l, M.prev, M.entries)
  PROVE  /\ Len(h.entries) =< M.prev + Len(M.entries) =>
               \A o \in 1..Len(h.entries) : h.entries[o].term = Under(e, o)
         /\ \A k \in Nat : HasAt(l, k, Under(e, k)) => HasAt(h, k, Under(e, k))
<1> DEFINE p == M.prev
           n == Len(M.entries)
           F == Whole(l)
           G == Whole(h)
<1>1. /\ p \in Nat /\ n \in Nat /\ M.term \in Nat
      /\ Len(l.entries) \in Nat /\ Len(h.entries) \in Nat
  BY PieceFacts, LogFacts
<1>2. /\ p > 0 => Has(F, p) /\ At(F, p).term = M.term
      /\ \A x \in Nat : x =< p /\ Has(F, x) => Has(G, x) /\ At(G, x) = At(F, x)
      /\ \A x \in Nat : Has(M, x) => Has(G, x) /\ At(G, x).term = At(M, x).term
      /\ (\A o \in Nat : Has(F, o) /\ Has(M, o) => At(F, o).term = At(M, o).term) =>
            \A x \in Nat : Has(F, x) => Has(G, x) /\ At(G, x) = At(F, x)
  <2>1. Blended(l, M)
    BY MergeParts
  <2> QED
    BY <2>1 DEF Blended
<1>3. \A x \in Nat : /\ Has(F, x) <=> 1 =< x /\ x =< Len(l.entries)
                     /\ Has(G, x) <=> 1 =< x /\ x =< Len(h.entries)
                     /\ At(F, x) = l.entries[x] /\ At(G, x) = h.entries[x]
  BY WholeFacts
<1>4. \A x \in Nat : Has(M, x) <=> p < x /\ x =< p + n
  BY DEF Has
<1>5. \A x \in Nat : Has(M, x) => At(M, x).term = Under(e, x)
  <2> SUFFICES ASSUME NEW x \in Nat, Has(M, x) PROVE At(M, x).term = Under(e, x)
    OBVIOUS
  <2>1. x \in Nat \ {0} /\ x # M.prev /\ Knows(M, x)
    BY SMTT(60), <1>1, <1>4 DEF Knows
  <2> QED
    BY <2>1 DEF PartUnder, TermOf
<1>6. p > 0 => \A q \in 1..p : l.entries[q].term = Under(e, q)
  <2> SUFFICES ASSUME p > 0 PROVE \A q \in 1..p : l.entries[q].term = Under(e, q)
    OBVIOUS
  <2>1. l.entries[p].term = M.term /\ M.term > 0 /\ Has(F, p)
    BY SMTT(60), <1>1, <1>2, <1>3 DEF Positive
  <2>2. M.term = Under(e, p)
    BY SMTT(60), <1>1, <2>1 DEF PartUnder, TermOf, Knows
  <2> QED
    BY SMTT(60), <1>1, <2>1, <2>2, UnderMatch DEF Proper
<1>7. ASSUME NEW k \in Nat, HasAt(l, k, Under(e, k)) PROVE HasAt(h, k, Under(e, k))
  <2>1. Has(F, k) /\ l.entries[k].term = Under(e, k)
    BY <1>7, HasAtFacts
  <2> HIDE DEF F, G
  <2>2. CASE k =< p
    BY <1>2, <1>3, <2>1, <2>2 DEF HasAt
  <2>3. CASE Has(M, k)
    BY <1>2, <1>3, <1>5, <2>3 DEF HasAt
  <2>4. CASE k > p + n
    <3>1. \A q \in 1..k : l.entries[q].term = Under(e, q)
      BY SMTT(60), <2>1, UnderMatch DEF F, Proper
    <3>2. \A o \in Nat : Has(F, o) /\ Has(M, o) => At(F, o).term = At(M, o).term
      <4> SUFFICES ASSUME NEW o \in Nat, Has(F, o), Has(M, o) PROVE At(F, o).term = At(M, o).term
        OBVIOUS
      <4>1. o \in 1..k
        BY SMTT(60), <1>1, <1>3, <1>4, <2>4
      <4> QED
        BY <1>3, <1>5, <3>1, <4>1
    <3> QED
      BY <1>2, <1>3, <2>1, <3>2 DEF HasAt
  <2> QED
    BY SMTT(60), <1>1, <1>4, <2>2, <2>3, <2>4
<1>8. ASSUME Len(h.entries) =< p + n, NEW o \in 1..Len(h.entries) PROVE h.entries[o].term = Under(e, o)
  <2> HIDE DEF F, G, n
  <2>1. CASE o =< p
    <3>1. o \in 1..p /\ Has(F, o) /\ o \in Nat
      BY SMTT(60), <1>1, <1>2, <1>3, <2>1
    <3> QED
      BY SMTT(60), <1>1, <1>2, <1>3, <1>6, <2>1, <3>1
  <2>2. CASE o > p
    BY SMTT(60), <1>1, <1>2, <1>3, <1>4, <1>5, <1>8, <2>2
  <2> QED
    BY SMTT(60), <1>1, <2>1, <2>2
<1> QED
  BY <1>7, <1>8

-----------------------------------------------------------------------------
(* What a majority has stored, later leaders have                          *)

\* Leaders have the votes of a majority.
Backers ==
    \A e \in elected :
        /\ Cardinality(e.votes) >= Cardinality(Server) \div 2 + 1
        /\ \A v \in e.votes : [voter |-> v, term |-> e.term, candidate |-> e.leader] \in granted

\* Every set of terms has a first one.
FirstTerms == \A S \in SUBSET Nat : S # {} => \E u \in S : \A w \in S : u =< w

Grounds == TypeOK /\ LogInv /\ Plain /\ Uncompacted /\ Backers /\ Counting /\ FirstTerms

LEMMA GroundFacts ==
  ASSUME Grounds
  PROVE  /\ \A j \in Server : node[j] \in NodeState /\ node[j].log \in Log /\ node[j].term \in Nat
                              /\ node[j].log.offset = 0 /\ node[j].log.snapTerm = 0
                              /\ Len(node[j].log.entries) \in Nat
                              /\ Grown(Whole(node[j].log), elected)
         /\ elected \subseteq Won
         /\ \A e \in elected : /\ e \in Won /\ e.log \in Log /\ e.term \in Nat /\ e.term > 0
                               /\ e.log.snapTerm = 0 /\ e.log.offset = 0 /\ Len(e.log.entries) \in Nat
                               /\ Grown(Whole(e.log), elected)
                               /\ \A o \in 1..Len(e.log.entries) : e.log.entries[o].term < e.term
         /\ \A e, f \in elected : e.term = f.term => e = f
<1>1. \A j \in Server : node[j] \in NodeState
  BY DEF Grounds, TypeOK
<1>2. \A j \in Server : /\ node[j].log \in Log /\ node[j].term \in Nat
                        /\ Len(node[j].log.entries) \in Nat
  BY <1>1, ServerFacts
<1>3. \A j \in Server : /\ node[j].log.offset = 0 /\ node[j].log.snapTerm = 0
                        /\ Grown(Whole(node[j].log), elected)
  BY DEF Grounds, Uncompacted, Plain, LogInv, PiecesSound, Pieces
<1>4. elected \subseteq Won
  BY DEF Grounds, TypeOK
<1>5. \A e \in elected : e \in Won /\ e.log \in Log /\ e.term \in Nat
  BY <1>4 DEF Won
<1>6. \A e \in elected : Len(e.log.entries) \in Nat
  BY <1>5, LogFacts
<1>7. \A e \in elected : /\ e.term > 0 /\ e.log.snapTerm = 0 /\ e.log.offset = 0
                         /\ Grown(Whole(e.log), elected)
                         /\ \A o \in 1..Len(e.log.entries) : e.log.entries[o].term < e.term
  BY DEF Grounds, Plain, LogInv, PiecesSound, ElectionsSound, Pieces
<1>8. \A e, f \in elected : e.term = f.term => e = f
  BY DEF Grounds, LogInv, ElectionsSound
<1> QED
  BY <1>1, <1>2, <1>3, <1>4, <1>5, <1>6, <1>7, <1>8

\* The entries of a log have terms of elections, and the last one has the highest.
LEMMA TermsOfLog ==
  ASSUME Grounds, NEW l \in Log, Grown(Whole(l), elected), NEW k \in 1..Len(l.entries)
  PROVE  /\ l.entries[k].term > 0 /\ l.entries[k].term \in Nat
         /\ l.entries[k].term =< l.entries[Len(l.entries)].term
         /\ \E e \in elected : /\ e.term = l.entries[Len(l.entries)].term
                               /\ Len(l.entries) > Len(e.log.entries)
                               /\ \A o \in 1..Len(l.entries) : l.entries[o].term = Under(e, o)
<1> DEFINE n == Len(l.entries)
<1>1. n \in Nat /\ n >= 1 /\ k \in 1..n
  BY SMTT(60), LogFacts
<1>2. Has(Whole(l), n) /\ Has(Whole(l), k) /\ At(Whole(l), n) = l.entries[n] /\ At(Whole(l), k) = l.entries[k]
  BY SMTT(60), <1>1, WholeFacts
<1>3. PICK e \in elected : Sits(Whole(l), n, e)
  BY <1>1, <1>2 DEF Grown
<1>4. PICK f \in elected : Sits(Whole(l), k, f)
  BY SMTT(60), <1>1, <1>2 DEF Grown
<1>5. \A o \in 1..n : o \in Nat /\ o # 0 /\ o =< n
  BY SMTT(60), <1>1
<1>6. \A o \in 1..n : Knows(Whole(l), o) /\ TermOf(Whole(l), o) = l.entries[o].term
  BY <1>5, WholeFacts
<1>7. \A o \in 1..n : l.entries[o].term = Under(e, o)
  BY <1>3, <1>6 DEF Sits
<1>8. e.term = l.entries[n].term /\ n > Len(e.log.entries) /\ f.term = l.entries[k].term
  BY <1>2, <1>3, <1>4 DEF Sits
<1>9. Under(e, k) =< e.term
  <2>1. CASE k =< Len(e.log.entries)
    <3>1. k \in 1..Len(e.log.entries) /\ e.log \in Log /\ e.term \in Nat
      BY SMTT(60), <1>1, <2>1, GroundFacts
    <3>2. e.log.entries[k].term < e.term /\ e.log.entries[k].term \in Nat
      BY <3>1, GroundFacts, EntryFacts
    <3> QED
      BY SMTT(60), <2>1, <3>1, <3>2 DEF Under
  <2> QED
    BY SMTT(60), <2>1, GroundFacts DEF Under
<1>10. f.term > 0 /\ f.term \in Nat
  BY GroundFacts
<1> QED
  BY <1>1, <1>7, <1>8, <1>9, <1>10

LEMMA HasAhead ==
  ASSUME Grounds, NEW l \in Log, l.offset = 0, Grown(Whole(l), elected),
         NEW k \in Nat, NEW t \in Nat, HasAt(l, k, t)
  PROVE  Ahead(l, k, t)
<1>1. k \in 1..Len(l.entries) /\ Len(l.entries) \in Nat /\ l.entries # <<>>
  BY SMTT(60), LogFacts DEF HasAt
<1>2. t =< l.entries[Len(l.entries)].term /\ l.entries[Len(l.entries)].term \in Nat
  BY SMTT(60), <1>1, TermsOfLog, EntryFacts DEF HasAt
<1> QED
  BY SMTT(60), <1>1, <1>2 DEF Ahead, LastTerm, LastIndex

\* The bad elections of a chosen entry, by term: there is no first one.
LEMMA ChosenKept ==
  ASSUME Grounds, NEW e \in elected, NEW k \in Nat, Chosen(k, e)
  PROVE  \A f \in elected : f.term > e.term => HasAt(f.log, k, e.term)
<1> DEFINE t == e.term
           Miss == {f.term : f \in {g \in elected : g.term > t /\ ~HasAt(g.log, k, t)}}
<1> SUFFICES ASSUME Miss # {} PROVE FALSE
  OBVIOUS
<1>1. Miss \subseteq Nat
  BY GroundFacts
<1>2. PICK u \in Miss : \A w \in Miss : u =< w
  <2> HIDE DEF Miss
  <2> QED
    BY <1>1 DEF Grounds, FirstTerms
<1>3. PICK f \in elected : f.term = u /\ f.term > t /\ ~HasAt(f.log, k, t)
  BY <1>2
<1>4. PICK Q \in SUBSET Server : Cardinality(Q) >= Cardinality(Server) \div 2 + 1
                                 /\ \A v \in Q : Stored(v, k, t)
  BY DEF Chosen
<1>5. f.votes \in SUBSET Server /\ e.term \in Nat /\ f.term \in Nat /\ t > 0
  BY GroundFacts DEF Won
<1>6. PICK v \in Q : v \in f.votes
  BY <1>4, <1>5 DEF Grounds, Counting, Backers
<1>7. ~Missed(elected, k, t, f.term - 1)
  <2> SUFFICES ASSUME NEW g \in elected, t < g.term, g.term =< f.term - 1, ~HasAt(g.log, k, t) PROVE FALSE
    BY DEF Missed
  <2>1. g.term \in Miss /\ g.term \in Nat
    BY GroundFacts
  <2> HIDE DEF Miss
  <2> QED
    BY SMTT(60), <1>2, <1>3, <1>5, <2>1
<1>8. Ahead(f.log, k, t)
  BY <1>3, <1>4, <1>6, <1>7 DEF Stored
<1> DEFINE l == f.log
           n == Len(l.entries)
<1>9. l \in Log /\ Grown(Whole(l), elected) /\ l.snapTerm = 0 /\ l.offset = 0 /\ n \in Nat
  BY GroundFacts
<1>10. l.entries # <<>>
  BY SMTT(60), <1>5, <1>8, <1>9 DEF Ahead, LastTerm
<1>11. n >= 1 /\ n \in 1..n
  BY SMTT(60), <1>9, <1>10, EmptySeq, LogFacts
<1>12. PICK g \in elected : /\ g.term = l.entries[n].term /\ n > Len(g.log.entries)
                            /\ \A o \in 1..n : l.entries[o].term = Under(g, o)
  BY <1>9, <1>11, TermsOfLog, Zenon
<1>13. g.term < f.term /\ g.term \in Nat
  BY <1>11, <1>12, GroundFacts, Zenon
<1>14. k > Len(e.log.entries) /\ Len(e.log.entries) \in Nat /\ Len(g.log.entries) \in Nat
  BY GroundFacts DEF Chosen
<1>15. CASE g.term = t
  <2>1. g = e
    BY <1>15, GroundFacts
  <2>2. LastIndex(l) >= k
    BY SMTT(60), <1>5, <1>8, <1>10, <1>12, <1>13, <1>15 DEF Ahead, LastTerm
  <2>3. k \in 1..n
    BY SMTT(60), <1>9, <1>14, <2>2 DEF LastIndex
  <2> QED
    BY SMTT(60), <1>3, <1>12, <1>14, <2>1, <2>3 DEF HasAt, Under
<1>16. CASE g.term > t
  <2>1. HasAt(g.log, k, t)
    <3>1. g.term \notin Miss
      BY SMTT(60), <1>2, <1>3, <1>5, <1>13
    <3> QED
      BY <1>16, <3>1
  <2>2. k \in 1..n /\ k =< Len(g.log.entries)
    BY SMTT(60), <1>9, <1>12, <1>14, <2>1 DEF HasAt
  <2> QED
    BY SMTT(60), <1>3, <1>12, <2>1, <2>2 DEF HasAt, Under
<1>17. g.term >= t
  BY SMTT(60), <1>5, <1>8, <1>10, <1>12, <1>13 DEF Ahead, LastTerm
<1> QED
  BY SMTT(60), <1>5, <1>13, <1>15, <1>16, <1>17

\* Up to a chosen entry, later leaders have the log of the one that wrote it.
LEMMA UnderChosen ==
  ASSUME Grounds, NEW e \in elected, NEW f \in elected, e.term =< f.term, NEW k \in Nat, Chosen(k, e)
  PROVE  \A o \in 1..k : Under(f, o) = Under(e, o)
<1>1. e.term \in Nat /\ f.term \in Nat /\ f.log \in Log /\ Len(f.log.entries) \in Nat
      /\ Len(e.log.entries) \in Nat /\ k > Len(e.log.entries)
  BY GroundFacts DEF Chosen
<1>2. CASE e.term = f.term
  BY <1>2, GroundFacts
<1>3. CASE e.term < f.term
  <2>1. HasAt(f.log, k, e.term)
    BY <1>1, <1>3, ChosenKept
  <2>2. Has(Whole(f.log), k) /\ f.log.entries[k].term = Under(e, k) /\ k =< Len(f.log.entries)
    BY SMTT(60), <1>1, <2>1, WholeFacts DEF Under, HasAt
  <2>3. \A o \in 1..k : f.log.entries[o].term = Under(e, o)
    BY SMTT(60), <1>1, <2>2, GroundFacts, UnderMatch
  <2> QED
    BY SMTT(60), <1>1, <2>2, <2>3 DEF Under
<1> QED
  BY SMTT(60), <1>1, <1>2, <1>3
=============================================================================
