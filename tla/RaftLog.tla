------------------------------- MODULE RaftLog -------------------------------
(***************************************************************************)
(* The in-memory replicated log of pirc-server (raft/log.rs).              *)
(*                                                                         *)
(* A log is the entries after a compaction point, the index of that point  *)
(* (offset) and the term of the entry there (snapTerm).  Entry k of the    *)
(* sequence has index offset + k: RaftNode numbers entries consecutively   *)
(* and append_entries never leaves a gap, so the index stored in an entry  *)
(* is its position.  Index 0 means "before the first entry".               *)
(***************************************************************************)
EXTENDS Integers, Sequences

Larger(a, b)  == IF a > b THEN a ELSE b
Smaller(a, b) == IF a < b THEN a ELSE b

\* term_at returning None.
NoTerm == -1

EmptyLog == [entries |-> <<>>, offset |-> 0, snapTerm |-> 0]

LastIndex(l) == l.offset + Len(l.entries)

LastTerm(l) == IF l.entries = <<>> THEN l.snapTerm ELSE l.entries[Len(l.entries)].term

\* The index names an entry the log still holds (to_internal, get).
Holds(l, k) == l.offset < k /\ k =< LastIndex(l)

TermAt(l, k) ==
    IF k = l.offset /\ l.offset > 0 THEN l.snapTerm
    ELSE IF Holds(l, k) THEN l.entries[k - l.offset].term
    ELSE NoTerm

\* Fault: the length of the log is not compared.
FaultUpToDate(m, l) == m.lastTerm >= LastTerm(l)

\* is_log_up_to_date
UpToDate(m, l) ==
    \/ m.lastTerm > LastTerm(l)
    \/ m.lastTerm = LastTerm(l) /\ m.lastIndex >= LastIndex(l)

EntriesFrom(l, k) ==
    IF Holds(l, k) THEN SubSeq(l.entries, k - l.offset, Len(l.entries)) ELSE <<>>

Append1(l, e) == [l EXCEPT !.entries = Append(@, e)]

-----------------------------------------------------------------------------
(* append_entries: the consistency check, then the merge.                  *)

\* Fault: an entry at prev_log_index is enough, whatever its term.
FaultMatches(l, prev, prevTerm) == prev = 0 \/ TermAt(l, prev) # NoTerm

\* The prev_log check: index 0 always matches.
Matches(l, prev, prevTerm) == prev = 0 \/ TermAt(l, prev) = prevTerm

\* Offsets into es of the entries that contradict an entry the log holds.
Conflicts(l, prev, es) ==
    {k \in 1..Len(es) : Holds(l, prev + k) /\ TermAt(l, prev + k) # es[k].term}

\* What comes before every conflict stays.
Kept(l, prev, es, k) == k =< LastIndex(l) /\ \A c \in Conflicts(l, prev, es) : k < prev + c

\* The last index afterwards: a conflict cuts off all that follows the new entries.
MergedLast(l, prev, es) ==
    IF Conflicts(l, prev, es) = {} THEN Larger(LastIndex(l), prev + Len(es)) ELSE prev + Len(es)

\* The loop of append_entries, in closed form: entries at or below the offset
\* and entries that agree are skipped; from the first conflict, or past the end
\* of the log, the new entries replace what is there.  (AppendLoop has the loop.)
Merge(l, prev, es) ==
    [l EXCEPT !.entries =
        [x \in 1 .. MergedLast(l, prev, es) - l.offset |->
            IF Kept(l, prev, es, l.offset + x) THEN l.entries[x] ELSE es[l.offset + x - prev]]]

-----------------------------------------------------------------------------
(* Compaction.                                                             *)

CompactTo(l, k) ==
    IF Holds(l, k)
      THEN [entries  |-> SubSeq(l.entries, k - l.offset + 1, Len(l.entries)),
            offset   |-> k,
            snapTerm |-> TermAt(l, k)]
      ELSE l

ResetToSnapshot(k, t) == [entries |-> <<>>, offset |-> k, snapTerm |-> t]
=============================================================================
