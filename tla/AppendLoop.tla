----------------------------- MODULE AppendLoop -----------------------------
(***************************************************************************)
(* The loop of RaftLog::append_entries, one entry at a time, against the   *)
(* closed form Merge that RaftNode uses.                                   *)
(***************************************************************************)
EXTENDS RaftLog

CONSTANTS
    Terms,      \* terms of entries
    Commands,   \* their commands
    MaxEntries, \* bounds: entries held by a log or sent in one request,
    MaxOffset   \*   compaction point

VARIABLES
    before,  \* the log append_entries was called on
    log,     \* the log now
    prev,    \* prev_log_index
    es,      \* the entries of the request
    k        \* the entry the loop is at

vars == <<before, log, prev, es, k>>

Batch == UNION {[1..n -> [term : Terms, command : Commands]] : n \in 0..MaxEntries}

\* A call whose prev_log check passed.
Init ==
    /\ before \in [entries : Batch, offset : 0..MaxOffset, snapTerm : Terms]
    /\ before.offset = 0 => before.snapTerm = CHOOSE t \in Terms : TRUE
    /\ log = before
    /\ prev \in 0 .. MaxOffset + MaxEntries
    /\ \E t \in Terms : Matches(before, prev, t)
    /\ es \in Batch
    /\ k = 1


\* Entry i of the log and what follows it give way to e.
Put(l, i, e) == [l EXCEPT !.entries = Append(SubSeq(@, 1, i - 1), e)]

\* One iteration of the loop: an entry at or below the offset is skipped, one
\* the log agrees with too; a conflicting one replaces the rest of the log.
Iterate ==
    LET i == prev + k - log.offset
    IN  /\ k =< Len(es)
        /\ k' = k + 1
        /\ log' = IF i =< 0 \/ (i =< Len(log.entries) /\ log.entries[i].term = es[k].term)
                    THEN log
                  ELSE IF i =< Len(log.entries) THEN Put(log, i, es[k])
                  ELSE Append1(log, es[k])
        /\ UNCHANGED <<before, prev, es>>

Spec == Init /\ [][Iterate]_vars

-----------------------------------------------------------------------------
\* When the loop is through the entries it has looked at, the log is the closed
\* form applied to them: in particular nothing that agrees is ever truncated,
\* and nothing that conflicts survives.
LoopIsMerge == log = Merge(before, prev, SubSeq(es, 1, k - 1))
=============================================================================
