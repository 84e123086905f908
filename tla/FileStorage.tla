----------------------------- MODULE FileStorage -----------------------------
(***************************************************************************)
(* The files of a node (raft/file_storage.rs), under crashes of its        *)
(* process: five files, each replaced by writing a temporary file and      *)
(* renaming it.  The node calls one operation at a time; one that the      *)
(* crash cuts off was not acknowledged, and the next start reads what is   *)
(* there.  A machine that loses its power is left out: the directory is    *)
(* not synced, so that a rename could be lost with it.                     *)
(*                                                                         *)
(* The snapshot of index i holds the data i; the log holds its indexes.    *)
(***************************************************************************)
EXTENDS Integers, Sequences, FiniteSets

CONSTANTS Nil,
          MaxTerm, MaxIndex, \* bounds
          MaxStorageCrashes  \* bound

File == {"term", "voted_for", "log", "snapshot", "meta"}

VARIABLES file,    \* contents of each file, Nil when it does not exist or not parse
          tmp,     \* the temporary file of each, Nil or [data, whole]
          todo,    \* the writes that the operation under way has left, <<file, data>>
          saved,   \* history: what the acknowledged operations wrote
          fails    \* history: crashes

storageVars == <<file, tmp, todo, saved, fails>>

\* load_term, load_voted_for and load_log: a file that is missing is the default.
LoadTerm == IF file["term"] = Nil THEN 0 ELSE file["term"]
LoadLog == IF file["log"] = Nil THEN <<>> ELSE file["log"]

\* The meta file is read first; a snapshot needs both.
LoadSnapshot == IF file["meta"] = Nil \/ file["snapshot"] = Nil THEN Nil
                ELSE [data |-> file["snapshot"], index |-> file["meta"]]

-----------------------------------------------------------------------------
Idle == todo = <<>>

Begin(writes) == Idle /\ todo' = writes /\ UNCHANGED <<file, tmp, saved, fails>>

SaveTerm == LoadTerm < MaxTerm /\ Begin(<<<<"term", LoadTerm + 1>>>>)

SaveVotedFor == \E v \in 1..2 : Begin(<<<<"voted_for", v>>>>)

\* The log is read, extended and written whole.
AppendEntries ==
  LET next == IF LoadLog = <<>> THEN 1 ELSE LoadLog[Len(LoadLog)] + 1
  IN next <= MaxIndex /\ Begin(<<<<"log", Append(LoadLog, next)>>>>)

\* Keeps index - 1 entries of the file, whatever index the first one has.
TruncateLogFrom ==
  \E index \in 1..Len(LoadLog) : Begin(<<<<"log", SubSeq(LoadLog, 1, index - 1)>>>>)

FaultSnapshotWrites(i) == <<<<"meta", i>>, <<"snapshot", i>>>>
SnapshotWrites(i) == <<<<"snapshot", i>>, <<"meta", i>>>>

SaveSnapshot ==
  \E i \in 1..MaxIndex : /\ IF file["meta"] = Nil THEN TRUE ELSE i > file["meta"]
                         /\ Begin(SnapshotWrites(i))

\* atomic_write: create the temporary file, fill it and sync it, rename it.
CreateTmp ==
  /\ ~Idle /\ tmp[todo[1][1]] = Nil
  /\ tmp' = [tmp EXCEPT ![todo[1][1]] = [data |-> todo[1][2], whole |-> FALSE]]
  /\ UNCHANGED <<file, todo, saved, fails>>

FillTmp ==
  /\ ~Idle /\ tmp[todo[1][1]] # Nil /\ ~tmp[todo[1][1]].whole
  /\ tmp' = [tmp EXCEPT ![todo[1][1]].whole = TRUE]
  /\ UNCHANGED <<file, todo, saved, fails>>

FaultRenames(t) == TRUE
Renames(t) == t.whole

Rename ==
  LET f == todo[1][1] IN
  /\ ~Idle /\ tmp[f] # Nil /\ Renames(tmp[f])
  /\ file' = [file EXCEPT ![f] = IF tmp[f].whole THEN tmp[f].data ELSE Nil]
  /\ tmp' = [tmp EXCEPT ![f] = Nil]
  /\ todo' = Tail(todo)
  /\ saved' = [saved EXCEPT ![f] = todo[1][2]]
  /\ UNCHANGED fails

\* A temporary file that is left behind is written over by the next one.
Crash ==
  /\ ~Idle /\ fails < MaxStorageCrashes
  /\ fails' = fails + 1
  /\ todo' = <<>>
  /\ tmp' = [f \in File |-> Nil]
  /\ UNCHANGED <<file, saved>>

Init ==
  /\ file = [f \in File |-> Nil]
  /\ tmp = [f \in File |-> Nil]
  /\ todo = <<>>
  /\ saved = [f \in File |-> Nil]
  /\ fails = 0

Next ==
  \/ SaveTerm \/ SaveVotedFor \/ AppendEntries \/ TruncateLogFrom \/ SaveSnapshot
  \/ CreateTmp \/ FillTmp \/ Rename \/ Crash

TypeOK ==
  /\ DOMAIN file = File /\ DOMAIN tmp = File
  /\ \A i \in DOMAIN todo : todo[i][1] \in File

\* What an operation acknowledged is what a start reads, wherever later
\* operations were cut off: no file is ever seen half-written.
SavedSurvives == file = saved

\* The two files of a snapshot are replaced one after the other, and a crash can
\* part them; what is loaded then is at least as new as its index says, so that a
\* node never takes entries for applied that its data does not hold.
SnapshotNotOlder == LoadSnapshot # Nil => LoadSnapshot.data >= LoadSnapshot.index
=============================================================================
