------------------------------ MODULE MCServer ------------------------------
(* The parts of the server that have a module of their own, side by side,    *)
(* for TLC. The parts do not interact in this module: the initial state      *)
(* picks one, and every step is one of its steps. What interacts is composed *)
(* in ChatServer, Failover and RaftNode.                                     *)
EXTENDS Integers, Sequences, TLC

CONSTANTS
    Nil, x, y, p, q, chan1, mask1, j1, j2

VARIABLES
    part,  \* the part of the system that a behaviour is about
    before, log, prev, es, k,
    file, tmp, todo, acknowledged, fails,
    machine, sessions, rooms, strayed, committed,
    keys, persists, saved, lock, leads, crashes, counter, peerMap, join, server,
    state, made, unsaved, admitted, panicked,
    published, unread, lastKnown, degraded, told, observed,
    online, step, queues, total, sent, out,
    nick, buffered, arrived, received,
    bundles, chunks, upload, fetched,
    pattern, text,
    modes, away, halted, proved, replies

\* Hosts and operators: one operator may come from hosts "a...", one from "...b".
Hosts == [u1 |-> <<"a", "b">>, u2 |-> <<"b", "a">>]
Opers == <<[name |-> "n1", password |-> "p1", host_mask |-> <<"a", "*">>],
           [name |-> "n2", password |-> "p2", host_mask |-> <<"*", "b">>]>>

\* Users who are in no group, and nodes that join, are interchangeable.
Symmetry == Permutations({p, q}) \cup Permutations({j1, j2})

\* the loop that merges the entries of an AppendEntries into the log
Loop == INSTANCE AppendLoop WITH
    Terms <- {1, 2}, Commands <- {x}, MaxEntries <- 3, MaxOffset <- 2

\* what a node keeps on disk, with crashes in the middle of a save
Storage == INSTANCE FileStorage WITH
    MaxTerm <- 2, MaxIndex <- 3, MaxStorageCrashes <- 2, saved <- acknowledged

\* the replicated state machine and the registries of a node that follows it
Replica == INSTANCE Replica WITH
    Nick <- {x, y}, Chan <- {chan1}, Mask <- {mask1}, Self <- "self", Other <- "other",
    MaxCommitted <- 5

\* invite keys, admission of nodes, and what both sides remember
Join == INSTANCE ClusterJoin WITH
    Key <- {x}, Joiner <- {j1, j2}, LeaderId <- 1, MaxIds <- 2, MaxCrashes <- 1

\* the monitor that tells the clients that there is no leader
Degraded == INSTANCE DegradedMode WITH
    Leaders <- {x, y}, prev <- lastKnown

\* encrypted and group messages for users who may be away, messages buffered for
\* users who are being migrated, and pre-key bundles, uploaded in chunks
Mail == INSTANCE Mailbox WITH
    User <- {x, p, q}, Relayed <- {"KEYEXCHANGE", "ENCRYPTED"}, Grouped <- {x},
    MaxMessagesPerUser <- 2, MaxTotalBytes <- 3, MaxSent <- 3,
    Person <- {x, y}, Nickname <- {"a", "b", "c"}, MaxPerUser <- 2, MaxEnqueued <- 4,
    Owner <- {x, y}, Totals <- {1, 2, 3}, MaxUploads <- 3

\* OPER, user modes, AWAY and the commands of operators; matching of ban masks and
\* host masks
Accounts == INSTANCE Accounts WITH
    User <- {"u1", "u2"}, Nil <- "nil", Host <- Hosts, Operators <- Opers,
    MaxModeString <- 2, Letters <- {"a", "b"}, TextChars <- {"a", "b"}, MaxLength <- 4

-----------------------------------------------------------------------------
appendVars == <<before, log, prev, es, k>>
storageVars == <<file, tmp, todo, acknowledged, fails>>
replicaVars == <<machine, sessions, rooms, strayed, committed>>
joinVars == <<keys, persists, saved, lock, leads, crashes, counter, peerMap, join,
              server, state, made, unsaved, admitted, panicked>>
degradedVars == <<published, unread, lastKnown, degraded, told, observed>>
mailVars == <<online, step, queues, total, sent, out>>
queueVars == <<nick, buffered, arrived, received>>
prekeysVars == <<bundles, chunks, upload, fetched>>
globsVars == <<pattern, text>>
accountsVars == <<modes, away, halted, proved, replies>>

\* The variables of the other parts are without a value.
Init ==
    /\ part \in {"append", "storage", "replica", "join", "degraded", "mail",
                  "queue", "prekeys", "globs", "accounts"}
    /\ IF part = "append" THEN Loop!Init
       ELSE before = Nil /\ log = Nil /\ prev = Nil /\ es = Nil /\ k = Nil
    /\ IF part = "storage" THEN Storage!Init
       ELSE file = Nil /\ tmp = Nil /\ todo = Nil /\ acknowledged = Nil /\
            fails = Nil
    /\ IF part = "replica" THEN Replica!Init
       ELSE machine = Nil /\ sessions = Nil /\ rooms = Nil /\ strayed = Nil /\
            committed = Nil
    /\ IF part = "join" THEN Join!InitBootstrap
       ELSE keys = Nil /\ persists = Nil /\ saved = Nil /\ lock = Nil /\
            leads = Nil /\ crashes = Nil /\ counter = Nil /\ peerMap = Nil /\
            join = Nil /\ server = Nil /\ state = Nil /\ made = Nil /\
            unsaved = Nil /\ admitted = Nil /\ panicked = Nil
    /\ IF part = "degraded" THEN Degraded!Init
       ELSE published = Nil /\ unread = Nil /\ lastKnown = Nil /\ degraded = Nil /\
            told = Nil /\ observed = Nil
    /\ IF part = "mail" THEN Mail!Init
       ELSE online = Nil /\ step = Nil /\ queues = Nil /\ total = Nil /\
            sent = Nil /\ out = Nil
    /\ IF part = "queue" THEN Mail!QueueInit
       ELSE nick = Nil /\ buffered = Nil /\ arrived = Nil /\ received = Nil
    /\ IF part = "prekeys" THEN Mail!PreKeysInit
       ELSE bundles = Nil /\ chunks = Nil /\ upload = Nil /\ fetched = Nil
    /\ IF part = "globs" THEN Accounts!MaskInit
       ELSE pattern = Nil /\ text = Nil
    /\ IF part = "accounts" THEN Accounts!Init
       ELSE modes = Nil /\ away = Nil /\ halted = Nil /\ proved = Nil /\
            replies = Nil

Others ==
    /\ UNCHANGED part
    /\ IF part = "append" THEN TRUE ELSE UNCHANGED appendVars
    /\ IF part = "storage" THEN TRUE ELSE UNCHANGED storageVars
    /\ IF part = "replica" THEN TRUE ELSE UNCHANGED replicaVars
    /\ IF part = "join" THEN TRUE ELSE UNCHANGED joinVars
    /\ IF part = "degraded" THEN TRUE ELSE UNCHANGED degradedVars
    /\ IF part = "mail" THEN TRUE ELSE UNCHANGED mailVars
    /\ IF part = "queue" THEN TRUE ELSE UNCHANGED queueVars
    /\ IF part = "prekeys" THEN TRUE ELSE UNCHANGED prekeysVars
    /\ IF part = "globs" THEN TRUE ELSE UNCHANGED globsVars
    /\ IF part = "accounts" THEN TRUE ELSE UNCHANGED accountsVars

Next ==
    \/ part = "append" /\ Loop!Iterate /\ Others
    \/ part = "storage" /\ Storage!Next /\ Others
    \/ part = "replica" /\ Replica!Next /\ Others
    \/ part = "join" /\ Join!Next /\ Others
    \/ part = "degraded" /\ Degraded!Next /\ Others
    \/ part = "mail" /\ Mail!Next /\ Others
    \/ part = "queue" /\ Mail!QueueNext /\ Others
    \/ part = "prekeys" /\ Mail!PreKeysNext /\ Others
    \/ part = "globs" /\ Accounts!Pick /\ Others
    \/ part = "accounts" /\ Accounts!Next /\ Others

vars == <<part, appendVars, storageVars, replicaVars, joinVars, degradedVars, mailVars,
          queueVars, prekeysVars, globsVars, accountsVars>>

Spec == Init /\ [][Next]_vars
-----------------------------------------------------------------------------
\* Every variable has its type, in every part.
TypeOK ==
    /\ part = "storage"  => Storage!TypeOK
    /\ part = "replica"  => Replica!TypeOK
    /\ part = "join"     => Join!TypeOK
    /\ part = "mail"     => Mail!TypeOK
    /\ part = "queue"    => Mail!QueueTypeOK
    /\ part = "prekeys"  => Mail!PreKeysTypeOK
    /\ part = "accounts" => Accounts!TypeOK




\* The mode the clients were told of is the one the last value read calls for,
\* and a node that never knew a leader reports no loss (spawn_degraded_mode_monitor).
DegradedFollows == part = "degraded" => Degraded!DegradedExact


=============================================================================
