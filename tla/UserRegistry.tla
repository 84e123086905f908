---------------------------- MODULE UserRegistry ----------------------------
(***************************************************************************)
(* The nickname registry of pirc-server (registry.rs) and the connection   *)
(* tasks that call it (main.rs, handler.rs, handler_oper.rs).              *)
(*                                                                         *)
(* The registry is three independently synchronised pieces: two DashMaps   *)
(* (nickname -> session, connection -> nickname) and an atomic counter.    *)
(* Each operation touches them one after the other, so every touch is a    *)
(* step of its own here and the tasks interleave between touches.          *)
(*                                                                         *)
(* A session is named by its connection id: ids are unique and never       *)
(* reused, and a task creates at most one session.  Nicknames that differ  *)
(* only in case are one element of Nick, as in Nickname's Eq and Hash.     *)
(***************************************************************************)
EXTENDS Integers, FiniteSets

CONSTANTS
    Conn,            \* connections the accept loop may hand out
    Nick,            \* nicknames
    NoConn,          \* "vacant" in byNick
    NoNick,          \* "absent" in byConn, sessNick and the task locals
    Wants,           \* Wants[c]: the nicknames connection c may register with
    Renames,         \* Renames[c]: the nicknames it may change to later
    Opers,           \* connections that are IRC operators and may KILL
    MaxConnections,  \* config.network.max_connections
    MaxUsize         \* usize::MAX, where connection_count wraps around

ASSUME RegistryAssumptions ==
    /\ IsFiniteSet(Conn) /\ IsFiniteSet(Nick)
    /\ NoConn \notin Conn
    /\ NoNick \notin Nick
    /\ Wants \in [Conn -> SUBSET Nick]
    /\ Renames \in [Conn -> SUBSET Nick]
    /\ Opers \subseteq Conn
    /\ MaxConnections \in Nat
    /\ MaxUsize \in Nat /\ 2 * Cardinality(Conn) < MaxUsize /\ 2 * MaxConnections =< MaxUsize

VARIABLES
    byNick,     \* by_nick: the session registered under each nickname
    byConn,     \* by_connection: the nickname recorded for each connection
    count,      \* connection_count
    sessNick,   \* session.nickname of each session
    phase,      \* the connection: "new", "open" (accepted), "closed"
    registered, \* PreRegistrationState.registered of each connection task
    at,         \* where each connection task is inside a registry operation
    want,       \* state.nick before registration, new_nick of a nick change
    old,        \* the nickname an operation read before it acts on it
    held,       \* the session an operation holds an Arc of
    late        \* history: sessions whose nickname a change of casing overwrote
                \* after another task had renamed them

tasks == <<phase, registered, at, want, old, held>>
vars  == <<byNick, byConn, count, sessNick, late, tasks>>

Places == {"idle", "reg_conn", "reg_count", "chg_read", "chg_check", "chg_case", "chg_remove",
           "chg_set", "chg_insert", "rm_conn", "rm_nick", "rm_count"}

TypeOK ==
    /\ byNick \in [Nick -> Conn \cup {NoConn}]
    /\ byConn \in [Conn -> Nick \cup {NoNick}]
    /\ count \in 0..MaxUsize
    /\ late \subseteq Conn
    /\ sessNick \in [Conn -> Nick \cup {NoNick}]
    /\ phase \in [Conn -> {"new", "open", "closed"}]
    /\ registered \in [Conn -> BOOLEAN]
    /\ at \in [Conn -> Places]
    /\ want \in [Conn -> Nick \cup {NoNick}]
    /\ old \in [Conn -> Nick \cup {NoNick}]
    /\ held \in [Conn -> Conn \cup {NoConn}]

Init ==
    /\ byNick = [n \in Nick |-> NoConn]
    /\ byConn = [c \in Conn |-> NoNick]
    /\ count = 0
    /\ sessNick = [c \in Conn |-> NoNick]
    /\ phase = [c \in Conn |-> "new"]
    /\ registered = [c \in Conn |-> FALSE]
    /\ at = [c \in Conn |-> "idle"]
    /\ want = [c \in Conn |-> NoNick]
    /\ old = [c \in Conn |-> NoNick]
    /\ held = [c \in Conn |-> NoConn]
    /\ late = {}

\* Fault: one connection more than the limit.
FaultAccept(c) ==
    /\ phase[c] = "new"
    /\ count =< MaxConnections
    /\ phase' = [phase EXCEPT ![c] = "open"]
    /\ UNCHANGED <<byNick, byConn, count, sessNick, registered, at, want, old, held, late>>

\* The accept loop: a connection is dropped, never handed to a task, when the
\* number of *registered* users has reached the limit.
Accept(c) ==
    /\ phase[c] = "new"
    /\ count < MaxConnections
    /\ phase' = [phase EXCEPT ![c] = "open"]
    /\ UNCHANGED <<byNick, byConn, count, sessNick, registered, at, want, old, held, late>>

Idle(c) == phase[c] = "open" /\ at[c] = "idle"

-----------------------------------------------------------------------------
(* Registration: NICK, then complete_registration -> register.             *)

\* handle_nick before registration: the nickname is remembered if it is free now.
\* (USER, the other half, only decides when RegisterEntry follows.)
HandleNick(c, n) ==
    /\ Idle(c) /\ ~registered[c]
    /\ byNick[n] = NoConn
    /\ want' = [want EXCEPT ![c] = n]
    /\ UNCHANGED <<byNick, byConn, count, sessNick, phase, registered, at, old, held, late>>

\* Fault: the earlier check of handle_nick is trusted and the entry replaced.
RegisterEntryUnchecked(c) ==
    /\ Idle(c) /\ ~registered[c]
    /\ want[c] # NoNick
    /\ byNick' = [byNick EXCEPT ![want[c]] = c]
    /\ sessNick' = [sessNick EXCEPT ![c] = want[c]]
    /\ at' = [at EXCEPT ![c] = "reg_conn"]
    /\ UNCHANGED <<byConn, count, phase, registered, want, old, held, late>>

\* register, by_nick.entry: the check and the insert are one step.
RegisterEntry(c) ==
    /\ Idle(c) /\ ~registered[c]
    /\ want[c] # NoNick
    /\ IF byNick[want[c]] # NoConn
         THEN /\ want' = [want EXCEPT ![c] = NoNick]
              /\ UNCHANGED <<byNick, sessNick, at>>
         ELSE /\ byNick' = [byNick EXCEPT ![want[c]] = c]
              /\ sessNick' = [sessNick EXCEPT ![c] = want[c]]
              /\ at' = [at EXCEPT ![c] = "reg_conn"]
              /\ UNCHANGED want
    /\ UNCHANGED <<byConn, count, phase, registered, old, held, late>>

\* register, by_connection.insert.
RegisterConn(c) ==
    /\ at[c] = "reg_conn"
    /\ byConn' = [byConn EXCEPT ![c] = want[c]]
    /\ at' = [at EXCEPT ![c] = "reg_count"]
    /\ UNCHANGED <<byNick, count, sessNick, phase, registered, want, old, held, late>>

\* register, connection_count.fetch_add; complete_registration marks the task.
RegisterCount(c) ==
    /\ at[c] = "reg_count"
    /\ count' = IF count = MaxUsize THEN 0 ELSE count + 1
    /\ registered' = [registered EXCEPT ![c] = TRUE]
    /\ at' = [at EXCEPT ![c] = "idle"]
    /\ UNCHANGED <<byNick, byConn, sessNick, phase, want, old, held, late>>

-----------------------------------------------------------------------------
(* NICK from a registered user: handle_nick_change -> change_nick.         *)

\* get_by_connection: the session found under the nickname recorded for c.
\* by_connection's shard stays locked while by_nick is read: one step.
SessionOf(c) == IF byConn[c] = NoNick THEN NoConn ELSE byNick[byConn[c]]

\* handle_nick_change: look the session up; nothing happens if there is none.
ChangeLookup(c, n) ==
    /\ Idle(c) /\ registered[c]
    /\ SessionOf(c) # NoConn
    /\ held' = [held EXCEPT ![c] = SessionOf(c)]
    /\ want' = [want EXCEPT ![c] = n]
    /\ at' = [at EXCEPT ![c] = "chg_read"]
    /\ UNCHANGED <<byNick, byConn, count, sessNick, phase, registered, old, late>>

\* handle_nick_change: read session.nickname under the session's lock.
ChangeRead(c) ==
    /\ at[c] = "chg_read"
    /\ old' = [old EXCEPT ![c] = sessNick[held[c]]]
    /\ held' = [held EXCEPT ![c] = NoConn]
    /\ at' = [at EXCEPT ![c] = "chg_check"]
    /\ UNCHANGED <<byNick, byConn, count, sessNick, phase, registered, want, late>>

\* change_nick: the same nickname in another casing is looked up with get_by_nick,
\* another one with contains_key.  No session, or a nickname in use, is the end.
ChangeCheck(c) ==
    /\ at[c] = "chg_check"
    /\ LET found == byNick[want[c]] IN
       IF old[c] = want[c]
         THEN /\ held' = [held EXCEPT ![c] = found]
              /\ at' = [at EXCEPT ![c] = IF found = NoConn THEN "idle" ELSE "chg_case"]
         ELSE /\ at' = [at EXCEPT ![c] = IF found = NoConn THEN "chg_remove" ELSE "idle"]
              /\ UNCHANGED held
    /\ UNCHANGED <<byNick, byConn, count, sessNick, phase, registered, want, old, late>>

\* change_nick, the other casing: session.nickname is written, whichever nickname
\* the session found has by now.
ChangeCase(c) ==
    /\ at[c] = "chg_case"
    /\ sessNick' = [sessNick EXCEPT ![held[c]] = want[c]]
    /\ late' = IF sessNick[held[c]] = want[c] THEN late ELSE late \cup {held[c]}
    /\ held' = [held EXCEPT ![c] = NoConn]
    /\ at' = [at EXCEPT ![c] = "idle"]
    /\ UNCHANGED <<byNick, byConn, count, phase, registered, want, old>>

\* change_nick, by_nick.remove(old); NotFound ends the operation.
ChangeRemove(c) ==
    /\ at[c] = "chg_remove"
    /\ held' = [held EXCEPT ![c] = byNick[old[c]]]
    /\ byNick' = [byNick EXCEPT ![old[c]] = NoConn]
    /\ at' = [at EXCEPT ![c] = IF byNick[old[c]] = NoConn THEN "idle" ELSE "chg_set"]
    /\ UNCHANGED <<byConn, count, sessNick, phase, registered, want, old, late>>

\* Fault: the reverse entry is not updated.
ChangeSetNickOnly(c) ==
    /\ at[c] = "chg_set"
    /\ sessNick' = [sessNick EXCEPT ![held[c]] = want[c]]
    /\ at' = [at EXCEPT ![c] = "chg_insert"]
    /\ UNCHANGED <<byNick, byConn, count, phase, registered, want, old, held, late>>

\* Fault: session.nickname is not updated.
ChangeSetReverseOnly(c) ==
    /\ at[c] = "chg_set"
    /\ byConn' = [byConn EXCEPT ![held[c]] = want[c]]
    /\ at' = [at EXCEPT ![c] = "chg_insert"]
    /\ UNCHANGED <<byNick, count, sessNick, phase, registered, want, old, held, late>>

\* change_nick, under the session's write lock: session.nickname and the
\* reverse entry of the session's own connection.
ChangeSet(c) ==
    /\ at[c] = "chg_set"
    /\ sessNick' = [sessNick EXCEPT ![held[c]] = want[c]]
    /\ byConn' = [byConn EXCEPT ![held[c]] = want[c]]
    /\ at' = [at EXCEPT ![c] = "chg_insert"]
    /\ UNCHANGED <<byNick, count, phase, registered, want, old, held, late>>

\* change_nick, by_nick.insert(new): whatever is there is replaced.
ChangeInsert(c) ==
    /\ at[c] = "chg_insert"
    /\ byNick' = [byNick EXCEPT ![want[c]] = held[c]]
    /\ held' = [held EXCEPT ![c] = NoConn]
    /\ at' = [at EXCEPT ![c] = "idle"]
    /\ UNCHANGED <<byConn, count, sessNick, phase, registered, want, old, late>>

-----------------------------------------------------------------------------
(* Leaving: QUIT, a dropped connection, and KILL -> remove_by_connection.  *)

\* The connection ends.  Only a registered task has anything to clean up.
Disconnect(c) ==
    /\ Idle(c)
    /\ phase' = [phase EXCEPT ![c] = "closed"]
    /\ IF registered[c]
         THEN /\ held' = [held EXCEPT ![c] = c]
              /\ at' = [at EXCEPT ![c] = "rm_conn"]
         ELSE UNCHANGED <<held, at>>
    /\ UNCHANGED <<byNick, byConn, count, sessNick, registered, want, old, late>>

\* handle_kill: the victim's connection id is read through its nickname.
Kill(c, n) ==
    /\ Idle(c) /\ registered[c] /\ c \in Opers
    /\ SessionOf(c) # NoConn
    /\ byNick[n] # NoConn
    /\ held' = [held EXCEPT ![c] = byNick[n]]
    /\ at' = [at EXCEPT ![c] = "rm_conn"]
    /\ UNCHANGED <<byNick, byConn, count, sessNick, phase, registered, want, old, late>>

\* remove_by_connection, by_connection.remove; absent ends the operation.
RemoveConn(c) ==
    /\ at[c] = "rm_conn"
    /\ old' = [old EXCEPT ![c] = byConn[held[c]]]
    /\ byConn' = [byConn EXCEPT ![held[c]] = NoNick]
    /\ held' = [held EXCEPT ![c] = NoConn]
    /\ at' = [at EXCEPT ![c] = IF byConn[held[c]] = NoNick THEN "idle" ELSE "rm_nick"]
    /\ UNCHANGED <<byNick, count, sessNick, phase, registered, want, late>>

\* Fault: the counter is decremented even when no session was removed.
RemoveNickAlwaysCounts(c) ==
    /\ at[c] = "rm_nick"
    /\ byNick' = [byNick EXCEPT ![old[c]] = NoConn]
    /\ at' = [at EXCEPT ![c] = "rm_count"]
    /\ UNCHANGED <<byConn, count, sessNick, phase, registered, want, old, held, late>>

\* Fault: the entry is left in place.
RemoveNickForgotten(c) ==
    /\ at[c] = "rm_nick"
    /\ at' = [at EXCEPT ![c] = "rm_count"]
    /\ UNCHANGED <<byNick, byConn, count, sessNick, phase, registered, want, old, held, late>>

\* remove_by_connection, by_nick.remove; absent ends the operation.
RemoveNick(c) ==
    /\ at[c] = "rm_nick"
    /\ byNick' = [byNick EXCEPT ![old[c]] = NoConn]
    /\ at' = [at EXCEPT ![c] = IF byNick[old[c]] = NoConn THEN "idle" ELSE "rm_count"]
    /\ UNCHANGED <<byConn, count, sessNick, phase, registered, want, old, held, late>>

\* remove_by_connection, connection_count.fetch_sub, which wraps: it runs before
\* the fetch_add of register when a KILL meets a registration.
RemoveCount(c) ==
    /\ at[c] = "rm_count"
    /\ count' = IF count = 0 THEN MaxUsize ELSE count - 1
    /\ at' = [at EXCEPT ![c] = "idle"]
    /\ UNCHANGED <<byNick, byConn, sessNick, phase, registered, want, old, held, late>>

Step(c) ==
    \/ RegisterEntry(c) \/ RegisterConn(c) \/ RegisterCount(c)
    \/ ChangeRead(c) \/ ChangeCheck(c) \/ ChangeCase(c) \/ ChangeRemove(c)
    \/ ChangeSet(c) \/ ChangeInsert(c)
    \/ RemoveConn(c) \/ RemoveNick(c) \/ RemoveCount(c)

Next ==
    \E c \in Conn :
        \/ Accept(c)
        \/ \E n \in Wants[c] : HandleNick(c, n)
        \/ \E n \in Renames[c] : ChangeLookup(c, n)
        \/ \E n \in Nick : Kill(c, n)
        \/ Disconnect(c)
        \/ Step(c)

\* A task inside an operation is runnable until the operation ends (the
\* handlers do not await), so the scheduler runs it.
Spec == Init /\ [][Next]_vars /\ \A c \in Conn : WF_vars(Step(c))

-----------------------------------------------------------------------------
(* Properties                                                              *)

\* A session is reachable by nickname only under its own session.nickname, at
\* every point inside change_nick and however the tasks interleave: routing a
\* message by nickname never reaches a user under a name they have left.  The one
\* exception the code has is the session that a change of casing reached late.
NickEntryAgrees ==
    \A n \in Nick : byNick[n] # NoConn => sessNick[byNick[n]] = n \/ byNick[n] \in late

Registering == {c \in Conn : at[c] \in {"reg_conn", "reg_count"}}
Uncounting  == {c \in Conn : at[c] = "rm_count"}
Renaming    == {c \in Conn : at[c] \in {"chg_set", "chg_insert"}}
Entries     == {n \in Nick : byNick[n] # NoConn}

\* connection_count with the values it wraps to read as negative numbers.
Counted == IF 2 * count =< MaxUsize THEN count ELSE count - MaxUsize - 1

\* connection_count, corrected by the operations that are half-way through it,
\* never reports fewer users than the registry holds (or is moving to another
\* nickname).
CountCovers ==
    Cardinality(Entries) + Cardinality(Renaming)
        =< Counted + Cardinality(Registering) - Cardinality(Uncounting)

\* The accept loop errs only on the strict side: it takes a connection only while
\* the users found by nickname, without those whose registration is not counted
\* yet, are fewer than max_connections.
Accepts == \E c \in Conn : phase[c] = "new" /\ phase'[c] = "open"
AcceptsWithinLimit ==
    [][Accepts => Cardinality(Entries) + Cardinality(Renaming) < MaxConnections + Cardinality(Registering)]_vars

\* get_by_connection answers with the caller's own session or with none: the
\* commands a connection sends are never carried out as somebody else.
ActsAsSelf == \A c \in Conn : SessionOf(c) \in {NoConn, c}

\* A nickname in use is never taken over: its entry changes hands only by being
\* vacated first.  This is what change_nick's NickInUse check is for.
NickNeverOverwritten ==
    [][\A n \in Nick : byNick[n] # NoConn => byNick'[n] \in {byNick[n], NoConn}]_vars

\* change_nick: the session stays reachable through its connection while its
\* nickname changes.
NoUnmappedWindow ==
    \A c \in Conn : byConn[c] # NoNick /\ registered[c] => SessionOf(c) # NoConn

\* Enforcement of max_connections: the connections being served never outnumber it.
ConnectionsWithinLimit ==
    Cardinality({c \in Conn : phase[c] = "open"}) =< MaxConnections

\* Between its operations a registered user's connection leads to the user's own
\* session: a completed (or refused) nick change loses nobody.
MappedWhenIdle == \A c \in Conn : Idle(c) /\ registered[c] => SessionOf(c) = c

\* A connection that ends is eventually forgotten by both maps.
EventuallyReleased ==
    \A c \in Conn :
        phase[c] = "closed" ~> byConn[c] = NoNick /\ \A n \in Nick : byNick[n] # c
=============================================================================
