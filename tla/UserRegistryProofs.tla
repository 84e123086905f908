------------------------- MODULE UserRegistryProofs -------------------------
(***************************************************************************)
(* For any number of connections and nicknames, and any interleaving of    *)
(* registrations, nick changes, kills and disconnects, a session is found  *)
(* only under its own current nickname and under at most one, and the      *)
(* connection counter covers the users.  While nobody renames, nobody acts *)
(* as somebody else; where no nickname is contended, renaming loses nobody.*)
(***************************************************************************)
EXTENDS UserRegistry, FiniteSetTheorems, TLAPS

USE Zenon

\* A task that has not yet created its session.
Fresh(c) == ~registered[c] /\ at[c] = "idle"

\* A task that took a session out of by_nick and will put it back.
Moving(c) == at[c] \in {"chg_set", "chg_insert"}

\* The locals a task relies on at each place of an operation.
LocalsOK ==
    \A c \in Conn :
        /\ at[c] \notin {"idle", "reg_conn", "reg_count"} => registered[c]
        /\ at[c] \in {"reg_conn", "reg_count"} => ~registered[c]
        /\ at[c] = "chg_read" => held[c] \in Conn /\ sessNick[held[c]] \in Nick
        /\ at[c] \in {"chg_read", "chg_check", "chg_case", "chg_remove", "chg_set", "chg_insert",
                      "reg_conn", "reg_count"} => want[c] \in Nick
        /\ at[c] \in {"chg_check", "chg_remove", "rm_nick"} => old[c] \in Nick
        /\ at[c] \in {"chg_case", "chg_set", "chg_insert", "rm_conn"} => held[c] \in Conn

\* A session is under at most one nickname.
OneEntry == \A m, n \in Nick : byNick[m] = byNick[n] /\ byNick[n] # NoConn => m = n

\* A session that is not yet created, or is being moved, is under no nickname.
FreshUnreachable == \A c \in Conn : Fresh(c) => \A n \in Nick : byNick[n] # c
MovingUnreachable == \A c \in Conn : Moving(c) => \A n \in Nick : byNick[n] # held[c]

\* At most one task moves a session, and only one that exists.
OneMover ==
    \A c, d \in Conn : Moving(c) /\ Moving(d) /\ held[c] = held[d] => c = d
MovedExists == \A c, d \in Conn : Moving(c) /\ Fresh(d) => held[c] # d

\* Before the session goes back, its nickname is already the new one, unless a
\* change of casing has overwritten it.
MovedRenamed ==
    /\ \A c \in Conn : at[c] = "chg_insert" => sessNick[held[c]] = want[c] \/ held[c] \in late
    /\ \A c \in late : sessNick[c] \in Nick

IInv ==
    /\ TypeOK
    /\ LocalsOK
    /\ NickEntryAgrees
    /\ OneEntry
    /\ FreshUnreachable
    /\ MovingUnreachable
    /\ OneMover
    /\ MovedExists
    /\ MovedRenamed

LEMMA InitIInv == Init => IInv
  BY SMT, RegistryAssumptions
  DEF Init, IInv, TypeOK, LocalsOK, NickEntryAgrees, OneEntry, FreshUnreachable, MovingUnreachable,
      OneMover, MovedExists, MovedRenamed, Fresh, Moving, Places

LEMMA NextIInv == IInv /\ [Next]_vars => IInv'
<1> SUFFICES ASSUME IInv, [Next]_vars PROVE IInv'
  OBVIOUS
<1> USE RegistryAssumptions
    DEF IInv, TypeOK, LocalsOK, NickEntryAgrees, OneEntry, FreshUnreachable, MovingUnreachable,
        OneMover, MovedExists, MovedRenamed, Fresh, Moving, Places, Idle
<1>1. ASSUME NEW c \in Conn, Accept(c) PROVE IInv'
  BY SMT, <1>1 DEF Accept
<1>2. ASSUME NEW c \in Conn, NEW n \in Wants[c], HandleNick(c, n) PROVE IInv'
  BY SMT, <1>2 DEF HandleNick
<1>3. ASSUME NEW c \in Conn, NEW n \in Renames[c], ChangeLookup(c, n) PROVE IInv'
  <2> USE <1>3 DEF ChangeLookup, SessionOf
  <2>1. TypeOK'
    BY SMT
  <2>2. LocalsOK'
    BY SMT
  <2>3. NickEntryAgrees' /\ OneEntry' /\ FreshUnreachable' /\ MovingUnreachable'
    BY SMT
  <2>4. OneMover' /\ MovedExists' /\ MovedRenamed'
    BY SMT
  <2> QED
    BY <2>1, <2>2, <2>3, <2>4
<1>4. ASSUME NEW c \in Conn, NEW n \in Nick, Kill(c, n) PROVE IInv'
  BY SMT, <1>4 DEF Kill, SessionOf
<1>5. ASSUME NEW c \in Conn, Disconnect(c) PROVE IInv'
  <2> USE <1>5 DEF Disconnect
  <2>1. TypeOK' /\ LocalsOK'
    BY SMT
  <2>2. NickEntryAgrees' /\ OneEntry' /\ FreshUnreachable' /\ MovingUnreachable'
    BY SMT
  <2>3. OneMover' /\ MovedExists' /\ MovedRenamed'
    BY SMT
  <2> QED
    BY <2>1, <2>2, <2>3
<1>6. ASSUME NEW c \in Conn, RegisterEntry(c) PROVE IInv'
  <2>1. TypeOK'
    BY <1>6, SMTT(30) DEF RegisterEntry
  <2>2. LocalsOK'
    BY SMT, <1>6 DEF RegisterEntry
  <2>3. NickEntryAgrees'
    BY SMT, <1>6 DEF RegisterEntry
  <2>9. OneEntry'
    BY SMT, <1>6 DEF RegisterEntry
  <2>4. FreshUnreachable'
    BY SMT, <1>6 DEF RegisterEntry
  <2>5. MovingUnreachable'
    BY SMT, <1>6 DEF RegisterEntry
  <2>6. OneMover'
    BY SMT, <1>6 DEF RegisterEntry
  <2>7. MovedExists'
    BY SMT, <1>6 DEF RegisterEntry
  <2>8. MovedRenamed'
    BY SMT, <1>6 DEF RegisterEntry
  <2> QED
    BY <2>1, <2>2, <2>3, <2>4, <2>5, <2>6, <2>7, <2>8, <2>9
<1>7. ASSUME NEW c \in Conn, RegisterConn(c) PROVE IInv'
  BY SMT, <1>7 DEF RegisterConn
<1>8. ASSUME NEW c \in Conn, RegisterCount(c) PROVE IInv'
  BY SMT, <1>8 DEF RegisterCount
<1>9. ASSUME NEW c \in Conn, ChangeRead(c) PROVE IInv'
  BY SMT, <1>9 DEF ChangeRead
<1>10. ASSUME NEW c \in Conn, ChangeCheck(c) PROVE IInv'
  BY SMT, <1>10 DEF ChangeCheck
<1>11. ASSUME NEW c \in Conn, ChangeRemove(c) PROVE IInv'
  BY SMT, <1>11 DEF ChangeRemove
<1>12. ASSUME NEW c \in Conn, ChangeSet(c) PROVE IInv'
  BY SMT, <1>12 DEF ChangeSet
<1>13. ASSUME NEW c \in Conn, ChangeInsert(c) PROVE IInv'
  BY SMT, <1>13 DEF ChangeInsert
<1>14. ASSUME NEW c \in Conn, RemoveConn(c) PROVE IInv'
  BY SMT, <1>14 DEF RemoveConn
<1>15. ASSUME NEW c \in Conn, RemoveNick(c) PROVE IInv'
  BY SMT, <1>15 DEF RemoveNick
<1>16. ASSUME NEW c \in Conn, RemoveCount(c) PROVE IInv'
  BY SMT, <1>16 DEF RemoveCount
<1>17. ASSUME NEW c \in Conn, ChangeCase(c) PROVE IInv'
  <2> USE <1>17 DEF ChangeCase
  <2>1. TypeOK' /\ LocalsOK'
    BY SMT
  <2>2. NickEntryAgrees' /\ OneEntry'
    BY SMT
  <2>3. FreshUnreachable' /\ MovingUnreachable' /\ OneMover' /\ MovedExists'
    BY SMT
  <2>4. MovedRenamed'
    BY SMT
  <2> QED
    BY <2>1, <2>2, <2>3, <2>4
<1>18. CASE UNCHANGED vars
  BY SMT, <1>18 DEF vars, tasks
<1> HIDE DEF IInv
<1> QED
  BY <1>1, <1>2, <1>3, <1>4, <1>5, <1>6, <1>7, <1>8, <1>9, <1>10, <1>11, <1>12,
     <1>13, <1>14, <1>15, <1>16, <1>17, <1>18 DEF Next, Step

\* A session is found only under its own session.nickname, whatever the tasks
\* do: get_by_nick never returns a user under a nickname they have left, except a
\* session whose nickname a change of casing overwrote after it had been renamed.
THEOREM NickEntriesAgree == Spec => []NickEntryAgrees
<1>1. IInv => NickEntryAgrees
  BY DEF IInv
<1> QED
  BY InitIInv, NextIInv, <1>1, PTL DEF Spec

-----------------------------------------------------------------------------
(* The counter                                                             *)

LEMMA SetsFinite ==
  /\ IsFiniteSet(Entries) /\ IsFiniteSet(Renaming)
  /\ IsFiniteSet(Registering) /\ IsFiniteSet(Uncounting)
<1>1. /\ Entries \subseteq Nick /\ Renaming \subseteq Conn
      /\ Registering \subseteq Conn /\ Uncounting \subseteq Conn
  BY DEF Entries, Renaming, Registering, Uncounting
<1> QED
  BY <1>1, RegistryAssumptions, FS_Subset

LEMMA AtMostOneMore ==
  ASSUME NEW S, IsFiniteSet(S), NEW x, NEW T, T \subseteq S \cup {x}
  PROVE  Cardinality(T) \in Nat /\ Cardinality(T) =< Cardinality(S) + 1
<1>1. IsFiniteSet(S \cup {x}) /\ Cardinality(S \cup {x}) \in {Cardinality(S), Cardinality(S) + 1}
  BY FS_AddElement
<1>2. Cardinality(T) =< Cardinality(S \cup {x}) /\ IsFiniteSet(T)
  BY <1>1, FS_Subset
<1> QED
  BY SMT, <1>1, <1>2, FS_CardinalityType

LEMMA OneMore ==
  ASSUME NEW S, IsFiniteSet(S), NEW x, x \notin S
  PROVE  Cardinality(S \cup {x}) = Cardinality(S) + 1
  BY FS_AddElement

LEMMA OneLess ==
  ASSUME NEW S, IsFiniteSet(S), NEW x \in S
  PROVE  Cardinality(S \ {x}) = Cardinality(S) - 1
  BY FS_RemoveElement

\* The wrapping counter, read as a signed number, moves by one as long as it stays
\* away from the middle of its range.
LEMMA CountUp ==
  ASSUME count \in 0..MaxUsize, 2 * (Counted + 1) =< MaxUsize,
         count' = IF count = MaxUsize THEN 0 ELSE count + 1
  PROVE  Counted' = Counted + 1
  BY SMT, RegistryAssumptions DEF Counted

LEMMA CountDown ==
  ASSUME count \in 0..MaxUsize, 2 * Counted + MaxUsize > 0, MaxUsize > 0,
         count' = IF count = 0 THEN MaxUsize ELSE count - 1
  PROVE  Counted' = Counted - 1
  BY SMT, RegistryAssumptions DEF Counted

Registered == {c \in Conn : registered[c]}

\* Nothing is counted twice: every user counted is one whose registration ended.
CountedOnce == Counted =< Cardinality(Registered)

LEMMA ConnsCounted ==
  /\ Cardinality(Conn) \in Nat
  /\ \A S \in SUBSET Conn : IsFiniteSet(S) /\ Cardinality(S) \in Nat /\ Cardinality(S) =< Cardinality(Conn)
  BY RegistryAssumptions, FS_Subset, FS_CardinalityType

LEMMA CountedInt == ASSUME IInv PROVE Counted \in Int
  BY SMT, RegistryAssumptions DEF IInv, TypeOK, Counted

LEMMA NextCountedOnce ==
  ASSUME IInv, CountCovers, CountedOnce, [Next]_vars
  PROVE  /\ CountedOnce'
         /\ \A c \in Conn : RegisterCount(c) => Counted' = Counted + 1
         /\ \A c \in Conn : RemoveCount(c) => Counted' = Counted - 1
<1> DEFINE M == Cardinality(Conn)
<1>1. M \in Nat /\ MaxUsize \in Nat /\ 2 * M < MaxUsize /\ count \in 0..MaxUsize /\ Counted \in Int
  BY RegistryAssumptions, ConnsCounted, CountedInt DEF IInv, TypeOK
<1>2. /\ Registered \subseteq Conn /\ Registering \subseteq Conn /\ Uncounting \subseteq Conn
      /\ Entries \subseteq Nick /\ Renaming \subseteq Conn
  BY DEF Registered, Registering, Uncounting, Entries, Renaming
<1>3. /\ Cardinality(Registered) \in Nat /\ Cardinality(Registering) \in Nat
      /\ Cardinality(Uncounting) \in Nat /\ Cardinality(Entries) \in Nat /\ Cardinality(Renaming) \in Nat
      /\ IsFiniteSet(Registered) /\ IsFiniteSet(Registering)
      /\ Cardinality(Registering) =< M /\ Cardinality(Registered) =< M
  BY <1>2, ConnsCounted, SetsFinite, FS_CardinalityType
<1>4. ASSUME NEW c \in Conn, RegisterCount(c) PROVE CountedOnce' /\ Counted' = Counted + 1
  <2>1. c \notin Registered /\ Registered' = Registered \cup {c}
    BY <1>4 DEF RegisterCount, Registered, IInv, TypeOK, LocalsOK
  <2>2. Registered \cup {c} \subseteq Conn
    BY <1>2
  <2>3. Cardinality(Registered') = Cardinality(Registered) + 1 /\ Cardinality(Registered') =< M
    BY <1>3, <2>1, <2>2, OneMore, ConnsCounted
  <2>4. 2 * (Counted + 1) =< MaxUsize
    BY SMT, <1>1, <1>3, <2>3 DEF CountedOnce
  <2>5. Counted' = Counted + 1
    BY <1>1, <1>4, <2>4, CountUp DEF RegisterCount
  <2> QED
    BY SMT, <1>1, <1>3, <2>3, <2>5 DEF CountedOnce
<1>5. ASSUME NEW c \in Conn, RemoveCount(c) PROVE CountedOnce' /\ Counted' = Counted - 1
  <2>1. Registered' = Registered
    BY <1>5 DEF RemoveCount, Registered
  <2>2. 2 * Counted + MaxUsize > 0 /\ MaxUsize > 0
    BY SMT, <1>1, <1>3 DEF CountCovers
  <2>3. Counted' = Counted - 1
    BY <1>1, <1>5, <2>2, CountDown DEF RemoveCount
  <2> QED
    BY SMT, <1>1, <1>3, <2>1, <2>3 DEF CountedOnce
<1>6. ASSUME count' = count, registered' = registered PROVE CountedOnce'
  BY <1>6 DEF CountedOnce, Counted, Registered
<1>7. ASSUME NEW c \in Conn, Step(c), ~RegisterCount(c), ~RemoveCount(c) PROVE CountedOnce'
  BY <1>6, <1>7 DEF Step, RegisterEntry, RegisterConn, ChangeRead, ChangeCheck, ChangeCase, ChangeRemove,
                    ChangeSet, ChangeInsert, RemoveConn, RemoveNick
<1>8. ASSUME NEW c \in Conn,
             \/ Accept(c) \/ \E n \in Wants[c] : HandleNick(c, n)
             \/ \E n \in Renames[c] : ChangeLookup(c, n)
             \/ \E n \in Nick : Kill(c, n)
             \/ Disconnect(c)
      PROVE  CountedOnce'
  BY <1>6, <1>8 DEF Accept, HandleNick, ChangeLookup, Kill, Disconnect
<1>9. ASSUME UNCHANGED vars PROVE CountedOnce'
  <2>1. count' = count /\ registered' = registered
    BY SMT, <1>9 DEF vars, tasks
  <2> QED
    BY <1>6, <2>1
<1> HIDE DEF M
<1>10. ASSUME NEW c \in Conn, Step(c) PROVE CountedOnce'
  BY <1>4, <1>5, <1>7, <1>10
<1>11. CountedOnce'
  BY <1>8, <1>9, <1>10 DEF Next
<1> QED
  BY <1>4, <1>5, <1>11

LEMMA NextCounts ==
  ASSUME IInv, CountCovers, CountedOnce, [Next]_vars
  PROVE  CountCovers'
<1> USE RegistryAssumptions DEF IInv, TypeOK
<1>0. Counted \in Int /\ (count' = count => Counted' = Counted)
  BY CountedInt DEF Counted
<1>1. /\ Cardinality(Entries) \in Nat /\ Cardinality(Renaming) \in Nat
      /\ Cardinality(Registering) \in Nat /\ Cardinality(Uncounting) \in Nat
  BY SetsFinite, FS_CardinalityType
<1>2. ASSUME Entries' = Entries, Renaming' = Renaming, Registering' = Registering,
             Uncounting' = Uncounting, count' = count
      PROVE  CountCovers'
  BY <1>0, <1>2 DEF CountCovers
<1>3. ASSUME NEW c \in Conn, RegisterEntry(c) PROVE CountCovers'
  <2>1. CASE byNick[want[c]] # NoConn
    BY SMT, <1>2, <1>3, <2>1 DEF RegisterEntry, Entries, Renaming, Registering, Uncounting
  <2>2. CASE byNick[want[c]] = NoConn
    <3>1. Entries' \subseteq Entries \cup {want[c]} /\ Renaming' = Renaming /\ Uncounting' = Uncounting
      BY SMT, <1>3, <2>2 DEF RegisterEntry, Idle, Entries, Renaming, Uncounting
    <3>2. Registering' = Registering \cup {c} /\ c \notin Registering
      BY SMT, <1>3, <2>2 DEF RegisterEntry, Idle, Registering
    <3>4. count' = count
      BY <1>3 DEF RegisterEntry
    <3>3. /\ Cardinality(Entries') \in Nat /\ Cardinality(Entries') =< Cardinality(Entries) + 1
          /\ Cardinality(Registering') = Cardinality(Registering) + 1
      BY <3>1, <3>2, SetsFinite, AtMostOneMore, OneMore
    <3> QED
      BY SMT, <1>0, <1>1, <3>1, <3>3, <3>4 DEF CountCovers
  <2> QED
    BY <2>1, <2>2
<1>4. ASSUME NEW c \in Conn, RegisterCount(c) PROVE CountCovers'
  <2>1. Entries' = Entries /\ Renaming' = Renaming /\ Uncounting' = Uncounting
    BY <1>4 DEF RegisterCount, Entries, Renaming, Uncounting
  <2>2. Registering' = Registering \ {c} /\ c \in Registering
    BY <1>4 DEF RegisterCount, Registering
  <2>4. Counted' = Counted + 1
    BY <1>4, NextCountedOnce
  <2>3. Cardinality(Registering') = Cardinality(Registering) - 1
    BY <2>2, SetsFinite, OneLess
  <2> QED
    BY SMT, <1>0, <1>1, <2>1, <2>3, <2>4 DEF CountCovers
<1>5. ASSUME NEW c \in Conn, ChangeRemove(c) PROVE CountCovers'
  <2>1. Registering' = Registering /\ Uncounting' = Uncounting /\ count' = count
    BY <1>5 DEF ChangeRemove, Registering, Uncounting
  <2>2. old[c] \in Nick
    BY <1>5 DEF ChangeRemove, LocalsOK
  <2>3. CASE byNick[old[c]] = NoConn
    <3>1. Entries' = Entries /\ Renaming' = Renaming
      BY <1>5, <2>2, <2>3 DEF ChangeRemove, Entries, Renaming
    <3> QED
      BY <1>2, <2>1, <3>1
  <2>4. CASE byNick[old[c]] # NoConn
    <3>1. Entries' = Entries \ {old[c]} /\ old[c] \in Entries
      BY <1>5, <2>2, <2>4 DEF ChangeRemove, Entries
    <3>2. Renaming' = Renaming \cup {c} /\ c \notin Renaming
      BY SMT, <1>5, <2>4 DEF ChangeRemove, Renaming
    <3>3. Cardinality(Entries') = Cardinality(Entries) - 1
          /\ Cardinality(Renaming') = Cardinality(Renaming) + 1
      BY <3>1, <3>2, SetsFinite, OneLess, OneMore
    <3> QED
      BY SMT, <1>0, <1>1, <2>1, <3>3 DEF CountCovers
  <2> QED
    BY <2>3, <2>4
<1>6. ASSUME NEW c \in Conn, ChangeInsert(c) PROVE CountCovers'
  <2>1. Registering' = Registering /\ Uncounting' = Uncounting /\ count' = count
    BY <1>6 DEF ChangeInsert, Registering, Uncounting
  <2>2. Entries' \subseteq Entries \cup {want[c]}
    BY <1>6 DEF ChangeInsert, Entries
  <2>3. Renaming' = Renaming \ {c} /\ c \in Renaming
    BY <1>6 DEF ChangeInsert, Renaming
  <2>4. /\ Cardinality(Entries') \in Nat /\ Cardinality(Entries') =< Cardinality(Entries) + 1
        /\ Cardinality(Renaming') = Cardinality(Renaming) - 1
    BY <2>2, <2>3, SetsFinite, AtMostOneMore, OneLess
  <2> QED
    BY SMT, <1>0, <1>1, <2>1, <2>4 DEF CountCovers
<1>7. ASSUME NEW c \in Conn, RemoveNick(c) PROVE CountCovers'
  <2>1. Registering' = Registering /\ Renaming' = Renaming /\ count' = count
    BY <1>7 DEF RemoveNick, Registering, Renaming
  <2>2. old[c] \in Nick
    BY <1>7 DEF RemoveNick, LocalsOK
  <2>3. CASE byNick[old[c]] = NoConn
    <3>1. Entries' = Entries /\ Uncounting' = Uncounting
      BY <1>7, <2>2, <2>3 DEF RemoveNick, Entries, Uncounting
    <3> QED
      BY <1>2, <2>1, <3>1
  <2>4. CASE byNick[old[c]] # NoConn
    <3>1. Entries' = Entries \ {old[c]} /\ old[c] \in Entries
      BY <1>7, <2>2, <2>4 DEF RemoveNick, Entries
    <3>2. Uncounting' = Uncounting \cup {c} /\ c \notin Uncounting
      BY SMT, <1>7, <2>4 DEF RemoveNick, Uncounting
    <3>3. Cardinality(Entries') = Cardinality(Entries) - 1
          /\ Cardinality(Uncounting') = Cardinality(Uncounting) + 1
      BY <3>1, <3>2, SetsFinite, OneLess, OneMore
    <3> QED
      BY SMT, <1>0, <1>1, <2>1, <3>3 DEF CountCovers
  <2> QED
    BY <2>3, <2>4
<1>8. ASSUME NEW c \in Conn, RemoveCount(c) PROVE CountCovers'
  <2>1. Entries' = Entries /\ Renaming' = Renaming /\ Registering' = Registering
    BY <1>8 DEF RemoveCount, Entries, Renaming, Registering
  <2>2. Uncounting' = Uncounting \ {c} /\ c \in Uncounting
    BY <1>8 DEF RemoveCount, Uncounting
  <2>4. Counted' = Counted - 1
    BY <1>8, NextCountedOnce
  <2>3. Cardinality(Uncounting') = Cardinality(Uncounting) - 1
    BY <2>2, SetsFinite, OneLess
  <2> QED
    BY SMT, <1>0, <1>1, <2>1, <2>3, <2>4 DEF CountCovers
<1>9. CASE UNCHANGED <<byNick, count, at>>
  BY <1>2, <1>9 DEF Entries, Renaming, Registering, Uncounting
<1>10. ASSUME NEW c \in Conn, UNCHANGED <<byNick, count>>,
              \E p \in Places : at' = [at EXCEPT ![c] = p] /\ p \notin {"rm_count", "reg_conn"}
                                /\ (at[c] \in {"reg_conn", "reg_count"} <=> p = "reg_count")
                                /\ (at[c] \in {"chg_set", "chg_insert"} <=> p = "chg_insert")
                                /\ p # "chg_set" /\ at[c] # "rm_count"
       PROVE  CountCovers'
  <2>1. Entries' = Entries /\ Renaming' = Renaming /\ Registering' = Registering /\ Uncounting' = Uncounting
    BY SMT, <1>10 DEF Entries, Renaming, Registering, Uncounting
  <2> QED
    BY <1>2, <1>10, <2>1
<1>11. ASSUME NEW c \in Conn, NEW n \in Renames[c], ChangeLookup(c, n) PROVE CountCovers'
  BY <1>10, <1>11 DEF ChangeLookup, Idle, Places
<1>12. ASSUME NEW c \in Conn, NEW n \in Nick, Kill(c, n) PROVE CountCovers'
  BY <1>10, <1>12 DEF Kill, Idle, Places
<1>13. ASSUME NEW c \in Conn, Disconnect(c) PROVE CountCovers'
  BY <1>9, <1>10, <1>13 DEF Disconnect, Idle, Places
<1>14. ASSUME NEW c \in Conn, RegisterConn(c) \/ ChangeRead(c) \/ ChangeCheck(c) \/ ChangeCase(c) \/ ChangeSet(c) \/ RemoveConn(c)
       PROVE  CountCovers'
  BY <1>10, <1>14 DEF RegisterConn, ChangeRead, ChangeCheck, ChangeCase, ChangeSet, RemoveConn, Places
<1>15. ASSUME NEW c \in Conn, Accept(c) \/ \E n \in Wants[c] : HandleNick(c, n) PROVE CountCovers'
  BY <1>9, <1>15 DEF Accept, HandleNick
<1>16. CASE UNCHANGED vars
  BY <1>9, <1>16 DEF vars, tasks
<1> QED
  BY <1>3, <1>4, <1>5, <1>6, <1>7, <1>8, <1>11, <1>12, <1>13, <1>14, <1>15, <1>16 DEF Next, Step

LEMMA CountInvariant == Spec => [](IInv /\ CountCovers /\ CountedOnce)
<1>1. Init => CountCovers /\ CountedOnce
  <2> SUFFICES ASSUME Init PROVE CountCovers /\ CountedOnce
    OBVIOUS
  <2>1. /\ Entries = {} /\ Renaming = {} /\ Registering = {} /\ Uncounting = {} /\ Registered = {}
        /\ count = 0
    BY DEF Init, Entries, Renaming, Registering, Uncounting, Registered
  <2> QED
    BY SMT, <2>1, FS_EmptySet, RegistryAssumptions DEF CountCovers, CountedOnce, Counted
<1>2. IInv /\ CountCovers /\ CountedOnce /\ [Next]_vars => (IInv /\ CountCovers /\ CountedOnce)'
  BY NextIInv, NextCounts, NextCountedOnce
<1> QED
  BY InitIInv, <1>1, <1>2, PTL DEF Spec

\* connection_count, corrected by the operations half-way through it, never falls
\* below the number of users in by_nick or on their way back to it, however
\* many tasks register, rename, kill and disconnect at once.
THEOREM CountAlwaysCovers == Spec => []CountCovers
  BY CountInvariant, PTL

\* The accept loop of main.rs takes a connection only while the users found by
\* nickname, without those not counted yet, are fewer than max_connections, although
\* it compares a counter that wraps and that the operations adjust late.
THEOREM AcceptedWithinLimit == Spec => AcceptsWithinLimit
<1> DEFINE Room == Cardinality(Entries) + Cardinality(Renaming) < MaxConnections + Cardinality(Registering)
<1>1. ASSUME IInv, CountCovers, NEW c \in Conn, Accept(c) PROVE Room
  <2>1. /\ Cardinality(Entries) \in Nat /\ Cardinality(Renaming) \in Nat
        /\ Cardinality(Registering) \in Nat /\ Cardinality(Uncounting) \in Nat
    BY SetsFinite, FS_CardinalityType
  <2>2. count \in Nat /\ count < MaxConnections
    BY SMT, <1>1 DEF Accept, IInv, TypeOK
  <2>3. Counted = count
    BY SMT, <2>2, RegistryAssumptions DEF Counted
  <2> QED
    BY SMT, <1>1, <2>1, <2>2, <2>3, RegistryAssumptions DEF CountCovers
<1>2. ASSUME IInv, [Next]_vars, Accepts PROVE \E c \in Conn : Accept(c)
  <2>1. PICK c \in Conn : phase[c] = "new" /\ phase'[c] = "open"
    BY <1>2 DEF Accepts
  <2>2. phase' # phase
    BY <2>1
  <2>3. PICK d \in Conn : Accept(d) \/ Disconnect(d)
    BY <1>2, <2>2
    DEF Next, Step, vars, tasks, HandleNick, ChangeLookup, Kill, RegisterEntry, RegisterConn, RegisterCount,
        ChangeRead, ChangeCheck, ChangeCase, ChangeRemove, ChangeSet, ChangeInsert, RemoveConn, RemoveNick,
        RemoveCount
  <2>4. ~Disconnect(d)
    BY <1>2, <2>1 DEF Disconnect, IInv, TypeOK
  <2> QED
    BY <2>3, <2>4
<1>3. IInv /\ CountCovers /\ CountedOnce /\ [Next]_vars => [Accepts => Room]_vars
  BY <1>1, <1>2
<1> QED
  BY CountInvariant, <1>3, PTL DEF Spec, AcceptsWithinLimit

-----------------------------------------------------------------------------
(* Nobody changes nickname                                                 *)

NoRenaming == \A c \in Conn : Renames[c] = {}

NeverRenames ==
    \A c \in Conn : at[c] \in {"idle", "reg_conn", "reg_count", "rm_conn", "rm_nick", "rm_count"}

\* Until register has filled by_connection there is nothing in it.
Unrecorded == \A c \in Conn : Fresh(c) \/ at[c] = "reg_conn" => byConn[c] = NoNick

\* A recorded nickname is its connection's.
Recorded ==
    /\ \A c \in Conn : at[c] = "reg_conn" => byNick[want[c]] = c
    /\ \A c \in Conn : byConn[c] # NoNick => byNick[byConn[c]] = c

\* Whoever is about to vacate a nickname is alone in it, and the nickname still has
\* the session that by_connection has forgotten.
Vacating ==
    \A d \in Conn : at[d] = "rm_nick" =>
        /\ byNick[old[d]] \in Conn
        /\ byConn[byNick[old[d]]] = NoNick /\ at[byNick[old[d]]] # "reg_conn"
        /\ \A e \in Conn : at[e] = "rm_nick" /\ old[e] = old[d] => e = d

StillInv == NeverRenames /\ Unrecorded /\ Recorded /\ Vacating

LEMMA InitStill == Init => StillInv
  BY RegistryAssumptions
  DEF Init, StillInv, NeverRenames, Unrecorded, Recorded, Vacating

LEMMA NextStill ==
  ASSUME NoRenaming, IInv, StillInv, [Next]_vars
  PROVE  StillInv'
<1> USE RegistryAssumptions
    DEF IInv, TypeOK, LocalsOK, FreshUnreachable, Fresh, Idle,
        StillInv, NeverRenames, Unrecorded, Recorded, Vacating
<1>1. ASSUME NEW c \in Conn, Accept(c) PROVE StillInv'
  BY SMT, <1>1 DEF Accept
<1>2. ASSUME NEW c \in Conn, NEW n \in Wants[c], HandleNick(c, n) PROVE StillInv'
  BY SMT, <1>2 DEF HandleNick
<1>3. ASSUME NEW c \in Conn, NEW n \in Nick, Kill(c, n) PROVE StillInv'
  BY SMT, <1>3 DEF Kill
<1>4. ASSUME NEW c \in Conn, Disconnect(c) PROVE StillInv'
  BY SMT, <1>4 DEF Disconnect
<1>5. ASSUME NEW c \in Conn, RegisterEntry(c) PROVE StillInv'
  BY SMT, <1>5 DEF RegisterEntry
<1>6. ASSUME NEW c \in Conn, RegisterConn(c) PROVE StillInv'
  BY SMT, <1>6 DEF RegisterConn
<1>7. ASSUME NEW c \in Conn, RegisterCount(c) PROVE StillInv'
  BY SMT, <1>7 DEF RegisterCount
<1>8. ASSUME NEW c \in Conn, RemoveConn(c) PROVE StillInv'
  BY SMT, <1>8 DEF RemoveConn
<1>9. ASSUME NEW c \in Conn, RemoveNick(c) PROVE StillInv'
  BY SMT, <1>9 DEF RemoveNick
<1>10. ASSUME NEW c \in Conn, RemoveCount(c) PROVE StillInv'
  BY SMT, <1>10 DEF RemoveCount
<1>11. \A c \in Conn : ~(ChangeRead(c) \/ ChangeCheck(c) \/ ChangeCase(c) \/ ChangeRemove(c) \/ ChangeSet(c) \/ ChangeInsert(c))
  BY DEF ChangeRead, ChangeCheck, ChangeCase, ChangeRemove, ChangeSet, ChangeInsert
<1>12. CASE UNCHANGED vars
  BY <1>12 DEF vars, tasks
<1> QED
  BY <1>1, <1>2, <1>3, <1>4, <1>5, <1>6, <1>7, <1>8, <1>9, <1>10, <1>11, <1>12
  DEF Next, Step, NoRenaming

LEMMA StillInvariant ==
  ASSUME NoRenaming
  PROVE  Spec => [](IInv /\ StillInv)
<1>1. IInv /\ StillInv /\ [Next]_vars => (IInv /\ StillInv)'
  BY NextIInv, NextStill
<1> QED
  BY InitIInv, InitStill, <1>1, PTL DEF Spec

\* While nobody changes nickname, get_by_connection answers with the caller's own
\* session or with none, whoever is killed meanwhile and whoever takes the
\* nickname next: no command is carried out as somebody else.
THEOREM OwnSessionOnly ==
  ASSUME NoRenaming
  PROVE  Spec => []ActsAsSelf
<1>1. IInv /\ StillInv => ActsAsSelf
  BY RegistryAssumptions DEF IInv, TypeOK, StillInv, Recorded, ActsAsSelf, SessionOf
<1> QED
  BY <1>1, StillInvariant, PTL

\* While nobody changes nickname, register and remove_by_connection never take an
\* entry of by_nick over: it is vacated before it changes hands.
THEOREM NickKeptByHolder ==
  ASSUME NoRenaming
  PROVE  Spec => NickNeverOverwritten
<1>1. ASSUME StillInv, IInv, [Next]_vars
      PROVE  [\A n \in Nick : byNick[n] # NoConn => byNick'[n] \in {byNick[n], NoConn}]_vars
  <2>1. ASSUME NEW c \in Conn, RegisterEntry(c) \/ RemoveNick(c), NEW n \in Nick, byNick[n] # NoConn
        PROVE  byNick'[n] \in {byNick[n], NoConn}
    BY <1>1, <2>1 DEF IInv, TypeOK, RegisterEntry, RemoveNick
  <2>2. ASSUME NEW c \in Conn,
               \/ Accept(c) \/ \E n \in Wants[c] : HandleNick(c, n)
               \/ \E n \in Renames[c] : ChangeLookup(c, n)
               \/ \E n \in Nick : Kill(c, n)
               \/ Disconnect(c) \/ RegisterConn(c) \/ RegisterCount(c) \/ RemoveConn(c) \/ RemoveCount(c)
        PROVE  byNick' = byNick
    BY <2>2 DEF Accept, HandleNick, ChangeLookup, Kill, Disconnect, RegisterConn, RegisterCount,
                RemoveConn, RemoveCount
  <2>3. \A c \in Conn : ~(ChangeRead(c) \/ ChangeCheck(c) \/ ChangeCase(c) \/ ChangeRemove(c) \/ ChangeSet(c) \/ ChangeInsert(c))
    BY <1>1 DEF StillInv, NeverRenames, ChangeRead, ChangeCheck, ChangeCase, ChangeRemove, ChangeSet, ChangeInsert
  <2> QED
    BY <1>1, <2>1, <2>2, <2>3 DEF Next, Step
<1>2. IInv /\ StillInv /\ [Next]_vars
      => [\A n \in Nick : byNick[n] # NoConn => byNick'[n] \in {byNick[n], NoConn}]_vars
  BY <1>1
<1> QED
  BY <1>2, StillInvariant, PTL DEF Spec, NickNeverOverwritten

-----------------------------------------------------------------------------
(* No nickname is contended                                                *)

Own(c) == Wants[c] \cup Renames[c]

\* No two connections want a nickname in common, and nobody is killed.
Uncontested ==
    /\ \A c, d \in Conn : c # d => Own(c) \cap Own(d) = {}
    /\ Opers = {}

\* Everything a task holds or wants is its own.
KeepsToOwn ==
    \A c \in Conn :
        /\ \A n \in Nick : byNick[n] = c => n \in Own(c)
        /\ want[c] \in Own(c) \cup {NoNick} /\ byConn[c] \in Own(c) \cup {NoNick}
        /\ at[c] \in {"chg_check", "chg_remove", "rm_nick"} => old[c] \in Own(c)
        /\ held[c] \in {c, NoConn}

\* The connection leads to its own session, except while change_nick has taken the
\* session out and until remove_by_connection has run.
Found(c) == byConn[c] # NoNick /\ byNick[byConn[c]] = c

Followed ==
    \A c \in Conn :
        /\ phase[c] = "new" => Fresh(c)
        /\ at[c] = "reg_conn" => byNick[want[c]] = c
        /\ at[c] \in {"reg_count", "chg_read", "chg_check", "chg_case", "chg_remove"} => Found(c)
        /\ at[c] \in {"chg_check", "chg_case", "chg_remove"} => old[c] = byConn[c]
        /\ at[c] = "chg_case" => old[c] = want[c]
        /\ at[c] = "chg_insert" => byConn[c] = want[c]
        /\ at[c] \in {"rm_conn", "rm_nick", "rm_count"} => phase[c] = "closed"
        /\ Idle(c) /\ registered[c] => Found(c)

OrderlyInv == KeepsToOwn /\ Followed /\ late = {}

LEMMA InitOrderly == Init => OrderlyInv
  BY SMT, RegistryAssumptions
  DEF Init, OrderlyInv, KeepsToOwn, Followed, Fresh, Idle

LEMMA NextOrderly ==
  ASSUME Uncontested, IInv, OrderlyInv, [Next]_vars
  PROVE  OrderlyInv'
<1>0. \A c \in Conn : Own(c) \subseteq Nick
  BY RegistryAssumptions DEF Own
<1> USE <1>0, RegistryAssumptions
    DEF IInv, TypeOK, LocalsOK, NickEntryAgrees, Idle, Uncontested,
        OrderlyInv, KeepsToOwn, Followed, Fresh, Found
<1>1. ASSUME NEW c \in Conn, Accept(c) PROVE OrderlyInv'
  BY SMT, <1>1 DEF Accept
<1>2. ASSUME NEW c \in Conn, NEW n \in Wants[c], HandleNick(c, n) PROVE OrderlyInv'
  BY SMT, <1>2 DEF HandleNick, Own
<1>3. ASSUME NEW c \in Conn, NEW n \in Renames[c], ChangeLookup(c, n) PROVE OrderlyInv'
  BY SMT, <1>3 DEF ChangeLookup, SessionOf, Own
<1>4. ASSUME NEW c \in Conn, Disconnect(c) PROVE OrderlyInv'
  BY SMT, <1>4 DEF Disconnect
<1>5. ASSUME NEW c \in Conn, RegisterEntry(c) PROVE OrderlyInv'
  BY SMT, <1>5 DEF RegisterEntry
<1>6. ASSUME NEW c \in Conn, RegisterConn(c) PROVE OrderlyInv'
  BY SMT, <1>6 DEF RegisterConn
<1>7. ASSUME NEW c \in Conn, RegisterCount(c) PROVE OrderlyInv'
  BY SMT, <1>7 DEF RegisterCount
<1>8. ASSUME NEW c \in Conn, ChangeRead(c) PROVE OrderlyInv'
  BY SMT, <1>8 DEF ChangeRead
<1>9. ASSUME NEW c \in Conn, ChangeCheck(c) PROVE OrderlyInv'
  BY SMT, <1>9 DEF ChangeCheck
<1>10. ASSUME NEW c \in Conn, ChangeRemove(c) PROVE OrderlyInv'
  BY SMT, <1>10 DEF ChangeRemove
<1>11. ASSUME NEW c \in Conn, ChangeSet(c) PROVE OrderlyInv'
  BY SMT, <1>11 DEF ChangeSet
<1>12. ASSUME NEW c \in Conn, ChangeInsert(c) PROVE OrderlyInv'
  BY SMT, <1>12 DEF ChangeInsert
<1>13. ASSUME NEW c \in Conn, RemoveConn(c) PROVE OrderlyInv'
  BY SMT, <1>13 DEF RemoveConn
<1>14. ASSUME NEW c \in Conn, RemoveNick(c) PROVE OrderlyInv'
  BY SMT, <1>14 DEF RemoveNick
<1>15. ASSUME NEW c \in Conn, RemoveCount(c) PROVE OrderlyInv'
  BY SMT, <1>15 DEF RemoveCount
<1>19. ASSUME NEW c \in Conn, ChangeCase(c) PROVE OrderlyInv'
  BY SMT, <1>19 DEF ChangeCase
<1>16. \A c \in Conn, n \in Nick : ~Kill(c, n)
  BY DEF Kill
<1>17. CASE UNCHANGED vars
  BY <1>17 DEF vars, tasks
<1> HIDE DEF IInv, OrderlyInv, Uncontested
<1>18. ASSUME NEW c \in Conn, Step(c) PROVE OrderlyInv'
  BY <1>5, <1>6, <1>7, <1>8, <1>9, <1>10, <1>11, <1>12, <1>13, <1>14, <1>15, <1>18, <1>19 DEF Step
<1> QED
  BY <1>1, <1>2, <1>3, <1>4, <1>16, <1>17, <1>18 DEF Next

\* Where no nickname is contended and nobody is killed, a registered user's
\* connection leads to the user's own session between any two operations:
\* however often they change nickname, change_nick, completed or refused, loses nobody.
THEOREM OwnSessionKept ==
  ASSUME Uncontested
  PROVE  Spec => []MappedWhenIdle
<1>1. IInv /\ OrderlyInv /\ [Next]_vars => (IInv /\ OrderlyInv)'
  BY NextIInv, NextOrderly
<1>2. IInv /\ OrderlyInv => MappedWhenIdle
  BY DEF OrderlyInv, Followed, Found, MappedWhenIdle, SessionOf
<1> QED
  BY InitIInv, InitOrderly, <1>1, <1>2, PTL DEF Spec
=============================================================================
