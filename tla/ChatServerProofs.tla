-------------------------- MODULE ChatServerProofs --------------------------
(***************************************************************************)
(* For any number of connections, nicknames, channels and groups, and any  *)
(* interleaving of the locks the handlers take: channels and groups agree  *)
(* with the registries, a group has one admin, and nobody is in more       *)
(* channels than allowed.                                                  *)
(***************************************************************************)
EXTENDS ChatServer, FiniteSetTheorems, TLAPS

USE Zenon

-----------------------------------------------------------------------------
(* The invariant                                                           *)

\* The commands a handler may be serving at each of its steps.
Serving(step) ==
    CASE step = "idle"                                    -> {"none"}
      [] step \in {"joinNext", "joinEnter"}               -> {"join"}
      [] step \in {"lookup", "check"}                     -> {"part", "kick", "mode", "ban", "topic", "invite"}
      [] step = "protect"                                 -> {"topic"}
      [] step = "change"                                  -> {"mode", "ban", "topic", "invite"}
      [] step \in {"remove", "clean"}                     -> {"part", "kick", "quit", "kill"}
      [] step \in {"listAll", "leaveNext"}                -> {"quit", "kill"}
      [] step = "groupAdd"                                -> {"group"}
      [] step \in {"groupList", "groupNext"}              -> {"quit", "drop"}
      [] step = "endSession"                              -> {"quit", "kill", "drop"}

\* What a handler knows by its locals.
Knows(c, t) ==
    /\ t.cmd \in Serving(t.at)
    /\ t.at # "idle" => /\ t.nick \in Nick /\ session[c] \in {t.nick, Nil} /\ phase[c] # "new"
                        /\ t.spelled \in Spelled /\ t.spelled = <<t.nick, casing[c]>>
    /\ t.at \in {"joinNext", "lookup"} => t.names # <<>>
    /\ t.at \in {"joinEnter", "check", "protect", "change", "remove", "clean"} => t.obj \in DOMAIN chan
    /\ t.at = "groupAdd" => t.obj \in DOMAIN groups
    /\ t.cmd \in {"mode", "ban"} => t.changes # <<>>
    /\ t.cmd \in {"part", "kick", "invite", "quit", "kill", "drop"} => t.target \in Nick
    /\ t.cmd \in {"quit", "drop"} => t.victim = c /\ t.target = t.nick
    /\ t.cmd = "kill" => t.victim \in Conn
    /\ t.cmd \in {"quit", "kill"} /\ t.at \in {"leaveNext", "remove", "clean"} => t.list \subseteq DOMAIN chan
    /\ t.at = "groupNext" => t.list \subseteq DOMAIN groups

\* The channels a departure has yet to look at.
Ahead(t, o) ==
    \/ t.at = "listAll"
    \/ t.at \in {"leaveNext", "remove", "clean"} /\ o \in t.list
    \/ t.at = "remove" /\ o = t.obj

\* QUIT and KILL: the user is in no channel but those, and what is stale already.
LeavesChannels(t) ==
    t.cmd \in {"quit", "kill"} =>
        \A o \in Registered : session[t.victim] \in Members(chan[o]) =>
            \/ <<"channel", o, session[t.victim]>> \in stale
            \/ session[t.victim] = t.target /\ Ahead(t, o)

\* QUIT and a lost connection: the same of groups.
LeavesGroups(t) ==
    t.cmd \in {"quit", "drop"} /\ t.at \in {"groupNext", "endSession"} =>
        \A g \in DOMAIN groups : Spelling(t.victim) \in GroupMembers(groups[g]) =>
            \/ <<"group", g, Spelling(t.victim)>> \in stale
            \/ t.at = "groupNext" /\ g \in t.list

\* The memberships that count against the limit.
Live(n) == {o \in ChannelsOf(n) : <<"channel", o, n>> \notin stale}

\* JOIN's count covers the channels the user is in.
Counts(c, t) ==
    /\ t.at \in {"joinNext", "joinEnter"} /\ session[c] = t.nick => Cardinality(Live(t.nick)) =< t.count
    /\ t.at = "joinEnter" => t.count < script.max

TaskOK(c, t) == Knows(c, t) /\ LeavesChannels(t) /\ LeavesGroups(t) /\ Counts(c, t)

\* Nicknames are of registered connections, and of one each.
NewHasNone == \A c \in Conn : phase[c] = "new" => session[c] = Nil
OwnNicks == \A c, d \in Conn : session[c] = session[d] /\ session[c] # Nil => c = d
Spells == \A c \in Conn : session[c] # Nil => casing[c] \in Casing

\* An empty channel that is registered is being entered or about to be removed.
Attended(o) == \E c \in Conn : task[c].at \in {"joinEnter", "clean"} /\ task[c].obj = o
EmptyAttended == \A o \in Registered : Members(chan[o]) = {} => Attended(o)

ChannelUsers ==
    \A o \in Registered : \A n \in Members(chan[o]) : n \in InUse \/ <<"channel", o, n>> \in stale

GroupUsers ==
    \A g \in DOMAIN groups : \A n \in GroupMembers(groups[g]) : n \in Written \/ <<"group", g, n>> \in stale

ChatInv ==
    /\ TypeOK
    /\ \A c \in Conn : TaskOK(c, task[c])
    /\ NewHasNone /\ OwnNicks /\ Spells
    /\ EmptyAttended /\ OnlyStraysOrphaned /\ ChannelUsers
    /\ GroupUsers /\ OneAdmin
    /\ WithinChannelLimit

-----------------------------------------------------------------------------
(* Steps that leave users, groups and members of channels as they are       *)

LEMMA ChannelDomain ==
  ASSUME TypeOK
  PROVE  DOMAIN chan = 1..Len(chan) /\ Len(chan) \in Nat /\ 0 \notin DOMAIN chan
  BY SMT DEF TypeOK

LEMMA LiveFinite ==
  ASSUME TypeOK, NEW n
  PROVE  /\ IsFiniteSet(Live(n)) /\ Cardinality(Live(n)) \in Nat
         /\ IsFiniteSet(ChannelsOf(n)) /\ Cardinality(ChannelsOf(n)) \in Nat
         /\ Cardinality(Live(n)) =< Cardinality(ChannelsOf(n))
<1>1. IsFiniteSet(1..Len(chan))
  BY SMT, ChannelDomain, FS_Interval
<1>2. ChannelsOf(n) \subseteq 1..Len(chan) /\ Live(n) \subseteq ChannelsOf(n)
  BY ChannelDomain DEF ChannelsOf, Live, Registered
<1>3. IsFiniteSet(ChannelsOf(n))
  BY <1>1, <1>2, FS_Subset
<1> QED
  BY <1>2, <1>3, FS_Subset, FS_CardinalityType

\* What a task relies on stays when members, users and groups stay.
LEMMA QuietStep ==
  ASSUME ChatInv, TypeOK', EmptyAttended',
         script' = script, session' = session, phase' = phase, groups' = groups, casing' = casing,
         stale' = stale, stray' = stray,
         DOMAIN chan \subseteq DOMAIN chan',
         \A o \in DOMAIN chan : Members(chan'[o]) = Members(chan[o]),
         \A o \in DOMAIN chan' : Members(chan'[o]) # {} =>
             o \in DOMAIN chan /\ (o \in Registered' <=> o \in Registered),
         \A d \in Conn : task'[d] = task[d] \/
             (Knows(d, task[d])' /\ LeavesChannels(task'[d]) /\ LeavesGroups(task'[d]) /\ Counts(d, task'[d]))
  PROVE  ChatInv'
<1>1. Registered \subseteq DOMAIN chan /\ Registered' \subseteq DOMAIN chan'
  BY DEF Registered
<1>2. ASSUME NEW n PROVE ChannelsOf(n)' = ChannelsOf(n) /\ Live(n)' = Live(n)
  <2>1. ChannelsOf(n)' = ChannelsOf(n)
    BY <1>1 DEF ChannelsOf
  <2> QED
    BY <2>1 DEF Live
<1>3. InUse' = InUse /\ Written' = Written
  BY DEF InUse, Written, Spelling
<1>4. ASSUME NEW d \in Conn PROVE TaskOK(d, task[d])'
  <2>0. PICK t : t = task'[d]
    OBVIOUS
  <2>1. LeavesChannels(t) /\ LeavesGroups(t) /\ Counts(d, t)
    BY <2>0 DEF ChatInv, TaskOK
  <2>2. Knows(d, task[d])'
    <3>1. CASE task'[d] = task[d]
      BY SMT, <3>1 DEF ChatInv, TaskOK, Knows
    <3> QED
      BY <3>1
  <2>3. LeavesChannels(t)'
    BY <2>1, <1>1 DEF LeavesChannels, Ahead
  <2>4. LeavesGroups(t)' /\ Counts(d, t)'
    BY <2>1, <1>2 DEF LeavesGroups, Counts, Spelling
  <2> QED
    BY <2>0, <2>2, <2>3, <2>4 DEF TaskOK
<1>5. NewHasNone' /\ OwnNicks' /\ Spells' /\ GroupUsers' /\ OneAdmin'
  BY <1>3 DEF ChatInv, NewHasNone, OwnNicks, Spells, GroupUsers, OneAdmin
<1>6. OnlyStraysOrphaned' /\ ChannelUsers'
  BY <1>1, <1>3 DEF ChatInv, OnlyStraysOrphaned, ChannelUsers
<1>7. WithinChannelLimit'
  BY <1>2 DEF ChatInv, WithinChannelLimit, Live
<1> QED
  BY <1>4, <1>5, <1>6, <1>7 DEF ChatInv

\* An empty channel keeps whoever attends to it.
LEMMA AttendedStill ==
  ASSUME EmptyAttended, NEW c \in Conn, Registered' = Registered,
         \A o \in Registered : Members(chan'[o]) = Members(chan[o]),
         \A d \in Conn \ {c} : task'[d] = task[d],
         task[c].at \in {"joinEnter", "clean"} => Members(chan[task[c].obj]) # {}
  PROVE  EmptyAttended'
<1> SUFFICES ASSUME NEW o \in Registered, Members(chan[o]) = {} PROVE Attended(o)'
  BY DEF EmptyAttended
<1>1. PICK d \in Conn : task[d].at \in {"joinEnter", "clean"} /\ task[d].obj = o
  BY DEF EmptyAttended, Attended
<1>2. d # c
  BY <1>1
<1> QED
  BY <1>1, <1>2 DEF Attended

LEMMA GotoOK ==
  ASSUME TypeOK, NEW c \in Conn, NEW t \in Task, Goto(c, t)
  PROVE  /\ task' \in [Conn -> Task] /\ task'[c] = t
         /\ \A d \in Conn \ {c} : task'[d] = task[d]
  BY DEF TypeOK, Goto

\* Only the task moves on, and at most what a channel holds besides its members.
LEMMA TaskStep ==
  ASSUME ChatInv, NEW c \in Conn, NEW t \in Task, Goto(c, t), TaskOK(c, t),
         UNCHANGED <<script, session, casing, phase, opers, byName, groups, stale, stray>>,
         sent' \in [Conn -> 0..script.each],
         chan' \in Seq(Channel), Len(chan') = Len(chan),
         \A o \in DOMAIN chan : chan'[o].name = chan[o].name /\ Members(chan'[o]) = Members(chan[o]),
         task[c].at \in {"joinEnter", "clean"} => Members(chan[task[c].obj]) # {}
  PROVE  ChatInv'
<1>1. TypeOK
  BY DEF ChatInv
<1>2. /\ task' \in [Conn -> Task] /\ task'[c] = t
      /\ \A d \in Conn \ {c} : task'[d] = task[d]
  BY <1>1, GotoOK
<1>3. TypeOK'
  BY <1>1, <1>2 DEF TypeOK
<1>4. DOMAIN chan' = DOMAIN chan
  BY SMT, <1>1 DEF TypeOK
<1>5. Registered' = Registered /\ Registered \subseteq DOMAIN chan
  BY <1>4 DEF Registered
<1>6. EmptyAttended'
  BY <1>2, <1>5, AttendedStill DEF ChatInv
<1>7. Knows(c, task[c])'
  BY SMT, <1>2, <1>4 DEF TaskOK, Knows
<1>8. \A d \in Conn : task'[d] = task[d] \/
        (Knows(d, task[d])' /\ LeavesChannels(task'[d]) /\ LeavesGroups(task'[d]) /\ Counts(d, task'[d]))
  BY <1>2, <1>7 DEF TaskOK
<1> QED
  BY <1>3, <1>4, <1>5, <1>6, <1>8, QuietStep

LEMMA Serves ==
  /\ Serving("idle") = {"none"}
  /\ Serving("joinNext") = {"join"} /\ Serving("joinEnter") = {"join"}
  /\ Serving("lookup") = {"part", "kick", "mode", "ban", "topic", "invite"}
  /\ Serving("check") = {"part", "kick", "mode", "ban", "topic", "invite"}
  /\ Serving("protect") = {"topic"} /\ Serving("change") = {"mode", "ban", "topic", "invite"}
  /\ Serving("remove") = {"part", "kick", "quit", "kill"} /\ Serving("clean") = {"part", "kick", "quit", "kill"}
  /\ Serving("listAll") = {"quit", "kill"} /\ Serving("leaveNext") = {"quit", "kill"}
  /\ Serving("groupAdd") = {"group"}
  /\ Serving("groupList") = {"quit", "drop"} /\ Serving("groupNext") = {"quit", "drop"}
  /\ Serving("endSession") = {"quit", "kill", "drop"}
  BY DEF Serving

LEMMA IdleOK ==
  /\ Idle \in Task
  /\ \A c : TaskOK(c, Idle)
<1>1. Idle \in Task
  <2>1. <<>> \in Seq(Name)
    BY SMT
  <2>2. <<>> \in Seq(Change)
    BY SMT
  <2>3. "idle" \in Steps
    BY DEF Steps
  <2>4. "none" \in Commands
    BY DEF Commands
  <2> QED
    BY <2>1, <2>2, <2>3, <2>4 DEF Idle, Task
<1>2. Idle.at = "idle" /\ Idle.cmd = "none"
  BY DEF Idle
<1>3. ASSUME NEW c PROVE TaskOK(c, Idle)
  BY <1>2, Serves DEF TaskOK, Knows, LeavesChannels, LeavesGroups, Counts
<1> QED
  BY <1>1, <1>3

LEMMA SendsOK ==
  ASSUME TypeOK, NEW c \in Conn, NEW cmd, Sends(c, cmd)
  PROVE  /\ sent' \in [Conn -> 0..script.each] /\ sent \in [Conn -> 0..script.each]
         /\ task[c].at = "idle" /\ session[c] \in Nick /\ phase[c] = "registered"
  BY SMT, ChatAssumptions DEF TypeOK, Sends, At

LEMMA TailOK ==
  ASSUME NEW S, NEW s \in Seq(S), Len(s) > 1
  PROVE  Tail(s) \in Seq(S) /\ Tail(s) # <<>> /\ Tail(s) \in Seq(S) \ {<<>>}
<1>1. Tail(s) \in Seq(S) /\ Len(Tail(s)) = Len(s) - 1 /\ Len(s) \in Nat
  BY SMT
<1>2. Len(Tail(s)) # 0
  BY SMT, <1>1
<1>3. Len(<<>>) = 0
  OBVIOUS
<1> QED
  BY <1>1, <1>2, <1>3

LEMMA NextNameOK ==
  ASSUME NEW t \in Task, NEW step \in {"joinNext", "lookup"}
  PROVE  /\ NextName(t, step) \in Task
         /\ \/ NextName(t, step) = Idle
            \/ NextName(t, step) = [t EXCEPT !.at = step, !.names = Tail(t.names), !.obj = 0]
               /\ Tail(t.names) # <<>>
<1>1. CASE Len(t.names) =< 1
  BY <1>1, IdleOK DEF NextName
<1>2. CASE Len(t.names) > 1
  <2>1. t.names \in Seq(Name) /\ Len(t.names) \in Nat
    BY SMT DEF Task
  <2>2. Tail(t.names) \in Seq(Name) /\ Tail(t.names) # <<>>
    BY <1>2, <2>1, TailOK
  <2>3. NextName(t, step) = [t EXCEPT !.at = step, !.names = Tail(t.names), !.obj = 0]
    BY SMT, <1>2, <2>1 DEF NextName
  <2>4. [t EXCEPT !.at = step, !.names = Tail(t.names), !.obj = 0] \in Task
    BY <2>2 DEF Task, Steps
  <2> QED
    BY <2>2, <2>3, <2>4
<1>3. Len(t.names) \in Nat
  BY SMT DEF Task
<1> QED
  BY SMT, <1>1, <1>2, <1>3

LEMMA NextJoinOK ==
  ASSUME NEW c \in Conn, NEW t \in Task, TaskOK(c, t), t.at \in {"joinNext", "joinEnter"}
  PROVE  TaskOK(c, NextName(t, "joinNext"))
<1>0. PICK u : u = NextName(t, "joinNext")
  OBVIOUS
<1>1. CASE u = Idle
  BY <1>0, <1>1, IdleOK
<1>2. CASE u = [t EXCEPT !.at = "joinNext", !.names = Tail(t.names), !.obj = 0] /\ Tail(t.names) # <<>>
  <2>1. /\ u.at = "joinNext" /\ u.cmd = t.cmd /\ u.nick = t.nick /\ u.spelled = t.spelled /\ u.names # <<>>
        /\ u.target = t.target /\ u.changes = t.changes /\ u.count = t.count
    BY <1>2 DEF Task
  <2>2. TaskOK(c, u)
    BY SMT, <2>1, Serves DEF TaskOK, Knows, LeavesChannels, LeavesGroups, Counts
  <2> QED
    BY <1>0, <2>2
<1> QED
  BY <1>0, <1>1, <1>2, NextNameOK

LEMMA NextLookUpOK ==
  ASSUME NEW c \in Conn, NEW t \in Task, TaskOK(c, t), t.cmd \in {"part", "kick", "mode", "ban", "topic", "invite"},
         t.at \in {"lookup", "check", "clean"}
  PROVE  TaskOK(c, NextName(t, "lookup"))
<1>0. PICK u : u = NextName(t, "lookup")
  OBVIOUS
<1>1. CASE u = Idle
  BY <1>0, <1>1, IdleOK
<1>2. CASE u = [t EXCEPT !.at = "lookup", !.names = Tail(t.names), !.obj = 0] /\ Tail(t.names) # <<>>
  <2>1. /\ u.at = "lookup" /\ u.cmd = t.cmd /\ u.nick = t.nick /\ u.spelled = t.spelled /\ u.names # <<>>
        /\ u.target = t.target /\ u.changes = t.changes /\ u.count = t.count
    BY <1>2 DEF Task
  <2>2. TaskOK(c, u)
    BY <2>1, Serves DEF TaskOK, Knows, LeavesChannels, LeavesGroups, Counts
  <2> QED
    BY <1>0, <2>2
<1> QED
  BY <1>0, <1>1, <1>2, NextNameOK

-----------------------------------------------------------------------------
(* The beginnings of the handlers, and their steps that change nothing      *)

Still == UNCHANGED <<script, session, casing, phase, opers, byName, chan, groups, stale, stray>>

LEMMA OnlyTask ==
  ASSUME ChatInv, NEW c \in Conn, NEW t \in Task, Goto(c, t), TaskOK(c, t), Still,
         sent' \in [Conn -> 0..script.each],
         task[c].at \in {"joinEnter", "clean"} => Members(chan[task[c].obj]) # {}
  PROVE  ChatInv'
<1>1. chan' = chan /\ chan' \in Seq(Channel)
  BY DEF Still, ChatInv, TypeOK
<1> QED
  BY <1>1, TaskStep DEF Still

LEMMA SentOK ==
  ASSUME TypeOK, UNCHANGED sent
  PROVE  sent' \in [Conn -> 0..script.each]
  BY DEF TypeOK

LEMMA CommandsOK ==
  /\ "join" \in Commands /\ {"part", "kick", "mode", "ban", "topic", "invite", "quit", "kill"} \subseteq Commands
  /\ "drop" \in Commands /\ "group" \in Commands
  /\ "joinNext" \in Steps /\ "lookup" \in Steps /\ "listAll" \in Steps /\ "groupList" \in Steps
  /\ "groupAdd" \in Steps
  BY DEF Commands, Steps

LEMMA BeginOK ==
  ASSUME ChatInv, NEW c \in Conn, session[c] \in Nick, NEW cmd \in Commands, NEW step \in Steps
  PROVE  /\ Begin(c, cmd, step) \in Task /\ Spelling(c) \in Spelled
         /\ Begin(c, cmd, step).at = step /\ Begin(c, cmd, step).cmd = cmd
         /\ Begin(c, cmd, step).nick = session[c] /\ Begin(c, cmd, step).spelled = Spelling(c)
<1>1. Spelling(c) \in Spelled
  BY ChatAssumptions DEF ChatInv, Spells, Spelling, Spelled
<1>2. /\ Begin(c, cmd, step).at = step /\ Begin(c, cmd, step).cmd = cmd
      /\ Begin(c, cmd, step).nick = session[c] /\ Begin(c, cmd, step).spelled = Spelling(c)
  BY DEF Begin, Idle
<1> QED
  BY <1>1, <1>2, IdleOK DEF Begin, Task

LEMMA NameListsOK ==
  ASSUME NEW names \in NameLists
  PROVE  names \in Seq(Name) /\ names # <<>>
<1>1. CASE \E a \in Name : names = <<a>>
  BY SMT, <1>1
<1>2. CASE \E p \in {q \in Name \X Name : q[1] # q[2]} : names = <<p[1], p[2]>>
  <2>1. PICK a \in Name, b \in Name : names = <<a, b>>
    BY <1>2
  <2> QED
    BY SMT, <2>1
<1> QED
  BY <1>1, <1>2 DEF NameLists

LEMMA JoinBegins ==
  ASSUME ChatInv, NEW c \in Conn, NEW names \in NameLists, NEW hasKey \in BOOLEAN,
         HandleJoin(c, names, hasKey)
  PROVE  ChatInv'
<1>1. TypeOK /\ Sends(c, "join")
  BY DEF ChatInv, HandleJoin
<1>2. /\ sent' \in [Conn -> 0..script.each]
      /\ task[c].at = "idle" /\ session[c] \in Nick /\ phase[c] = "registered"
  BY <1>1, SendsOK
<1>3. PICK b : b = Begin(c, "join", "joinNext")
  OBVIOUS
<1>4. /\ b \in Task /\ b.at = "joinNext" /\ b.cmd = "join" /\ b.nick = session[c] /\ b.spelled = Spelling(c)
      /\ b.spelled \in Spelled
  BY SMT, <1>2, <1>3, BeginOK, CommandsOK
<1>5. PICK t : t = [b EXCEPT !.names = names, !.hasKey = hasKey, !.count = Cardinality(ChannelsOf(session[c]))]
  OBVIOUS
<1>6. names \in Seq(Name) /\ names # <<>>
  BY NameListsOK
<1>7. Cardinality(ChannelsOf(session[c])) \in Nat /\ Cardinality(Live(session[c])) =< Cardinality(ChannelsOf(session[c]))
  BY <1>1, LiveFinite
<1>8. /\ t \in Task /\ t.at = "joinNext" /\ t.cmd = "join" /\ t.nick = session[c] /\ t.spelled = b.spelled
      /\ t.names = names /\ t.count = Cardinality(ChannelsOf(session[c]))
  BY <1>4, <1>5, <1>6, <1>7 DEF Task
<1>9. TaskOK(c, t)
  BY <1>2, <1>4, <1>6, <1>7, <1>8, Serves DEF TaskOK, Knows, LeavesChannels, LeavesGroups, Counts, Spelling
<1>10. Goto(c, t) /\ Still
  BY <1>3, <1>5 DEF HandleJoin, Still, users
<1> QED
  BY <1>2, <1>8, <1>9, <1>10, OnlyTask

LEMMA AskBegins ==
  ASSUME ChatInv, NEW c \in Conn, NEW cmd \in {"part", "kick", "mode", "ban", "topic", "invite"},
         NEW names \in Seq(Name), names # <<>>, NEW target \in Nick \cup {Nil}, NEW changes \in Seq(Change),
         cmd \in {"mode", "ban"} => changes # <<>>, cmd \in {"part", "kick", "invite"} => target \in Nick,
         Asks(c, cmd, names, target, changes)
  PROVE  ChatInv'
<1>1. TypeOK /\ Sends(c, cmd)
  BY DEF ChatInv, Asks
<1>2. /\ sent' \in [Conn -> 0..script.each]
      /\ task[c].at = "idle" /\ session[c] \in Nick /\ phase[c] = "registered"
  BY <1>1, SendsOK
<1>3. PICK b : b = Begin(c, cmd, "lookup")
  OBVIOUS
<1>4. /\ b \in Task /\ b.at = "lookup" /\ b.cmd = cmd /\ b.nick = session[c] /\ b.spelled = Spelling(c)
      /\ b.spelled \in Spelled
  BY SMT, <1>2, <1>3, BeginOK, CommandsOK
<1>5. PICK t : t = [b EXCEPT !.names = names, !.target = target, !.changes = changes]
  OBVIOUS
<1>6. /\ t \in Task /\ t.at = "lookup" /\ t.cmd = cmd /\ t.nick = session[c] /\ t.spelled = b.spelled
      /\ t.names = names /\ t.target = target /\ t.changes = changes
  BY <1>4, <1>5 DEF Task
<1>7. TaskOK(c, t)
  BY <1>2, <1>4, <1>6, Serves DEF TaskOK, Knows, LeavesChannels, LeavesGroups, Counts, Spelling
<1>8. Goto(c, t) /\ Still
  BY <1>3, <1>5 DEF Asks, Still, users
<1> QED
  BY <1>2, <1>6, <1>7, <1>8, OnlyTask

LEMMA LeaveBegins ==
  ASSUME ChatInv, NEW c \in Conn, NEW v \in Conn,
         (HandleQuit(c) /\ v = c) \/ HandleKill(c, v)
  PROVE  ChatInv'
<1> PICK cmd \in {"quit", "kill"} : Sends(c, cmd) /\ (cmd = "quit" => v = c) /\ session[v] # Nil
      /\ Goto(c, [Begin(c, cmd, "listAll") EXCEPT !.target = session[v], !.victim = v]) /\ Still
  BY DEF HandleQuit, HandleKill, Still, users, Sends
<1>1. TypeOK
  BY DEF ChatInv
<1>2. /\ sent' \in [Conn -> 0..script.each]
      /\ task[c].at = "idle" /\ session[c] \in Nick /\ phase[c] = "registered"
  BY <1>1, SendsOK
<1>3. PICK b : b = Begin(c, cmd, "listAll")
  OBVIOUS
<1>4. /\ b \in Task /\ b.at = "listAll" /\ b.cmd = cmd /\ b.nick = session[c] /\ b.spelled = Spelling(c)
      /\ b.spelled \in Spelled
  BY SMT, <1>2, <1>3, BeginOK, CommandsOK
<1>5. PICK t : t = [b EXCEPT !.target = session[v], !.victim = v]
  OBVIOUS
<1>6. session[v] \in Nick
  BY <1>1 DEF TypeOK
<1>7. /\ t \in Task /\ t.at = "listAll" /\ t.cmd = cmd /\ t.nick = session[c] /\ t.spelled = b.spelled
      /\ t.target = session[v] /\ t.victim = v
  BY <1>4, <1>5, <1>6 DEF Task
<1>8. TaskOK(c, t)
  <2>1. Knows(c, t)
    <3>1. cmd \in Serving("listAll")
      BY Serves
    <3>2. t.spelled = <<t.nick, casing[c]>>
      BY <1>4, <1>7 DEF Spelling
    <3> QED
      BY <1>2, <1>4, <1>6, <1>7, <3>1, <3>2 DEF Knows
  <2>2. LeavesChannels(t) /\ LeavesGroups(t) /\ Counts(c, t)
    BY <1>7 DEF LeavesChannels, LeavesGroups, Counts, Ahead
  <2> QED
    BY <2>1, <2>2 DEF TaskOK
<1> QED
  BY <1>2, <1>3, <1>5, <1>7, <1>8, OnlyTask

LEMMA DropBegins ==
  ASSUME ChatInv, NEW c \in Conn, DropConnection(c)
  PROVE  ChatInv'
<1>1. TypeOK /\ sent' \in [Conn -> 0..script.each]
  BY SentOK DEF ChatInv, DropConnection
<1>2. task[c].at = "idle" /\ session[c] \in Nick /\ phase[c] = "registered"
  BY <1>1 DEF DropConnection, At, TypeOK
<1>3. PICK b : b = Begin(c, "drop", "groupList")
  OBVIOUS
<1>4. /\ b \in Task /\ b.at = "groupList" /\ b.cmd = "drop" /\ b.nick = session[c] /\ b.spelled = Spelling(c)
      /\ b.spelled \in Spelled
  BY SMT, <1>2, <1>3, BeginOK, CommandsOK
<1>5. PICK t : t = [b EXCEPT !.target = session[c], !.victim = c]
  OBVIOUS
<1>7. /\ t \in Task /\ t.at = "groupList" /\ t.cmd = "drop" /\ t.nick = session[c] /\ t.spelled = b.spelled
      /\ t.target = session[c] /\ t.victim = c
  BY <1>2, <1>4, <1>5 DEF Task
<1>8. TaskOK(c, t)
  BY <1>2, <1>4, <1>7, Serves DEF TaskOK, Knows, LeavesChannels, LeavesGroups, Counts, Spelling
<1>9. Goto(c, t) /\ Still
  BY <1>3, <1>5 DEF DropConnection, Still, users
<1> QED
  BY <1>1, <1>2, <1>7, <1>8, <1>9, OnlyTask

LEMMA TaskIs ==
  ASSUME ChatInv, NEW c \in Conn
  PROVE  task[c] \in Task /\ TaskOK(c, task[c]) /\ TypeOK
  BY DEF ChatInv, TypeOK

LEMMA HeadOK ==
  ASSUME NEW S, NEW s \in Seq(S), s # <<>>
  PROVE  Head(s) \in S
  BY SMT

LEMMA LookUpStep ==
  ASSUME ChatInv, NEW c \in Conn, LookUp(c)
  PROVE  ChatInv'
<1>0. PICK t : t = task[c]
  OBVIOUS
<1>1. t \in Task /\ TaskOK(c, t) /\ TypeOK /\ t.at = "lookup" /\ Still /\ UNCHANGED sent
  BY <1>0, TaskIs DEF LookUp, At, Still, users
<1>2. t.cmd \in {"part", "kick", "mode", "ban", "topic", "invite"} /\ t.names # <<>>
  BY <1>1, Serves DEF TaskOK, Knows
<1>3. sent' \in [Conn -> 0..script.each]
  BY <1>1, SentOK
<1>4. CASE Goto(c, NextName(t, "lookup"))
  BY <1>0, <1>1, <1>2, <1>3, <1>4, OnlyTask, NextNameOK, NextLookUpOK
<1>5. ASSUME NEW o, o = byName[Head(t.names)], o # 0, Goto(c, [t EXCEPT !.at = "check", !.obj = o])
      PROVE  ChatInv'
  <2>1. t.names \in Seq(Name)
    BY <1>1 DEF Task
  <2>2. Head(t.names) \in Name
    BY <1>2, <2>1, HeadOK
  <2>3. o \in DOMAIN chan /\ o \in Nat
    BY SMT, <1>1, <1>5, <2>2, ChannelDomain DEF TypeOK
  <2>4. PICK u : u = [t EXCEPT !.at = "check", !.obj = o]
    OBVIOUS
  <2>5. /\ u \in Task /\ u.at = "check" /\ u.obj = o /\ u.cmd = t.cmd /\ u.nick = t.nick /\ u.spelled = t.spelled
        /\ u.target = t.target /\ u.changes = t.changes
    BY <1>1, <2>3, <2>4 DEF Task, Steps
  <2>6. TaskOK(c, u)
    BY <1>1, <1>2, <2>3, <2>5, Serves DEF TaskOK, Knows, LeavesChannels, LeavesGroups, Counts
  <2> QED
    BY <1>0, <1>1, <1>3, <1>5, <2>4, <2>5, <2>6, OnlyTask
<1> QED
  BY <1>0, <1>4, <1>5 DEF LookUp

LEMMA CheckStep ==
  ASSUME ChatInv, NEW c \in Conn, Check(c)
  PROVE  ChatInv'
<1>0. PICK t : t = task[c]
  OBVIOUS
<1>1. t \in Task /\ TaskOK(c, t) /\ TypeOK /\ t.at = "check" /\ Still /\ UNCHANGED sent
  BY <1>0, TaskIs DEF Check, At, Still, users
<1>2. t.cmd \in {"part", "kick", "mode", "ban", "topic", "invite"}
  BY <1>1, Serves DEF TaskOK, Knows
<1>3. sent' \in [Conn -> 0..script.each]
  BY <1>1, SentOK
<1>4. CASE Goto(c, NextName(t, "lookup"))
  BY <1>0, <1>1, <1>2, <1>3, <1>4, OnlyTask, NextNameOK, NextLookUpOK
<1>5. CASE Goto(c, [t EXCEPT !.at = AfterCheck(t.cmd)])
  <2>1. PICK s : s = AfterCheck(t.cmd)
    OBVIOUS
  <2>2. s \in {"remove", "protect", "change"} /\ t.cmd \in Serving(s)
    BY <1>2, <2>1, Serves DEF AfterCheck
  <2>3. PICK u : u = [t EXCEPT !.at = s]
    OBVIOUS
  <2>4. /\ u \in Task /\ u.at = s /\ u.obj = t.obj /\ u.cmd = t.cmd /\ u.nick = t.nick /\ u.spelled = t.spelled
        /\ u.target = t.target /\ u.changes = t.changes /\ u.list = t.list
    BY <1>1, <2>2, <2>3 DEF Task, Steps
  <2>6. TaskOK(c, u)
    BY <1>1, <1>2, <2>2, <2>4 DEF TaskOK, Knows, LeavesChannels, LeavesGroups, Counts
  <2> QED
    BY <1>0, <1>1, <1>3, <1>5, <2>1, <2>3, <2>4, <2>6, OnlyTask
<1> QED
  BY <1>0, <1>4, <1>5 DEF Check

LEMMA ProtectStep ==
  ASSUME ChatInv, NEW c \in Conn, Protect(c)
  PROVE  ChatInv'
<1>0. PICK t : t = task[c]
  OBVIOUS
<1>1. t \in Task /\ TaskOK(c, t) /\ TypeOK /\ t.at = "protect" /\ Still /\ UNCHANGED sent
  BY <1>0, TaskIs DEF Protect, At, Still, users
<1>2. sent' \in [Conn -> 0..script.each]
  BY <1>1, SentOK
<1>3. CASE Goto(c, Idle)
  BY <1>0, <1>1, <1>2, <1>3, OnlyTask, IdleOK
<1>4. CASE Goto(c, [t EXCEPT !.at = "change"])
  <2>1. PICK u : u = [t EXCEPT !.at = "change"]
    OBVIOUS
  <2>2. /\ u \in Task /\ u.at = "change" /\ u.obj = t.obj /\ u.cmd = t.cmd /\ u.nick = t.nick /\ u.spelled = t.spelled
        /\ u.target = t.target /\ u.changes = t.changes
    BY <1>1, <2>1 DEF Task, Steps
  <2>3. TaskOK(c, u)
    BY <1>1, <2>2, Serves DEF TaskOK, Knows, LeavesChannels, LeavesGroups, Counts
  <2> QED
    BY <1>0, <1>1, <1>2, <1>4, <2>1, <2>2, <2>3, OnlyTask
<1> QED
  BY <1>0, <1>3, <1>4 DEF Protect

LEMMA ListAllStep ==
  ASSUME ChatInv, NEW c \in Conn, ListAll(c)
  PROVE  ChatInv'
<1>0. PICK t : t = task[c]
  OBVIOUS
<1>1. t \in Task /\ TaskOK(c, t) /\ TypeOK /\ t.at = "listAll" /\ Still /\ UNCHANGED sent
  BY <1>0, TaskIs DEF ListAll, At, Still, users
<1>2. sent' \in [Conn -> 0..script.each]
  BY <1>1, SentOK
<1>3. Registered \subseteq DOMAIN chan /\ Registered \subseteq Nat
  BY SMT, <1>1, ChannelDomain DEF Registered
<1>4. PICK u : u = [t EXCEPT !.at = "leaveNext", !.list = Registered]
  OBVIOUS
<1>5. /\ u \in Task /\ u.at = "leaveNext" /\ u.cmd = t.cmd /\ u.nick = t.nick /\ u.spelled = t.spelled
      /\ u.target = t.target /\ u.victim = t.victim /\ u.list = Registered
  BY <1>1, <1>3, <1>4 DEF Task, Steps
<1>6. Knows(c, u) /\ LeavesGroups(u) /\ Counts(c, u)
  BY <1>1, <1>3, <1>5, Serves DEF TaskOK, Knows, LeavesGroups, Counts
<1>7. LeavesChannels(u)
  BY <1>1, <1>5 DEF TaskOK, LeavesChannels, Ahead
<1> QED
  BY <1>0, <1>1, <1>2, <1>4, <1>5, <1>6, <1>7, OnlyTask DEF ListAll, TaskOK

LEMMA LeaveNextStep ==
  ASSUME ChatInv, NEW c \in Conn, LeaveNext(c)
  PROVE  ChatInv'
<1>0. PICK t : t = task[c]
  OBVIOUS
<1>1. t \in Task /\ TaskOK(c, t) /\ TypeOK /\ t.at = "leaveNext" /\ Still /\ UNCHANGED sent
  BY <1>0, TaskIs DEF LeaveNext, At, Still, users
<1>2. sent' \in [Conn -> 0..script.each]
  BY <1>1, SentOK
<1>3. t.cmd \in {"quit", "kill"} /\ t.list \subseteq DOMAIN chan
  BY <1>1, Serves DEF TaskOK, Knows
<1>4. ASSUME NEW s, s = IF t.cmd = "quit" THEN "groupList" ELSE "endSession",
             t.list = {}, Goto(c, [t EXCEPT !.at = s])
      PROVE  ChatInv'
  <2>1. PICK u : u = [t EXCEPT !.at = s]
    OBVIOUS
  <2>2. s \in {"groupList", "endSession"} /\ t.cmd \in Serving(s) /\ (t.cmd = "quit" => s = "groupList")
    BY <1>3, <1>4, Serves
  <2>3. /\ u \in Task /\ u.at = s /\ u.cmd = t.cmd /\ u.nick = t.nick /\ u.spelled = t.spelled
        /\ u.target = t.target /\ u.victim = t.victim
    BY <1>1, <2>1, <2>2 DEF Task, Steps
  <2>4. Knows(c, u) /\ LeavesGroups(u) /\ Counts(c, u)
    BY <1>1, <1>3, <2>2, <2>3 DEF TaskOK, Knows, LeavesGroups, Counts
  <2>5. LeavesChannels(u)
    BY <1>1, <1>4, <2>3 DEF TaskOK, LeavesChannels, Ahead
  <2> QED
    BY <1>0, <1>1, <1>2, <1>4, <2>1, <2>3, <2>4, <2>5, OnlyTask DEF TaskOK
<1>5. ASSUME NEW o \in t.list, t.target \in Members(chan[o]),
             Goto(c, [t EXCEPT !.at = "remove", !.obj = o, !.list = t.list \ {o}])
      PROVE  ChatInv'
  <2>1. PICK u : u = [t EXCEPT !.at = "remove", !.obj = o, !.list = t.list \ {o}]
    OBVIOUS
  <2>2. o \in DOMAIN chan /\ o \in Nat
    BY SMT, <1>1, <1>3, ChannelDomain
  <2>3. /\ u \in Task /\ u.at = "remove" /\ u.cmd = t.cmd /\ u.nick = t.nick /\ u.spelled = t.spelled /\ u.obj = o
        /\ u.target = t.target /\ u.victim = t.victim /\ u.list = t.list \ {o}
    BY <1>1, <2>1, <2>2 DEF Task, Steps
  <2>4. Knows(c, u) /\ LeavesGroups(u) /\ Counts(c, u)
    BY <1>1, <1>3, <2>2, <2>3, Serves DEF TaskOK, Knows, LeavesGroups, Counts
  <2>5. LeavesChannels(u)
    BY <1>1, <2>3 DEF TaskOK, LeavesChannels, Ahead
  <2> QED
    BY <1>0, <1>1, <1>2, <1>5, <2>1, <2>3, <2>4, <2>5, OnlyTask DEF TaskOK
<1>6. ASSUME NEW o \in t.list, t.target \notin Members(chan[o]), Goto(c, [t EXCEPT !.list = t.list \ {o}])
      PROVE  ChatInv'
  <2>1. PICK u : u = [t EXCEPT !.list = t.list \ {o}]
    OBVIOUS
  <2>2. /\ u \in Task /\ u.at = "leaveNext" /\ u.cmd = t.cmd /\ u.nick = t.nick /\ u.spelled = t.spelled
        /\ u.target = t.target /\ u.victim = t.victim /\ u.list = t.list \ {o}
    BY <1>1, <2>1 DEF Task
  <2>3. Knows(c, u) /\ LeavesGroups(u) /\ Counts(c, u)
    BY <1>1, <1>3, <2>2, Serves DEF TaskOK, Knows, LeavesGroups, Counts
  <2>4. LeavesChannels(u)
    BY <1>1, <1>6, <2>2 DEF TaskOK, LeavesChannels, Ahead
  <2> QED
    BY <1>0, <1>1, <1>2, <1>6, <2>1, <2>2, <2>3, <2>4, OnlyTask DEF TaskOK
<1> QED
  BY <1>0, <1>4, <1>5, <1>6 DEF LeaveNext

LEMMA ListGroupsStep ==
  ASSUME ChatInv, NEW c \in Conn, ListGroups(c)
  PROVE  ChatInv'
<1>0. PICK t : t = task[c]
  OBVIOUS
<1>1. t \in Task /\ TaskOK(c, t) /\ TypeOK /\ t.at = "groupList" /\ Still /\ UNCHANGED sent
  BY <1>0, TaskIs DEF ListGroups, At, Still, users
<1>2. sent' \in [Conn -> 0..script.each]
  BY <1>1, SentOK
<1>3. PICK l : l = {g \in DOMAIN groups : t.spelled \in GroupMembers(groups[g])}
  OBVIOUS
<1>4. l \subseteq DOMAIN groups /\ l \subseteq Nat
  BY SMT, <1>1, <1>3 DEF TypeOK
<1>5. PICK u : u = [t EXCEPT !.at = "groupNext", !.list = l]
  OBVIOUS
<1>6. /\ u \in Task /\ u.at = "groupNext" /\ u.cmd = t.cmd /\ u.nick = t.nick /\ u.spelled = t.spelled
      /\ u.target = t.target /\ u.victim = t.victim /\ u.list = l
  BY <1>1, <1>4, <1>5 DEF Task, Steps
<1>7. /\ t.cmd \in {"quit", "drop"} /\ t.victim = c /\ session[c] \in {t.nick, Nil}
      /\ t.spelled = <<t.nick, casing[c]>>
  BY <1>1, Serves DEF TaskOK, Knows
<1>8. Knows(c, u) /\ Counts(c, u)
  BY <1>1, <1>4, <1>6, <1>7, Serves DEF TaskOK, Knows, Counts
<1>9. LeavesChannels(u)
  BY <1>1, <1>6 DEF TaskOK, LeavesChannels, Ahead
<1>10. LeavesGroups(u)
  <2>1. Spelling(c) = t.spelled \/ Spelling(c) \notin Spelled
    BY SMT, <1>7, ChatAssumptions DEF Spelling, Spelled
  <2> QED
    BY <1>3, <1>6, <1>7, <2>1 DEF LeavesGroups, GroupMembers
<1> QED
  BY <1>0, <1>1, <1>2, <1>3, <1>5, <1>6, <1>8, <1>9, <1>10, OnlyTask DEF ListGroups, TaskOK

-----------------------------------------------------------------------------
(* What the handlers make of a channel                                      *)

LEMMA EnterOK ==
  ASSUME NEW ch \in Channel, NEW n \in Nick
  PROVE  /\ Enter(ch, n) \in Channel /\ Enter(ch, n).name = ch.name
         /\ Members(Enter(ch, n)) = Members(ch) \cup {n}
<1>1. PICK s : s = IF Members(ch) = {} THEN "operator" ELSE "normal"
  OBVIOUS
<1>2. s \in Status /\ s # "out"
  BY <1>1 DEF Status
<1>3. ch.members \in [Nick -> Status] /\ ch.invited \subseteq Nick
  BY DEF Channel
<1>4. PICK m : m = [ch.members EXCEPT ![n] = s]
  OBVIOUS
<1>5. m \in [Nick -> Status] /\ m[n] = s /\ \A x \in Nick \ {n} : m[x] = ch.members[x]
  BY <1>2, <1>3, <1>4
<1>6. Enter(ch, n) = [ch EXCEPT !.members = m, !.invited = ch.invited \ {n}]
  BY <1>1, <1>4 DEF Enter, Channel
<1>7. Enter(ch, n) \in Channel /\ Enter(ch, n).name = ch.name /\ Enter(ch, n).members = m
  BY <1>3, <1>5, <1>6 DEF Channel
<1> QED
  BY <1>2, <1>5, <1>7 DEF Members

LEMMA LeaveOK ==
  ASSUME NEW ch \in Channel, NEW n \in Nick
  PROVE  /\ Leave(ch, n) \in Channel /\ Leave(ch, n).name = ch.name
         /\ Members(Leave(ch, n)) = Members(ch) \ {n}
<1>1. ch.members \in [Nick -> Status] /\ "out" \in Status
  BY DEF Channel, Status
<1>2. PICK m : m = [ch.members EXCEPT ![n] = "out"]
  OBVIOUS
<1>3. m \in [Nick -> Status] /\ m[n] = "out" /\ \A x \in Nick \ {n} : m[x] = ch.members[x]
  BY <1>1, <1>2
<1>4. Leave(ch, n) = [ch EXCEPT !.members = m]
  BY <1>2 DEF Leave, Channel
<1>5. Leave(ch, n) \in Channel /\ Leave(ch, n).name = ch.name /\ Leave(ch, n).members = m
  BY <1>3, <1>4 DEF Channel
<1> QED
  BY <1>3, <1>5 DEF Members

\* A mode change leaves nobody in or out.
LEMMA ApplyOK ==
  ASSUME NEW ch \in Channel, NEW d \in Change
  PROVE  Apply(ch, d) \in Channel /\ Apply(ch, d).name = ch.name /\ Members(Apply(ch, d)) = Members(ch)
<1>0. PICK a : a = Apply(ch, d)
  OBVIOUS
<1>1. CASE d.mode \in Flag
  <2>1. a = [ch EXCEPT !.flags = SetOrClear(ch.flags, d.mode, d.add)]
    BY <1>0, <1>1 DEF Apply, Channel, Flag
  <2>2. SetOrClear(ch.flags, d.mode, d.add) \in SUBSET Flag
    BY <1>1 DEF SetOrClear, Channel
  <2>3. a \in Channel /\ a.name = ch.name /\ a.members = ch.members
    BY <2>1, <2>2 DEF Channel
  <2> QED
    BY <1>0, <2>3 DEF Members
<1>2. CASE d.mode = "k"
  <2>1. a = [ch EXCEPT !.keyed = d.add] /\ d.add \in BOOLEAN
    BY <1>0, <1>2 DEF Apply, Channel, Flag, Change
  <2>2. a \in Channel /\ a.name = ch.name /\ a.members = ch.members
    BY <2>1 DEF Channel
  <2> QED
    BY <1>0, <2>2 DEF Members
<1>3. CASE d.mode = "l"
  <2>1. PICK x : x = IF d.add THEN d.arg ELSE NoLimit
    OBVIOUS
  <2>2. x \in Nat \cup {NoLimit}
    BY <1>3, <2>1 DEF Change, Flag
  <2>3. a = [ch EXCEPT !.limit = x]
    BY <1>0, <1>3, <2>1 DEF Apply, Channel, Flag
  <2>4. a \in Channel /\ a.name = ch.name /\ a.members = ch.members
    BY <2>2, <2>3 DEF Channel
  <2> QED
    BY <1>0, <2>4 DEF Members
<1>4. CASE d.mode = "b"
  <2>1. d.arg \in Nick
    BY <1>4 DEF Change, Flag
  <2>2. SetOrClear(ch.bans, d.arg, d.add) \in SUBSET Nick
    BY <2>1 DEF SetOrClear, Channel
  <2>3. a = [ch EXCEPT !.bans = SetOrClear(ch.bans, d.arg, d.add)]
    BY <1>0, <1>4 DEF Apply, Channel, Flag
  <2>4. a \in Channel /\ a.name = ch.name /\ a.members = ch.members
    BY <2>2, <2>3 DEF Channel
  <2> QED
    BY <1>0, <2>4 DEF Members
<1>5. CASE d.mode \in {"o", "v"} /\ d.arg \notin Members(ch)
  BY <1>5 DEF Apply, Flag
<1>6. CASE d.mode \in {"o", "v"} /\ d.arg \in Members(ch)
  <2>1. ch.members \in [Nick -> Status] /\ d.arg \in Nick /\ ch.members[d.arg] # "out"
    BY <1>6 DEF Members, Channel
  <2>2. StatusAfter(d) \in Status /\ StatusAfter(d) # "out"
    BY DEF StatusAfter, Status
  <2>3. PICK m : m = [ch.members EXCEPT ![d.arg] = StatusAfter(d)]
    OBVIOUS
  <2>4. m \in [Nick -> Status] /\ m[d.arg] # "out" /\ \A x \in Nick \ {d.arg} : m[x] = ch.members[x]
    BY <2>1, <2>2, <2>3
  <2>5. a = [ch EXCEPT !.members = m]
    BY <1>0, <1>6, <2>3 DEF Apply, Channel, Flag
  <2>6. a \in Channel /\ a.name = ch.name /\ a.members = m
    BY <2>4, <2>5 DEF Channel
  <2> QED
    BY <1>0, <2>1, <2>4, <2>6 DEF Members
<1>7. d.mode \in Flag \/ d.mode \in {"k", "l", "b", "o", "v"}
  BY DEF Change
<1> QED
  BY <1>1, <1>2, <1>3, <1>4, <1>5, <1>6, <1>7

LEMMA ChangedOK ==
  ASSUME NEW t \in Task, t.cmd \in {"mode", "ban", "topic", "invite"},
         t.cmd \in {"mode", "ban"} => t.changes # <<>>, t.nick \in Nick,
         t.cmd = "invite" => t.target \in Nick,
         NEW ch \in Channel, NEW a \in Changed(t, ch)
  PROVE  a \in Channel /\ a.name = ch.name /\ Members(a) = Members(ch)
<1>1. CASE t.cmd \in {"mode", "ban"}
  <2>1. t.changes \in Seq(Change)
    BY DEF Task
  <2>2. Head(t.changes) \in Change
    BY <1>1, <2>1, HeadOK
  <2>3. a = Apply(ch, Head(t.changes))
    BY <1>1 DEF Changed
  <2> QED
    BY <2>2, <2>3, ApplyOK
<1>2. CASE t.cmd = "topic"
  <2>1. PICK who \in {t.nick, Nil} : a = [ch EXCEPT !.topic = who]
    BY <1>2 DEF Changed
  <2>2. a \in Channel /\ a.name = ch.name /\ a.members = ch.members
    BY <2>1 DEF Channel
  <2> QED
    BY <2>2 DEF Members
<1>3. CASE t.cmd = "invite"
  <2>1. a = [ch EXCEPT !.invited = ch.invited \cup {t.target}]
    BY <1>3 DEF Changed, Channel
  <2>2. a \in Channel /\ a.name = ch.name /\ a.members = ch.members
    BY <1>3, <2>1 DEF Channel
  <2> QED
    BY <2>2 DEF Members
<1> QED
  BY <1>1, <1>2, <1>3

LEMMA ChangeStep ==
  ASSUME ChatInv, NEW c \in Conn, ChangeChannel(c)
  PROVE  ChatInv'
<1>0. PICK t : t = task[c]
  OBVIOUS
<1>1. /\ t \in Task /\ TaskOK(c, t) /\ TypeOK /\ t.at = "change" /\ UNCHANGED sent
      /\ UNCHANGED <<script, session, casing, phase, opers, byName, groups, stale, stray>>
  BY <1>0, TaskIs DEF ChangeChannel, At, users
<1>2. sent' \in [Conn -> 0..script.each]
  BY <1>1, SentOK
<1>3. /\ t.cmd \in {"mode", "ban", "topic", "invite"} /\ t.obj \in DOMAIN chan /\ t.nick \in Nick
      /\ (t.cmd \in {"mode", "ban"} => t.changes # <<>>) /\ (t.cmd = "invite" => t.target \in Nick)
  BY <1>1, Serves DEF TaskOK, Knows
<1>4. PICK ch \in Changed(t, chan[t.obj]) : chan' = [chan EXCEPT ![t.obj] = ch]
  BY <1>0 DEF ChangeChannel
<1>5. chan \in Seq(Channel) /\ chan[t.obj] \in Channel
  BY SMT, <1>1, <1>3 DEF TypeOK
<1>6. ch \in Channel /\ ch.name = chan[t.obj].name /\ Members(ch) = Members(chan[t.obj])
  BY <1>1, <1>3, <1>5, ChangedOK
<1>7. /\ chan' \in Seq(Channel) /\ Len(chan') = Len(chan) /\ chan'[t.obj] = ch
      /\ \A o \in DOMAIN chan : o # t.obj => chan'[o] = chan[o]
  BY SMT, <1>3, <1>4, <1>5, <1>6
<1>8. \A o \in DOMAIN chan : chan'[o].name = chan[o].name /\ Members(chan'[o]) = Members(chan[o])
  BY <1>6, <1>7
<1>9. CASE Goto(c, Idle)
  BY <1>0, <1>1, <1>2, <1>7, <1>8, <1>9, TaskStep, IdleOK
<1>10. CASE Len(t.changes) > 1 /\ Goto(c, [t EXCEPT !.changes = Tail(t.changes)])
  <2>1. PICK u : u = [t EXCEPT !.changes = Tail(t.changes)]
    OBVIOUS
  <2>2. t.changes \in Seq(Change)
    BY <1>1 DEF Task
  <2>3. Tail(t.changes) \in Seq(Change) /\ Tail(t.changes) # <<>>
    BY <1>10, <2>2, TailOK
  <2>4. /\ u \in Task /\ u.at = "change" /\ u.obj = t.obj /\ u.cmd = t.cmd /\ u.nick = t.nick /\ u.spelled = t.spelled
        /\ u.target = t.target /\ u.changes # <<>>
    BY <1>1, <2>1, <2>3 DEF Task
  <2>5. TaskOK(c, u)
    BY <1>1, <1>3, <2>4, Serves DEF TaskOK, Knows, LeavesChannels, LeavesGroups, Counts
  <2> QED
    BY <1>0, <1>1, <1>2, <1>7, <1>8, <1>10, <2>1, <2>4, <2>5, TaskStep
<1>11. Len(t.changes) \in Nat
  BY SMT, <1>1 DEF Task
<1> QED
  BY SMT, <1>0, <1>9, <1>10, <1>11 DEF ChangeChannel

-----------------------------------------------------------------------------
(* Channels come and go                                                     *)

LEMMA NewChannelOK ==
  ASSUME NEW name \in Name
  PROVE  NewChannel(name) \in Channel /\ NewChannel(name).name = name /\ Members(NewChannel(name)) = {}
  BY DEF NewChannel, Channel, Status, Members, NoLimit

LEMMA JoinNextStep ==
  ASSUME ChatInv, NEW c \in Conn, JoinNext(c)
  PROVE  ChatInv'
<1>0. PICK t : t = task[c]
  OBVIOUS
<1>1. /\ t \in Task /\ TaskOK(c, t) /\ TypeOK /\ t.at = "joinNext" /\ UNCHANGED sent
      /\ UNCHANGED <<script, session, casing, phase, opers, groups, stale, stray>>
  BY <1>0, TaskIs DEF JoinNext, At, users
<1>2. sent' \in [Conn -> 0..script.each]
  BY <1>1, SentOK
<1>3. t.cmd = "join" /\ t.names # <<>>
  BY <1>1, Serves DEF TaskOK, Knows
<1>4. PICK name : name = Head(t.names)
  OBVIOUS
<1>5. name \in Name
  <2>1. t.names \in Seq(Name)
    BY <1>1 DEF Task
  <2> QED
    BY <1>3, <1>4, <2>1, HeadOK
<1>6. CASE Goto(c, NextName(t, "joinNext")) /\ UNCHANGED <<byName, chan>>
  BY <1>0, <1>1, <1>2, <1>6, OnlyTask, NextNameOK, NextJoinOK DEF Still
<1>7. ASSUME NEW o \in Nat, o \in DOMAIN chan', DOMAIN chan \subseteq DOMAIN chan', t.count < script.max,
             NEW u, u = [t EXCEPT !.at = "joinEnter", !.obj = o]
      PROVE  /\ u \in Task /\ u.at = "joinEnter" /\ u.obj = o
             /\ Knows(c, u)' /\ LeavesChannels(u) /\ LeavesGroups(u) /\ Counts(c, u)
  <2>1. /\ u \in Task /\ u.at = "joinEnter" /\ u.obj = o /\ u.cmd = t.cmd /\ u.nick = t.nick /\ u.spelled = t.spelled
        /\ u.target = t.target /\ u.count = t.count
    BY <1>1, <1>7 DEF Task, Steps
  <2>2. LeavesChannels(u) /\ LeavesGroups(u) /\ Counts(c, u)
    BY <1>1, <1>3, <1>7, <2>1 DEF TaskOK, LeavesChannels, LeavesGroups, Counts
  <2>3. Knows(c, u)'
    BY <1>1, <1>3, <1>7, <2>1, Serves DEF TaskOK, Knows
  <2> QED
    BY <2>1, <2>2, <2>3
<1>8. ASSUME t.count < script.max, byName[name] # 0, UNCHANGED <<byName, chan>>,
             Goto(c, [t EXCEPT !.at = "joinEnter", !.obj = byName[name]])
      PROVE  ChatInv'
  <2>1. byName[name] \in Nat /\ byName[name] \in DOMAIN chan'
    BY SMT, <1>1, <1>5, <1>8, ChannelDomain DEF TypeOK
  <2>2. PICK u : u = [t EXCEPT !.at = "joinEnter", !.obj = byName[name]]
    OBVIOUS
  <2>3. u \in Task /\ Knows(c, u)' /\ LeavesChannels(u) /\ LeavesGroups(u) /\ Counts(c, u)
    BY <1>7, <1>8, <2>1, <2>2
  <2>4. TaskOK(c, u)
    BY <1>1, <1>8, <2>3 DEF TaskOK, Knows
  <2> QED
    BY <1>0, <1>1, <1>2, <1>8, <2>2, <2>3, <2>4, OnlyTask DEF Still
<1>9. ASSUME t.count < script.max, byName[name] = 0, chan' = Append(chan, NewChannel(name)),
             byName' = [byName EXCEPT ![name] = Len(chan) + 1],
             Goto(c, [t EXCEPT !.at = "joinEnter", !.obj = Len(chan) + 1])
      PROVE  ChatInv'
  <2>1. PICK o : o = Len(chan) + 1
    OBVIOUS
  <2>2. NewChannel(name) \in Channel /\ NewChannel(name).name = name /\ Members(NewChannel(name)) = {}
    BY <1>5, NewChannelOK
  <2>3. /\ chan' \in Seq(Channel) /\ Len(chan') = Len(chan) + 1 /\ o \in Nat /\ o \in DOMAIN chan'
        /\ DOMAIN chan' = DOMAIN chan \cup {o} /\ o \notin DOMAIN chan /\ chan'[o] = NewChannel(name)
        /\ \A x \in DOMAIN chan : chan'[x] = chan[x]
    BY SMT, <1>1, <1>9, <2>1, <2>2 DEF TypeOK
  <2>4. PICK u : u = [t EXCEPT !.at = "joinEnter", !.obj = o]
    OBVIOUS
  <2>5. /\ u \in Task /\ u.at = "joinEnter" /\ u.obj = o
        /\ Knows(c, u)' /\ LeavesChannels(u) /\ LeavesGroups(u) /\ Counts(c, u)
    BY <1>7, <1>9, <2>3, <2>4
  <2>6. /\ task' \in [Conn -> Task] /\ task'[c] = u
        /\ \A d \in Conn \ {c} : task'[d] = task[d]
    BY <1>1, <1>9, <2>1, <2>4, <2>5, GotoOK
  <2>7. byName \in [Name -> 0..Len(chan)] /\ Len(chan) \in Nat /\ byName' \in [Name -> 0..Len(chan')]
        /\ byName'[name] = o /\ \A x \in Name \ {name} : byName'[x] = byName[x]
    BY SMT, <1>1, <1>5, <1>9, <2>1, <2>3 DEF TypeOK
  <2>8. TypeOK'
    BY <1>1, <1>2, <2>3, <2>6, <2>7 DEF TypeOK
  <2>9. \A x \in DOMAIN chan : x # 0 /\ chan[x].name \in Name
    <3>1. \A x \in DOMAIN chan : x # 0 /\ chan[x] \in Channel
      BY SMT, <1>1, ChannelDomain DEF TypeOK
    <3> QED
      BY <3>1 DEF Channel
  <2>10. \A x \in DOMAIN chan : x \in Registered' <=> x \in Registered
    BY SMT, <1>9, <2>3, <2>7, <2>9 DEF Registered
  <2>11. EmptyAttended'
    <3> SUFFICES ASSUME NEW x \in Registered', Members(chan'[x]) = {} PROVE Attended(x)'
      BY DEF EmptyAttended
    <3>1. CASE x = o
      BY <3>1, <2>5, <2>6 DEF Attended
    <3>2. CASE x \in Registered
      <4>1. Members(chan[x]) = {}
        BY <2>3, <3>2 DEF Registered
      <4>2. PICK d \in Conn : task[d].at \in {"joinEnter", "clean"} /\ task[d].obj = x
        BY <3>2, <4>1 DEF ChatInv, EmptyAttended, Attended
      <4> QED
        BY <1>0, <1>1, <4>2, <2>6 DEF Attended
    <3> QED
      BY <2>3, <2>10, <3>1, <3>2 DEF Registered
  <2>12. \A d \in Conn : task'[d] = task[d] \/
           (Knows(d, task[d])' /\ LeavesChannels(task'[d]) /\ LeavesGroups(task'[d]) /\ Counts(d, task'[d]))
    <3>1. Knows(c, task[c])'
      BY <2>5, <2>6
    <3> QED
      BY <2>5, <2>6, <3>1
  <2> QED
    BY <1>1, <2>2, <2>3, <2>8, <2>10, <2>11, <2>12, QuietStep
<1>10. t.count \in Nat /\ script.max \in Nat
  BY <1>1, ChatAssumptions DEF Task, TypeOK
<1>11. CASE t.count < script.max
  <2>1. GetOrCreate(name) /\ Goto(c, [t EXCEPT !.at = "joinEnter", !.obj = byName'[name]])
    BY SMT, <1>0, <1>4, <1>10, <1>11 DEF JoinNext
  <2>2. CASE byName[name] # 0
    BY <1>8, <1>11, <2>1, <2>2 DEF GetOrCreate
  <2>3. CASE byName[name] = 0
    <3>1. chan' = Append(chan, NewChannel(name)) /\ byName' = [byName EXCEPT ![name] = Len(chan) + 1]
      BY <2>1, <2>3 DEF GetOrCreate
    <3>2. byName'[name] = Len(chan) + 1
      BY <1>1, <1>5, <3>1 DEF TypeOK
    <3> QED
      BY <1>9, <1>11, <2>1, <2>3, <3>1, <3>2
  <2> QED
    BY <2>2, <2>3
<1> QED
  BY SMT, <1>0, <1>6, <1>10, <1>11 DEF JoinNext

LEMMA CleanUpStep ==
  ASSUME ChatInv, NEW c \in Conn, CleanUp(c)
  PROVE  ChatInv'
<1>0. PICK t : t = task[c]
  OBVIOUS
<1>1. /\ t \in Task /\ TaskOK(c, t) /\ TypeOK /\ t.at = "clean" /\ UNCHANGED sent
      /\ UNCHANGED <<script, session, casing, phase, opers, chan, groups, stale, stray>>
  BY <1>0, TaskIs DEF CleanUp, At, users
<1>2. sent' \in [Conn -> 0..script.each]
  BY <1>1, SentOK
<1>3. t.cmd \in {"part", "kick", "quit", "kill"} /\ t.obj \in DOMAIN chan
  BY <1>1, Serves DEF TaskOK, Knows
<1>4. PICK name : name = chan[t.obj].name
  OBVIOUS
<1>5. name \in Name
  <2>1. chan[t.obj] \in Channel
    BY SMT, <1>1, <1>3 DEF TypeOK
  <2> QED
    BY <1>4, <2>1 DEF Channel
<1>6. RemoveIfEmpty(name)
  BY <1>0, <1>4 DEF CleanUp
<1>7. byName \in [Name -> 0..Len(chan)] /\ byName' \in [Name -> 0..Len(chan')]
      /\ \A x \in Name \ {name} : byName'[x] = byName[x]
  <2>1. byName \in [Name -> 0..Len(chan)] /\ chan' = chan /\ 0 \in 0..Len(chan)
    BY SMT, <1>1, ChannelDomain DEF TypeOK
  <2> QED
    BY <1>5, <1>6, <2>1 DEF RemoveIfEmpty
<1>8. \A o \in DOMAIN chan : o # 0 /\ chan[o].name \in Name
  <2>1. \A o \in DOMAIN chan : o # 0 /\ chan[o] \in Channel
    BY SMT, <1>1, ChannelDomain DEF TypeOK
  <2> QED
    BY <2>1 DEF Channel
\* Of the channels of that name none is registered any more, or the one that is has members.
<1>9. ASSUME NEW o \in DOMAIN chan, chan[o].name = name
      PROVE  /\ Members(chan[o]) # {} => (o \in Registered' <=> o \in Registered)
             /\ Members(chan[o]) = {} => o \notin Registered'
  <2>1. CASE byName[name] = o /\ Members(chan[o]) = {}
    <3>1. byName'[name] = 0
      BY <1>5, <1>6, <1>7, <1>8, <2>1 DEF RemoveIfEmpty
    <3> QED
      BY <1>1, <1>8, <1>9, <2>1, <3>1 DEF Registered
  <2>2. CASE byName[name] = o /\ Members(chan[o]) # {}
    <3>1. byName' = byName
      BY <1>6, <2>2 DEF RemoveIfEmpty
    <3> QED
      BY <1>1, <2>2, <3>1 DEF Registered
  <2>3. CASE byName[name] # o
    <3>1. byName'[name] # o
      BY <1>5, <1>6, <1>7, <1>8, <2>3 DEF RemoveIfEmpty
    <3> QED
      BY <1>1, <1>9, <2>3, <3>1 DEF Registered
  <2> QED
    BY <2>1, <2>2, <2>3
<1>10. \A o \in DOMAIN chan : chan[o].name # name => (o \in Registered' <=> o \in Registered)
  BY <1>1, <1>7, <1>8 DEF Registered
<1>11. ASSUME NEW u \in Task, Goto(c, u), TaskOK(c, u)
       PROVE  ChatInv'
  <2>1. /\ task' \in [Conn -> Task] /\ task'[c] = u
        /\ \A d \in Conn \ {c} : task'[d] = task[d]
    BY <1>1, <1>11, GotoOK
  <2>2. TypeOK'
    BY <1>1, <1>2, <1>7, <2>1 DEF TypeOK
  <2>3. EmptyAttended'
    <3> SUFFICES ASSUME NEW o \in Registered', Members(chan'[o]) = {} PROVE Attended(o)'
      BY DEF EmptyAttended
    <3>1. o \in DOMAIN chan /\ Members(chan[o]) = {}
      BY <1>1 DEF Registered
    <3>2. chan[o].name # name /\ o \in Registered
      BY <1>9, <1>10, <3>1
    <3>3. PICK d \in Conn : task[d].at \in {"joinEnter", "clean"} /\ task[d].obj = o
      BY <3>1, <3>2 DEF ChatInv, EmptyAttended, Attended
    <3>4. d # c
      BY <1>0, <1>4, <3>2, <3>3
    <3> QED
      BY <2>1, <3>3, <3>4 DEF Attended
  <2>4. \A d \in Conn : task'[d] = task[d] \/
          (Knows(d, task[d])' /\ LeavesChannels(task'[d]) /\ LeavesGroups(task'[d]) /\ Counts(d, task'[d]))
    <3>1. Knows(c, task[c])'
      BY SMT, <1>1, <1>11, <2>1 DEF TaskOK, Knows
    <3> QED
      BY <1>11, <2>1, <3>1 DEF TaskOK
  <2> QED
    BY <1>1, <1>9, <1>10, <2>2, <2>3, <2>4, QuietStep
<1>12. CASE t.cmd = "part"
  <2>1. Goto(c, NextName(t, "lookup"))
    BY <1>0, <1>12 DEF CleanUp
  <2> QED
    BY <1>1, <1>11, <1>12, <2>1, NextNameOK, NextLookUpOK
<1>13. CASE t.cmd = "kick"
  <2>1. Goto(c, Idle)
    BY <1>0, <1>13 DEF CleanUp
  <2> QED
    BY <1>11, <2>1, IdleOK
<1>14. CASE t.cmd \in {"quit", "kill"}
  <2>1. PICK u : u = [t EXCEPT !.at = "leaveNext"]
    OBVIOUS
  <2>2. Goto(c, u)
    BY <1>0, <1>14, <2>1 DEF CleanUp
  <2>3. /\ u \in Task /\ u.at = "leaveNext" /\ u.cmd = t.cmd /\ u.nick = t.nick /\ u.spelled = t.spelled
        /\ u.target = t.target /\ u.victim = t.victim /\ u.list = t.list
    BY <1>1, <2>1 DEF Task, Steps
  <2>4. Knows(c, u) /\ LeavesGroups(u) /\ Counts(c, u)
    BY <1>1, <1>14, <2>3, Serves DEF TaskOK, Knows, LeavesGroups, Counts
  <2>5. LeavesChannels(u)
    BY <1>1, <2>3 DEF TaskOK, LeavesChannels, Ahead
  <2> QED
    BY <1>11, <2>2, <2>3, <2>4, <2>5 DEF TaskOK
<1> QED
  BY <1>3, <1>12, <1>13, <1>14

-----------------------------------------------------------------------------
(* Members come and go                                                      *)

LEMMA ChannelReplaced ==
  ASSUME TypeOK, NEW o \in DOMAIN chan, NEW ch \in Channel, ch.name = chan[o].name,
         chan' = [chan EXCEPT ![o] = ch], byName' = byName
  PROVE  /\ chan' \in Seq(Channel) /\ Len(chan') = Len(chan) /\ DOMAIN chan' = DOMAIN chan
         /\ chan'[o] = ch /\ \A x \in DOMAIN chan : x # o => chan'[x] = chan[x]
         /\ Registered' = Registered /\ Registered \subseteq DOMAIN chan
<1>1. chan \in Seq(Channel)
  BY DEF TypeOK
<1>2. /\ chan' \in Seq(Channel) /\ Len(chan') = Len(chan) /\ DOMAIN chan' = DOMAIN chan
      /\ chan'[o] = ch /\ \A x \in DOMAIN chan : x # o => chan'[x] = chan[x]
  BY SMT, <1>1
<1>3. \A x \in DOMAIN chan : chan'[x].name = chan[x].name
  BY <1>2
<1> QED
  BY <1>2, <1>3 DEF Registered

LEMMA SubsetCard ==
  ASSUME NEW S, IsFiniteSet(S), NEW T, T \subseteq S
  PROVE  Cardinality(T) \in Nat /\ Cardinality(S) \in Nat /\ Cardinality(T) =< Cardinality(S)
  BY FS_Subset, FS_CardinalityType

LEMMA OneMoreCard ==
  ASSUME NEW S, IsFiniteSet(S), NEW x, NEW T, T \subseteq S \cup {x}
  PROVE  Cardinality(T) \in Nat /\ Cardinality(S) \in Nat /\ Cardinality(T) =< Cardinality(S) + 1
<1>1. /\ IsFiniteSet(S \cup {x}) /\ Cardinality(S) \in Nat
      /\ Cardinality(S \cup {x}) = IF x \in S THEN Cardinality(S) ELSE Cardinality(S) + 1
  BY FS_AddElement, FS_CardinalityType
<1>2. Cardinality(T) \in Nat /\ Cardinality(T) =< Cardinality(S \cup {x})
  BY <1>1, SubsetCard
<1> QED
  BY SMT, <1>1, <1>2

LEMMA RemoveStep ==
  ASSUME ChatInv, NEW c \in Conn, RemoveFromChannel(c)
  PROVE  ChatInv'
<1>0. PICK t : t = task[c]
  OBVIOUS
<1>1. /\ t \in Task /\ TaskOK(c, t) /\ TypeOK /\ t.at = "remove" /\ UNCHANGED sent
      /\ UNCHANGED <<script, session, casing, phase, opers, byName, groups, stray>>
  BY <1>0, TaskIs DEF RemoveFromChannel, At, users
<1>2. t.cmd \in {"part", "kick", "quit", "kill"} /\ t.obj \in DOMAIN chan /\ t.target \in Nick
  BY <1>1, Serves DEF TaskOK, Knows
<1>3. PICK o, n : o = t.obj /\ n = t.target
  OBVIOUS
<1>4. chan[o] \in Channel /\ o \in DOMAIN chan /\ n \in Nick
  BY SMT, <1>1, <1>2, <1>3 DEF TypeOK
<1>5. /\ Leave(chan[o], n) \in Channel /\ Leave(chan[o], n).name = chan[o].name
      /\ Members(Leave(chan[o], n)) = Members(chan[o]) \ {n}
  BY <1>4, LeaveOK
<1>6. chan' = [chan EXCEPT ![o] = Leave(chan[o], n)] /\ stale' = stale \ {<<"channel", o, n>>}
  BY <1>0, <1>3 DEF RemoveFromChannel
<1>7. /\ chan' \in Seq(Channel) /\ Len(chan') = Len(chan) /\ DOMAIN chan' = DOMAIN chan
      /\ chan'[o] = Leave(chan[o], n) /\ \A x \in DOMAIN chan : x # o => chan'[x] = chan[x]
      /\ Registered' = Registered /\ Registered \subseteq DOMAIN chan
  BY <1>1, <1>4, <1>5, <1>6, ChannelReplaced
<1>8. /\ \A x \in DOMAIN chan : Members(chan'[x]) \subseteq Members(chan[x])
      /\ \A x \in DOMAIN chan : x # o => Members(chan'[x]) = Members(chan[x])
      /\ n \notin Members(chan'[o])
  BY <1>5, <1>7
\* What is still stale are the memberships there still are.
<1>9. ASSUME NEW x \in DOMAIN chan, NEW m, m \in Members(chan'[x])
      PROVE  m \in Members(chan[x]) /\ (<<"channel", x, m>> \in stale' <=> <<"channel", x, m>> \in stale)
  <2>1. <<"channel", x, m>> # <<"channel", o, n>>
    BY <1>8, <1>9
  <2> QED
    BY <1>6, <1>8, <1>9, <2>1
<1>10. \A g, m : <<"group", g, m>> \in stale' <=> <<"group", g, m>> \in stale
  BY <1>6
<1>11. PICK u : u = [t EXCEPT !.at = "clean"]
  OBVIOUS
<1>12. /\ u \in Task /\ u.at = "clean" /\ u.cmd = t.cmd /\ u.nick = t.nick /\ u.spelled = t.spelled /\ u.obj = o
       /\ u.target = t.target /\ u.victim = t.victim /\ u.list = t.list /\ u.changes = t.changes
  BY <1>1, <1>3, <1>11 DEF Task, Steps
<1>13. /\ task' \in [Conn -> Task] /\ task'[c] = u
       /\ \A d \in Conn \ {c} : task'[d] = task[d]
  BY <1>0, <1>1, <1>11, <1>12, GotoOK DEF RemoveFromChannel
<1>14. TypeOK'
  BY <1>1, <1>7, <1>13 DEF TypeOK
<1>15. ASSUME NEW m PROVE Live(m)' \subseteq Live(m) /\ Cardinality(Live(m)') \in Nat /\ Cardinality(Live(m)) \in Nat
                          /\ Cardinality(Live(m)') =< Cardinality(Live(m))
  <2>1. Live(m)' \subseteq Live(m)
    BY <1>7, <1>9 DEF Live, ChannelsOf
  <2>2. IsFiniteSet(Live(m))
    BY <1>1, LiveFinite
  <2> QED
    BY <2>1, <2>2, SubsetCard
<1>16. ASSUME NEW d \in Conn, d # c PROVE TaskOK(d, task[d])'
  <2>0. PICK v : v = task[d]
    OBVIOUS
  <2>1. v = task'[d] /\ TaskOK(d, v) /\ v \in Task
    BY <1>13, <1>16, <2>0, TaskIs
  <2>2. Knows(d, v)' /\ LeavesGroups(v)'
    BY <1>1, <1>7, <1>10, <2>1 DEF TaskOK, Knows, LeavesGroups, Spelling
  <2>3. LeavesChannels(v)'
    BY <1>1, <1>7, <1>9, <2>1 DEF TaskOK, LeavesChannels, Ahead
  <2>4. Counts(d, v)'
    <3>1. v.count \in Nat
      BY <2>1 DEF Task
    <3> QED
      BY SMT, <1>1, <1>15, <2>1, <3>1 DEF TaskOK, Counts
  <2> QED
    BY <2>1, <2>2, <2>3, <2>4 DEF TaskOK
<1>17. TaskOK(c, task[c])'
  <2>1. Knows(c, u)' /\ LeavesGroups(u)' /\ Counts(c, u)'
    BY <1>1, <1>2, <1>4, <1>7, <1>12, Serves DEF TaskOK, Knows, LeavesGroups, Counts, Spelling
  <2>2. LeavesChannels(u)'
    BY <1>1, <1>3, <1>7, <1>8, <1>9, <1>12 DEF TaskOK, LeavesChannels, Ahead
  <2> QED
    BY <1>13, <2>1, <2>2 DEF TaskOK
<1>18. EmptyAttended'
  <2> SUFFICES ASSUME NEW x \in Registered', Members(chan'[x]) = {} PROVE Attended(x)'
    BY DEF EmptyAttended
  <2>1. CASE x = o
    BY <1>12, <1>13, <2>1 DEF Attended
  <2>2. CASE x # o
    <3>1. x \in Registered /\ Members(chan[x]) = {}
      BY <1>7, <1>8, <2>2
    <3>2. PICK d \in Conn : task[d].at \in {"joinEnter", "clean"} /\ task[d].obj = x
      BY <3>1 DEF ChatInv, EmptyAttended, Attended
    <3> QED
      BY <1>0, <1>1, <1>13, <3>2 DEF Attended
  <2> QED
    BY <2>1, <2>2
<1>19. InUse' = InUse /\ Written' = Written
  BY <1>1 DEF InUse, Written, Spelling
<1>20. ChannelUsers' /\ OnlyStraysOrphaned'
  BY <1>1, <1>7, <1>9, <1>19 DEF ChatInv, ChannelUsers, OnlyStraysOrphaned
<1>21. NewHasNone' /\ OwnNicks' /\ Spells' /\ GroupUsers' /\ OneAdmin'
  BY <1>1, <1>10, <1>19 DEF ChatInv, NewHasNone, OwnNicks, Spells, GroupUsers, OneAdmin
<1>22. WithinChannelLimit'
  <2>1. script.max \in Nat /\ script' = script
    BY <1>1, ChatAssumptions DEF TypeOK
  <2>2. \A m \in Nick : Cardinality(Live(m)) =< script.max
    BY DEF ChatInv, WithinChannelLimit, Live
  <2>3. \A m \in Nick : Cardinality(Live(m)') =< script.max
    BY SMT, <1>15, <2>1, <2>2
  <2> QED
    BY <2>1, <2>3 DEF WithinChannelLimit, Live
<1> QED
  BY <1>14, <1>16, <1>17, <1>18, <1>20, <1>21, <1>22 DEF ChatInv

\* An admitted JOIN adds one membership: of the user, or stale if a KILL overtook it.
LEMMA EnterStep ==
  ASSUME ChatInv, NEW c \in Conn, NEW t, t = task[c], At(c, "joinEnter"),
         NEW o, o = t.obj, NEW n, n = t.nick,
         UNCHANGED <<script, sent, session, casing, phase, opers, byName, groups>>,
         n \notin Members(chan[o]), chan' = [chan EXCEPT ![o] = Enter(chan[o], n)],
         Goto(c, NextName([t EXCEPT !.count = t.count + 1], "joinNext")),
         stray' = IF o \in Registered THEN stray ELSE stray \cup {<<o, n>>},
         stale' = IF Killed(c) THEN stale \cup {<<"channel", o, n>>} ELSE stale
  PROVE  ChatInv'
<1>1. t \in Task /\ TaskOK(c, t) /\ TypeOK /\ t.at = "joinEnter"
  BY TaskIs DEF At
<1>2. /\ t.cmd = "join" /\ o \in DOMAIN chan /\ n \in Nick /\ session[c] \in {n, Nil} /\ phase[c] # "new"
      /\ t.count < script.max /\ t.count \in Nat /\ script.max \in Nat
  BY <1>1, Serves, ChatAssumptions DEF TaskOK, Knows, Counts, Task, TypeOK
<1>3. chan[o] \in Channel
  BY SMT, <1>1, <1>2 DEF TypeOK
<1>4. /\ Enter(chan[o], n) \in Channel /\ Enter(chan[o], n).name = chan[o].name
      /\ Members(Enter(chan[o], n)) = Members(chan[o]) \cup {n}
  BY <1>2, <1>3, EnterOK
<1>5. /\ chan' \in Seq(Channel) /\ Len(chan') = Len(chan) /\ DOMAIN chan' = DOMAIN chan
      /\ chan'[o] = Enter(chan[o], n) /\ \A x \in DOMAIN chan : x # o => chan'[x] = chan[x]
      /\ Registered' = Registered /\ Registered \subseteq DOMAIN chan
  BY <1>1, <1>2, <1>4, ChannelReplaced
<1>6. \A x \in DOMAIN chan : \A m : m \in Members(chan'[x]) <=> (m \in Members(chan[x]) \/ (x = o /\ m = n))
  BY <1>4, <1>5
<1>7. stale \subseteq stale' /\ (\A g, m : <<"group", g, m>> \in stale' <=> <<"group", g, m>> \in stale)
  OBVIOUS
<1>8. <<"channel", o, n>> \in stale' \/ (session[c] = n /\ ~Killed(c))
  BY <1>2 DEF Killed
\* The task, with the count kept up.
<1>9. PICK w : w = [t EXCEPT !.count = t.count + 1]
  OBVIOUS
<1>10. /\ w \in Task /\ w.at = "joinEnter" /\ w.cmd = t.cmd /\ w.nick = n /\ w.spelled = t.spelled
       /\ w.count = t.count + 1 /\ w.names = t.names
  <2>1. PICK k \in Nat : k = t.count + 1
    BY SMT, <1>2
  <2>2. w = [t EXCEPT !.count = k]
    BY <1>9, <2>1
  <2> QED
    <3>1. /\ w \in Task /\ w.at = t.at /\ w.cmd = t.cmd /\ w.nick = t.nick /\ w.spelled = t.spelled
          /\ w.count = k /\ w.names = t.names
      BY <1>1, <2>2 DEF Task
    <3> QED
      BY <1>1, <2>1, <3>1
<1>11. PICK u : u = NextName(w, "joinNext")
  OBVIOUS
<1>12. /\ u \in Task
       /\ u = Idle \/ (u = [w EXCEPT !.at = "joinNext", !.names = Tail(w.names), !.obj = 0] /\ Tail(w.names) # <<>>)
  BY <1>10, <1>11, NextNameOK
<1>13. u = Idle \/ (/\ u.at = "joinNext" /\ u.cmd = "join" /\ u.nick = n /\ u.names # <<>>
                    /\ u.spelled = t.spelled /\ u.count = t.count + 1)
  BY <1>2, <1>10, <1>12 DEF Task
<1>14. /\ task' \in [Conn -> Task] /\ task'[c] = u
       /\ \A d \in Conn \ {c} : task'[d] = task[d]
  BY <1>1, <1>9, <1>11, <1>12, GotoOK
<1>15. TypeOK'
  BY <1>1, <1>5, <1>14 DEF TypeOK
<1>16. ASSUME NEW m
       PROVE  /\ IsFiniteSet(Live(m)) /\ Live(m)' \subseteq Live(m) \cup {o}
              /\ (m # n \/ <<"channel", o, n>> \in stale') => Live(m)' \subseteq Live(m)
  <2>1. ASSUME NEW x \in Live(m)' PROVE x \in Live(m) \/ (x = o /\ m = n /\ <<"channel", o, n>> \notin stale')
    <3>1. x \in Registered' /\ m \in Members(chan'[x]) /\ <<"channel", x, m>> \notin stale'
      BY <2>1 DEF Live, ChannelsOf
    <3>2. x \in Registered /\ x \in DOMAIN chan /\ <<"channel", x, m>> \notin stale
      BY <1>5, <1>7, <3>1
    <3> QED
      BY <1>6, <3>1, <3>2 DEF Live, ChannelsOf
  <2>2. IsFiniteSet(Live(m))
    BY <1>1, LiveFinite
  <2> QED
    BY <2>1, <2>2
<1>17. ASSUME NEW m
       PROVE  /\ Cardinality(Live(m)) \in Nat /\ Cardinality(Live(m)') \in Nat
              /\ Cardinality(Live(m)') =< Cardinality(Live(m)) + 1
              /\ (m # n \/ <<"channel", o, n>> \in stale') => Cardinality(Live(m)') =< Cardinality(Live(m))
  BY <1>16, OneMoreCard, SubsetCard
\* Whoever else has the nickname by its session is being killed.
<1>18. ASSUME NEW d \in Conn, session[d] = n PROVE d = c \/ <<"channel", o, n>> \in stale'
  <2>1. n # Nil
    BY <1>2, ChatAssumptions
  <2> QED
    BY <1>8, <1>18, <2>1 DEF ChatInv, OwnNicks
<1>19. ASSUME NEW d \in Conn, d # c PROVE TaskOK(d, task[d])'
  <2>0. PICK v : v = task[d]
    OBVIOUS
  <2>1. v = task'[d] /\ TaskOK(d, v) /\ v \in Task
    BY <1>14, <1>19, <2>0, TaskIs
  <2>2. Knows(d, v)' /\ LeavesGroups(v)'
    BY <1>5, <1>7, <2>1 DEF TaskOK, Knows, LeavesGroups, Spelling
  <2>3. LeavesChannels(v)'
    <3> SUFFICES ASSUME v.cmd \in {"quit", "kill"}, NEW x \in Registered, session[v.victim] \in Members(chan'[x])
                 PROVE  \/ <<"channel", x, session[v.victim]>> \in stale'
                        \/ session[v.victim] = v.target /\ Ahead(v, x)
      BY <1>5 DEF LeavesChannels, Ahead
    <3>1. CASE session[v.victim] \in Members(chan[x])
      BY <1>7, <2>1, <3>1 DEF TaskOK, LeavesChannels
    <3>2. CASE x = o /\ session[v.victim] = n
      <4>1. v.victim \in Conn /\ (v.cmd = "quit" => v.victim = d)
        BY <2>1 DEF TaskOK, Knows
      <4>2. v.cmd = "kill" /\ v.victim = c => Killed(c)
        BY <2>0 DEF Killed
      <4> QED
        BY <1>8, <1>18, <1>19, <3>2, <4>1, <4>2
    <3> QED
      BY <1>5, <1>6, <3>1, <3>2
  <2>4. Counts(d, v)'
    <3>1. v.count \in Nat
      BY <2>1 DEF Task
    <3>2. v.at \in {"joinNext", "joinEnter"} /\ session[d] = v.nick => v.nick # n \/ <<"channel", o, n>> \in stale'
      BY <1>18, <1>19
    <3> QED
      BY SMT, <1>17, <2>1, <3>1, <3>2 DEF TaskOK, Counts
  <2> QED
    BY <2>1, <2>2, <2>3, <2>4 DEF TaskOK
<1>20. TaskOK(c, task[c])'
  <2>1. CASE u = Idle
    <3>1. TaskOK(c, Idle)'
      <4>1. Idle.at = "idle" /\ Idle.cmd = "none"
        BY DEF Idle
      <4> QED
        BY <4>1, Serves DEF TaskOK, Knows, LeavesChannels, LeavesGroups, Counts
    <3> QED
      BY <1>14, <2>1, <3>1
  <2>2. CASE /\ u.at = "joinNext" /\ u.cmd = "join" /\ u.nick = n /\ u.names # <<>>
             /\ u.spelled = t.spelled /\ u.count = t.count + 1
    <3>0. t.spelled \in Spelled /\ t.spelled = <<n, casing[c]>>
      BY <1>1 DEF TaskOK, Knows
    <3>1. Knows(c, u)' /\ LeavesChannels(u)' /\ LeavesGroups(u)'
      BY <1>2, <2>2, <3>0, Serves DEF Knows, LeavesChannels, LeavesGroups
    <3>2. session[c] = n => Cardinality(Live(n)) =< t.count
      BY <1>1 DEF TaskOK, Counts
    <3>3. Counts(c, u)'
      BY SMT, <1>2, <1>17, <2>2, <3>2 DEF Counts
    <3> QED
      BY <1>14, <3>1, <3>3 DEF TaskOK
  <2> QED
    BY <1>13, <2>1, <2>2
<1>21. EmptyAttended'
  <2> SUFFICES ASSUME NEW x \in Registered', Members(chan'[x]) = {} PROVE Attended(x)'
    BY DEF EmptyAttended
  <2>1. x \in Registered /\ x # o /\ Members(chan[x]) = {}
    BY <1>4, <1>5
  <2>2. PICK d \in Conn : task[d].at \in {"joinEnter", "clean"} /\ task[d].obj = x
    BY <2>1 DEF ChatInv, EmptyAttended, Attended
  <2> QED
    BY <1>14, <2>1, <2>2 DEF Attended
<1>22. InUse' = InUse /\ Written' = Written /\ (session[c] = n => n \in InUse)
  BY <1>2, ChatAssumptions DEF InUse, Written, Spelling
<1>23. ChannelUsers'
  <2> SUFFICES ASSUME NEW x \in Registered, NEW m \in Members(chan'[x])
               PROVE  m \in InUse \/ <<"channel", x, m>> \in stale'
    BY <1>5, <1>22 DEF ChannelUsers
  <2>1. x \in DOMAIN chan /\ (m \in Members(chan[x]) \/ (x = o /\ m = n))
    BY <1>5, <1>6
  <2>2. m \in Members(chan[x]) => m \in InUse \/ <<"channel", x, m>> \in stale
    BY DEF ChatInv, ChannelUsers
  <2> QED
    BY <1>7, <1>8, <1>22, <2>1, <2>2
<1>24. OnlyStraysOrphaned'
  <2> SUFFICES ASSUME NEW x \in DOMAIN chan, x \notin Registered, NEW m \in Members(chan'[x])
               PROVE  <<x, m>> \in stray'
    BY <1>5 DEF OnlyStraysOrphaned
  <2>1. m \in Members(chan[x]) \/ (x = o /\ m = n)
    BY <1>6
  <2>2. m \in Members(chan[x]) => <<x, m>> \in stray
    BY DEF ChatInv, OnlyStraysOrphaned
  <2> QED
    BY <2>1, <2>2
<1>25. NewHasNone' /\ OwnNicks' /\ Spells' /\ GroupUsers' /\ OneAdmin'
  BY <1>7, <1>22 DEF ChatInv, NewHasNone, OwnNicks, Spells, GroupUsers, OneAdmin
<1>26. WithinChannelLimit'
  <2>1. \A m \in Nick : Cardinality(Live(m)) =< script.max
    BY DEF ChatInv, WithinChannelLimit, Live
  <2>2. session[c] = n => Cardinality(Live(n)) < script.max
    BY SMT, <1>1, <1>2, <1>17 DEF TaskOK, Counts
  <2>3. \A m \in Nick : Cardinality(Live(m)') =< script.max
    BY SMT, <1>2, <1>8, <1>17, <2>1, <2>2
  <2> QED
    BY <2>3 DEF WithinChannelLimit, Live
<1> QED
  BY <1>15, <1>19, <1>20, <1>21, <1>23, <1>24, <1>25, <1>26 DEF ChatInv

LEMMA JoinEnterStep ==
  ASSUME ChatInv, NEW c \in Conn, JoinEnter(c)
  PROVE  ChatInv'
<1>0. PICK t, o, n : t = task[c] /\ o = t.obj /\ n = t.nick
  OBVIOUS
<1>1. t \in Task /\ TaskOK(c, t) /\ TypeOK /\ t.at = "joinEnter"
  BY <1>0, TaskIs DEF JoinEnter, At
<1>2. CASE n \notin Members(chan[o]) /\ Admits(chan[o], n, t.hasKey)
  BY <1>0, <1>2, EnterStep DEF JoinEnter, users
<1>3. CASE ~(n \notin Members(chan[o]) /\ Admits(chan[o], n, t.hasKey))
  <2>1. Goto(c, NextName(t, "joinNext")) /\ Still /\ UNCHANGED sent
    BY <1>0, <1>3 DEF JoinEnter, Still, users
  <2>2. Members(chan[o]) # {}
    BY <1>3 DEF Admits
  <2>3. sent' \in [Conn -> 0..script.each]
    BY <1>1, <2>1, SentOK
  <2> QED
    BY <1>0, <1>1, <2>1, <2>2, <2>3, OnlyTask, NextNameOK, NextJoinOK
<1> QED
  BY <1>2, <1>3

-----------------------------------------------------------------------------
(* Users come and go                                                        *)

\* The user is who they were, or nobody.
Same(d) == session'[d] \in {session[d], Nil} /\ casing'[d] = casing[d]

\* A nickname that is given up is nobody's, or leaves only stale memberships
\* behind; one that is taken was nobody's.
LEMMA SessionStep ==
  ASSUME ChatInv, TypeOK', NewHasNone', OwnNicks', Spells', ChannelUsers', GroupUsers',
         UNCHANGED <<script, byName, chan, groups, stray>>, stale \subseteq stale',
         \A d \in Conn : \/ task'[d] = Idle /\ task[d].at \notin {"joinEnter", "clean"}
                         \/ task'[d] = task[d] /\ (task[d].at = "idle" \/ Same(d)),
         \A d \in Conn : phase[d] # "new" => phase'[d] # "new",
         \A d \in Conn : session'[d] \in {session[d], Nil} \/ session'[d] \notin InUse
  PROVE  ChatInv'
<1>1. Registered' = Registered /\ \A n : ChannelsOf(n)' = ChannelsOf(n) /\ Live(n)' \subseteq Live(n)
  BY DEF Registered, ChannelsOf, Live
<1>2. TypeOK /\ ChannelUsers /\ GroupUsers
  BY DEF ChatInv
<1>3. ASSUME NEW n PROVE /\ Cardinality(Live(n)') \in Nat /\ Cardinality(Live(n)) \in Nat
                         /\ Cardinality(Live(n)') =< Cardinality(Live(n))
  <2>1. IsFiniteSet(Live(n))
    BY <1>2, LiveFinite
  <2> QED
    BY <1>1, <2>1, SubsetCard
<1>4. ASSUME NEW d \in Conn PROVE TaskOK(d, task[d])'
  <2>1. CASE task'[d] = Idle
    <3>1. Idle.at = "idle" /\ Idle.cmd = "none"
      BY DEF Idle
    <3>2. TaskOK(d, Idle)'
      BY <3>1, Serves DEF TaskOK, Knows, LeavesChannels, LeavesGroups, Counts
    <3> QED
      BY <2>1, <3>2
  <2>2. CASE task'[d] = task[d] /\ (task[d].at = "idle" \/ Same(d))
    <3>0. PICK t : t = task[d]
      OBVIOUS
    <3>1. t \in Task /\ TaskOK(d, t) /\ t = task'[d]
      BY <2>2, <3>0, TaskIs
    <3>2. t.at = "idle" \/ (session'[d] \in {session[d], Nil} /\ casing'[d] = casing[d])
      BY <2>2, <3>0 DEF Same
    <3>3. Knows(d, t)'
      BY <3>1, <3>2 DEF TaskOK, Knows
    <3>4. t.cmd \in {"quit", "kill", "drop"} => t.victim \in Conn
      BY <3>1 DEF TaskOK, Knows
    <3>5. LeavesChannels(t)'
      <4> SUFFICES ASSUME t.cmd \in {"quit", "kill"}, NEW o \in Registered, session'[t.victim] \in Members(chan[o])
                   PROVE  \/ <<"channel", o, session'[t.victim]>> \in stale'
                          \/ session'[t.victim] = t.target /\ Ahead(t, o)
        BY <1>1 DEF LeavesChannels, Ahead
      <4>1. CASE session'[t.victim] = session[t.victim]
        BY <3>1, <4>1 DEF TaskOK, LeavesChannels
      <4>2. CASE session'[t.victim] = Nil
        BY <4>2, ChatAssumptions DEF Members
      <4>3. CASE session'[t.victim] \notin InUse
        BY <1>2, <4>3 DEF ChannelUsers
      <4> QED
        BY <3>4, <4>1, <4>2, <4>3
    <3>8. t.cmd \in {"quit", "drop"} => t.victim = d
      BY <3>1 DEF TaskOK, Knows
    <3>6. LeavesGroups(t)'
      <4> SUFFICES ASSUME t.cmd \in {"quit", "drop"}, t.at \in {"groupNext", "endSession"},
                          NEW g \in DOMAIN groups, Spelling(d)' \in GroupMembers(groups[g])
                   PROVE  \/ <<"group", g, Spelling(d)'>> \in stale'
                          \/ t.at = "groupNext" /\ g \in t.list
        BY <3>8 DEF LeavesGroups
      <4>1. session'[d] \in {session[d], Nil} /\ casing'[d] = casing[d]
        BY <3>2
      <4>2. session'[d] # Nil
        BY SMT, ChatAssumptions DEF GroupMembers, Spelled, Spelling
      <4>3. Spelling(d)' = Spelling(d)
        BY <4>1, <4>2 DEF Spelling
      <4> QED
        BY <3>1, <3>8, <4>3 DEF TaskOK, LeavesGroups
    <3>7. Counts(d, t)'
      <4>1. t.count \in Nat /\ (t.at # "idle" => t.nick \in Nick /\ t.nick # Nil)
        BY <3>1, ChatAssumptions DEF Task, TaskOK, Knows
      <4> QED
        BY SMT, <1>3, <3>1, <3>2, <4>1 DEF TaskOK, Counts
    <3> QED
      BY <3>1, <3>3, <3>5, <3>6, <3>7 DEF TaskOK
  <2> QED
    BY <2>1, <2>2
<1>5. EmptyAttended'
  <2> SUFFICES ASSUME NEW o \in Registered, Members(chan[o]) = {} PROVE Attended(o)'
    BY <1>1 DEF EmptyAttended
  <2>1. PICK d \in Conn : task[d].at \in {"joinEnter", "clean"} /\ task[d].obj = o
    BY DEF ChatInv, EmptyAttended, Attended
  <2> QED
    BY <2>1 DEF Attended
<1>6. OnlyStraysOrphaned' /\ OneAdmin'
  BY <1>1 DEF ChatInv, OnlyStraysOrphaned, OneAdmin
<1>7. WithinChannelLimit'
  <2>1. script.max \in Nat
    BY <1>2, ChatAssumptions DEF TypeOK
  <2>2. \A m \in Nick : Cardinality(Live(m)) =< script.max
    BY DEF ChatInv, WithinChannelLimit, Live
  <2>3. \A m \in Nick : Cardinality(Live(m)') =< script.max
    BY SMT, <1>3, <2>1, <2>2
  <2> QED
    BY <2>3 DEF WithinChannelLimit, Live
<1> QED
  BY <1>4, <1>5, <1>6, <1>7 DEF ChatInv

LEMMA SessionFacts ==
  ASSUME ChatInv, NEW c \in Conn
  PROVE  /\ session[c] \in Nick \cup {Nil} /\ (session[c] # Nil => session[c] \in InUse)
         /\ \A n \in InUse : n \in Nick /\ n # Nil /\ \E d \in Conn : session[d] = n
         /\ \A d \in Conn : session[d] = session[c] /\ session[c] # Nil => d = c
  BY SMT DEF ChatInv, TypeOK, InUse, OwnNicks

\* What is in use as it is written is what some session writes.
LEMMA WrittenIs ==
  ASSUME NEW m
  PROVE  m \in Written <=> \E d \in Conn : session[d] # Nil /\ m = Spelling(d)
  BY DEF Written

LEMMA RegisterStep ==
  ASSUME ChatInv, NEW c \in Conn, NEW n \in Nick, NEW k \in script.casings, CompleteRegistration(c, n, k)
  PROVE  ChatInv'
<1>1. /\ TypeOK /\ phase[c] = "new" /\ n \notin InUse /\ n # Nil
      /\ UNCHANGED <<script, sent, opers, task, byName, chan, groups, stale, stray>>
  BY ChatAssumptions DEF CompleteRegistration, ChatInv
<1>0. k \in Casing
  BY <1>1, ChatAssumptions DEF TypeOK
<1>2. session[c] = Nil /\ task[c].at = "idle"
  <2>1. Knows(c, task[c])
    BY TaskIs DEF TaskOK
  <2> QED
    BY <1>1, <2>1 DEF ChatInv, NewHasNone, Knows
<1>3. /\ session' \in [Conn -> Nick \cup {Nil}] /\ session'[c] = n
      /\ \A d \in Conn \ {c} : session'[d] = session[d]
      /\ casing' \in [Conn -> Casing \cup {Nil}] /\ casing'[c] = k
      /\ \A d \in Conn \ {c} : casing'[d] = casing[d]
      /\ phase' \in [Conn -> {"new", "registered", "closed"}] /\ phase'[c] = "registered"
      /\ \A d \in Conn \ {c} : phase'[d] = phase[d]
  BY <1>0, <1>1 DEF CompleteRegistration, TypeOK
<1>4. TypeOK'
  BY <1>1, <1>3 DEF TypeOK
<1>5. NewHasNone' /\ OwnNicks' /\ Spells'
  <2>1. \A d \in Conn : session[d] # n
    BY <1>1, SessionFacts
  <2>2. Spells'
    BY <1>0, <1>3 DEF ChatInv, Spells
  <2> QED
    BY SMT, <1>3, <2>1, <2>2 DEF ChatInv, NewHasNone, OwnNicks
<1>8. ASSUME NEW m \in Written PROVE m \in Written'
  <2>1. PICK d \in Conn : session[d] # Nil /\ m = Spelling(d)
    BY <1>8, WrittenIs
  <2>2. session'[d] # Nil /\ m = Spelling(d)'
    BY <1>2, <1>3, <2>1 DEF Spelling
  <2> QED
    BY <2>2 DEF Written
<1>6. InUse \subseteq InUse'
  <2> SUFFICES ASSUME NEW m \in InUse PROVE m \in InUse'
    OBVIOUS
  <2>1. PICK d \in Conn : session[d] = m /\ m # Nil
    BY SessionFacts
  <2> QED
    BY <1>2, <1>3, <2>1 DEF InUse
<1>7. ChannelUsers' /\ GroupUsers'
  <2>1. Registered' = Registered
    BY <1>1 DEF Registered
  <2> QED
    BY <1>1, <1>6, <1>8, <2>1 DEF ChatInv, ChannelUsers, GroupUsers
<1> QED
  BY <1>1, <1>2, <1>3, <1>4, <1>5, <1>7, SessionStep DEF Same

\* What the old nickname was in is stale from now on.
LEMMA NickStep ==
  ASSUME ChatInv, NEW c \in Conn, NEW n \in Nick, NEW k \in script.casings, HandleNickChange(c, n, k)
  PROVE  ChatInv'
<1>1. /\ TypeOK /\ Sends(c, "nick") /\ n \notin InUse \ {session[c]} /\ n # Nil
      /\ UNCHANGED <<script, phase, opers, task, byName, chan, groups, stray>>
      /\ stale \subseteq stale'
      /\ n # session[c] => Memberships(session[c]) \subseteq stale'
      /\ <<n, k>> # Spelling(c) => GroupMemberships(Spelling(c)) \subseteq stale'
  BY ChatAssumptions DEF HandleNickChange, ChatInv
<1>2. /\ sent' \in [Conn -> 0..script.each]
      /\ task[c].at = "idle" /\ session[c] \in Nick /\ phase[c] = "registered"
  BY <1>1, SendsOK
<1>0. k \in Casing
  BY <1>1, ChatAssumptions DEF TypeOK
<1>3. /\ session' \in [Conn -> Nick \cup {Nil}] /\ session'[c] = n
      /\ \A d \in Conn \ {c} : session'[d] = session[d]
      /\ casing' \in [Conn -> Casing \cup {Nil}] /\ casing'[c] = k
      /\ \A d \in Conn \ {c} : casing'[d] = casing[d]
  BY <1>0, <1>1 DEF HandleNickChange, TypeOK
<1>4. TypeOK'
  BY <1>1, <1>2, <1>3 DEF TypeOK
<1>5. NewHasNone' /\ OwnNicks' /\ Spells'
  <2>1. \A d \in Conn : session[d] = n => d = c
    BY <1>1, SessionFacts
  <2>2. Spells'
    BY <1>0, <1>3 DEF ChatInv, Spells
  <2>3. OwnNicks'
    BY <1>3, <2>1 DEF ChatInv, OwnNicks
  <2> QED
    BY <1>1, <1>2, <1>3, <2>2, <2>3 DEF ChatInv, NewHasNone
<1>6. ASSUME NEW m \in InUse PROVE m \in InUse' \/ (m = session[c] /\ n # session[c])
  <2>1. PICK d \in Conn : session[d] = m /\ m # Nil
    BY <1>6, SessionFacts
  <2> QED
    BY <1>3, <2>1 DEF InUse
<1>8. ASSUME NEW m \in Written PROVE m \in Written' \/ (m = Spelling(c) /\ <<n, k>> # Spelling(c))
  <2>1. PICK d \in Conn : session[d] # Nil /\ m = Spelling(d)
    BY <1>8, WrittenIs
  <2>2. CASE d # c
    <3>1. session'[d] # Nil /\ m = Spelling(d)'
      BY <1>3, <2>1, <2>2 DEF Spelling
    <3> QED
      BY <3>1 DEF Written
  <2>3. CASE d = c /\ <<n, k>> = Spelling(c)
    <3>1. session'[c] # Nil /\ m = Spelling(c)'
      BY <1>1, <1>3, <2>1, <2>3 DEF Spelling
    <3> QED
      BY <3>1 DEF Written
  <2> QED
    BY <2>1, <2>2, <2>3
<1>7. ChannelUsers' /\ GroupUsers'
  <2>1. Registered' = Registered /\ Registered \subseteq DOMAIN chan
    BY <1>1 DEF Registered
  <2>2. ASSUME n # session[c], NEW o \in Registered, session[c] \in Members(chan[o])
        PROVE  <<"channel", o, session[c]>> \in stale'
    BY <1>1, <2>1, <2>2 DEF Memberships
  <2>3. ASSUME <<n, k>> # Spelling(c), NEW g \in DOMAIN groups, Spelling(c) \in GroupMembers(groups[g])
        PROVE  <<"group", g, Spelling(c)>> \in stale'
    BY <1>1, <2>3 DEF GroupMemberships
  <2>4. ChannelUsers'
    BY <1>1, <1>6, <2>1, <2>2 DEF ChatInv, ChannelUsers
  <2>5. GroupUsers'
    BY <1>1, <1>8, <2>3 DEF ChatInv, GroupUsers
  <2> QED
    BY <2>4, <2>5
<1>9. \A d \in Conn : session'[d] \in {session[d], Nil} \/ session'[d] \notin InUse
  BY <1>1, <1>3
<1> QED
  BY <1>1, <1>2, <1>3, <1>4, <1>5, <1>7, <1>9, SessionStep DEF Same

LEMMA OperStep ==
  ASSUME ChatInv, NEW c \in Conn, NEW on \in BOOLEAN, HandleOper(c, on)
  PROVE  ChatInv'
<1>1. /\ TypeOK /\ Sends(c, "oper") /\ opers' = SetOrClear(opers, c, on)
      /\ UNCHANGED <<script, session, casing, phase, task, byName, chan, groups, stale, stray>>
  BY DEF HandleOper, ChatInv
<1>2. sent' \in [Conn -> 0..script.each]
  BY <1>1, SendsOK
<1>3. TypeOK'
  BY <1>1, <1>2 DEF TypeOK, SetOrClear
<1>4. NewHasNone' /\ OwnNicks' /\ Spells' /\ ChannelUsers'
  BY <1>1 DEF ChatInv, NewHasNone, OwnNicks, Spells, ChannelUsers, Registered, InUse
<1>5. GroupUsers'
  BY <1>1 DEF ChatInv, GroupUsers, Written, Spelling
<1> QED
  BY <1>1, <1>3, <1>4, <1>5, SessionStep DEF Same

LEMMA CloseStep ==
  ASSUME ChatInv, NEW c \in Conn, CloseKilled(c)
  PROVE  ChatInv'
<1>1. /\ TypeOK /\ session[c] = Nil /\ phase' = [phase EXCEPT ![c] = "closed"]
      /\ UNCHANGED <<script, sent, session, casing, opers, task, byName, chan, groups, stale, stray>>
  BY DEF CloseKilled, ChatInv
<1>2. /\ phase' \in [Conn -> {"new", "registered", "closed"}] /\ phase'[c] = "closed"
      /\ \A d \in Conn \ {c} : phase'[d] = phase[d]
  BY <1>1 DEF TypeOK
<1>3. TypeOK'
  BY <1>1, <1>2 DEF TypeOK
<1>4. NewHasNone' /\ OwnNicks' /\ Spells' /\ ChannelUsers'
  <2>1. NewHasNone' /\ OwnNicks' /\ Spells'
    BY <1>1, <1>2 DEF ChatInv, NewHasNone, OwnNicks, Spells
  <2>2. ChannelUsers'
    BY <1>1 DEF ChatInv, ChannelUsers, Registered, InUse
  <2> QED
    BY <2>1, <2>2
<1>5. GroupUsers'
  BY <1>1 DEF ChatInv, GroupUsers, Written, Spelling
<1> QED
  BY <1>1, <1>2, <1>3, <1>4, <1>5, SessionStep DEF Same

\* Whatever the user is still in has been declared stale, or is from now on.
LEMMA EndSessionStep ==
  ASSUME ChatInv, NEW c \in Conn, EndSession(c)
  PROVE  ChatInv'
<1>0. PICK t : t = task[c]
  OBVIOUS
<1>1. /\ t \in Task /\ TaskOK(c, t) /\ TypeOK /\ t.at = "endSession"
      /\ UNCHANGED <<script, sent, casing, byName, chan, groups, stray>>
      /\ session' = [session EXCEPT ![t.victim] = Nil] /\ opers' = opers \ {t.victim}
      /\ phase' = IF t.cmd = "kill" THEN phase ELSE [phase EXCEPT ![c] = "closed"]
      /\ Goto(c, Idle)
  BY <1>0, TaskIs DEF EndSession, At
<1>2. stale' = stale \cup (IF t.cmd = "drop" THEN Memberships(t.target) ELSE {})
                    \cup (IF t.cmd = "kill" THEN GroupMemberships(Spelling(t.victim)) ELSE {})
  BY <1>0 DEF EndSession
<1>3. /\ t.cmd \in {"quit", "kill", "drop"} /\ t.victim \in Conn
      /\ t.cmd \in {"quit", "drop"} => session[t.victim] \in {t.target, Nil}
  BY <1>1, Serves DEF TaskOK, Knows
<1>4. PICK v \in Conn, m \in Nick \cup {Nil} : v = t.victim /\ m = session[v]
  BY <1>1, <1>3 DEF TypeOK
<1>5. /\ session' \in [Conn -> Nick \cup {Nil}] /\ session'[v] = Nil
      /\ \A d \in Conn \ {v} : session'[d] = session[d]
  BY <1>1, <1>4 DEF TypeOK
<1>6. /\ phase' \in [Conn -> {"new", "registered", "closed"}]
      /\ \A d \in Conn : phase'[d] \in {phase[d], "closed"}
  BY <1>1 DEF TypeOK
<1>7. /\ task' \in [Conn -> Task] /\ task'[c] = Idle
      /\ \A d \in Conn \ {c} : task'[d] = task[d]
  BY <1>1, GotoOK, IdleOK
<1>8. TypeOK'
  BY <1>1, <1>5, <1>6, <1>7 DEF TypeOK
<1>9. NewHasNone' /\ OwnNicks' /\ Spells'
  BY <1>1, <1>5, <1>6 DEF ChatInv, NewHasNone, OwnNicks, Spells
<1>10. ASSUME NEW x \in InUse PROVE x \in InUse' \/ x = m
  <2>1. PICK d \in Conn : session[d] = x /\ x # Nil
    BY <1>10, SessionFacts
  <2> QED
    BY <1>4, <1>5, <2>1 DEF InUse
<1>20. ASSUME NEW x \in Written PROVE x \in Written' \/ x = Spelling(v)
  <2>1. PICK d \in Conn : session[d] # Nil /\ x = Spelling(d)
    BY <1>20, WrittenIs
  <2>2. CASE d # v
    <3>1. session'[d] # Nil /\ x = Spelling(d)'
      BY <1>1, <1>5, <2>1, <2>2 DEF Spelling
    <3> QED
      BY <3>1 DEF Written
  <2> QED
    BY <2>1, <2>2
<1>11. stale \subseteq stale'
  BY <1>2
<1>12. Registered' = Registered /\ Registered \subseteq DOMAIN chan
  BY <1>1 DEF Registered
<1>13. ASSUME NEW o \in Registered, m \in Members(chan[o]) PROVE <<"channel", o, m>> \in stale'
  <2>1. m # Nil /\ o \in DOMAIN chan
    BY <1>12, <1>13, ChatAssumptions DEF Members
  <2>2. CASE t.cmd = "drop"
    <3>1. m = t.target
      BY <1>3, <1>4, <2>1, <2>2
    <3>2. <<"channel", o, m>> \in Memberships(t.target)
      BY <1>13, <2>1, <3>1 DEF Memberships
    <3> QED
      BY <1>2, <2>2, <3>2
  <2>3. CASE t.cmd \in {"quit", "kill"}
    BY <1>1, <1>4, <1>11, <1>13, <2>3 DEF TaskOK, LeavesChannels, Ahead
  <2> QED
    BY <1>3, <2>2, <2>3
<1>14. ASSUME NEW g \in DOMAIN groups, Spelling(v) \in GroupMembers(groups[g])
       PROVE  <<"group", g, Spelling(v)>> \in stale'
  <2>1. CASE t.cmd = "kill"
    <3>1. <<"group", g, Spelling(v)>> \in GroupMemberships(Spelling(t.victim))
      BY <1>4, <1>14 DEF GroupMemberships
    <3> QED
      BY <1>2, <2>1, <3>1
  <2>2. CASE t.cmd \in {"quit", "drop"}
    BY <1>1, <1>4, <1>11, <1>14, <2>2 DEF TaskOK, LeavesGroups
  <2> QED
    BY <1>3, <2>1, <2>2
<1>15. ChannelUsers'
  BY <1>1, <1>10, <1>11, <1>12, <1>13 DEF ChatInv, ChannelUsers
<1>16. GroupUsers'
  BY <1>1, <1>11, <1>14, <1>20 DEF ChatInv, GroupUsers
<1>17. \A d \in Conn : session'[d] \in {session[d], Nil}
  BY <1>5
<1>18. \A d \in Conn : \/ task'[d] = Idle /\ task[d].at \notin {"joinEnter", "clean"}
                       \/ task'[d] = task[d] /\ (task[d].at = "idle" \/ Same(d))
  BY <1>0, <1>1, <1>7, <1>17 DEF Same
<1>19. \A d \in Conn : phase[d] # "new" => phase'[d] # "new"
  BY <1>6
<1> QED
  BY <1>1, <1>8, <1>9, <1>11, <1>15, <1>16, <1>17, <1>18, <1>19, SessionStep

-----------------------------------------------------------------------------
(* Groups                                                                   *)

OneAdminIn(g) == GroupMembers(g) # {} => \E a \in GroupMembers(g) : g.admins = {a}

\* A departure takes one member out, and the admin's role passes to a member
\* whom nobody has a smaller joined_at than.
LEMMA RemoveMemberOK ==
  ASSUME NEW g \in Group, NEW n \in Spelled, NEW left \in RemoveMember(g, n), OneAdminIn(g)
  PROVE  /\ left \in Group /\ GroupMembers(left) = GroupMembers(g) \ {n} /\ OneAdminIn(left)
         /\ SucceedsAdmin(g, left)
<1>1. g.joined \in [Spelled -> Nat \cup {Out}] /\ g.admins \subseteq Spelled
  BY DEF Group
<1>2. PICK j : j = [g.joined EXCEPT ![n] = Out]
  OBVIOUS
<1>3. j \in [Spelled -> Nat \cup {Out}] /\ j[n] = Out /\ \A m \in Spelled \ {n} : j[m] = g.joined[m]
  BY <1>1, <1>2
<1>4. PICK rest : rest = [joined |-> j, admins |-> g.admins \ {n}]
  OBVIOUS
<1>5. rest \in Group /\ rest.joined = j /\ rest.admins = g.admins \ {n}
  BY <1>1, <1>3, <1>4 DEF Group
<1>6. \A x \in Group : x.joined = j => GroupMembers(x) = GroupMembers(g) \ {n}
  BY <1>3 DEF GroupMembers
<1>7. CASE n \in g.admins /\ GroupMembers(rest) # {}
  <2>1. PICK m \in LongestTenured(g, n) : left = [rest EXCEPT !.admins = (g.admins \ {n}) \cup {m}]
    BY <1>2, <1>4, <1>7 DEF RemoveMember
  <2>2. m \in GroupMembers(g) \ {n} /\ \A o \in GroupMembers(g) \ {n} : g.joined[m] =< g.joined[o]
    BY DEF LongestTenured
  <2>3. m \in Spelled
    BY <2>2 DEF GroupMembers
  <2>4. left \in Group /\ left.joined = j /\ left.admins = (g.admins \ {n}) \cup {m}
    BY <1>1, <1>5, <2>1, <2>3 DEF Group
  <2>5. GroupMembers(left) = GroupMembers(g) \ {n}
    BY <1>6, <2>4
  <2>6. g.admins = {n}
    BY <1>7, <2>2 DEF OneAdminIn
  <2>7. left.admins = {m}
    BY <2>4, <2>6
  <2>8. \A o \in GroupMembers(left) : left.joined[m] =< left.joined[o]
    BY <1>3, <2>2, <2>3, <2>4, <2>5 DEF GroupMembers
  <2>9. SucceedsAdmin(g, left)
    BY <2>5, <2>6, <2>7, <2>8 DEF SucceedsAdmin
  <2> QED
    BY <2>2, <2>4, <2>5, <2>7, <2>9 DEF OneAdminIn
<1>8. CASE ~(n \in g.admins /\ GroupMembers(rest) # {})
  <2>1. left = rest
    BY <1>2, <1>4, <1>8 DEF RemoveMember
  <2>2. GroupMembers(left) = GroupMembers(g) \ {n} /\ left.admins = g.admins \ {n}
    BY <1>5, <1>6, <2>1
  <2>3. GroupMembers(left) # {} => n \notin g.admins
    BY <1>8, <2>1
  <2>4. OneAdminIn(left)
    BY <2>2, <2>3 DEF OneAdminIn
  <2>5. SucceedsAdmin(g, left)
    BY <2>2, <2>3 DEF SucceedsAdmin
  <2> QED
    BY <1>5, <2>1, <2>2, <2>4, <2>5
<1> QED
  BY <1>7, <1>8

LEMMA AddMemberOK ==
  ASSUME NEW g \in Group, NEW n \in Spelled, NEW now \in Nat, OneAdminIn(g), CanAdd(g, n)
  PROVE  /\ AddMember(g, n, now) \in Group /\ GroupMembers(AddMember(g, n, now)) = GroupMembers(g) \cup {n}
         /\ OneAdminIn(AddMember(g, n, now)) /\ AddMember(g, n, now).admins = g.admins
<1>1. g.joined \in [Spelled -> Nat \cup {Out}] /\ g.admins \subseteq Spelled /\ now # Out
  BY SMT DEF Group, Out
<1>2. PICK j : j = [g.joined EXCEPT ![n] = now]
  OBVIOUS
<1>3. j \in [Spelled -> Nat \cup {Out}] /\ j[n] = now /\ \A m \in Spelled \ {n} : j[m] = g.joined[m]
  BY <1>1, <1>2
<1>4. PICK h : h = AddMember(g, n, now)
  OBVIOUS
<1>5. h \in Group /\ h.joined = j /\ h.admins = g.admins
  BY <1>1, <1>2, <1>3, <1>4 DEF AddMember, Group
<1>6. GroupMembers(h) = GroupMembers(g) \cup {n}
  BY <1>1, <1>3, <1>5 DEF GroupMembers
<1>7. OneAdminIn(h)
  BY <1>5, <1>6 DEF OneAdminIn, CanAdd
<1> QED
  BY <1>4, <1>5, <1>6, <1>7

LEMMA GroupsStep ==
  ASSUME ChatInv, TypeOK', GroupUsers', OneAdmin',
         UNCHANGED <<script, session, casing, phase, byName, chan, stray>>, DOMAIN groups \subseteq DOMAIN groups',
         \A o, n : <<"channel", o, n>> \in stale' <=> <<"channel", o, n>> \in stale,
         \A d \in Conn : LeavesGroups(task[d])',
         \A d \in Conn : task'[d] = task[d] \/
             (/\ task[d].at \notin {"joinEnter", "clean"}
              /\ Knows(d, task[d])' /\ LeavesChannels(task'[d]) /\ Counts(d, task'[d]))
  PROVE  ChatInv'
<1>1. Registered' = Registered /\ InUse' = InUse
      /\ \A n : ChannelsOf(n)' = ChannelsOf(n) /\ Live(n)' = Live(n)
  BY DEF Registered, InUse, ChannelsOf, Live
<1>2. ASSUME NEW d \in Conn PROVE TaskOK(d, task[d])'
  <2>0. PICK t : t = task'[d]
    OBVIOUS
  <2>1. LeavesChannels(t) /\ Counts(d, t)
    BY <2>0 DEF ChatInv, TaskOK
  <2>2. Knows(d, task[d])'
    <3>1. CASE t = task[d]
      <4>1. Knows(d, t)
        BY <3>1, TaskIs DEF TaskOK
      <4>2. Knows(d, t)'
        BY <4>1 DEF Knows
      <4> QED
        BY <2>0, <4>2
    <3> QED
      BY <2>0, <3>1
  <2>3. LeavesChannels(t)' /\ Counts(d, t)'
    BY <1>1, <2>1 DEF LeavesChannels, Ahead, Counts
  <2>4. LeavesGroups(task[d])'
    OBVIOUS
  <2> QED
    BY <2>0, <2>2, <2>3, <2>4 DEF TaskOK
<1>3. EmptyAttended'
  <2> SUFFICES ASSUME NEW o \in Registered, Members(chan[o]) = {} PROVE Attended(o)'
    BY <1>1 DEF EmptyAttended
  <2>1. PICK d \in Conn : task[d].at \in {"joinEnter", "clean"} /\ task[d].obj = o
    BY DEF ChatInv, EmptyAttended, Attended
  <2> QED
    BY <2>1 DEF Attended
<1>4. NewHasNone' /\ OwnNicks' /\ Spells' /\ OnlyStraysOrphaned' /\ ChannelUsers'
  BY <1>1 DEF ChatInv, NewHasNone, OwnNicks, Spells, OnlyStraysOrphaned, ChannelUsers
<1>5. WithinChannelLimit'
  BY <1>1 DEF ChatInv, WithinChannelLimit, Live
<1> QED
  BY <1>2, <1>3, <1>4, <1>5 DEF ChatInv

LEMMA GroupFacts ==
  ASSUME ChatInv
  PROVE  /\ groups \in Seq(Group) /\ DOMAIN groups = 1..Len(groups) /\ Len(groups) \in Nat
         /\ \A g \in DOMAIN groups : groups[g] \in Group /\ OneAdminIn(groups[g])
<1>1. groups \in Seq(Group)
  BY DEF ChatInv, TypeOK
<1>2. \A g \in DOMAIN groups : OneAdminIn(groups[g])
  BY DEF ChatInv, OneAdmin, OneAdminIn
<1> QED
  BY SMT, <1>1, <1>2

\* The users of a group, and who they are.
LEMMA SpellingFacts ==
  ASSUME ChatInv, NEW c \in Conn
  PROVE  /\ session[c] # Nil => Spelling(c) \in Spelled /\ Spelling(c) \in Written
         /\ session[c] = Nil => Spelling(c) \notin Spelled
         /\ \A d \in Conn : Spelling(d) = Spelling(c) /\ session[c] # Nil => d = c
         /\ \A n, k : <<n, k>> \in Spelled /\ session[c] \in {n, Nil} /\ casing[c] = k =>
                Spelling(c) = <<n, k>> \/ session[c] = Nil
<1>1. session[c] # Nil => Spelling(c) \in Spelled
  BY DEF ChatInv, TypeOK, Spells, Spelling, Spelled
<1>2. session[c] # Nil => Spelling(c) \in Written
  BY WrittenIs
<1>3. session[c] = Nil => Spelling(c) \notin Spelled
  BY SMT, ChatAssumptions DEF Spelling, Spelled
<1>4. ASSUME NEW d \in Conn, Spelling(d) = Spelling(c), session[c] # Nil PROVE d = c
  <2>1. session[d] = session[c]
    BY SMT, <1>4 DEF Spelling
  <2> QED
    BY <1>4, <2>1 DEF ChatInv, OwnNicks
<1> QED
  BY <1>1, <1>2, <1>3, <1>4 DEF Spelling

LEMMA GroupCreateStep ==
  ASSUME ChatInv, NEW c \in Conn, NEW now \in 0..MaxTime, HandleGroupCreate(c, now)
  PROVE  ChatInv'
<1>1. /\ TypeOK /\ Sends(c, "group") /\ groups' = Append(groups, CreateGroup(Spelling(c), now))
      /\ UNCHANGED <<script, session, casing, phase, opers, task, byName, chan, stale, stray>>
  BY DEF HandleGroupCreate, ChatInv, users
<1>2. /\ sent' \in [Conn -> 0..script.each]
      /\ task[c].at = "idle" /\ session[c] \in Nick /\ session[c] # Nil /\ phase[c] = "registered"
  BY <1>1, SendsOK, ChatAssumptions
<1>3. PICK h, m : m = Spelling(c) /\ h = CreateGroup(m, now)
  OBVIOUS
<1>4. now \in Nat /\ now # Out
  BY SMT, ChatAssumptions DEF Out
<1>5. m \in Spelled /\ m \in Written
  BY <1>2, <1>3, SpellingFacts
<1>6. PICK j : j = [n \in Spelled |-> IF n = m THEN now ELSE Out]
  OBVIOUS
<1>7. j \in [Spelled -> Nat \cup {Out}] /\ j[m] = now /\ \A n \in Spelled : n # m => j[n] = Out
  BY <1>4, <1>5, <1>6
<1>8. h \in Group /\ h.joined = j /\ h.admins = {m}
  BY <1>3, <1>5, <1>6, <1>7 DEF CreateGroup, Group
<1>9. GroupMembers(h) = {m} /\ OneAdminIn(h)
  BY <1>4, <1>5, <1>7, <1>8 DEF GroupMembers, OneAdminIn
<1>10. PICK k : k = Len(groups) + 1
  OBVIOUS
<1>11. /\ groups' \in Seq(Group) /\ DOMAIN groups' = DOMAIN groups \cup {k} /\ groups'[k] = h
       /\ \A g \in DOMAIN groups : groups'[g] = groups[g]
  BY SMT, <1>1, <1>3, <1>8, <1>10, GroupFacts
<1>12. TypeOK'
  BY <1>1, <1>2, <1>11 DEF TypeOK
<1>13. Written' = Written
  BY <1>1 DEF Written, Spelling
<1>14. GroupUsers'
  BY <1>1, <1>5, <1>9, <1>11, <1>13 DEF ChatInv, GroupUsers
<1>15. OneAdmin'
  <2>1. \A g \in DOMAIN groups' : OneAdminIn(groups'[g])
    BY <1>9, <1>11, GroupFacts
  <2> QED
    BY <2>1 DEF OneAdmin, OneAdminIn
<1>16. ASSUME NEW d \in Conn PROVE LeavesGroups(task[d])'
  <2>0. PICK t : t = task[d]
    OBVIOUS
  <2> SUFFICES ASSUME t.cmd \in {"quit", "drop"}, t.at \in {"groupNext", "endSession"},
                      NEW g \in DOMAIN groups', Spelling(t.victim) \in GroupMembers(groups'[g])
               PROVE  <<"group", g, Spelling(t.victim)>> \in stale \/ (t.at = "groupNext" /\ g \in t.list)
    BY <1>1, <2>0 DEF LeavesGroups, Spelling
  <2>1. TaskOK(d, t) /\ t.victim = d /\ d # c
    BY <1>2, <2>0, TaskIs DEF TaskOK, Knows
  <2>2. Spelling(d) # m
    BY <1>2, <1>3, <2>1, SpellingFacts
  <2>3. g # k
    BY <1>9, <1>11, <2>1, <2>2
  <2> QED
    BY <1>11, <2>1, <2>3 DEF TaskOK, LeavesGroups
<1> QED
  BY <1>1, <1>11, <1>12, <1>14, <1>15, <1>16, GroupsStep

LEMMA GroupJoinBegins ==
  ASSUME ChatInv, NEW c \in Conn, NEW g \in DOMAIN groups, HandleGroupJoin(c, g)
  PROVE  ChatInv'
<1>1. TypeOK /\ Sends(c, "group")
  BY DEF ChatInv, HandleGroupJoin
<1>2. /\ sent' \in [Conn -> 0..script.each]
      /\ task[c].at = "idle" /\ session[c] \in Nick /\ phase[c] = "registered"
  BY <1>1, SendsOK
<1>3. PICK b : b = Begin(c, "group", "groupAdd")
  OBVIOUS
<1>4. /\ b \in Task /\ b.at = "groupAdd" /\ b.cmd = "group" /\ b.nick = session[c] /\ b.spelled = Spelling(c)
      /\ b.spelled \in Spelled
  BY SMT, <1>2, <1>3, BeginOK, CommandsOK
<1>5. PICK t : t = [b EXCEPT !.obj = g]
  OBVIOUS
<1>6. g \in Nat
  BY SMT, GroupFacts
<1>7. t \in Task /\ t.at = "groupAdd" /\ t.cmd = "group" /\ t.nick = session[c] /\ t.spelled = b.spelled /\ t.obj = g
  BY <1>4, <1>5, <1>6 DEF Task
<1>8. TaskOK(c, t)
  BY <1>2, <1>4, <1>7, Serves DEF TaskOK, Knows, LeavesChannels, LeavesGroups, Counts, Spelling
<1>9. Goto(c, t) /\ Still
  BY <1>3, <1>5 DEF HandleGroupJoin, Still, users
<1> QED
  BY <1>2, <1>7, <1>8, <1>9, OnlyTask

\* A group with somebody else in it, or one less.
LEMMA GroupReplaced ==
  ASSUME ChatInv, NEW g \in DOMAIN groups, NEW h \in Group, OneAdminIn(h), groups' = [groups EXCEPT ![g] = h]
  PROVE  /\ groups' \in Seq(Group) /\ DOMAIN groups' = DOMAIN groups /\ groups'[g] = h
         /\ \A x \in DOMAIN groups : x # g => groups'[x] = groups[x]
         /\ OneAdmin'
<1>1. /\ groups' \in Seq(Group) /\ DOMAIN groups' = DOMAIN groups /\ groups'[g] = h
      /\ \A x \in DOMAIN groups : x # g => groups'[x] = groups[x]
  BY SMT, GroupFacts
<1>2. \A x \in DOMAIN groups' : OneAdminIn(groups'[x])
  BY <1>1, GroupFacts
<1>3. OneAdmin'
  BY <1>2 DEF OneAdmin, OneAdminIn
<1> QED
  BY <1>1, <1>3

LEMMA GroupAddStep ==
  ASSUME ChatInv, NEW c \in Conn, NEW now \in 0..MaxTime, GroupAdd(c, now)
  PROVE  ChatInv'
<1>1. PICK t : t = task[c]
  OBVIOUS
<1>2. /\ t.at = "groupAdd" /\ Goto(c, Idle) /\ TypeOK /\ t \in Task /\ TaskOK(c, t)
      /\ UNCHANGED <<script, sent, session, casing, phase, opers, byName, chan, stray>>
  BY <1>1, TaskIs DEF GroupAdd, At, users
<1>3. PICK g, n : g = t.obj /\ n = t.spelled
  OBVIOUS
<1>4. g \in DOMAIN groups /\ n \in Spelled /\ (session[c] = Nil \/ Spelling(c) = n) /\ now \in Nat
  <2>1. g \in DOMAIN groups /\ n \in Spelled /\ session[c] \in {t.nick, Nil} /\ n = <<t.nick, casing[c]>>
    BY <1>2, <1>3 DEF TaskOK, Knows
  <2>2. now \in Nat
    BY SMT, ChatAssumptions
  <2> QED
    BY <2>1, <2>2 DEF Spelling
<1>5. /\ task' \in [Conn -> Task] /\ task'[c] = Idle
      /\ \A d \in Conn \ {c} : task'[d] = task[d]
  BY <1>2, IdleOK, GotoOK
<1>6. CASE UNCHANGED <<groups, stale>>
  <2>1. Still /\ sent' \in [Conn -> 0..script.each]
    BY <1>2, <1>6, SentOK DEF Still
  <2> QED
    BY <1>1, <1>2, <2>1, IdleOK, OnlyTask
<1>7. CASE /\ CanAdd(groups[g], n) /\ groups' = [groups EXCEPT ![g] = AddMember(groups[g], n, now)]
           /\ stale' = IF Killed(c) THEN stale \cup {<<"group", g, n>>} ELSE stale
  <2>1. PICK h : h = AddMember(groups[g], n, now)
    OBVIOUS
  <2>2. /\ h \in Group /\ GroupMembers(h) = GroupMembers(groups[g]) \cup {n}
        /\ OneAdminIn(h)
    BY <1>4, <1>7, <2>1, GroupFacts, AddMemberOK
  <2>3. /\ groups' \in Seq(Group) /\ DOMAIN groups' = DOMAIN groups /\ groups'[g] = h
        /\ \A x \in DOMAIN groups : x # g => groups'[x] = groups[x]
        /\ OneAdmin'
    BY <1>4, <1>7, <2>1, <2>2, GroupReplaced
  <2>4. TypeOK'
    BY <1>2, <1>5, <2>3 DEF TypeOK
  <2>5. \A x \in DOMAIN groups : \A m : m \in GroupMembers(groups'[x])
                                        <=> (m \in GroupMembers(groups[x]) \/ (x = g /\ m = n))
    BY <2>2, <2>3
  <2>6. stale \subseteq stale' /\ \A o, m : <<"channel", o, m>> \in stale' <=> <<"channel", o, m>> \in stale
    BY <1>7
  <2>7. <<"group", g, n>> \in stale' \/ (Spelling(c) = n /\ session[c] # Nil)
    BY <1>4, <1>7 DEF Killed
  <2>8. Written' = Written
    BY <1>2 DEF Written, Spelling
  <2>9. GroupUsers'
    <3>1. n \in Written \/ <<"group", g, n>> \in stale'
      BY <2>7, WrittenIs
    <3>2. GroupUsers
      BY DEF ChatInv
    <3> QED
      BY <2>3, <2>5, <2>6, <2>8, <3>1, <3>2 DEF GroupUsers
  <2>10. ASSUME NEW d \in Conn PROVE LeavesGroups(task[d])'
    <3>1. CASE d = c
      BY SMT, <1>5, <3>1 DEF LeavesGroups, Idle
    <3>2. CASE d # c
      <4>0. PICK v : v = task[d]
        OBVIOUS
      <4>1. v = task'[d] /\ TaskOK(d, v)
        BY <1>5, <3>2, <4>0, TaskIs
      <4> SUFFICES ASSUME v.cmd \in {"quit", "drop"}, v.at \in {"groupNext", "endSession"},
                          NEW x \in DOMAIN groups, Spelling(v.victim) \in GroupMembers(groups'[x])
                   PROVE  <<"group", x, Spelling(v.victim)>> \in stale' \/ (v.at = "groupNext" /\ x \in v.list)
        BY <1>2, <2>3, <4>1 DEF LeavesGroups, Spelling
      <4>2. v.victim = d
        BY <4>1 DEF TaskOK, Knows
      <4>3. CASE Spelling(d) \in GroupMembers(groups[x])
        BY <2>6, <4>1, <4>2, <4>3 DEF TaskOK, LeavesGroups
      <4>4. CASE x = g /\ Spelling(d) = n
        BY <2>7, <3>2, <4>2, <4>4, SpellingFacts
      <4> QED
        BY <2>5, <4>2, <4>3, <4>4
    <3> QED
      BY <3>1, <3>2
  <2>11. ASSUME NEW d \in Conn
         PROVE  task'[d] = task[d] \/
                  (/\ task[d].at \notin {"joinEnter", "clean"}
                   /\ Knows(d, task[d])' /\ LeavesChannels(task'[d]) /\ Counts(d, task'[d]))
    <3>1. CASE d = c
      <4>1. LeavesChannels(Idle) /\ Counts(c, Idle)
        BY IdleOK DEF TaskOK
      <4>2. Knows(c, task[c])'
        BY SMT, <1>5, Serves DEF Knows, Idle
      <4> QED
        BY <1>1, <1>2, <1>5, <3>1, <4>1, <4>2
    <3> QED
      BY <1>5, <3>1
  <2> QED
    BY <1>2, <2>3, <2>4, <2>6, <2>9, <2>10, <2>11, GroupsStep
<1>8. \/ UNCHANGED <<groups, stale>>
      \/ /\ CanAdd(groups[g], n) /\ groups' = [groups EXCEPT ![g] = AddMember(groups[g], n, now)]
         /\ stale' = IF Killed(c) THEN stale \cup {<<"group", g, n>>} ELSE stale
  BY <1>1, <1>3 DEF GroupAdd
<1> QED
  BY <1>6, <1>7, <1>8

\* What a departure does to a group, and to the tasks that go on.
LEMMA GroupLeft ==
  ASSUME ChatInv, NEW g \in DOMAIN groups, NEW n \in Spelled, NEW left \in RemoveMember(groups[g], n),
         groups' = [groups EXCEPT ![g] = left], stale' = stale \ {<<"group", g, n>>},
         UNCHANGED <<session, casing>>
  PROVE  /\ groups' \in Seq(Group) /\ DOMAIN groups' = DOMAIN groups
         /\ GroupUsers' /\ OneAdmin'
         /\ \A o, m : <<"channel", o, m>> \in stale' <=> <<"channel", o, m>> \in stale
         /\ \A x \in DOMAIN groups : \A m : m \in GroupMembers(groups'[x]) =>
                m \in GroupMembers(groups[x]) /\ (x # g \/ m # n)
                /\ (<<"group", x, m>> \in stale => <<"group", x, m>> \in stale')
<1>1. left \in Group /\ GroupMembers(left) = GroupMembers(groups[g]) \ {n} /\ OneAdminIn(left)
  BY GroupFacts, RemoveMemberOK
<1>3. /\ groups' \in Seq(Group) /\ DOMAIN groups' = DOMAIN groups /\ groups'[g] = left
      /\ \A x \in DOMAIN groups : x # g => groups'[x] = groups[x]
      /\ OneAdmin'
  BY <1>1, GroupReplaced
<1>4. \A o, m : <<"channel", o, m>> \in stale' <=> <<"channel", o, m>> \in stale
  OBVIOUS
<1>5. \A x \in DOMAIN groups : \A m : m \in GroupMembers(groups'[x]) =>
         m \in GroupMembers(groups[x]) /\ (x # g \/ m # n)
         /\ (<<"group", x, m>> \in stale => <<"group", x, m>> \in stale')
  BY <1>1, <1>3
<1>6. Written' = Written
  BY DEF Written, Spelling
<1>7. GroupUsers'
  BY <1>3, <1>5, <1>6 DEF ChatInv, GroupUsers
<1> QED
  BY <1>3, <1>4, <1>5, <1>7

LEMMA GroupLeaveStep ==
  ASSUME ChatInv, NEW c \in Conn, NEW g \in DOMAIN groups, HandleGroupLeave(c, g)
  PROVE  ChatInv'
<1>1. /\ TypeOK /\ Sends(c, "group") /\ stale' = stale \ {<<"group", g, Spelling(c)>>}
      /\ UNCHANGED <<script, session, casing, phase, opers, task, byName, chan, stray>>
  BY DEF HandleGroupLeave, ChatInv, users
<1>2. sent' \in [Conn -> 0..script.each] /\ Spelling(c) \in Spelled
  BY <1>1, SendsOK, SpellingFacts, ChatAssumptions
<1>3. PICK left \in RemoveMember(groups[g], Spelling(c)) : groups' = [groups EXCEPT ![g] = left]
  BY DEF HandleGroupLeave
<1>4. /\ groups' \in Seq(Group) /\ DOMAIN groups' = DOMAIN groups
      /\ GroupUsers' /\ OneAdmin'
      /\ \A o, m : <<"channel", o, m>> \in stale' <=> <<"channel", o, m>> \in stale
      /\ \A x \in DOMAIN groups : \A m : m \in GroupMembers(groups'[x]) =>
             m \in GroupMembers(groups[x]) /\ (<<"group", x, m>> \in stale => <<"group", x, m>> \in stale')
  BY <1>1, <1>2, <1>3, GroupLeft
<1>5. TypeOK'
  BY <1>1, <1>2, <1>4 DEF TypeOK
<1>6. ASSUME NEW d \in Conn PROVE LeavesGroups(task[d])'
  <2>1. LeavesGroups(task[d])
    BY TaskIs DEF TaskOK
  <2> QED
    BY <1>1, <1>4, <2>1 DEF LeavesGroups, Spelling
<1> QED
  BY <1>1, <1>4, <1>5, <1>6, GroupsStep

LEMMA LeaveGroupNextStep ==
  ASSUME ChatInv, NEW c \in Conn, LeaveGroupNext(c)
  PROVE  ChatInv'
<1>1. PICK t : t = task[c]
  OBVIOUS
<1>2. /\ t.at = "groupNext" /\ TypeOK /\ t \in Task /\ TaskOK(c, t)
      /\ UNCHANGED <<script, sent, session, casing, phase, opers, byName, chan, stray>>
  BY <1>1, TaskIs DEF LeaveGroupNext, At, users
<1>3. /\ t.list \subseteq DOMAIN groups /\ t.cmd \in {"quit", "drop"} /\ t.target \in Nick /\ t.victim = c
      /\ t.nick \in Nick /\ session[c] \in {t.nick, Nil} /\ phase[c] # "new" /\ t.target = t.nick
      /\ t.spelled \in Spelled /\ t.spelled = <<t.nick, casing[c]>>
  BY <1>2, Serves DEF TaskOK, Knows
<1>4. CASE /\ t.list = {} /\ Goto(c, [t EXCEPT !.at = "endSession"]) /\ UNCHANGED <<groups, stale>>
  <2>1. PICK u : u = [t EXCEPT !.at = "endSession"]
    OBVIOUS
  <2>2. "endSession" \in Steps
    BY DEF Steps
  <2>3. /\ u \in Task /\ u.at = "endSession" /\ u.cmd = t.cmd /\ u.victim = c /\ u.target = t.target
        /\ u.nick = t.nick /\ u.spelled = t.spelled
    BY <1>2, <1>3, <2>1, <2>2 DEF Task
  <2>4. Knows(c, u)
    BY <1>3, <2>3, Serves DEF Knows
  <2>5. LeavesChannels(u)
    BY <1>2, <1>3, <2>3 DEF TaskOK, LeavesChannels, Ahead
  <2>6. LeavesGroups(u)
    BY <1>2, <1>3, <1>4, <2>3 DEF TaskOK, LeavesGroups
  <2>7. TaskOK(c, u)
    BY <2>3, <2>4, <2>5, <2>6 DEF TaskOK, Counts
  <2>8. Still /\ sent' \in [Conn -> 0..script.each]
    BY <1>2, <1>4, SentOK DEF Still
  <2> QED
    BY <1>1, <1>2, <1>4, <2>1, <2>3, <2>7, <2>8, OnlyTask
<1>5. ASSUME NEW g \in t.list, NEW left \in RemoveMember(groups[g], t.spelled),
             groups' = [groups EXCEPT ![g] = left], stale' = stale \ {<<"group", g, t.spelled>>},
             Goto(c, [t EXCEPT !.list = t.list \ {g}])
      PROVE  ChatInv'
  <2>1. PICK u : u = [t EXCEPT !.list = t.list \ {g}]
    OBVIOUS
  <2>2. /\ u \in Task /\ u.at = "groupNext" /\ u.cmd = t.cmd /\ u.victim = c /\ u.target = t.target
        /\ u.nick = t.nick /\ u.spelled = t.spelled /\ u.list = t.list \ {g}
    BY <1>2, <1>3, <2>1 DEF Task
  <2>3. /\ task' \in [Conn -> Task] /\ task'[c] = u
        /\ \A d \in Conn \ {c} : task'[d] = task[d]
    BY <1>2, <1>5, <2>1, <2>2, GotoOK
  <2>4. /\ groups' \in Seq(Group) /\ DOMAIN groups' = DOMAIN groups
        /\ GroupUsers' /\ OneAdmin'
        /\ \A o, m : <<"channel", o, m>> \in stale' <=> <<"channel", o, m>> \in stale
        /\ \A x \in DOMAIN groups : \A m : m \in GroupMembers(groups'[x]) =>
               m \in GroupMembers(groups[x]) /\ (x # g \/ m # t.spelled)
               /\ (<<"group", x, m>> \in stale => <<"group", x, m>> \in stale')
    BY <1>2, <1>3, <1>5, GroupLeft
  <2>5. TypeOK'
    BY <1>2, <2>3, <2>4 DEF TypeOK
  <2>6. ASSUME NEW d \in Conn PROVE LeavesGroups(task[d])'
    <3>1. LeavesGroups(task[d])
      BY TaskIs DEF TaskOK
    <3>2. CASE d # c
      BY <1>2, <2>3, <2>4, <3>1, <3>2 DEF LeavesGroups, Spelling
    <3>3. CASE d = c
      <4> SUFFICES ASSUME NEW x \in DOMAIN groups, Spelling(c) \in GroupMembers(groups'[x])
                   PROVE  <<"group", x, Spelling(c)>> \in stale' \/ x \in u.list
        BY <1>2, <2>2, <2>3, <2>4, <3>3 DEF LeavesGroups, Spelling
      <4>1. Spelling(c) \in GroupMembers(groups[x]) /\ (x # g \/ Spelling(c) # t.spelled)
            /\ (<<"group", x, Spelling(c)>> \in stale => <<"group", x, Spelling(c)>> \in stale')
        BY <2>4
      <4>2. Spelling(c) = t.spelled
        <5>1. session[c] # Nil
          BY <4>1, SpellingFacts DEF GroupMembers
        <5> QED
          BY <1>3, <5>1 DEF Spelling
      <4> QED
        BY <1>1, <1>2, <1>3, <2>2, <3>1, <3>3, <4>1, <4>2 DEF LeavesGroups
    <3> QED
      BY <3>2, <3>3
  <2>7. ASSUME NEW d \in Conn
        PROVE  task'[d] = task[d] \/
                 (/\ task[d].at \notin {"joinEnter", "clean"}
                  /\ Knows(d, task[d])' /\ LeavesChannels(task'[d]) /\ Counts(d, task'[d]))
    <3>1. CASE d = c
      <4>1. Knows(c, task[c])'
        BY <1>2, <1>3, <2>2, <2>3, <2>4, Serves DEF Knows
      <4>2. LeavesChannels(u)
        BY <1>2, <1>3, <2>2 DEF TaskOK, LeavesChannels, Ahead
      <4>3. Counts(c, u)
        BY <2>2 DEF Counts
      <4> QED
        BY <1>1, <1>2, <2>3, <3>1, <4>1, <4>2, <4>3
    <3> QED
      BY <2>3, <3>1
  <2> QED
    BY <1>2, <2>4, <2>5, <2>6, <2>7, GroupsStep
<1> QED
  BY <1>1, <1>4, <1>5 DEF LeaveGroupNext

LEMMA StutterStep ==
  ASSUME ChatInv, UNCHANGED vars
  PROVE  ChatInv'
<1>1. UNCHANGED <<script, sent, session, casing, phase, opers, task, byName, chan, groups, stale, stray>>
  BY DEF vars
<1>2. TypeOK'
  BY <1>1 DEF ChatInv, TypeOK
<1>3. GroupUsers' /\ OneAdmin'
  BY <1>1 DEF ChatInv, GroupUsers, Written, Spelling, OneAdmin
<1>4. ASSUME NEW d \in Conn PROVE LeavesGroups(task[d])'
  BY <1>1, TaskIs DEF TaskOK, LeavesGroups, Spelling
<1> QED
  BY <1>1, <1>2, <1>3, <1>4, GroupsStep

-----------------------------------------------------------------------------
(* Every step                                                              *)

LEMMA SingletonOK ==
  ASSUME NEW S, NEW x \in S
  PROVE  <<x>> \in Seq(S) /\ <<x>> # <<>>
  BY SMT

LEMMA EmptyOK == <<>> \in Seq(Change)
  BY SMT

\* PART, KICK, MODE, BAN, TOPIC and INVITE start alike.
LEMMA AsksBegin ==
  ASSUME ChatInv, NEW c \in Conn,
         \/ \E names \in NameLists : HandlePart(c, names)
         \/ \E name \in Name, n \in Nick : HandleKick(c, name, n)
         \/ \E name \in Name, changes \in Changes : HandleMode(c, name, changes)
         \/ \E name \in Name, n \in Nick, add \in BOOLEAN : HandleBan(c, name, n, add)
         \/ \E name \in Name : HandleTopic(c, name)
         \/ \E name \in Name, n \in Nick : HandleInvite(c, name, n)
  PROVE  ChatInv'
<1>1. ASSUME NEW names \in NameLists, HandlePart(c, names) PROVE ChatInv'
  <2>1. Asks(c, "part", names, session[c], <<>>)
    BY <1>1 DEF HandlePart
  <2>2. session[c] \in Nick
    BY <2>1, SendsOK DEF Asks, ChatInv
  <2> QED
    BY <2>1, <2>2, NameListsOK, EmptyOK, AskBegins
<1>2. ASSUME NEW name \in Name, NEW n \in Nick, HandleKick(c, name, n) PROVE ChatInv'
  BY <1>2, SingletonOK, EmptyOK, AskBegins DEF HandleKick
<1>3. ASSUME NEW name \in Name, NEW changes \in Changes, HandleMode(c, name, changes) PROVE ChatInv'
  <2>1. changes \in Seq(Change) /\ changes # <<>>
    BY ChatAssumptions
  <2> QED
    BY <1>3, <2>1, SingletonOK, AskBegins DEF HandleMode
<1>4. ASSUME NEW name \in Name, NEW n \in Nick, NEW add \in BOOLEAN, HandleBan(c, name, n, add) PROVE ChatInv'
  <2>1. PICK d : d = [mode |-> "b", add |-> add, arg |-> n]
    OBVIOUS
  <2>2. d \in Change
    BY <2>1 DEF Change
  <2>3. Asks(c, "ban", <<name>>, Nil, <<d>>)
    BY <1>4, <2>1 DEF HandleBan
  <2> QED
    BY <2>2, <2>3, SingletonOK, AskBegins
<1>5. ASSUME NEW name \in Name, HandleTopic(c, name) PROVE ChatInv'
  BY <1>5, SingletonOK, EmptyOK, AskBegins DEF HandleTopic
<1>6. ASSUME NEW name \in Name, NEW n \in Nick, HandleInvite(c, name, n) PROVE ChatInv'
  BY <1>6, SingletonOK, EmptyOK, AskBegins DEF HandleInvite
<1> QED
  BY <1>1, <1>2, <1>3, <1>4, <1>5, <1>6

LEMMA ChatInitially == Init => ChatInv
<1> SUFFICES ASSUME Init PROVE ChatInv
  OBVIOUS
<1>1. /\ script \in Scripts /\ chan = <<>> /\ groups = <<>> /\ opers = {}
      /\ sent = [c \in Conn |-> 0] /\ session = [c \in Conn |-> Nil] /\ casing = [c \in Conn |-> Nil]
      /\ phase = [c \in Conn |-> "new"]
      /\ task = [c \in Conn |-> Idle] /\ byName = [name \in Name |-> 0]
  BY DEF Init
<1>2. DOMAIN chan = {} /\ Len(chan) = 0 /\ DOMAIN groups = {} /\ script.each \in Nat /\ script.max \in Nat
  BY SMT, <1>1, ChatAssumptions
<1>3. chan \in Seq(Channel)
  BY SMT, <1>1
<1>4. groups \in Seq(Group)
  BY SMT, <1>1
<1>5. TypeOK
  BY SMT, <1>1, <1>2, <1>3, <1>4, IdleOK, ChatAssumptions DEF TypeOK
<1>6. \A c \in Conn : TaskOK(c, task[c])
  BY <1>1, IdleOK
<1>7. NewHasNone /\ OwnNicks /\ Spells
  BY <1>1 DEF NewHasNone, OwnNicks, Spells
<1>8. Registered = {}
  BY <1>2 DEF Registered
<1>9. EmptyAttended /\ OnlyStraysOrphaned /\ ChannelUsers
  BY <1>2, <1>8 DEF EmptyAttended, OnlyStraysOrphaned, ChannelUsers
<1>10. GroupUsers /\ OneAdmin
  BY <1>2 DEF GroupUsers, OneAdmin
<1>11. WithinChannelLimit
  <2> SUFFICES ASSUME NEW n \in Nick
               PROVE  Cardinality({o \in ChannelsOf(n) : <<"channel", o, n>> \notin stale}) =< script.max
    BY DEF WithinChannelLimit
  <2>1. {o \in ChannelsOf(n) : <<"channel", o, n>> \notin stale} = {}
    BY <1>8 DEF ChannelsOf
  <2>2. Cardinality({}) =< script.max
    BY SMT, <1>2, FS_EmptySet
  <2> QED
    BY <2>1, <2>2
<1> QED
  BY <1>5, <1>6, <1>7, <1>9, <1>10, <1>11 DEF ChatInv

LEMMA ChatKept == ChatInv /\ [Next]_vars => ChatInv'
<1> SUFFICES ASSUME ChatInv, [Next]_vars PROVE ChatInv'
  OBVIOUS
<1>1. CASE UNCHANGED vars
  BY <1>1, StutterStep
<1>2. ASSUME NEW c \in Conn, UserStep(c) PROVE ChatInv'
  BY <1>2, RegisterStep, NickStep, OperStep, LeaveBegins, DropBegins, CloseStep DEF UserStep
<1>3. ASSUME NEW c \in Conn, ChannelStep(c) PROVE ChatInv'
  BY <1>3, JoinBegins, JoinNextStep, JoinEnterStep, AsksBegin, LookUpStep, CheckStep, ProtectStep,
     ChangeStep, RemoveStep, CleanUpStep DEF ChannelStep
<1>4. ASSUME NEW c \in Conn, LeaveStep(c) PROVE ChatInv'
  BY <1>4, ListAllStep, LeaveNextStep, ListGroupsStep, LeaveGroupNextStep, EndSessionStep DEF LeaveStep
<1>5. ASSUME NEW c \in Conn, GroupStep(c) PROVE ChatInv'
  BY <1>5, GroupCreateStep, GroupJoinBegins, GroupAddStep, GroupLeaveStep DEF GroupStep
<1> QED
  BY <1>1, <1>2, <1>3, <1>4, <1>5 DEF Next

LEMMA ChatAlwaysInv == Spec => []ChatInv
  BY ChatInitially, ChatKept, PTL DEF Spec

-----------------------------------------------------------------------------
(* What follows                                                            *)

\* Every handler's locals, and what the registries hold, have their types.
THEOREM ChatTypeCorrect == Spec => []TypeOK
<1>1. ChatInv => TypeOK
  BY DEF ChatInv
<1> QED
  BY <1>1, ChatAlwaysInv, PTL

\* The channel registry, the channels and the user registry agree once the
\* handlers are done, and a channel with members always keeps its name.
THEOREM ChannelsAlwaysSound == Spec => []ChannelsSound
<1>1. ChatInv => ChannelsSound
  <2> SUFFICES ASSUME ChatInv PROVE ChannelsSound
    OBVIOUS
  <2>1. NoEmptyChannel
    <3> SUFFICES ASSUME AtRest, NEW o \in Registered, Members(chan[o]) = {} PROVE FALSE
      BY DEF NoEmptyChannel
    <3>1. PICK c \in Conn : task[c].at \in {"joinEnter", "clean"}
      BY DEF ChatInv, EmptyAttended, Attended
    <3> QED
      BY <3>1 DEF AtRest, At
  <2>2. OnlyStraysOrphaned /\ MembersAreUsers
    BY DEF ChatInv, ChannelUsers, MembersAreUsers
  <2> QED
    BY <2>1, <2>2 DEF ChannelsSound
<1> QED
  BY <1>1, ChatAlwaysInv, PTL

\* The members of a group are users, as they write their nicknames, once the
\* handlers are done, and a group with members always has exactly one admin.
THEOREM GroupsAlwaysSound == Spec => []GroupsSound
<1>1. ChatInv => GroupsSound
  BY DEF ChatInv, GroupUsers, GroupMembersAreUsers, GroupsSound
<1> QED
  BY <1>1, ChatAlwaysInv, PTL

\* What a step makes of a group keeps its admin or gives them their successor.
LEMMA SameAdmin ==
  ASSUME NEW g
  PROVE  SucceedsAdmin(g, g)
  BY DEF SucceedsAdmin

LEMMA Succession ==
  ASSUME ChatInv, Next, NEW g \in DOMAIN groups
  PROVE  SucceedsAdmin(groups[g], groups'[g])
<1>1. PICK c \in Conn : UserStep(c) \/ ChannelStep(c) \/ LeaveStep(c) \/ GroupStep(c)
  BY DEF Next
<1>2. CASE groups' = groups
  BY <1>2, SameAdmin
<1>3. ASSUME NEW x \in DOMAIN groups, NEW n \in Spelled, NEW left \in RemoveMember(groups[x], n),
             groups' = [groups EXCEPT ![x] = left]
      PROVE  SucceedsAdmin(groups[g], groups'[g])
  <2>1. SucceedsAdmin(groups[x], left)
    BY GroupFacts, RemoveMemberOK
  <2>2. groups'[g] = IF g = x THEN left ELSE groups[g]
    BY SMT, <1>3, GroupFacts
  <2> QED
    BY <2>1, <2>2, SameAdmin
<1>4. CASE UserStep(c)
  BY <1>2, <1>4 DEF UserStep, CompleteRegistration, HandleNickChange, HandleOper, HandleQuit, HandleKill,
                    DropConnection, CloseKilled
<1>5. CASE ChannelStep(c)
  BY <1>2, <1>5 DEF ChannelStep, HandleJoin, JoinNext, JoinEnter, HandlePart, HandleKick, HandleMode, HandleBan,
                    HandleTopic, HandleInvite, Asks, LookUp, Check, Protect, ChangeChannel, RemoveFromChannel, CleanUp
<1>6. CASE LeaveStep(c)
  <2>1. CASE LeaveGroupNext(c)
    <3>1. task[c].at = "groupNext" /\ TaskOK(c, task[c])
      BY <2>1, TaskIs DEF LeaveGroupNext, At
    <3>2. task[c].list \subseteq DOMAIN groups /\ task[c].spelled \in Spelled
      BY <3>1 DEF TaskOK, Knows
    <3> QED
      BY <1>2, <1>3, <2>1, <3>2 DEF LeaveGroupNext
  <2> QED
    BY <1>2, <1>6, <2>1 DEF LeaveStep, ListAll, LeaveNext, ListGroups, EndSession
<1>7. CASE GroupStep(c)
  <2>1. ASSUME NEW now, HandleGroupCreate(c, now) PROVE groups'[g] = groups[g]
    BY SMT, <2>1, GroupFacts DEF HandleGroupCreate
  <2>2. ASSUME NEW x \in DOMAIN groups, HandleGroupJoin(c, x) PROVE groups' = groups
    BY <2>2 DEF HandleGroupJoin
  <2>3. ASSUME NEW now \in 0..MaxTime, GroupAdd(c, now) PROVE SucceedsAdmin(groups[g], groups'[g])
    <3>0. PICK x, n : x = task[c].obj /\ n = task[c].spelled
      OBVIOUS
    <3>1. task[c].at = "groupAdd" /\ TaskOK(c, task[c])
      BY <2>3, TaskIs DEF GroupAdd, At
    <3>2. x \in DOMAIN groups /\ n \in Spelled
      BY <3>0, <3>1 DEF TaskOK, Knows
    <3>3. CASE CanAdd(groups[x], n) /\ groups' = [groups EXCEPT ![x] = AddMember(groups[x], n, now)]
      <4>1. now \in Nat
        BY SMT, ChatAssumptions
      <4>2. AddMember(groups[x], n, now).admins = groups[x].admins
        BY <3>2, <3>3, <4>1, GroupFacts, AddMemberOK
      <4>3. groups'[g] = IF g = x THEN AddMember(groups[x], n, now) ELSE groups[g]
        BY SMT, <3>3, GroupFacts
      <4>4. groups'[g].admins = groups[g].admins
        BY <4>2, <4>3
      <4> QED
        BY <4>4 DEF SucceedsAdmin
    <3> QED
      BY <1>2, <2>3, <3>0, <3>3 DEF GroupAdd
  <2>4. ASSUME NEW x \in DOMAIN groups, HandleGroupLeave(c, x) PROVE SucceedsAdmin(groups[g], groups'[g])
    <3>1. Spelling(c) \in Spelled
      BY <2>4, SpellingFacts DEF HandleGroupLeave, Sends
    <3> QED
      BY <1>3, <2>4, <3>1 DEF HandleGroupLeave
  <2> QED
    BY <1>2, <1>7, <2>1, <2>2, <2>3, <2>4, SameAdmin DEF GroupStep
<1> QED
  BY <1>1, <1>4, <1>5, <1>6, <1>7

\* The admin of a group stays admin while a member, and the next admin is one
\* of those with the smallest joined_at (longest_tenured_member), for every
\* order of joins, departures, KILLs and changes of nickname.
THEOREM AdminAlwaysSucceeded == Spec => AdminSuccession
<1>1. ChatInv /\ [Next]_vars => [\A g \in DOMAIN groups : SucceedsAdmin(groups[g], groups'[g])]_vars
  BY Succession
<1> QED
  BY <1>1, ChatAlwaysInv, PTL DEF Spec, AdminSuccession

\* JOIN's one count of the channels a user is in keeps max_channels_per_user,
\* whatever else happens between the locks it takes.
THEOREM ChannelLimitKept == Spec => []WithinChannelLimit
<1>1. ChatInv => WithinChannelLimit
  BY DEF ChatInv
<1> QED
  BY <1>1, ChatAlwaysInv, PTL
=============================================================================
