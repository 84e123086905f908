------------------------------ MODULE ChatServer ------------------------------
(***************************************************************************)
(* Users, channels and groups of one pirc-server, and the tasks that serve *)
(* the connections (handler.rs, handler_channel/, handler_group.rs,        *)
(* handler_oper.rs, channel_registry.rs, main.rs).                         *)
(*                                                                         *)
(* A task handles one command at a time, but a handler takes and releases  *)
(* several locks, and the tasks interleave at each of them: a channel is   *)
(* looked up in one step, checked under its read lock in another, changed  *)
(* under its write lock in a third and removed from the registry, if it is *)
(* empty, in a fourth.  A handler keeps the channel it looked up (an Arc), *)
(* so a channel is named by a number and may outlive its registration.     *)
(*                                                                         *)
(* The user registry is one step per operation here (UserRegistry has its  *)
(* own interleavings).  What is sent to clients is left out: no handler    *)
(* reads it.                                                               *)
(***************************************************************************)
EXTENDS Integers, FiniteSets, Sequences

CONSTANTS
    Nick,          \* nicknames, as compared by Nickname's Eq and Hash
    Casing,        \* the ways to write one, which Eq and Hash do not tell apart
    Nil,           \* "none"
    Conn,          \* connections; each registers at most once
    Name,          \* channel names
    Scripts,       \* one member per behaviour: the commands clients may send, how many
                   \* each sends, the casings they use, and the server's
                   \* limits.max_channels_per_user
    Changes,       \* mode changes clients may ask for
    MaxObjects,    \* bound: channels ever created
    MaxGroups,     \* bound: groups ever created
    MaxTime        \* bound: the seconds that now_secs may return

-----------------------------------------------------------------------------
(* A channel (channel.rs), and what the command handlers do to one while   *)
(* they hold its lock (handler_channel/).  A ban mask is abstracted to the *)
(* nickname it matches, a key to whether the channel has one, a topic to   *)
(* the nickname that set it.                                               *)

\* Not a member, or the MemberStatus of a member.
Status == {"out", "normal", "voiced", "operator"}

\* The modes kept as a set; only "i" and "t" guard a change of state.
Flag == {"i", "m", "n", "s", "t"}

\* user_limit: None, or the number given to +l (0 is accepted).
NoLimit == -1

Channel ==
    [name : Name, members : [Nick -> Status], flags : SUBSET Flag, keyed : BOOLEAN,
     limit : Nat \cup {NoLimit}, bans : SUBSET Nick, invited : SUBSET Nick,
     topic : Nick \cup {Nil}]

NewChannel(name) ==
    [name |-> name, members |-> [n \in Nick |-> "out"], flags |-> {}, keyed |-> FALSE,
     limit |-> NoLimit, bans |-> {}, invited |-> {}, topic |-> Nil]

Members(ch) == {n \in Nick : ch.members[n] # "out"}

IsOperator(ch, n) == ch.members[n] = "operator"

-----------------------------------------------------------------------------
(* JOIN: admission and entry, under one write lock.                        *)

\* The first user of an empty channel is not checked against its modes.
Admits(ch, n, hasKey) ==
    \/ Members(ch) = {}
    \/ /\ n \notin ch.bans
       /\ "i" \in ch.flags => n \in ch.invited
       /\ ch.keyed => hasKey
       /\ ch.limit # NoLimit => Cardinality(Members(ch)) < ch.limit

\* The first user becomes operator; an invitation is consumed.
Enter(ch, n) ==
    [ch EXCEPT !.members[n] = IF Members(ch) = {} THEN "operator" ELSE "normal",
               !.invited = @ \ {n}]

Leave(ch, n) == [ch EXCEPT !.members[n] = "out"]

-----------------------------------------------------------------------------
(* MODE and BAN: one change, under one write lock.                         *)

\* A change: a mode letter, its direction and its parameter.
Change == [mode : Flag, add : BOOLEAN, arg : {Nil}]
          \cup [mode : {"k"}, add : BOOLEAN, arg : {Nil}]
          \cup [mode : {"l"}, add : BOOLEAN, arg : Nat]
          \cup [mode : {"b", "o", "v"}, add : BOOLEAN, arg : Nick]

\* +v sets Voiced even on an operator, -o and -v both drop to Normal.
StatusAfter(d) ==
    IF ~d.add THEN "normal" ELSE IF d.mode = "o" THEN "operator" ELSE "voiced"

SetOrClear(S, x, add) == IF add THEN S \cup {x} ELSE S \ {x}

Apply(ch, d) ==
    CASE d.mode \in Flag       -> [ch EXCEPT !.flags = SetOrClear(@, d.mode, d.add)]
      [] d.mode = "k"          -> [ch EXCEPT !.keyed = d.add]
      [] d.mode = "l"          -> [ch EXCEPT !.limit = IF d.add THEN d.arg ELSE NoLimit]
      [] d.mode = "b"          -> [ch EXCEPT !.bans = SetOrClear(@, d.arg, d.add)]
      [] d.mode \in {"o", "v"} -> IF d.arg \in Members(ch)
                                    THEN [ch EXCEPT !.members[d.arg] = StatusAfter(d)]
                                    ELSE ch

-----------------------------------------------------------------------------
(* A group (group_registry.rs).  Each method of GroupRegistry works on one *)
(* entry of a DashMap under its shard lock, so it is one step.  Ids come   *)
(* from a counter and are never reused, and an entry is removed when its   *)
(* last member leaves: a group that has been destroyed is a group without  *)
(* members.  Its members are Strings, not Nicknames: two casings of one    *)
(* nickname are two members.                                               *)

\* joined_at of somebody who is not a member.
Out == -1

\* A nickname as it is written: nickname.to_string().
Spelled == Nick \X Casing

Group == [joined : [Spelled -> Nat \cup {Out}], admins : SUBSET Spelled]

GroupMembers(g) == {n \in Spelled : g.joined[n] # Out}

\* create_group: the creator is the first member and the admin.
CreateGroup(creator, now) ==
    [joined |-> [n \in Spelled |-> IF n = creator THEN now ELSE Out], admins |-> {creator}]

\* Whether add_member finds the group and does not find the member in it.
CanAdd(g, n) == GroupMembers(g) # {} /\ n \notin GroupMembers(g)

AddMember(g, n, now) == [g EXCEPT !.joined[n] = now]

\* Fault: the member who joined last.
FaultLongestTenured(g, except) ==
    {m \in GroupMembers(g) \ {except} :
        \A o \in GroupMembers(g) \ {except} : g.joined[m] >= g.joined[o]}

\* longest_tenured_member: joined_at counts seconds, and among members of the
\* same second the order of the HashMap decides.
LongestTenured(g, except) ==
    {m \in GroupMembers(g) \ {except} :
        \A o \in GroupMembers(g) \ {except} : g.joined[m] =< g.joined[o]}

\* Fault: the admin's departure leaves the group without one.
FaultRemoveMember(g, n) ==
    {[joined |-> [g.joined EXCEPT ![n] = Out], admins |-> g.admins \ {n}]}

\* remove_member: what the group may become.  The admin's role passes on.
RemoveMember(g, n) ==
    LET rest == [joined |-> [g.joined EXCEPT ![n] = Out], admins |-> g.admins \ {n}]
    IN  IF n \in g.admins /\ GroupMembers(rest) # {}
          THEN {[rest EXCEPT !.admins = @ \cup {m}] : m \in LongestTenured(g, n)}
          ELSE {rest}

ASSUME ChatAssumptions ==
    /\ Nil \notin Nick /\ Nil \notin Conn /\ Nil \notin Casing
    /\ \A s \in Scripts : s.each \in Nat /\ s.max \in Nat /\ s.casings \subseteq Casing
    /\ Changes \subseteq Seq(Change) \ {<<>>}
    /\ MaxObjects \in Nat /\ MaxGroups \in Nat /\ MaxTime \in Nat

-----------------------------------------------------------------------------
VARIABLES
    script,    \* the member of Scripts this behaviour follows
    sent,      \* commands each connection has sent
    session,   \* the nickname registered for each connection, or Nil
    casing,    \* how the session writes it, or Nil before it registers
    phase,     \* "new", "registered" (PreRegistrationState.registered), "closed"
    opers,     \* connections with UserMode::Operator
    task,      \* what each connection's task is doing
    byName,    \* ChannelRegistry.by_name: the channel registered under a name, or 0
    chan,      \* every channel ever created, registered or not
    groups,    \* every group ever created
    stale,     \* history: memberships that outlive their user, see below
    stray      \* history: <<channel, nick>> entered after the channel lost its name

users == <<session, casing, phase, opers>>
vars == <<script, sent, session, casing, phase, opers, task, byName, chan, groups, stale, stray>>

-----------------------------------------------------------------------------
(* A task: the step it is at and the locals of the handler.                *)

Steps == {"idle", "joinNext", "joinEnter", "lookup", "check", "protect", "change",
          "remove", "clean", "listAll", "leaveNext", "groupAdd", "groupList", "groupNext",
          "endSession"}

Commands == {"none", "join", "part", "kick", "mode", "ban", "topic", "invite", "quit", "kill",
             "drop", "group"}

Idle == [at |-> "idle", cmd |-> "none", nick |-> Nil, spelled |-> <<>>, target |-> Nil, victim |-> Nil,
         obj |-> 0, names |-> <<>>, hasKey |-> FALSE, count |-> 0, changes |-> <<>>,
         list |-> {}]

Task == [at : Steps, cmd : Commands, nick : Nick \cup {Nil}, spelled : Spelled \cup {<<>>},
         target : Nick \cup {Nil}, victim : Conn \cup {Nil}, obj : Nat, names : Seq(Name),
         hasKey : BOOLEAN, count : Nat, changes : Seq(Change), list : SUBSET Nat]

At(c, step) == task[c].at = step

Goto(c, t) == task' = [task EXCEPT ![c] = t]

\* A registered client sends a command of the script.
Sends(c, cmd) ==
    /\ At(c, "idle") /\ cmd \in script.commands
    /\ phase[c] = "registered" /\ session[c] # Nil
    /\ sent[c] < script.each
    /\ sent' = [sent EXCEPT ![c] = @ + 1]

\* session.nickname of a registered user.
Spelling(c) == <<session[c], casing[c]>>

Begin(c, cmd, step) ==
    [Idle EXCEPT !.at = step, !.cmd = cmd, !.nick = session[c], !.spelled = Spelling(c)]

-----------------------------------------------------------------------------
(* The channel registry.                                                   *)

Registered == {o \in DOMAIN chan : byName[chan[o].name] = o}

\* channels_for_nick.
ChannelsOf(n) == {o \in Registered : n \in Members(chan[o])}

\* Fault: the entry goes whoever has come in since the last member left.
FaultRemoveIfEmpty(name) == byName' = [byName EXCEPT ![name] = 0]

\* remove_if_empty: the check and the removal are one step.
RemoveIfEmpty(name) ==
    byName' = IF byName[name] # 0 /\ Members(chan[byName[name]]) = {}
                THEN [byName EXCEPT ![name] = 0] ELSE byName

\* get_or_create: the channel of that name afterwards is byName'[name].
GetOrCreate(name) ==
    IF byName[name] # 0
      THEN UNCHANGED <<byName, chan>>
      ELSE /\ Len(chan) < MaxObjects
           /\ chan' = Append(chan, NewChannel(name))
           /\ byName' = [byName EXCEPT ![name] = Len(chan) + 1]

Memberships(n) ==
    {<<"channel", o, n>> : o \in {x \in DOMAIN chan : n \in Members(chan[x])}}

GroupMemberships(n) ==
    {<<"group", g, n>> : g \in {x \in DOMAIN groups : n \in GroupMembers(groups[x])}}

\* The nicknames in use (by_nick), and as they are written.
InUse == {session[c] : c \in Conn} \ {Nil}
Written == {Spelling(c) : c \in {d \in Conn : session[d] # Nil}}

\* Somebody's KILL of c has begun, or is done.
Killed(c) == session[c] = Nil \/ \E k \in Conn : task[k].cmd = "kill" /\ task[k].victim = c

-----------------------------------------------------------------------------
(* Registration, NICK, OPER and MODE -o.                                   *)

CompleteRegistration(c, n, k) ==
    /\ phase[c] = "new" /\ n \notin InUse
    /\ session' = [session EXCEPT ![c] = n]
    /\ casing' = [casing EXCEPT ![c] = k]
    /\ phase' = [phase EXCEPT ![c] = "registered"]
    /\ UNCHANGED <<script, sent, opers, task, byName, chan, groups, stale, stray>>

\* A nickname that is free, or the user's own in any casing.  Only the user
\* registry learns of it: channel memberships stay with the old nickname, group
\* memberships with the old way to write it.
HandleNickChange(c, n, k) ==
    /\ Sends(c, "nick") /\ n \notin InUse \ {session[c]}
    /\ session' = [session EXCEPT ![c] = n]
    /\ casing' = [casing EXCEPT ![c] = k]
    /\ stale' = stale \cup (IF n = session[c] THEN {} ELSE Memberships(session[c]))
                      \cup (IF <<n, k>> = Spelling(c) THEN {} ELSE GroupMemberships(Spelling(c)))
    /\ UNCHANGED <<script, phase, opers, task, byName, chan, groups, stray>>

\* OPER with the right password, or MODE <own-nick> -o.
HandleOper(c, on) ==
    /\ Sends(c, "oper")
    /\ opers' = SetOrClear(opers, c, on)
    /\ UNCHANGED <<script, session, casing, phase, task, byName, chan, groups, stale, stray>>

-----------------------------------------------------------------------------
(* JOIN <names> [<keys>].                                                  *)

\* Commands that take several names: one or two different ones.
NameLists == {<<a>> : a \in Name} \cup {<<p[1], p[2]>> : p \in {q \in Name \X Name : q[1] # q[2]}}

\* The next turn of the loop over the names, or the end of the handler.
NextName(t, step) ==
    IF Len(t.names) =< 1 THEN Idle ELSE [t EXCEPT !.at = step, !.names = Tail(@), !.obj = 0]

HandleJoin(c, names, hasKey) ==
    /\ Sends(c, "join")
    /\ Goto(c, [Begin(c, "join", "joinNext") EXCEPT
                  !.names = names, !.hasKey = hasKey, !.count = Cardinality(ChannelsOf(session[c]))])
    /\ UNCHANGED <<script, users, byName, chan, groups, stale, stray>>

JoinNext(c) ==
    LET t == task[c] IN
    /\ At(c, "joinNext")
    /\ IF t.count >= script.max
         THEN Goto(c, NextName(t, "joinNext")) /\ UNCHANGED <<byName, chan>>
         ELSE /\ GetOrCreate(Head(t.names))
              /\ Goto(c, [t EXCEPT !.at = "joinEnter", !.obj = byName'[Head(t.names)]])
    /\ UNCHANGED <<script, sent, users, groups, stale, stray>>

\* Fault: the count of channels is not kept up within one JOIN.
FaultJoinEnter(c) ==
    LET t == task[c] ch == chan[t.obj] IN
    /\ At(c, "joinEnter")
    /\ Goto(c, NextName(t, "joinNext"))
    /\ IF t.nick \notin Members(ch) /\ Admits(ch, t.nick, t.hasKey)
         THEN /\ chan' = [chan EXCEPT ![t.obj] = Enter(ch, t.nick)]
              /\ stray' = IF t.obj \in Registered THEN stray ELSE stray \cup {<<t.obj, t.nick>>}
              /\ stale' = IF Killed(c) THEN stale \cup {<<"channel", t.obj, t.nick>>} ELSE stale
         ELSE UNCHANGED <<chan, stray, stale>>
    /\ UNCHANGED <<script, sent, users, byName, groups>>

\* The channel may have lost its name since it was looked up.
JoinEnter(c) ==
    LET t == task[c] ch == chan[t.obj] IN
    /\ At(c, "joinEnter")
    /\ IF t.nick \notin Members(ch) /\ Admits(ch, t.nick, t.hasKey)
         THEN /\ chan' = [chan EXCEPT ![t.obj] = Enter(ch, t.nick)]
              /\ Goto(c, NextName([t EXCEPT !.count = @ + 1], "joinNext"))
              /\ stray' = IF t.obj \in Registered THEN stray ELSE stray \cup {<<t.obj, t.nick>>}
              /\ stale' = IF Killed(c) THEN stale \cup {<<"channel", t.obj, t.nick>>} ELSE stale
         ELSE Goto(c, NextName(t, "joinNext")) /\ UNCHANGED <<chan, stray, stale>>
    /\ UNCHANGED <<script, sent, users, byName, groups>>

-----------------------------------------------------------------------------
(* PART, KICK, MODE, BAN, TOPIC and INVITE: look the channel up, check     *)
(* under its read lock, then change it under its write lock.               *)

Asks(c, cmd, names, target, changes) ==
    /\ Sends(c, cmd)
    /\ Goto(c, [Begin(c, cmd, "lookup") EXCEPT
                  !.names = names, !.target = target, !.changes = changes])
    /\ UNCHANGED <<script, users, byName, chan, groups, stale, stray>>

HandlePart(c, names) == Asks(c, "part", names, session[c], <<>>)

HandleKick(c, name, target) == Asks(c, "kick", <<name>>, target, <<>>)

HandleMode(c, name, changes) == Asks(c, "mode", <<name>>, Nil, changes)

HandleBan(c, name, mask, add) ==
    Asks(c, "ban", <<name>>, Nil, <<[mode |-> "b", add |-> add, arg |-> mask]>>)

HandleTopic(c, name) == Asks(c, "topic", <<name>>, Nil, <<>>)

HandleInvite(c, name, target) == target \in InUse /\ Asks(c, "invite", <<name>>, target, <<>>)

\* channels.get: an unknown name ends the command, or this turn of PART.
LookUp(c) ==
    LET t == task[c] o == byName[Head(t.names)] IN
    /\ At(c, "lookup")
    /\ Goto(c, IF o = 0 THEN NextName(t, "lookup") ELSE [t EXCEPT !.at = "check", !.obj = o])
    /\ UNCHANGED <<script, sent, users, byName, chan, groups, stale, stray>>

\* What each handler requires of the channel before it goes on.
Allowed(t) ==
    LET ch == chan[t.obj] IN
    CASE t.cmd \in {"part", "topic"} -> t.nick \in Members(ch)
      [] t.cmd = "kick"              -> IsOperator(ch, t.nick) /\ t.target \in Members(ch)
      [] t.cmd \in {"mode", "ban"}   -> IsOperator(ch, t.nick)
      [] t.cmd = "invite"            -> /\ t.nick \in Members(ch)
                                        /\ "i" \in ch.flags => IsOperator(ch, t.nick)
                                        /\ t.target \notin Members(ch)

AfterCheck(cmd) ==
    CASE cmd \in {"part", "kick"}          -> "remove"
      [] cmd = "topic"                     -> "protect"
      [] cmd \in {"mode", "ban", "invite"} -> "change"

Check(c) ==
    LET t == task[c] IN
    /\ At(c, "check")
    /\ Goto(c, IF Allowed(t) THEN [t EXCEPT !.at = AfterCheck(t.cmd)] ELSE NextName(t, "lookup"))
    /\ UNCHANGED <<script, sent, users, byName, chan, groups, stale, stray>>

\* TOPIC looks at +t under a read lock of its own.
Protect(c) ==
    LET t == task[c] ch == chan[t.obj] IN
    /\ At(c, "protect")
    /\ Goto(c, IF "t" \in ch.flags => IsOperator(ch, t.nick) THEN [t EXCEPT !.at = "change"] ELSE Idle)
    /\ UNCHANGED <<script, sent, users, byName, chan, groups, stale, stray>>

\* What the handler makes of the channel, whatever it has become since the check.
Changed(t, ch) ==
    CASE t.cmd \in {"mode", "ban"} -> {Apply(ch, Head(t.changes))}
      [] t.cmd = "topic"           -> {[ch EXCEPT !.topic = who] : who \in {t.nick, Nil}}
      [] t.cmd = "invite"          -> {[ch EXCEPT !.invited = @ \cup {t.target}]}

\* MODE takes the write lock once for each letter.
ChangeChannel(c) ==
    LET t == task[c] IN
    /\ At(c, "change")
    /\ \E ch \in Changed(t, chan[t.obj]) : chan' = [chan EXCEPT ![t.obj] = ch]
    /\ Goto(c, IF Len(t.changes) =< 1 THEN Idle ELSE [t EXCEPT !.changes = Tail(@)])
    /\ UNCHANGED <<script, sent, users, byName, groups, stale, stray>>

-----------------------------------------------------------------------------
(* Leaving: the end of PART and KICK, and QUIT, KILL and a lost connection. *)

RemoveFromChannel(c) ==
    LET t == task[c] IN
    /\ At(c, "remove")
    /\ chan' = [chan EXCEPT ![t.obj] = Leave(@, t.target)]
    /\ stale' = stale \ {<<"channel", t.obj, t.target>>}
    /\ Goto(c, [t EXCEPT !.at = "clean"])
    /\ UNCHANGED <<script, sent, users, byName, groups, stray>>

\* Fault: KICK forgets that the target may have been the last member.
FaultCleanUp(c) ==
    LET t == task[c] IN
    /\ At(c, "clean")
    /\ IF t.cmd = "kick" THEN UNCHANGED byName ELSE RemoveIfEmpty(chan[t.obj].name)
    /\ Goto(c, CASE t.cmd = "part"            -> NextName(t, "lookup")
                 [] t.cmd = "kick"            -> Idle
                 [] t.cmd \in {"quit", "kill"} -> [t EXCEPT !.at = "leaveNext"])
    /\ UNCHANGED <<script, sent, users, chan, groups, stale, stray>>

CleanUp(c) ==
    LET t == task[c] IN
    /\ At(c, "clean")
    /\ RemoveIfEmpty(chan[t.obj].name)
    /\ Goto(c, CASE t.cmd = "part"            -> NextName(t, "lookup")
                 [] t.cmd = "kick"            -> Idle
                 [] t.cmd \in {"quit", "kill"} -> [t EXCEPT !.at = "leaveNext"])
    /\ UNCHANGED <<script, sent, users, chan, groups, stale, stray>>

HandleQuit(c) ==
    /\ Sends(c, "quit")
    /\ Goto(c, [Begin(c, "quit", "listAll") EXCEPT !.target = session[c], !.victim = c])
    /\ UNCHANGED <<script, users, byName, chan, groups, stale, stray>>

HandleKill(c, victim) ==
    /\ Sends(c, "kill") /\ c \in opers /\ session[victim] # Nil
    /\ Goto(c, [Begin(c, "kill", "listAll") EXCEPT !.target = session[victim], !.victim = victim])
    /\ UNCHANGED <<script, users, byName, chan, groups, stale, stray>>

\* broadcast_quit_and_remove works through the channels there are at this point.
ListAll(c) ==
    /\ At(c, "listAll")
    /\ Goto(c, [task[c] EXCEPT !.at = "leaveNext", !.list = Registered])
    /\ UNCHANGED <<script, sent, users, byName, chan, groups, stale, stray>>

\* Fault: the loop over the channels stops after the first that held the user.
FaultLeaveNext(c) ==
    LET t == task[c] IN
    /\ At(c, "leaveNext")
    /\ \/ /\ t.list = {} \/ t.obj # 0
          /\ Goto(c, [t EXCEPT !.at = IF t.cmd = "quit" THEN "groupList" ELSE "endSession"])
       \/ \E o \in t.list :
             /\ t.obj = 0
             /\ Goto(c, IF t.target \in Members(chan[o])
                          THEN [t EXCEPT !.at = "remove", !.obj = o, !.list = @ \ {o}]
                          ELSE [t EXCEPT !.list = @ \ {o}])
    /\ UNCHANGED <<script, sent, users, byName, chan, groups, stale, stray>>

\* One channel of the list; KILL ends without looking at the groups.
LeaveNext(c) ==
    LET t == task[c] IN
    /\ At(c, "leaveNext")
    /\ \/ /\ t.list = {}
          /\ Goto(c, [t EXCEPT !.at = IF t.cmd = "quit" THEN "groupList" ELSE "endSession"])
       \/ \E o \in t.list :
             Goto(c, IF t.target \in Members(chan[o])
                       THEN [t EXCEPT !.at = "remove", !.obj = o, !.list = @ \ {o}]
                       ELSE [t EXCEPT !.list = @ \ {o}])
    /\ UNCHANGED <<script, sent, users, byName, chan, groups, stale, stray>>

\* The connection is lost, its peer is silent, or sending to it fails: the task
\* cleans up the groups and the user registry, not the channels.
DropConnection(c) ==
    /\ "drop" \in script.commands /\ At(c, "idle") /\ phase[c] = "registered" /\ session[c] # Nil
    /\ Goto(c, [Begin(c, "drop", "groupList") EXCEPT !.target = session[c], !.victim = c])
    /\ UNCHANGED <<script, sent, users, byName, chan, groups, stale, stray>>

\* Fault: only the groups the user is the admin of.
FaultListGroups(c) ==
    /\ At(c, "groupList")
    /\ Goto(c, [task[c] EXCEPT !.at = "groupNext",
                  !.list = {g \in DOMAIN groups : task[c].spelled \in groups[g].admins}])
    /\ UNCHANGED <<script, sent, users, byName, chan, groups, stale, stray>>

\* remove_user_from_all_groups.
ListGroups(c) ==
    /\ At(c, "groupList")
    /\ Goto(c, [task[c] EXCEPT !.at = "groupNext",
                  !.list = {g \in DOMAIN groups : task[c].spelled \in GroupMembers(groups[g])}])
    /\ UNCHANGED <<script, sent, users, byName, chan, groups, stale, stray>>

LeaveGroupNext(c) ==
    LET t == task[c] IN
    /\ At(c, "groupNext")
    /\ \/ /\ t.list = {}
          /\ Goto(c, [t EXCEPT !.at = "endSession"])
          /\ UNCHANGED <<groups, stale>>
       \/ \E g \in t.list : \E left \in RemoveMember(groups[g], t.spelled) :
             /\ groups' = [groups EXCEPT ![g] = left]
             /\ stale' = stale \ {<<"group", g, t.spelled>>}
             /\ Goto(c, [t EXCEPT !.list = @ \ {g}])
    /\ UNCHANGED <<script, sent, users, byName, chan, stray>>

\* remove_by_connection.  A lost connection leaves its channel memberships
\* behind, a KILL the group memberships of its victim.
EndSession(c) ==
    LET t == task[c] IN
    /\ At(c, "endSession")
    /\ session' = [session EXCEPT ![t.victim] = Nil]
    /\ opers' = opers \ {t.victim}
    /\ phase' = IF t.cmd = "kill" THEN phase ELSE [phase EXCEPT ![c] = "closed"]
    /\ stale' = stale \cup (IF t.cmd = "drop" THEN Memberships(t.target) ELSE {})
                      \cup (IF t.cmd = "kill" THEN GroupMemberships(Spelling(t.victim)) ELSE {})
    /\ Goto(c, Idle)
    /\ UNCHANGED <<script, sent, casing, byName, chan, groups, stray>>

\* The connection of a killed user stays open until its client closes it; no
\* handler finds a session for it, so there is nothing to clean up.
CloseKilled(c) ==
    /\ At(c, "idle") /\ phase[c] = "registered" /\ session[c] = Nil
    /\ phase' = [phase EXCEPT ![c] = "closed"]
    /\ UNCHANGED <<script, sent, session, casing, opers, task, byName, chan, groups, stale, stray>>

-----------------------------------------------------------------------------
(* Groups.                                                                 *)

HandleGroupCreate(c, now) ==
    /\ Sends(c, "group") /\ Len(groups) < MaxGroups
    /\ groups' = Append(groups, CreateGroup(Spelling(c), now))
    /\ UNCHANGED <<script, users, task, byName, chan, stale, stray>>

\* exists, then add_member: the group may go in between.
HandleGroupJoin(c, g) ==
    /\ Sends(c, "group") /\ GroupMembers(groups[g]) # {}
    /\ Goto(c, [Begin(c, "group", "groupAdd") EXCEPT !.obj = g])
    /\ UNCHANGED <<script, users, byName, chan, groups, stale, stray>>

GroupAdd(c, now) ==
    LET t == task[c] IN
    /\ At(c, "groupAdd")
    /\ IF CanAdd(groups[t.obj], t.spelled)
         THEN /\ groups' = [groups EXCEPT ![t.obj] = AddMember(@, t.spelled, now)]
              /\ stale' = IF Killed(c) THEN stale \cup {<<"group", t.obj, t.spelled>>} ELSE stale
         ELSE UNCHANGED <<groups, stale>>
    /\ Goto(c, Idle)
    /\ UNCHANGED <<script, sent, users, byName, chan, stray>>

HandleGroupLeave(c, g) ==
    /\ Sends(c, "group")
    /\ \E left \in RemoveMember(groups[g], Spelling(c)) : groups' = [groups EXCEPT ![g] = left]
    /\ stale' = stale \ {<<"group", g, Spelling(c)>>}
    /\ UNCHANGED <<script, users, task, byName, chan, stray>>

-----------------------------------------------------------------------------
Init ==
    /\ script \in Scripts
    /\ sent = [c \in Conn |-> 0]
    /\ session = [c \in Conn |-> Nil]
    /\ casing = [c \in Conn |-> Nil]
    /\ phase = [c \in Conn |-> "new"]
    /\ opers = {}
    /\ task = [c \in Conn |-> Idle]
    /\ byName = [name \in Name |-> 0]
    /\ chan = <<>>
    /\ groups = <<>>
    /\ stale = {}
    /\ stray = {}

UserStep(c) ==
    \/ \E n \in Nick, k \in script.casings : CompleteRegistration(c, n, k)
    \/ \E n \in Nick, k \in script.casings : HandleNickChange(c, n, k)
    \/ \E on \in BOOLEAN : HandleOper(c, on)
    \/ HandleQuit(c)
    \/ \E v \in Conn : HandleKill(c, v)
    \/ DropConnection(c)
    \/ CloseKilled(c)

ChannelStep(c) ==
    \/ \E names \in NameLists, hasKey \in BOOLEAN : HandleJoin(c, names, hasKey)
    \/ JoinNext(c)
    \/ JoinEnter(c)
    \/ \E names \in NameLists : HandlePart(c, names)
    \/ \E name \in Name, n \in Nick : HandleKick(c, name, n)
    \/ \E name \in Name, changes \in Changes : HandleMode(c, name, changes)
    \/ \E name \in Name, n \in Nick, add \in BOOLEAN : HandleBan(c, name, n, add)
    \/ \E name \in Name : HandleTopic(c, name)
    \/ \E name \in Name, n \in Nick : HandleInvite(c, name, n)
    \/ LookUp(c)
    \/ Check(c)
    \/ Protect(c)
    \/ ChangeChannel(c)
    \/ RemoveFromChannel(c)
    \/ CleanUp(c)

LeaveStep(c) ==
    \/ ListAll(c)
    \/ LeaveNext(c)
    \/ ListGroups(c)
    \/ LeaveGroupNext(c)
    \/ EndSession(c)

GroupStep(c) ==
    \/ \E now \in 0..MaxTime : HandleGroupCreate(c, now)
    \/ \E g \in DOMAIN groups : HandleGroupJoin(c, g)
    \/ \E now \in 0..MaxTime : GroupAdd(c, now)
    \/ \E g \in DOMAIN groups : HandleGroupLeave(c, g)

Next == \E c \in Conn : UserStep(c) \/ ChannelStep(c) \/ LeaveStep(c) \/ GroupStep(c)

Spec == Init /\ [][Next]_vars

-----------------------------------------------------------------------------
TypeOK ==
    /\ script \in Scripts
    /\ sent \in [Conn -> 0..script.each]
    /\ session \in [Conn -> Nick \cup {Nil}]
    /\ casing \in [Conn -> Casing \cup {Nil}]
    /\ phase \in [Conn -> {"new", "registered", "closed"}]
    /\ opers \subseteq Conn
    /\ task \in [Conn -> Task]
    /\ byName \in [Name -> 0..Len(chan)]
    /\ chan \in Seq(Channel)
    /\ groups \in Seq(Group)

AtRest == \A c \in Conn : At(c, "idle")

\* No channel is leaked: when every handler has finished, each name in the
\* channel registry has a member.  Somebody else may look a channel up, or come
\* in, between a departure and its remove_if_empty.
NoEmptyChannel == AtRest => \A o \in Registered : Members(chan[o]) # {}

\* A channel with members never loses its name: whoever is in a channel that is
\* no longer registered came in after it was removed, through a handle that
\* get_or_create had returned before.
OnlyStraysOrphaned ==
    \A o \in DOMAIN chan \ Registered : \A n \in Members(chan[o]) : <<o, n>> \in stray

\* When every handler has finished, the members of a channel are users, except
\* for what a lost connection, a change of nickname, or a JOIN overtaken by a
\* KILL leaves behind.
MembersAreUsers ==
    AtRest => \A o \in Registered : \A n \in Members(chan[o]) :
                 n \in InUse \/ <<"channel", o, n>> \in stale

\* The same of groups, whose members are users under the nickname as they write it
\* now; a lost connection leaves them cleanly, a KILL does not, and a change of
\* casing alone leaves the old membership behind.
GroupMembersAreUsers ==
    AtRest => \A g \in DOMAIN groups : \A n \in GroupMembers(groups[g]) :
                 n \in Written \/ <<"group", g, n>> \in stale

\* max_channels_per_user holds for every nickname, over JOINs of several names
\* and concurrent departures (the count is read once per JOIN).
WithinChannelLimit ==
    \A n \in Nick :
        Cardinality({o \in ChannelsOf(n) : <<"channel", o, n>> \notin stale}) =< script.max

\* A group with members has exactly one admin, who is a member, whatever the order
\* of joins, leaves and disconnects.
OneAdmin ==
    \A g \in DOMAIN groups : GroupMembers(groups[g]) # {} =>
        \E a \in GroupMembers(groups[g]) : groups[g].admins = {a}

\* What is in a channel agrees with the channel registry and the user registry,
\* however the locks of JOIN, PART, KICK, KILL, QUIT and lost connections are
\* interleaved: no empty channel is left, none that has members loses its
\* name, and members are users.
ChannelsSound == NoEmptyChannel /\ OnlyStraysOrphaned /\ MembersAreUsers

\* Members of a group are users, and exactly one of them is its admin
\* (GroupRegistry, remove_user_from_all_groups).
GroupsSound == GroupMembersAreUsers /\ OneAdmin

\* The admin of a group stays admin as long as they are a member, and is followed
\* by a member whom nobody in the group has a smaller joined_at than, although
\* joined_at is read before the group is locked and clocks are set back.
SucceedsAdmin(g, h) ==
    /\ \A a \in g.admins : a \in GroupMembers(h) => h.admins = g.admins
    /\ \A a \in h.admins \ g.admins : \A n \in GroupMembers(h) : h.joined[a] =< h.joined[n]

AdminSuccession ==
    [][\A g \in DOMAIN groups : SucceedsAdmin(groups[g], groups'[g])]_vars
=============================================================================
