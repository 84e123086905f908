------------------------------- MODULE Replica -------------------------------
(***************************************************************************)
(* What a node makes of the committed commands.  The driver applies each   *)
(* to the replicated state machine (raft/state_machine.rs); the commit     *)
(* consumer (commit_consumer.rs) then applies it to the live registries    *)
(* that serve the clients.                                                 *)
(* The two sides are different code over different data, and this module   *)
(* is about what they agree on.                                            *)
(*                                                                         *)
(* The node is a follower without clients: its registry holds the dummy    *)
(* sessions the consumer makes.  Commands are those that the servers of    *)
(* the users would propose, so a nickname is registered, or changed to,    *)
(* only while it is free, and a channel is joined by users outside it.     *)
(***************************************************************************)
EXTENDS Integers, Sequences, FiniteSets

CONSTANTS Nick, Chan, Mask, Nil,
          Self,        \* this node; Other: any other node
          Other,
          MaxCommitted \* bound: committed commands

VARIABLES machine,    \* the state machine: users and channels
          sessions,   \* the live registry: by_nick, and by_connection
          rooms,      \* the live channel registry
          strayed,    \* history: nicknames that were changed, or migrated
          committed   \* history: commands applied so far

replicaVars == <<machine, sessions, rooms, strayed, committed>>

Status == {"normal", "voiced", "operator"}

\* A registration gives the connection id of the user on its own node; ids are
\* taken to differ between nodes, and the place in the log stands for the id.
Conn == 1..MaxCommitted

User == [home : {Self, Other}, away : BOOLEAN, o : BOOLEAN, oper : BOOLEAN]
Session == [conn : Conn, away : BOOLEAN, oper : BOOLEAN]

NewChannel == [members |-> [u \in Nick |-> Nil], topic |-> FALSE, invite |-> FALSE,
               key |-> FALSE, bans |-> <<>>, invited |-> {}]

IsMember(ch, u) == ch # Nil /\ ch.members[u] # Nil
Deserted(ch) == \A u \in Nick : ch.members[u] = Nil
Drop(ch, u) == [ch EXCEPT !.members[u] = Nil]

-----------------------------------------------------------------------------
(* The state machine.                                                      *)

Ensured(ch) == IF ch = Nil THEN NewChannel ELSE ch

\* remove_member_from_channel, and remove_user_from_all_channels for one of them.
WithoutMember(ch, u) ==
    IF ch = Nil THEN Nil ELSE IF Deserted(Drop(ch, u)) THEN Nil ELSE Drop(ch, u)

ApplyUserRegistered(m, cmd) ==
    [m EXCEPT !.users[cmd.nick] = [home |-> cmd.home, away |-> FALSE, o |-> FALSE, oper |-> FALSE]]

ApplyNickChanged(m, cmd) ==
    [users    |-> IF m.users[cmd.nick] = Nil THEN m.users
                  ELSE [m.users EXCEPT ![cmd.nick] = Nil, ![cmd.new] = m.users[cmd.nick]],
     channels |-> [c \in Chan |->
        IF ~IsMember(m.channels[c], cmd.nick) THEN m.channels[c]
        ELSE [m.channels[c] EXCEPT !.members[cmd.nick] = Nil,
                                   !.members[cmd.new] = m.channels[c].members[cmd.nick]]]]

\* The channel with the flags, the key and the status of a member changed.
Changed(ch, cmd) ==
    [ch EXCEPT !.invite = cmd.on, !.key = @ \/ cmd.key,
               !.members = [u \in Nick |-> IF u = cmd.nick /\ @[u] # Nil THEN cmd.status ELSE @[u]]]

ApplyChannelModeChanged(m, cmd) ==
    [m EXCEPT !.channels[cmd.chan] = Changed(Ensured(@), cmd)]

\* apply: the commands that change one user, if it is there.
ApplyToUser(m, cmd) ==
    CASE m.users[cmd.nick] = Nil -> m
      [] cmd.op = "away" /\ m.users[cmd.nick] # Nil     -> [m EXCEPT !.users[cmd.nick].away = cmd.on]
      [] cmd.op = "umode" /\ m.users[cmd.nick] # Nil    -> [m EXCEPT !.users[cmd.nick].o = cmd.on]
      [] cmd.op = "oper" /\ m.users[cmd.nick] # Nil     -> [m EXCEPT !.users[cmd.nick].oper = TRUE]
      [] cmd.op = "migrated" /\ m.users[cmd.nick] # Nil -> [m EXCEPT !.users[cmd.nick].home = cmd.home]

\* apply: everything else.
Apply(m, cmd) ==
    CASE cmd.op = "registered" -> ApplyUserRegistered(m, cmd)
      [] cmd.op = "nick"       -> ApplyNickChanged(m, cmd)
      [] cmd.op = "quit"       ->
            [users    |-> [m.users EXCEPT ![cmd.nick] = Nil],
             channels |-> [c \in Chan |-> WithoutMember(m.channels[c], cmd.nick)]]
      [] cmd.op \in {"away", "umode", "oper", "migrated"} -> ApplyToUser(m, cmd)
      [] cmd.op = "join"       ->
            [m EXCEPT !.channels[cmd.chan] = [Ensured(@) EXCEPT !.members[cmd.nick] = cmd.status]]
      [] cmd.op = "part"       -> [m EXCEPT !.channels[cmd.chan] = WithoutMember(@, cmd.nick)]
      [] cmd.op = "topic"      -> [m EXCEPT !.channels[cmd.chan] = [Ensured(@) EXCEPT !.topic = cmd.on]]
      [] cmd.op = "cmode"      -> ApplyChannelModeChanged(m, cmd)
      [] cmd.op = "ban"        ->
            [m EXCEPT !.channels[cmd.chan] = [Ensured(@) EXCEPT !.bans = Append(@, cmd.mask)]]
      [] cmd.op = "unban"      ->
            IF m.channels[cmd.chan] = Nil THEN m
            ELSE [m EXCEPT !.channels[cmd.chan].bans = SelectSeq(@, LAMBDA b : b # cmd.mask)]
      [] cmd.op = "invite"     ->
            [m EXCEPT !.channels[cmd.chan] = [Ensured(@) EXCEPT !.invited = @ \cup {cmd.nick}]]

-----------------------------------------------------------------------------
(* The commit consumer, on the registry of sessions.                       *)


\* register and remove_by_connection of the registry (UserRegistry has their
\* interleavings; the consumer is one task and nobody else is connected).
Register(s, u, id) ==
    [nick |-> [s.nick EXCEPT ![u] = [conn |-> id, away |-> FALSE, oper |-> FALSE]],
     conn |-> [s.conn EXCEPT ![id] = u]]

RemoveByConnection(s, id) ==
    IF s.conn[id] = Nil THEN s
    ELSE [nick |-> [s.nick EXCEPT ![s.conn[id]] = Nil], conn |-> [s.conn EXCEPT ![id] = Nil]]

ChangeNick(s, u, v) ==
    IF s.nick[v] # Nil THEN s
    ELSE [nick |-> [s.nick EXCEPT ![u] = Nil, ![v] = s.nick[u]],
          conn |-> [s.conn EXCEPT ![s.nick[u].conn] = v]]

AppliedUserRegistered(s, cmd) ==
    IF s.nick[cmd.nick] # Nil THEN s ELSE Register(s, cmd.nick, committed + 1)

AppliedNickChanged(s, cmd) ==
    IF s.nick[cmd.nick] = Nil THEN s ELSE ChangeNick(s, cmd.nick, cmd.new)

\* The last step of apply_user_quit.
AppliedUserQuit(s, cmd) ==
    IF s.nick[cmd.nick] = Nil THEN s ELSE RemoveByConnection(s, s.nick[cmd.nick].conn)

AppliedUserMigrated(s, cmd) ==
    IF s.nick[cmd.nick] = Nil THEN s ELSE RemoveByConnection(s, s.nick[cmd.nick].conn)

AppliedUserAway(s, cmd) ==
    IF s.nick[cmd.nick] = Nil THEN s ELSE [s EXCEPT !.nick[cmd.nick].away = cmd.on]

\* parse_user_mode keeps "o" apart; the other letters make no difference here.
AppliedUserModeChanged(s, cmd) ==
    IF s.nick[cmd.nick] = Nil THEN s ELSE [s EXCEPT !.nick[cmd.nick].oper = cmd.on]

AppliedOperGranted(s, cmd) ==
    IF s.nick[cmd.nick] = Nil THEN s ELSE [s EXCEPT !.nick[cmd.nick].oper = TRUE]

(* The commit consumer, on the channels.  Only a join makes one.           *)

RemoveIfEmpty(ch) == IF ch # Nil /\ Deserted(ch) THEN Nil ELSE ch

\* Fault: apply_user_quit leaves the channels to the part command.
FaultQuitRooms(r, u, present) == r

\* apply_user_quit: out of every channel, if the user is there at all.
QuitRooms(r, u, present) ==
    IF present THEN [c \in Chan |-> IF r[c] = Nil THEN Nil ELSE RemoveIfEmpty(Drop(r[c], u))] ELSE r

AppliedChannelJoined(ch, cmd) ==
    LET there == Ensured(ch)
    IN  IF IsMember(there, cmd.nick) THEN there ELSE [there EXCEPT !.members[cmd.nick] = cmd.status]

AppliedChannelParted(ch, cmd) == IF ch = Nil THEN Nil ELSE RemoveIfEmpty(Drop(ch, cmd.nick))

AppliedTopicSet(ch, cmd) == IF ch = Nil THEN Nil ELSE [ch EXCEPT !.topic = cmd.on]

AppliedChannelModeChanged(ch, cmd) == IF ch = Nil THEN Nil ELSE Changed(ch, cmd)

AppliedBanAdded(ch, cmd) ==
    IF ch = Nil \/ \E i \in DOMAIN ch.bans : ch.bans[i] = cmd.mask THEN ch
    ELSE [ch EXCEPT !.bans = Append(@, cmd.mask)]

AppliedBanRemoved(ch, cmd) ==
    IF ch = Nil THEN Nil ELSE [ch EXCEPT !.bans = SelectSeq(@, LAMBDA b : b # cmd.mask)]

AppliedInviteAdded(ch, cmd) == IF ch = Nil THEN Nil ELSE [ch EXCEPT !.invited = @ \cup {cmd.nick}]

\* apply_command.
ApplyCommand(cmd) ==
    /\ sessions' =
          CASE cmd.op = "registered" -> AppliedUserRegistered(sessions, cmd)
            [] cmd.op = "nick"       -> AppliedNickChanged(sessions, cmd)
            [] cmd.op = "quit"       -> AppliedUserQuit(sessions, cmd)
            [] cmd.op = "migrated"   -> AppliedUserMigrated(sessions, cmd)
            [] cmd.op = "away"       -> AppliedUserAway(sessions, cmd)
            [] cmd.op = "umode"      -> AppliedUserModeChanged(sessions, cmd)
            [] cmd.op = "oper"       -> AppliedOperGranted(sessions, cmd)
            [] OTHER                 -> sessions
    /\ rooms' =
          CASE cmd.op = "quit"   -> QuitRooms(rooms, cmd.nick, sessions.nick[cmd.nick] # Nil)
            [] cmd.op = "join"   -> [rooms EXCEPT ![cmd.chan] = AppliedChannelJoined(@, cmd)]
            [] cmd.op = "part"   -> [rooms EXCEPT ![cmd.chan] = AppliedChannelParted(@, cmd)]
            [] cmd.op = "topic"  -> [rooms EXCEPT ![cmd.chan] = AppliedTopicSet(@, cmd)]
            [] cmd.op = "cmode"  -> [rooms EXCEPT ![cmd.chan] = AppliedChannelModeChanged(@, cmd)]
            [] cmd.op = "ban"    -> [rooms EXCEPT ![cmd.chan] = AppliedBanAdded(@, cmd)]
            [] cmd.op = "unban"  -> [rooms EXCEPT ![cmd.chan] = AppliedBanRemoved(@, cmd)]
            [] cmd.op = "invite" -> [rooms EXCEPT ![cmd.chan] = AppliedInviteAdded(@, cmd)]
            [] OTHER             -> rooms

-----------------------------------------------------------------------------
\* The commands that may come next in the log.
Registered(u) == machine.users[u] # Nil

Possible ==
    {[op |-> "registered", nick |-> u, home |-> k] : u \in {v \in Nick : ~Registered(v)}, k \in {Self, Other}}
    \cup {[op |-> "nick", nick |-> u, new |-> v] :
             u \in {w \in Nick : Registered(w)}, v \in {w \in Nick : ~Registered(w)}}
    \cup {[op |-> "quit", nick |-> u] : u \in {v \in Nick : Registered(v)}}
    \cup {[op |-> o, nick |-> u, on |-> b] : o \in {"away", "umode"}, u \in Nick, b \in BOOLEAN}
    \cup {[op |-> "oper", nick |-> u] : u \in Nick}
    \cup {[op |-> "migrated", nick |-> u, home |-> k] : u \in Nick, k \in {Self, Other}}
    \cup {[op |-> "join", nick |-> u, chan |-> c, status |-> s] :
             u \in {v \in Nick : Registered(v)},
             c \in Chan, s \in {"normal", "operator"}}
    \cup {[op |-> "part", nick |-> u, chan |-> c] : u \in Nick, c \in Chan}
    \cup {[op |-> "topic", chan |-> c, on |-> b] : c \in Chan, b \in BOOLEAN}
    \cup {[op |-> "cmode", chan |-> c, on |-> b, key |-> b, nick |-> u, status |-> "voiced"] :
             c \in Chan, b \in BOOLEAN, u \in Nick}
    \cup {[op |-> o, chan |-> c, mask |-> k] : o \in {"ban", "unban"}, c \in Chan, k \in Mask}
    \cup {[op |-> "invite", chan |-> c, nick |-> u] : c \in Chan, u \in Nick}

\* The next committed entry, through the driver and the consumer.
Commit(cmd) ==
    /\ committed < MaxCommitted /\ committed' = committed + 1
    /\ cmd.op = "join" => ~IsMember(machine.channels[cmd.chan], cmd.nick)
    /\ machine' = Apply(machine, cmd)
    /\ ApplyCommand(cmd)
    /\ strayed' = CASE cmd.op = "nick"     -> strayed \cup {cmd.nick, cmd.new}
                    [] cmd.op = "migrated" -> strayed \cup {cmd.nick}
                    [] OTHER               -> strayed

Init ==
    /\ machine = [users |-> [u \in Nick |-> Nil], channels |-> [c \in Chan |-> Nil]]
    /\ sessions = [nick |-> [u \in Nick |-> Nil], conn |-> [id \in Conn |-> Nil]]
    /\ rooms = [c \in Chan |-> Nil]
    /\ strayed = {} /\ committed = 0

Next == \E cmd \in Possible : Commit(cmd)

Spec == Init /\ [][Next]_replicaVars

-----------------------------------------------------------------------------
Channel == [members : [Nick -> Status \cup {Nil}], topic : BOOLEAN, invite : BOOLEAN,
            key : BOOLEAN, bans : Seq(Mask), invited : SUBSET Nick]

TypeOK ==
    /\ machine.users \in [Nick -> User \cup {Nil}]
    /\ \A c \in Chan : machine.channels[c] # Nil => machine.channels[c] \in Channel
    /\ sessions.nick \in [Nick -> Session \cup {Nil}]
    /\ sessions.conn \in [Conn -> Nick \cup {Nil}]
    /\ \A c \in Chan : rooms[c] # Nil => rooms[c] \in Channel
    /\ strayed \subseteq Nick /\ committed \in 0..MaxCommitted

\* A nickname that was neither changed nor migrated has a live session exactly when
\* the replicated state machine has the user, with the same away status; the live
\* registry calls nobody an operator whom the replicated state does not
\* (apply_command against ClusterStateMachine::apply).
SessionsMirror ==
    \A u \in Nick \ strayed :
        /\ (sessions.nick[u] = Nil) = (machine.users[u] = Nil)
        /\ sessions.nick[u] # Nil =>
              /\ sessions.nick[u].away = machine.users[u].away
              /\ sessions.nick[u].oper => machine.users[u].o \/ machine.users[u].oper

\* A nickname that was neither changed nor migrated is a member of a live channel,
\* with the same status, exactly when it is one of the replicated channel: joins,
\* parts, kicks, quits and mode changes come out the same on both sides.
MembersMirror ==
    \A u \in Nick \ strayed : \A c \in Chan :
        /\ IsMember(rooms[c], u) = IsMember(machine.channels[c], u)
        /\ IsMember(rooms[c], u) => rooms[c].members[u] = machine.channels[c].members[u]
=============================================================================
