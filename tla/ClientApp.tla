------------------------------ MODULE ClientApp ------------------------------
(***************************************************************************)
(* The client's connection to its server: connecting, registering under a  *)
(* free nickname, keeping the connection alive, losing it, and coming back *)
(* with its channels.                                                      *)
(*                                                                         *)
(*   pirc-client/src/app/mod.rs, connection_state.rs, registration.rs      *)
(*   pirc-client/src/message_handler/mod.rs (NICK, JOIN)                   *)
(*   pirc-server/src/handler.rs (registration, NICK)                       *)
(*                                                                         *)
(* The event loop takes one event at a time, so a handler is one step.     *)
(* Time is left out: a timer that is set may go off at any moment.         *)
(***************************************************************************)
EXTENDS Integers, Sequences, SequencesExt, FiniteSets

CONSTANTS Nil, PrimaryNick, AltNicks, Chan,
          MaxUnderscores, \* bound: underscores put after a nickname
          MaxLosses,      \* bound: connections that break
          MaxAttempts,    \* bound: connection attempts counted
          MaxCommands     \* bound: commands of the user

VARIABLES app,     \* App and its ConnectionManager
          inbox,   \* lines from the server, in order
          outbox,  \* lines to the server, in order
          peer,    \* what the server knows of the connection, or Nil
          taken,   \* nicknames others have
          losses, commands

appVars == <<app, inbox, outbox, peer, taken, losses, commands>>

----------------------------------------------------------------------------
(* ConnectionManager and RegistrationState *)

IsValidTransition(from, to) ==
  <<from, to>> \in {<<"Disconnected", "Connecting">>, <<"Connecting", "Registering">>,
                    <<"Connecting", "Disconnected">>, <<"Registering", "Connected">>,
                    <<"Registering", "Disconnected">>, <<"Connected", "Disconnected">>,
                    <<"Disconnected", "Reconnecting">>, <<"Reconnecting", "Connecting">>,
                    <<"Reconnecting", "Disconnected">>}

\* transition, where the caller ignores its error
Transition(a, to) == IF IsValidTransition(a.state, to) THEN [a EXCEPT !.state = to] ELSE a
IsConnected(a) == a.state = "Connected"

\* A nickname is a base and the underscores after it.
Underscored(nick, k) == [nick EXCEPT !.underscores = @ + k]

NewRegistration(nick) == [current |-> nick, primary |-> nick, alt |-> 0, underscores |-> 0]

NextNick(r) ==
  IF r.alt < Len(AltNicks)
    THEN [r EXCEPT !.alt = @ + 1, !.current = [base |-> AltNicks[r.alt + 1], underscores |-> 0]]
    ELSE [r EXCEPT !.underscores = @ + 1, !.current = Underscored(r.primary, r.underscores + 1)]

\* handle_message; the numerics that only inform are left out
RegistrationEvent(line) ==
  CASE line.command = "001" -> "Welcome"
    [] line.command = "433" -> "NickRetry"
    [] OTHER -> "Unhandled"

----------------------------------------------------------------------------
(* Connecting *)

NickLine(n) == [command |-> "NICK", nick |-> n]
UserLine == [command |-> "USER"]
SendRegistrationMessages(r) == <<NickLine(r.current), UserLine>>

\* The connection is up: Registering, with NICK and USER on their way.
BeginRegistration(a) ==
  LET r == NewRegistration(a.nick)
  IN  /\ app' = [Transition(a, "Registering") EXCEPT !.conn = TRUE, !.reg = r, !.deadline = TRUE]
      /\ outbox' = SendRegistrationMessages(r)
      /\ inbox' = <<>>
      /\ peer' = [nick |-> Nil, user |-> FALSE, registered |-> FALSE, joined |-> {}]

Unchanged(a) == app' = a /\ UNCHANGED <<inbox, outbox, peer>>

\* Once, at the start.  Where it fails, nothing is tried again.
InitiateConnection(reachable) ==
  /\ ~app.started
  /\ LET a == Transition([app EXCEPT !.started = TRUE], "Connecting")
     IN  IF reachable THEN BeginRegistration(a) ELSE Unchanged(Transition(a, "Disconnected"))
  /\ UNCHANGED <<taken, losses, commands>>

ScheduleReconnect(a, attempt) ==
  [Transition(a, "Reconnecting") EXCEPT !.attempt = attempt, !.reconnectAt = TRUE]

\* The reconnect timer goes off.
AttemptReconnect(reachable) ==
  /\ app.reconnectAt
  /\ app.attempt <= MaxAttempts
  /\ LET a == [app EXCEPT !.reconnectAt = FALSE]
     IN  IF ~IsValidTransition(a.state, "Connecting") THEN Unchanged(a)
         ELSE LET c == Transition(a, "Connecting")
              IN  IF reachable THEN BeginRegistration(c)
                  ELSE Unchanged(ScheduleReconnect(Transition(c, "Disconnected"), a.attempt + 1))
  /\ UNCHANGED <<taken, losses, commands>>

----------------------------------------------------------------------------
(* Losing the connection *)

Cleared(a) == [a EXCEPT !.conn = FALSE, !.reg = Nil, !.deadline = FALSE, !.ping = FALSE]

\* A bug the mutation runs plant: the channels are noted after the state has
\* changed, and only where it is still Connected.
FaultHandleDisconnect(a) ==
  LET b == Transition(Cleared(a), "Disconnected")
      c == IF IsConnected(b) THEN [b EXCEPT !.rejoin = b.open] ELSE b
  IN  IF a.auto THEN ScheduleReconnect(c, IF a.attempt > 0 THEN a.attempt + 1 ELSE 1) ELSE c
HandleDisconnect(a) ==
  LET b == Transition(Cleared([a EXCEPT !.rejoin = IF @ = {} THEN a.open ELSE @]), "Disconnected")
  IN  IF a.auto THEN ScheduleReconnect(b, IF a.attempt > 0 THEN a.attempt + 1 ELSE 1) ELSE b

\* The server may go on thinking that the user is there.
LeavesBehind ==
  /\ peer' = Nil /\ inbox' = <<>> /\ outbox' = <<>>
  /\ taken' \in IF peer # Nil /\ peer.registered THEN {taken, taken \cup {peer.nick}} ELSE {taken}

\* End of stream, a network error, no PONG in time, or no welcome in 30 s.
LoseConnection ==
  /\ app.conn /\ losses < MaxLosses
  /\ app.attempt < MaxAttempts
  /\ losses' = losses + 1
  /\ app' = HandleDisconnect(app)
  /\ LeavesBehind
  /\ UNCHANGED commands

RegistrationTimeout ==
  /\ app.deadline /\ app.attempt < MaxAttempts
  /\ app' = HandleDisconnect(app)
  /\ LeavesBehind
  /\ UNCHANGED <<losses, commands>>

HandleKeepaliveTick ==
  /\ IsConnected(app)
  /\ IF app.ping
       THEN app.attempt < MaxAttempts /\ app' = HandleDisconnect(app) /\ LeavesBehind
       ELSE /\ app' = [app EXCEPT !.ping = TRUE]
            /\ outbox' = Append(outbox, [command |-> "PING"])
            /\ UNCHANGED <<inbox, peer, taken>>
  /\ UNCHANGED <<losses, commands>>

----------------------------------------------------------------------------
(* Commands of the user *)

Command == commands < MaxCommands /\ ~app.over /\ app.started /\ commands' = commands + 1

\* /reconnect
HandleReconnectCommand ==
  /\ Command
  /\ LET a == [app EXCEPT !.reconnectAt = FALSE, !.attempt = 0, !.auto = TRUE]
         b == IF a.state = "Reconnecting" THEN Transition(a, "Disconnected") ELSE a
     IN  app' = IF IsConnected(app) THEN app ELSE ScheduleReconnect(b, 1)
  /\ UNCHANGED <<inbox, outbox, peer, taken, losses>>

\* /disconnect
HandleDisconnectCommand ==
  /\ Command
  /\ LET a == [app EXCEPT !.auto = FALSE, !.reconnectAt = FALSE, !.attempt = 0]
     IN  IF app.conn \/ IsConnected(app)
           THEN app' = [Transition(Cleared(a), "Disconnected") EXCEPT !.left = TRUE] /\ LeavesBehind
           ELSE /\ app' = IF a.state = "Reconnecting" THEN Transition(a, "Disconnected") ELSE a
                /\ UNCHANGED <<inbox, outbox, peer, taken>>
  /\ UNCHANGED losses

\* /quit, and SIGINT
HandleQuit ==
  /\ Command
  /\ app' = [Transition(Cleared([app EXCEPT !.auto = FALSE, !.reconnectAt = FALSE, !.attempt = 0]), "Disconnected")
              EXCEPT !.over = TRUE]
  /\ LeavesBehind
  /\ UNCHANGED losses

\* Any other command is sent as it is, whatever the state of the connection.
HandleCommand(line) ==
  /\ Command
  /\ outbox' = IF app.conn THEN Append(outbox, line) ELSE outbox
  /\ UNCHANGED <<app, inbox, peer, taken, losses>>

UserLines == {NickLine([base |-> n, underscores |-> 0]) : n \in {PrimaryNick} \cup ToSet(AltNicks)}
               \cup {[command |-> "JOIN", channels |-> {c}] : c \in Chan}

----------------------------------------------------------------------------
(* Lines from the server *)

\* rejoin_channels, and the pre-key bundle of KeyExchange after it
RejoinChannels(a) == IF a.rejoin = {} THEN <<>> ELSE <<[command |-> "JOIN", channels |-> a.rejoin]>>

\* A bug the mutation runs plant: the nickname of the welcome is not taken over.
FaultWelcome(line) ==
  /\ app' = [Transition(app, "Connected") EXCEPT !.reg = Nil, !.deadline = FALSE,
               !.reconnectAt = FALSE, !.attempt = 0, !.rejoin = {}]
  /\ outbox' = outbox \o RejoinChannels(app)
Welcome(line) ==
  /\ app' = [Transition(app, "Connected") EXCEPT !.nick = line.nick, !.reg = Nil, !.deadline = FALSE,
               !.reconnectAt = FALSE, !.attempt = 0, !.rejoin = {}]
  /\ outbox' = outbox \o RejoinChannels(app)

NickRetry ==
  LET r == NextNick(app.reg)
  IN  /\ r.current.underscores <= MaxUnderscores
      /\ app' = [app EXCEPT !.reg = r, !.nick = r.current]
      /\ outbox' = Append(outbox, NickLine(r.current))

RouteNick(line) ==
  app' = [app EXCEPT !.nick = IF line.old = app.nick THEN line.nick ELSE @]
RouteJoin(line) == app' = [app EXCEPT !.open = @ \cup {line.channel}]

HandleServerMessage ==
  /\ app.conn /\ inbox # <<>>
  /\ inbox' = Tail(inbox)
  /\ LET line == Head(inbox)
     IN  IF line.command = "PONG" THEN app' = [app EXCEPT !.ping = FALSE] /\ UNCHANGED outbox
         ELSE IF app.reg # Nil /\ RegistrationEvent(line) = "Welcome" THEN Welcome(line)
         ELSE IF app.reg # Nil /\ RegistrationEvent(line) = "NickRetry" THEN NickRetry
         ELSE IF line.command = "NICK" THEN RouteNick(line) /\ UNCHANGED outbox
         ELSE IF line.command = "JOIN" THEN RouteJoin(line) /\ UNCHANGED outbox
         ELSE UNCHANGED <<app, outbox>>
  /\ UNCHANGED <<peer, taken, losses, commands>>

----------------------------------------------------------------------------
(* The server *)

Welcomes(p) == p.nick # Nil /\ p.user /\ ~p.registered

\* complete_registration
CompleteRegistration(p, replies) ==
  IF ~Welcomes(p) THEN peer' = p /\ inbox' = inbox \o replies
  ELSE IF p.nick \in taken
    THEN peer' = [p EXCEPT !.nick = Nil] /\ inbox' = inbox \o replies \o <<[command |-> "433"]>>
    ELSE /\ peer' = [p EXCEPT !.registered = TRUE]
         /\ inbox' = inbox \o replies \o <<[command |-> "001", nick |-> p.nick]>>

ServerHandles ==
  /\ peer # Nil /\ outbox # <<>>
  /\ outbox' = Tail(outbox)
  /\ LET line == Head(outbox)
         busy == line.command = "NICK" /\ line.nick \in taken
     IN  IF line.command = "NICK" /\ ~peer.registered
           THEN CompleteRegistration(IF busy THEN peer ELSE [peer EXCEPT !.nick = line.nick],
                                     IF busy THEN <<[command |-> "433"]>> ELSE <<>>)
         ELSE IF line.command = "USER" /\ ~peer.registered
           THEN CompleteRegistration([peer EXCEPT !.user = TRUE], <<>>)
         ELSE IF line.command = "NICK"
           THEN IF busy THEN inbox' = Append(inbox, [command |-> "433"]) /\ UNCHANGED peer
                ELSE /\ peer' = [peer EXCEPT !.nick = line.nick]
                     /\ inbox' = Append(inbox, [command |-> "NICK", old |-> peer.nick, nick |-> line.nick])
         ELSE IF line.command = "JOIN" /\ peer.registered
           THEN /\ peer' = [peer EXCEPT !.joined = @ \cup line.channels]
                /\ inbox' = inbox \o SetToSeq({[command |-> "JOIN", channel |-> c] : c \in line.channels \ peer.joined})
         ELSE IF line.command = "PING" THEN inbox' = Append(inbox, [command |-> "PONG"]) /\ UNCHANGED peer
         ELSE UNCHANGED <<inbox, peer>>
  /\ UNCHANGED <<app, taken, losses, commands>>

\* The server finds out that an old connection is gone.
ForgetGhost == taken # {} /\ taken' = {} /\ UNCHANGED <<app, inbox, outbox, peer, losses, commands>>

\* Another user registers under the nickname.
OtherTakes ==
  LET nick == [base |-> PrimaryNick, underscores |-> 0]
  IN  /\ peer # Nil => ~(peer.registered /\ peer.nick = nick)
      /\ taken = {} /\ taken' = {nick}
      /\ UNCHANGED <<app, inbox, outbox, peer, losses, commands>>

----------------------------------------------------------------------------

AppInit ==
  /\ app \in [conn : {FALSE}, state : {"Disconnected"}, reg : {Nil}, deadline : {FALSE},
              reconnectAt : {FALSE}, attempt : {0}, auto : BOOLEAN, ping : {FALSE},
              nick : {[base |-> PrimaryNick, underscores |-> 0]}, rejoin : {{}}, open : {{}},
              started : {FALSE}, left : {FALSE}, over : {FALSE}]
  /\ inbox = <<>> /\ outbox = <<>> /\ peer = Nil
  /\ taken \in {{}, {[base |-> PrimaryNick, underscores |-> 0]}}
  /\ losses = 0 /\ commands = 0

AppNext ==
  \/ \E reachable \in BOOLEAN : InitiateConnection(reachable) \/ AttemptReconnect(reachable)
  \/ LoseConnection \/ RegistrationTimeout \/ HandleKeepaliveTick
  \/ HandleReconnectCommand \/ HandleDisconnectCommand \/ HandleQuit
  \/ \E line \in UserLines : HandleCommand(line)
  \/ HandleServerMessage \/ ServerHandles \/ ForgetGhost \/ OtherTakes

AppSpec == AppInit /\ [][AppNext]_appVars

\* The pieces of the connection's state move together: a connection is there
\* exactly while Registering or Connected, a registration and its deadline
\* exactly while Registering, a PING is outstanding only while Connected; and a
\* client that has lost its connection and is to reconnect has its timer set.
ConnectionExact ==
  /\ app.conn <=> app.state \in {"Registering", "Connected"}
  /\ (app.reg # Nil) <=> app.state = "Registering"
  /\ app.deadline <=> app.state = "Registering"
  /\ app.ping => IsConnected(app)
  /\ app.state = "Reconnecting" => app.reconnectAt /\ app.auto
  /\ app.state # "Connecting"

\* Once all lines are read, client and server have the same nickname for the
\* user, whatever collisions, retries, renames and reconnections there were
\* (NickRetry, Welcome, route_nick against handle_nick, handle_nick_change).
NickAgrees == (IsConnected(app) /\ inbox = <<>> /\ outbox = <<>>) => app.nick = peer.nick

\* A client that comes back asks for every channel it has open: once all lines
\* are read, it is in them.  (A client told to /disconnect does not note
\* its channels.)
RejoinsOpen ==
  (IsConnected(app) /\ inbox = <<>> /\ outbox = <<>> /\ ~app.left) => app.open \subseteq peer.joined
=============================================================================
