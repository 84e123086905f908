----------------------------- MODULE GroupView -----------------------------
(***************************************************************************)
(* One group: its members on the server, and whom each client takes for a  *)
(* member.                                                                 *)
(*                                                                         *)
(*   pirc-server/src/handler_group.rs, pirc-server/src/group_registry.rs,  *)
(*   pirc-server/src/main.rs                                               *)
(*   pirc-client/src/app/group.rs, pirc-client/src/group_chat/mod.rs       *)
(*                                                                         *)
(* The task of a connection takes the lock of the registry for one         *)
(* operation at a time, and a broadcast is one send after the other, so    *)
(* the tasks of others come in between.  A client reads the lines of its   *)
(* connection in order.                                                    *)
(***************************************************************************)
EXTENDS Naturals, Sequences

CONSTANTS User,         \* nicknames, each with its client
          Nil,
          Budgets       \* bounds: how many commands, and losses of its connection,
                        \* each user may have

VARIABLES members,  \* ServerGroup.members; the group is there while it has any
          created,  \* the group has been created
          online,   \* in the user registry
          task,     \* task[u]: where the task of u's connection is
          wire,     \* wire[u]: the lines on their way to u's client
          view,     \* view[u]: the members u's GroupChatManager knows, or Nil
          window,   \* whose client has the group's window
          missed,   \* history: missed[u]: who came or went without u's client hearing
          budget    \* budget[u]: how many commands u may still send

viewVars == <<members, created, online, task, wire, view, window, missed, budget>>

Idle == [at |-> "idle"]
Line(cmd, u, list) == [cmd |-> cmd, nick |-> u, list |-> list]
Goto(u, t) == task' = [task EXCEPT ![u] = t]
Queue(w, u, line) == [w EXCEPT ![u] = Append(@, line)]

\* u is a member, and the line that tells its client so is not yet on its way.
Entering(u) == task[u].at \in {"reply", "list"} \/ (task[u].at = "broadcast" /\ task[u].line.cmd = "JOIN")

----------------------------------------------------------------------------
(* The server: one task per connection *)

Takes(u) ==
  /\ u \in online /\ task[u] = Idle
  /\ budget[u] > 0 /\ budget' = [budget EXCEPT ![u] = @ - 1]

\* create_group, then the confirmation.
HandleGroupCreate(u) ==
  /\ Takes(u) /\ ~created
  /\ created' = TRUE
  /\ members' = {u}
  /\ Goto(u, [at |-> "reply", line |-> Line("CREATE", u, {})])
  /\ UNCHANGED <<online, wire, view, window, missed>>

\* exists and add_member, which asks again: anybody may join who is not a member.
HandleGroupJoin(u) ==
  /\ Takes(u) /\ members # {} /\ u \notin members
  /\ members' = members \cup {u}
  /\ Goto(u, [at |-> "list"])
  /\ UNCHANGED <<created, online, wire, view, window, missed>>

Broadcast(line, to, then) ==
  IF to = {} THEN then ELSE [at |-> "broadcast", line |-> line, to |-> to, then |-> then]

\* members, the recipients of the JOIN and what the newcomer is told.
JoinList(u) ==
  /\ task[u].at = "list"
  /\ Goto(u, Broadcast(Line("JOIN", u, {}), members,
                       [at |-> "reply", line |-> Line("MEMBERS", u, members)]))
  /\ UNCHANGED <<members, created, online, wire, view, window, missed, budget>>

\* broadcast_to_group_members: one recipient, found by its nickname or not.
SendTo(u, v) ==
  /\ task[u].at = "broadcast" /\ v \in task[u].to
  /\ wire' = IF v \in online THEN Queue(wire, v, task[u].line) ELSE wire
  /\ missed' = [missed EXCEPT ![v] =
                  IF v # u /\ (v \notin online \/ Entering(v)) THEN @ \cup {u} ELSE @]
  /\ Goto(u, Broadcast(task[u].line, task[u].to \ {v}, task[u].then))
  /\ UNCHANGED <<members, created, online, view, window, budget>>

Reply(u) ==
  /\ task[u].at = "reply"
  /\ wire' = Queue(wire, u, task[u].line)
  /\ Goto(u, Idle)
  /\ UNCHANGED <<members, created, online, view, window, missed, budget>>

\* Who has a view of the group, or will have, and is told nothing.
Outside(u) == {v \in User \ (members \cup {u}) : view[v] # Nil \/ wire[v] # <<>>}

\* remove_member, which also answers for somebody who is no member; the
\* LEAVE goes to those who remain.
RemoveMember(u, then) ==
  /\ members' = members \ {u}
  /\ missed' = [v \in User |-> IF u \in members /\ v \in Outside(u) THEN missed[v] \cup {u} ELSE missed[v]]
  /\ Goto(u, IF members = {} THEN then ELSE Broadcast(Line("LEAVE", u, {}), members', then))

HandleGroupLeave(u) ==
  /\ Takes(u) /\ u \in window
  /\ RemoveMember(u, Idle)
  /\ UNCHANGED <<created, online, wire, view, window>>

Unread(u) == {wire[u][i].nick : i \in DOMAIN wire[u]}

\* The connection is lost with what was under way: remove_user_from_all_groups,
\* which looks for groups the user is in, and remove_by_connection.
Disconnect(u) ==
  /\ Takes(u)
  /\ wire' = [wire EXCEPT ![u] = <<>>]
  /\ IF u \in members
     THEN /\ members' = members \ {u}
          /\ missed' = [v \in User |->
               IF v = u THEN missed[v] \cup Unread(u)
               ELSE IF v \in Outside(u) THEN missed[v] \cup {u} ELSE missed[v]]
          /\ Goto(u, Broadcast(Line("LEAVE", u, {}), members', [at |-> "unregister"]))
     ELSE /\ members' = members
          /\ missed' = [missed EXCEPT ![u] = @ \cup Unread(u)]
          /\ Goto(u, [at |-> "unregister"])
  /\ UNCHANGED <<created, online, view, window>>

Unregister(u) ==
  /\ task[u].at = "unregister"
  /\ online' = online \ {u}
  /\ wire' = [wire EXCEPT ![u] = <<>>]
  /\ missed' = [missed EXCEPT ![u] = @ \cup Unread(u)]
  /\ Goto(u, Idle)
  /\ UNCHANGED <<members, created, view, window, budget>>

\* attempt_reconnect; the GroupChatManager is as it was.
Reconnect(u) ==
  /\ u \notin online /\ task[u] = Idle
  /\ online' = online \cup {u}
  /\ UNCHANGED <<members, created, task, wire, view, window, missed, budget>>

----------------------------------------------------------------------------
(* The client *)

\* GroupChatManager
AddGroup(v) == IF v = Nil THEN {} ELSE v
MemberJoin(v, us) == IF v = Nil THEN Nil ELSE v \cup us
MemberLeave(v, u) == IF v = Nil THEN Nil ELSE v \ {u}

OnGroupJoinBroadcast(u, line) ==
  IF line.nick = u THEN AddGroup(view[u]) ELSE MemberJoin(view[u], {line.nick})

OnGroupLeaveBroadcast(u, line) ==
  IF line.nick = u THEN Nil ELSE MemberLeave(view[u], line.nick)

OnGroupMembers(u, line) == MemberJoin(view[u], line.list \ {u})

\* Every line opens the window.
HandleGroupMessage(u) ==
  /\ wire[u] # <<>>
  /\ LET line == Head(wire[u])
     IN  view' = [view EXCEPT ![u] =
                    CASE line.cmd = "CREATE"  -> AddGroup(@)
                      [] line.cmd = "JOIN"    -> OnGroupJoinBroadcast(u, line)
                      [] line.cmd = "LEAVE"   -> OnGroupLeaveBroadcast(u, line)
                      [] line.cmd = "MEMBERS" -> OnGroupMembers(u, line)]
  /\ window' = window \cup {u}
  /\ wire' = [wire EXCEPT ![u] = Tail(@)]
  /\ UNCHANGED <<members, created, online, task, missed, budget>>

----------------------------------------------------------------------------
ViewInit ==
  /\ members = {} /\ created = FALSE /\ online = User
  /\ task = [u \in User |-> Idle]
  /\ wire = [u \in User |-> <<>>]
  /\ view = [u \in User |-> Nil]
  /\ window = {} /\ missed = [u \in User |-> {}] /\ budget \in Budgets

ViewNext ==
  \E u \in User :
    \/ HandleGroupCreate(u) \/ HandleGroupJoin(u) \/ HandleGroupLeave(u)
    \/ JoinList(u) \/ Reply(u)
    \/ Disconnect(u) \/ Unregister(u) \/ Reconnect(u)
    \/ HandleGroupMessage(u)
    \/ \E v \in User : SendTo(u, v)

----------------------------------------------------------------------------
(* Properties *)

Settled == \A u \in User : task[u] = Idle /\ wire[u] = <<>>

\* When every line has been read, the members of the group know it, and each
\* knows the others, however joins, leaves and lost connections interleaved:
\* except for those who came or went while it was itself on the way in, or out
\* of the group (handle_group_join, handle_member_leave, on_group_join_broadcast,
\* on_group_members).
ViewsAgree ==
  Settled => \A u \in members : /\ view[u] # Nil
                                /\ members \ {u} \subseteq view[u] \cup missed[u]
                                /\ view[u] \subseteq members \cup missed[u]

\* ... with no exception.
ViewsExact == Settled => \A u \in members : view[u] = members \ {u}

\* on_group_leave_broadcast: "We left the group".
LeaverForgets == Settled => \A u \in online \ members : view[u] = Nil
============================================================================
