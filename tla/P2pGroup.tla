------------------------------ MODULE P2pGroup ------------------------------
(***************************************************************************)
(* The client's side of one encrypted group: who is a member, whose        *)
(* pairwise key is ready, over which link each is reached, and the fan-out *)
(* of a message to all of them.                                            *)
(*                                                                         *)
(*   pirc-client/src/group_chat/mod.rs, pirc-client/src/app/group.rs       *)
(*   pirc-crypto/src/group_key.rs                                          *)
(*   pirc-p2p/src/{group_mesh,group_session}.rs                            *)
(*                                                                         *)
(* The GroupSession counts the same links for the user's display and is    *)
(* driven by the same events.                                              *)
(***************************************************************************)
EXTENDS Naturals, Sequences, FiniteSets

CONSTANTS Member,       \* the other members
          Nil,
          MaxSequence,  \* bound on the messages sent
          MaxChanges    \* bound on the changes of membership and of links

VARIABLES group,      \* GroupState, or Nil
          verdict,    \* the last of MeshReady and MeshDegraded emitted
          gs,         \* GroupSession
          conn,       \* connected to the server
          buffer,     \* the group's buffer is open
          copies,     \* what left: [seq, to, path]
          fanout,     \* per echoed message, the members then ready
          changes

groupVars == <<group, verdict, gs, conn, buffer, copies, fanout, changes>>

GroupEncryptionState == {"Pending", "Establishing", "Ready"}
PeerConnectionState == {"Connecting", "Connected", "RelayFallback", "Disconnected"}
GroupSessionState == {"Creating", "Establishing", "Active", "Degraded"}

----------------------------------------------------------------------------
(* GroupKeyManager *)

KeyAddMember(g, m) == IF g.keys[m] = Nil THEN [g EXCEPT !.keys[m] = "Pending"] ELSE g
SetEstablishing(g, m) == [g EXCEPT !.keys[m] = "Establishing"]
SetSession(g, m) == [g EXCEPT !.keys[m] = "Ready", !.sessions = @ \cup {m}]
KeyRemoveMember(g, m) == [g EXCEPT !.keys[m] = Nil, !.sessions = @ \ {m}]
ReadyMembers(g) == {m \in Member : g.keys[m] = "Ready"}
AllReady(g) == \A m \in Member : g.keys[m] \in {Nil, "Ready"}

\* Nobody ready, or somebody ready without a session, fails for all.
EncryptForGroup(g) ==
  IF ReadyMembers(g) = {} \/ ~ ReadyMembers(g) \subseteq g.sessions THEN Nil ELSE ReadyMembers(g)

----------------------------------------------------------------------------
(* GroupMesh: links holds the members with a transport, tracked the others. *)

MeshKnows(g, m) == m \in g.links \/ g.tracked[m] # Nil
MemberState(g, m) == IF m \in g.links THEN "Connected" ELSE g.tracked[m]
Tracked(g) == {m \in Member : g.tracked[m] # Nil}
MemberCount(g) == Cardinality(g.links) + Cardinality(Tracked(g))
IsFullyConnected(g) == Tracked(g) = {}
IsDegraded(g) == \E m \in Member : g.tracked[m] = "RelayFallback"
NeedingReconnect(g) == {m \in Member : g.tracked[m] \in {"RelayFallback", "Disconnected"}}

CheckMeshState(g) ==
  verdict' = IF MemberCount(g) = 0 THEN verdict
             ELSE IF IsFullyConnected(g) THEN "MeshReady"
             ELSE IF IsDegraded(g) THEN "MeshDegraded" ELSE verdict

MeshAddMember(g, m) == IF MeshKnows(g, m) THEN g ELSE [g EXCEPT !.tracked[m] = "Connecting"]
MeshDrop(g, m) == [g EXCEPT !.links = @ \ {m}, !.tracked[m] = Nil]


MeshLink(g, m) == [g EXCEPT !.links = @ \cup {m}, !.tracked[m] = Nil]
MeshUnlink(g, m, state) == [g EXCEPT !.links = @ \ {m}, !.tracked[m] = state]

----------------------------------------------------------------------------
(* GroupSession *)

RecalculateState(s) ==
  [s EXCEPT !.state =
     IF s.expected = {} THEN "Active"
     ELSE IF Cardinality(s.connected) = Cardinality(s.expected) THEN "Active"
     ELSE IF Cardinality(s.connected) + Cardinality(s.relay) = Cardinality(s.expected) THEN "Degraded"
     ELSE "Establishing"]

BeginEstablishing(s) == IF s.state = "Creating" THEN [s EXCEPT !.state = "Establishing"] ELSE s

SessionConnected(s, m) ==
  IF m \notin s.expected THEN s
  ELSE RecalculateState([s EXCEPT !.connected = @ \cup {m}, !.relay = @ \ {m}])

SessionDisconnected(s, m) ==
  IF m \notin s.connected THEN s ELSE RecalculateState([s EXCEPT !.connected = @ \ {m}])

\* A bug the mutation runs plant: a member that falls back to the relay is
\* still counted as connected.
FaultSessionFallback(s, m) ==
  IF m \notin s.expected THEN s ELSE RecalculateState([s EXCEPT !.relay = @ \cup {m}])

SessionFallback(s, m) ==
  IF m \notin s.expected THEN s
  ELSE RecalculateState([s EXCEPT !.connected = @ \ {m}, !.relay = @ \cup {m}])

SessionAddExpected(s, m) == RecalculateState([s EXCEPT !.expected = @ \cup {m}])

SessionRemove(s, m) ==
  RecalculateState([s EXCEPT !.expected = @ \ {m}, !.connected = @ \ {m}, !.relay = @ \ {m}])

----------------------------------------------------------------------------
(* GroupChatManager, and what the App does on each message of the server. *)

NewGroup ==
  [keys |-> [m \in Member |-> Nil], sessions |-> {}, links |-> {},
   tracked |-> [m \in Member |-> Nil], next_sequence |-> 1]

NewSession == [state |-> "Creating", expected |-> {}, connected |-> {}, relay |-> {}]

Changed == changes < MaxChanges /\ changes' = changes + 1

\* GROUP CREATE confirmed, or our own GROUP JOIN.
AddGroup ==
  /\ Changed
  /\ group' = IF group = Nil THEN NewGroup ELSE group
  /\ gs' = IF group = Nil THEN NewSession ELSE gs
  /\ buffer' = TRUE
  /\ UNCHANGED <<verdict, conn, copies, fanout>>

\* Our own GROUP LEAVE.
RemoveGroup ==
  /\ Changed
  /\ buffer' = TRUE
  /\ group' = Nil
  /\ UNCHANGED <<verdict, gs, conn, copies, fanout>>

HandleMemberJoin(m) ==
  IF group = Nil \/ group.keys[m] # Nil THEN UNCHANGED <<group, gs>>
  ELSE group' = MeshAddMember(KeyAddMember(group, m), m) /\ gs' = SessionAddExpected(gs, m)

OnGroupJoin(m) ==
  Changed /\ HandleMemberJoin(m) /\ buffer' = TRUE /\ UNCHANGED <<verdict, conn, copies, fanout>>

HandleMemberLeave(m) ==
  IF group = Nil \/ group.keys[m] = Nil THEN UNCHANGED <<group, gs, verdict>>
  ELSE /\ group' = MeshDrop(KeyRemoveMember(group, m), m)
       /\ gs' = SessionRemove(gs, m)
       /\ IF m \in group.links THEN CheckMeshState(group') ELSE UNCHANGED verdict

OnGroupLeave(m) ==
  Changed /\ HandleMemberLeave(m) /\ buffer' = TRUE /\ UNCHANGED <<conn, copies, fanout>>

\* The member list may name several members that are new to us.
OnGroupMembers(listed) ==
  LET new == {m \in listed : group.keys[m] = Nil}
  IN  /\ group # Nil /\ Changed
      /\ group' = [group EXCEPT !.keys = [m \in Member |-> IF m \in new THEN "Pending" ELSE @[m]],
                                !.tracked = [m \in Member |->
                                   IF m \in new /\ ~ MeshKnows(group, m) THEN "Connecting" ELSE @[m]]]
      /\ gs' = IF new = {} THEN gs ELSE RecalculateState([gs EXCEPT !.expected = @ \cup new])
      /\ buffer' = TRUE
      /\ UNCHANGED <<verdict, conn, copies, fanout>>

SetMemberEstablishing(m) ==
  /\ group # Nil /\ Changed
  /\ group' = SetEstablishing(group, m)
  /\ gs' = BeginEstablishing(gs)
  /\ UNCHANGED <<verdict, conn, buffer, copies, fanout>>

SetMemberSession(m) ==
  /\ group # Nil /\ Changed
  /\ group' = SetSession(group, m)
  /\ UNCHANGED <<verdict, gs, conn, buffer, copies, fanout>>

MemberConnected(m) ==
  /\ group # Nil /\ Changed
  /\ IF MeshKnows(group, m)
     THEN /\ group' = MeshLink(group, m)
          /\ CheckMeshState(group')
          /\ gs' = SessionConnected(gs, m)
     ELSE UNCHANGED <<group, verdict, gs>>
  /\ UNCHANGED <<conn, buffer, copies, fanout>>

\* Only a member that is not connected is reconnected.
ReconnectMember(m) == group # Nil /\ m \notin group.links /\ MemberConnected(m)

MemberDegraded(m) ==
  /\ group # Nil /\ Changed
  /\ IF MeshKnows(group, m)
     THEN /\ group' = MeshUnlink(group, m, "RelayFallback")
          /\ CheckMeshState(group')
          /\ gs' = SessionFallback(gs, m)
     ELSE UNCHANGED <<group, verdict, gs>>
  /\ UNCHANGED <<conn, buffer, copies, fanout>>

MemberDisconnected(m) ==
  /\ group # Nil /\ Changed
  /\ IF MeshKnows(group, m)
     THEN /\ group' = MeshUnlink(group, m, "Disconnected")
          /\ IF m \in group.links THEN CheckMeshState(group') ELSE UNCHANGED verdict
          /\ gs' = SessionDisconnected(gs, m)
     ELSE UNCHANGED <<group, verdict, gs>>
  /\ UNCHANGED <<conn, buffer, copies, fanout>>

\* The copies of one message: over the link, else (or if that fails) the relay.
\* A bug the mutation runs plant: a failed link is not made up for.
FaultDelivery(g, m) == IF m \in g.links THEN {"p2p", "lost"} ELSE {"relay"}

Delivery(g, m) == IF m \in g.links THEN {"p2p", "relay"} ELSE {"relay"}

Deliveries(g, ready) == {d \in [ready -> {"p2p", "relay", "lost"}] : \A m \in ready : d[m] \in Delivery(g, m)}

\* Typing into the group's buffer: the relayed copies need the server, and
\* without it the message is not echoed though the links carried theirs.
HandleGroupChatMessage ==
  /\ buffer /\ group # Nil /\ group.next_sequence <= MaxSequence
  /\ group' = [group EXCEPT !.next_sequence = @ + 1]
  /\ LET seq   == <<changes, group.next_sequence>>
         ready == EncryptForGroup(group)
     IN  IF ready = Nil THEN UNCHANGED <<copies, fanout>>
         ELSE \E path \in Deliveries(group, ready) :
                LET needsServer == \E m \in ready : path[m] = "relay"
                IN  /\ copies' = copies \cup
                         {[seq |-> seq, to |-> m, path |-> path[m]] :
                            m \in {r \in ready : path[r] = "p2p" \/ (path[r] = "relay" /\ conn)}}
                    /\ fanout' = IF needsServer /\ ~conn THEN fanout
                                 ELSE fanout \cup {[seq |-> seq, ready |-> ready]}
  /\ UNCHANGED <<verdict, gs, conn, buffer, changes>>

ServerLink == Changed /\ conn' = ~conn /\ UNCHANGED <<group, verdict, gs, buffer, copies, fanout>>

GroupInit ==
  /\ group = Nil /\ verdict = Nil /\ gs = NewSession
  /\ conn = TRUE /\ buffer = FALSE
  /\ copies = {} /\ fanout = {} /\ changes = 0

GroupNext ==
  \/ AddGroup \/ RemoveGroup \/ HandleGroupChatMessage \/ ServerLink
  \/ \E m \in Member :
       \/ OnGroupJoin(m) \/ OnGroupLeave(m) \/ SetMemberEstablishing(m) \/ SetMemberSession(m)
       \/ MemberConnected(m) \/ ReconnectMember(m) \/ MemberDegraded(m) \/ MemberDisconnected(m)
  \/ \E listed \in SUBSET Member : OnGroupMembers(listed)

----------------------------------------------------------------------------
(* Properties *)

\* The mesh counts no member twice, so that "fully connected" means every
\* member it knows has a link, and the mesh knows every member the keys do
\* except one whose key exchange came before it was announced.
MeshExact ==
  group # Nil =>
    /\ \A m \in Member : ~ (m \in group.links /\ group.tracked[m] # Nil)
    /\ IsFullyConnected(group) <=> \A m \in Member : MeshKnows(group, m) => m \in group.links
    /\ \A m \in Member : group.keys[m] = "Pending" => MeshKnows(group, m)
    /\ \A m \in Member : MeshKnows(group, m) => group.keys[m] # Nil

\* The state shown for the group is the one its members' links call for: all
\* connected, all connected or relayed, or some not yet reached; and the group
\* session and the mesh agree on who is connected.
GroupStateExact ==
  LET s == gs
  IN  /\ s.connected \cap s.relay = {} /\ (s.connected \cup s.relay) \subseteq s.expected
      /\ s.expected # {} /\ s.state # "Creating" =>
           /\ s.state = "Active" <=> s.connected = s.expected
           /\ s.state = "Degraded" <=> s.connected # s.expected /\ s.connected \cup s.relay = s.expected
      /\ group # Nil => s.connected = group.links

\* A message shown in our own buffer left exactly once for each member whose
\* key was ready, by its link or by the server, also when a link failed.
FanOutComplete ==
  \A f \in fanout : \A m \in f.ready : Cardinality({c \in copies : c.seq = f.seq /\ c.to = m}) = 1
============================================================================
