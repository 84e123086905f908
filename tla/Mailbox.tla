------------------------------- MODULE Mailbox -------------------------------
(***************************************************************************)
(* Messages between users that the server relays (handler_relay.rs,        *)
(* handler_p2p.rs, handler_group.rs and the KEYEXCHANGE handler of         *)
(* handler.rs), and what the server keeps for users who are away: the      *)
(* store of messages for users who are offline (offline_store.rs), the     *)
(* queue for users between two home nodes (failover_queue.rs) and the      *)
(* pre-key bundles that users upload for others to fetch                   *)
(* (prekey_store.rs).  The three do not interact: each is a state machine  *)
(* of its own (Init and Next, QueueInit and QueueNext, PreKeysInit and     *)
(* PreKeysNext).                                                           *)
(*                                                                         *)
(* Every user has one connection, whose handler runs one command at a      *)
(* time; handlers of different connections interleave.  The relays look    *)
(* the target up, and only then call queue_message, which reads the byte   *)
(* counter before it locks the target's queue.  Messages whose target is   *)
(* not a nickname, and commands short of parameters, only make an error    *)
(* reply and are left out.                                                 *)
(***************************************************************************)
EXTENDS Integers, Sequences, SequencesExt, FiniteSets, FiniteSetsExt

CONSTANTS Nil,
          User,
          Relayed,           \* the commands that are relayed, of those Rank knows
          Grouped,           \* the members of the one group
          MaxMessagesPerUser,
          MaxTotalBytes,
          MaxSent,           \* bound: messages relayed
          Person, Nickname,  \* of the users between two home nodes
          MaxPerUser,
          MaxEnqueued,       \* bound: messages for them
          Owner,             \* of pre-key bundles
          Totals,            \* the numbers of chunks of a bundle
          MaxUploads         \* bound: uploads begun by a user

VARIABLES online,  \* users in the registry
          step,    \* what the handler of a user's connection is in the middle of
          queues,  \* offline store: queues
          total,   \* offline store: total_bytes
          sent,    \* history: messages relayed
          out      \* the messages that the last step sent, as <<user, message>>

mailVars == <<online, step, queues, total, sent, out>>

\* A queued message: its command, and whether it outlived message_ttl.
Queued == [kind : Relayed \cup {"GROUP"}, old : BOOLEAN]

\* estimate_message_size: a key exchange is longer than the others.
Size(m) == IF m.kind = "KEYEXCHANGE" THEN 2 ELSE 1

Bytes(q) == FoldLeft(LAMBDA n, m : n + Size(m), 0, q)

Idle == [at |-> "idle"]

Send(u, m) == out' = <<<<u, m>>>>

Quiet == out' = <<>>

-----------------------------------------------------------------------------
(* OfflineMessageStore *)

Fresh(q) == SelectSeq(q, LAMBDA m : ~m.old)

Locked(v) == \E w \in User : step[w].at = "push" /\ step[w].to = v

FaultHasRoom(m) == total <= MaxTotalBytes
HasRoom(m) == total + Size(m) <= MaxTotalBytes

\* Between the look-up and here the target may have come online.  The caller
\* tells the sender that the message will be delivered whatever this returns.
CheckRoom(u) ==
  /\ step[u].at = "check"
  /\ step' = [step EXCEPT ![u] = IF HasRoom(@.m) THEN [@ EXCEPT !.at = "purge"] ELSE Idle]
  /\ Quiet
  /\ UNCHANGED <<online, queues, total, sent>>

PurgeExpired(u) ==
  LET v == step[u].to IN
  /\ step[u].at = "purge"
  /\ ~Locked(v)
  /\ queues' = [queues EXCEPT ![v] = Fresh(@)]
  /\ total' = total - (Bytes(queues[v]) - Bytes(Fresh(queues[v])))
  /\ step' = [step EXCEPT ![u] = IF Len(Fresh(queues[v])) >= MaxMessagesPerUser
                                   THEN Idle ELSE [@ EXCEPT !.at = "push"]]
  /\ Quiet
  /\ UNCHANGED <<online, sent>>

Push(u) ==
  /\ step[u].at = "push"
  /\ total' = total + Size(step[u].m)
  /\ queues' = [queues EXCEPT ![step[u].to] = Append(@, step[u].m)]
  /\ step' = [step EXCEPT ![u] = Idle]
  /\ Quiet
  /\ UNCHANGED <<online, sent>>

\* take_messages: the queue leaves the map first, and the bytes of all its
\* messages, the expired ones included, are given back after.
TakeMessages(u) ==
  /\ step[u].at = "take"
  /\ ~Locked(u)
  /\ queues' = [queues EXCEPT ![u] = <<>>]
  /\ step' = [step EXCEPT ![u] = IF queues[u] = <<>> THEN Idle
                                 ELSE [at |-> "deliver", q |-> queues[u]]]
  /\ Quiet
  /\ UNCHANGED <<online, total, sent>>

Expire(u) ==
  /\ \E k \in DOMAIN queues[u] : ~queues[u][k].old
  /\ LET k == Min({j \in DOMAIN queues[u] : ~queues[u][j].old})
     IN queues' = [queues EXCEPT ![u][k].old = TRUE]
  /\ Quiet
  /\ UNCHANGED <<online, step, total, sent>>

-----------------------------------------------------------------------------
(* The handlers *)

CompleteRegistration(u) ==
  /\ u \notin online
  /\ step[u] = Idle
  /\ online' = online \cup {u}
  /\ step' = [step EXCEPT ![u] = [at |-> "take"]]
  /\ Quiet
  /\ UNCHANGED <<queues, total, sent>>

Rank(m) == CASE m.kind = "KEYEXCHANGE" -> 0
             [] m.kind = "KEYEXCHANGE-ACK" -> 1
             [] m.kind = "KEYEXCHANGE-COMPLETE" -> 2
             [] OTHER -> 3

\* A stable sort, by Rank.
Sorted(q) == FlattenSeq([r \in 1..4 |-> SelectSeq(q, LAMBDA m : Rank(m) = r - 1)])

FaultTaken(q) == Bytes(Fresh(q))
Taken(q) == Bytes(q)

DeliverOfflineMessages(u) ==
  /\ step[u].at = "deliver"
  /\ total' = total - Taken(step[u].q)
  /\ out' = [k \in DOMAIN Fresh(step[u].q) |-> <<u, Sorted(Fresh(step[u].q))[k]>>]
  /\ step' = [step EXCEPT ![u] = Idle]
  /\ UNCHANGED <<online, queues, sent>>

Disconnect(u) ==
  /\ u \in online
  /\ step[u] = Idle
  /\ online' = online \ {u}
  /\ Quiet
  /\ UNCHANGED <<step, queues, total, sent>>

Handles(u) == u \in online /\ step[u] = Idle

\* A relay that queues for a target who is offline.
Relay(u, v, kind) ==
  /\ Handles(u)
  /\ sent < MaxSent
  /\ sent' = sent + 1
  /\ LET m == [kind |-> kind, old |-> FALSE]
     IN IF v \in online
          THEN Send(v, m) /\ UNCHANGED step
          ELSE Quiet /\ step' = [step EXCEPT ![u] = [at |-> "check", to |-> v, m |-> m]]
  /\ UNCHANGED <<online, queues, total>>

HandleRelay(u, v) == \E kind \in Relayed \ {"KEYEXCHANGE"} : Relay(u, v, kind)

HandleGroupMessageRelay(u, v) == u \in Grouped /\ Relay(u, v, "GROUP")

HandleKeyExchange(u, v) == Relay(u, v, "KEYEXCHANGE")

\* Signalling is not queued: the sender hears that there is no such nick.
Signal(u, v) ==
  /\ Handles(u)
  /\ IF v \in online THEN Send(v, "SIGNAL") ELSE Send(u, "NOSUCHNICK")
  /\ UNCHANGED <<online, step, queues, total, sent>>

HandleP2PRelay(u, v) == Signal(u, v)

HandleGroupSignalingRelay(u, v) == u \in Grouped /\ Signal(u, v)

\* An invitation is only a line: joining does not ask for it.
HandleGroupInvite(u, v) == u \in Grouped /\ Signal(u, v)

-----------------------------------------------------------------------------
Init ==
  /\ online = {}
  /\ step = [u \in User |-> Idle]
  /\ queues = [u \in User |-> <<>>]
  /\ total = 0
  /\ sent = 0
  /\ out = <<>>

Next ==
  \E u \in User :
    \/ CompleteRegistration(u) \/ Disconnect(u)
    \/ CheckRoom(u) \/ PurgeExpired(u) \/ Push(u)
    \/ TakeMessages(u) \/ DeliverOfflineMessages(u) \/ Expire(u)
    \/ \E v \in User \ {u} :
         \/ HandleRelay(u, v) \/ HandleKeyExchange(u, v)
         \/ HandleGroupMessageRelay(u, v) \/ HandleGroupSignalingRelay(u, v)
         \/ HandleGroupInvite(u, v) \/ HandleP2PRelay(u, v)

Spec == Init /\ [][Next]_mailVars

TypeOK ==
  /\ online \subseteq User
  /\ queues \in [User -> Seq(Queued)]
  /\ \A u \in User : Len(queues[u]) <= MaxMessagesPerUser
  /\ total \in Nat

\* The byte counter is exactly the bytes of the queued messages and of those
\* on their way to a user who has just taken them, whatever expires, is purged
\* or is refused in between.  A counter that leaks would in the end refuse
\* every message; one that is short would wrap below zero (usize).
BytesAccounted ==
  total = SumFunction([u \in User |-> Bytes(queues[u])])
          + SumFunction([u \in User |-> IF step[u].at = "deliver" THEN Bytes(step[u].q) ELSE 0])

\* The byte limit is read before the queue is locked, so that handlers can pass
\* it together: it is exceeded by at most one message, of size 2, for each of
\* the other users who can be sending to a user who is offline.
NearByteLimit == total <= MaxTotalBytes + 2 * (Cardinality(User) - 2)

-----------------------------------------------------------------------------
(* The queue for users between two home nodes, and what the commit         *)
(* consumer does with it on the node a user comes back to                  *)
(* (handle_failover_queue, commit_consumer.rs).  Users keep their identity *)
(* when they change their nickname, which is what the queue is keyed by.   *)

VARIABLES nick,     \* nick[p]: the nickname of p, or Nil
          buffered, \* queues: buffered[n] is a sequence of [to, no, old]
          arrived,  \* messages so far: the number of the last one
          received  \* what the last drain delivered, and to whom

queueVars == <<nick, buffered, arrived, received>>

FaultEnqueue(n, m) ==
  buffered' = [buffered EXCEPT ![n] = Append(IF Len(@) > MaxPerUser THEN Tail(@) ELSE @, m)]

\* The oldest message makes room.
Enqueue(n, m) ==
  buffered' = [buffered EXCEPT ![n] = Append(IF Len(@) >= MaxPerUser THEN Tail(@) ELSE @, m)]

Drain(n) == SelectSeq(buffered[n], LAMBDA m : ~m.old)


RenameQueue(old, new) ==
  buffered' = [buffered EXCEPT ![new] = @ \o buffered[old], ![old] = <<>>]

RemoveQueue(n) == buffered' = [buffered EXCEPT ![n] = <<>>]

Arrive(p) ==
  /\ nick[p] # Nil /\ arrived < MaxEnqueued
  /\ arrived' = arrived + 1
  /\ Enqueue(nick[p], [to |-> p, no |-> arrived + 1, old |-> FALSE])
  /\ UNCHANGED <<nick, received>>

\* UserRegistered on the home node: a new user, or one who comes back.
UserRegistered(p, n) ==
  /\ nick[p] \in {Nil, n} /\ \A q \in Person \ {p} : nick[q] # n
  /\ nick' = [nick EXCEPT ![p] = n]
  /\ buffered' = [buffered EXCEPT ![n] = <<>>]
  /\ received' = [by |-> p, messages |-> Drain(n)]
  /\ UNCHANGED arrived

UserQuit(p) ==
  /\ nick[p] # Nil
  /\ nick' = [nick EXCEPT ![p] = Nil]
  /\ RemoveQueue(nick[p])
  /\ UNCHANGED <<arrived, received>>

NickChanged(p, n) ==
  /\ nick[p] # Nil /\ \A q \in Person : nick[q] # n
  /\ nick' = [nick EXCEPT ![p] = n]
  /\ RenameQueue(nick[p], n)
  /\ UNCHANGED <<arrived, received>>

\* A message outlives its ttl; those before it in the queue did so before.
Outlive(n) ==
  /\ Drain(n) # <<>>
  /\ buffered' = [buffered EXCEPT ![n] =
       [k \in DOMAIN @ |-> IF @[k] = Drain(n)[1] THEN [@[k] EXCEPT !.old = TRUE] ELSE @[k]]]
  /\ UNCHANGED <<nick, arrived, received>>

\* spawn_failover_expiry_task
ExpireAll ==
  /\ \E n \in Nickname : Drain(n) # buffered[n]
  /\ buffered' = [n \in Nickname |-> Drain(n)]
  /\ UNCHANGED <<nick, arrived, received>>

QueueInit ==
  /\ nick = [p \in Person |-> Nil]
  /\ buffered = [n \in Nickname |-> <<>>]
  /\ arrived = 0
  /\ received = [by |-> Nil, messages |-> <<>>]

QueueNext ==
  \/ ExpireAll
  \/ \E n \in Nickname : Outlive(n)
  \/ \E p \in Person :
       \/ Arrive(p) \/ UserQuit(p)
       \/ \E n \in Nickname : UserRegistered(p, n) \/ NickChanged(p, n)

QueueTypeOK ==
  /\ nick \in [Person -> Nickname \cup {Nil}]
  /\ \A n \in Nickname : Len(buffered[n]) <= MaxPerUser

Ascending(q) == \A j, k \in DOMAIN q : j < k => q[j].no < q[k].no

\* Buffered messages follow their addressee through every change of nickname:
\* they wait under the nickname the user has now, in the order they arrived, and
\* nobody is handed a message for somebody else.
MailFollowsUser ==
  /\ \A n \in Nickname : /\ Ascending(buffered[n])
                         /\ \A k \in DOMAIN buffered[n] : nick[buffered[n][k].to] = n
  /\ Ascending(received.messages)
  /\ \A k \in DOMAIN received.messages : received.messages[k].to = received.by

-----------------------------------------------------------------------------
(* Pre-key bundles (and the KEYEXCHANGE handlers of handler.rs).  A bundle *)
(* is longer than a protocol line, so that a client sends it in numbered   *)
(* chunks, in order, and the store puts it together.  A client may         *)
(* disconnect in the middle of an upload and come back; the store keeps    *)
(* the chunks and the bundle of a nickname all the same, as nothing calls  *)
(* remove_bundle.  A chunk stands for the upload it is of.                 *)

VARIABLES bundles, \* bundles: what is stored, as the chunks it was made of
          chunks,  \* chunk_buffer
          upload,  \* the client: id of its upload, its number of chunks, next chunk
          fetched  \* the reply to the last request for a bundle

prekeyVars == <<bundles, chunks, upload, fetched>>

\* parse_chunk_header: the headers "n/total" that are taken for one.
IsChunkHeader(n, size) == n >= 1 /\ size >= 1 /\ n <= size

\* The buffer, started anew when the declared total changes.
FaultBuffer(o, size) == IF chunks[o] = Nil THEN [k \in 1..size |-> Nil] ELSE chunks[o]
Buffer(o, size) ==
  IF chunks[o] # Nil /\ Len(chunks[o]) = size THEN chunks[o] ELSE [k \in 1..size |-> Nil]

StoreBundle(o, c) == bundles' = [bundles EXCEPT ![o] = c]

AddBundleChunk(o, id, n, size) ==
  LET c == [Buffer(o, size) EXCEPT ![n] = id]
  IN IF Nil \in Range(c)
       THEN chunks' = [chunks EXCEPT ![o] = c] /\ UNCHANGED bundles
       ELSE chunks' = [chunks EXCEPT ![o] = Nil] /\ StoreBundle(o, c)

MaybeStorePrekeyBundle(o) ==
  \E size \in Totals :
    LET begins == upload[o].next = 0
        id == IF begins THEN upload[o].id + 1 ELSE upload[o].id
        n == IF begins THEN 1 ELSE upload[o].next
    IN /\ id <= MaxUploads
       /\ begins \/ size = upload[o].of
       /\ IsChunkHeader(n, size)
       /\ upload' = [upload EXCEPT ![o] = [id |-> id, of |-> size,
                                           next |-> IF n = size THEN 0 ELSE n + 1]]
       /\ AddBundleChunk(o, id, n, size)
       /\ UNCHANGED fetched

\* The client disconnects; its next connection begins a new upload.
BreakOff(o) ==
  /\ upload[o].next # 0
  /\ upload' = [upload EXCEPT ![o].next = 0]
  /\ UNCHANGED <<bundles, chunks, fetched>>

\* get_bundle; Nil stands for the notice that there is none.
RequestBundle(o) == fetched' = bundles[o] /\ UNCHANGED <<bundles, chunks, upload>>

PreKeysInit ==
  /\ bundles = [o \in Owner |-> Nil]
  /\ chunks = [o \in Owner |-> Nil]
  /\ upload = [o \in Owner |-> [id |-> 0, of |-> 1, next |-> 0]]
  /\ fetched = Nil

PreKeysNext == \E o \in Owner : MaybeStorePrekeyBundle(o) \/ BreakOff(o) \/ RequestBundle(o)

PreKeysTypeOK == \A o \in Owner :
  /\ chunks[o] # Nil => Len(chunks[o]) \in Totals /\ Nil \in Range(chunks[o])
  /\ bundles[o] # Nil => Len(bundles[o]) \in Totals

\* A bundle is made of the chunks of one upload, all of them, whatever uploads
\* of whatever lengths were broken off before it (add_bundle_chunk).
BundleOfOneUpload ==
  \A o \in Owner : bundles[o] # Nil => /\ Nil \notin Range(bundles[o])
                                       /\ Cardinality(Range(bundles[o])) = 1
=============================================================================
