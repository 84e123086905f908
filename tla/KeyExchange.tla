----------------------------- MODULE KeyExchange -----------------------------
(***************************************************************************)
(* How two clients come to share an encrypted session: the encryption      *)
(* manager of the client, the handlers that drive it, and X3DH.            *)
(*                                                                         *)
(*   pirc-client/src/encryption/mod.rs, pirc-client/src/app/encryption.rs  *)
(*   pirc-crypto/src/{x3dh,prekey,x25519,kem}.rs                           *)
(*   pirc-server/src/handler.rs (handle_key_exchange)                      *)
(*                                                                         *)
(* Keys are terms, a Diffie-Hellman secret is the set of its two keys.  A  *)
(* session is what X3DH left; how it then encrypts is TripleRatchet's      *)
(* matter, except that the receiver of an exchange cannot encrypt before   *)
(* it has decrypted.  relay is "stored" for the server as it is, which     *)
(* answers a request from the bundles it holds, and "direct" for one that  *)
(* hands every line to the peer, whose handle_request_bundle then answers. *)
(***************************************************************************)
EXTENDS Integers, Sequences, SequencesExt, FiniteSets

CONSTANTS Client, Nil, Server,
          Relays,                    \* of "stored", "direct"
          BatchSize,                 \* ONE_TIME_PRE_KEY_BATCH_SIZE
          BundleChunks, InitChunks,  \* lines a bundle and an init message take
          MaxTexts,                  \* bound: private messages of a client
          MaxExchanges,              \* bound: X3DH runs
          MaxResets, MaxCrashes      \* bounds: /encryption reset, kills

VARIABLES manager,    \* per client, its EncryptionManager
          disk,       \* identity.enc: the one-time pre-keys in it
          chunkBufs,  \* App::chunk_bufs, by sender
          stored,     \* the server's pre-key bundles
          wire,       \* lines on their way, by sender and addressee
          ephemerals, \* ephemeral keys generated so far
          said,       \* per client, private messages the user entered
          heard,      \* messages displayed, as [from, to, text]
          undecrypted,\* messages that failed to decrypt
          discarded,  \* queued messages thrown away
          plain,      \* messages sent as PRIVMSG
          disturbed,  \* exchanges crossed, or a session was reset or lost
          resets, kills,
          relay       \* what the server does with a request for a bundle

keyVars == <<manager, disk, chunkBufs, stored, wire, ephemerals, said, heard,
             undecrypted, discarded, plain, disturbed, resets, kills, relay>>

Peers(p) == Client \ {p}

----------------------------------------------------------------------------
(* X3DH *)

Key(owner, use, id) == [owner |-> owner, use |-> use, id |-> id]
IdentityKey(p) == Key(p, "identity", 0)
SignedPreKey(p) == Key(p, "signed", 1)
KemPreKey(p) == Key(p, "kem", 1)
OneTimePreKey(p, id) == Key(p, "one-time", id)
Ephemeral(p, n) == Key(p, "ephemeral", n)

DiffieHellman(a, b) == {a, b}
Encapsulate(kem, n) == [shared |-> <<kem, n>>, ciphertext |-> [under |-> kem, n |-> n]]
Decapsulate(kem, c) == IF c.under = kem THEN <<kem, c.n>> ELSE <<kem, 0 - 1>>

\* The secret derived: DH1, DH2, DH3, DH4 where there is a one-time key, KEM.
Secret(dh1, dh2, dh3, dh4, kem) == [dhs |-> <<dh1, dh2, dh3>>, oneTime |-> dh4, kem |-> kem]

X3dhSender(p, bundle, n) ==
  LET ek == Ephemeral(p, n)
      kem == Encapsulate(bundle.kem, n)
  IN  [secret |-> Secret(DiffieHellman(IdentityKey(p), bundle.signed),
                         DiffieHellman(ek, bundle.identity),
                         DiffieHellman(ek, bundle.signed),
                         IF bundle.oneTime = Nil THEN Nil ELSE DiffieHellman(ek, bundle.oneTime),
                         kem.shared),
       init |-> [tag |-> "init", identity |-> IdentityKey(p), ephemeral |-> ek,
                 ciphertext |-> kem.ciphertext,
                 oneTime |-> IF bundle.oneTime = Nil THEN Nil ELSE bundle.oneTime.id]]


X3dhReceiver(q, oneTime, init) ==
  Secret(DiffieHellman(SignedPreKey(q), init.identity),
         DiffieHellman(IdentityKey(q), init.ephemeral),
         DiffieHellman(SignedPreKey(q), init.ephemeral),
         IF oneTime = Nil THEN Nil ELSE DiffieHellman(oneTime, init.ephemeral),
         Decapsulate(KemPreKey(q), init.ciphertext))

----------------------------------------------------------------------------
(* EncryptionManager: sessions, pending exchanges, one-time pre-keys *)

NewManager(oneTime) ==
  [oneTime |-> oneTime, sessions |-> [q \in Client |-> Nil],
   pending |-> [q \in Client |-> Nil], identities |-> [q \in Client |-> Nil]]

HasSession(m, q) == m.sessions[q] # Nil
HasPendingExchange(m, q) == m.pending[q] # Nil

CreatePreKeyBundle(p, ids) ==
  [tag |-> "bundle", identity |-> IdentityKey(p), signed |-> SignedPreKey(p), kem |-> KemPreKey(p),
   oneTime |-> IF ids = <<>> THEN Nil ELSE OneTimePreKey(p, Head(ids))]

\* PreKeyBundle::validate: the pre-keys are signed by the identity.
Validate(b) == b.signed.owner = b.identity.owner /\ b.kem.owner = b.identity.owner

AwaitingBundle(queue) == [state |-> "AwaitingBundle", session |-> Nil, queue |-> queue]
AwaitingComplete(session) == [state |-> "AwaitingComplete", session |-> session, queue |-> <<>>]

QueueMessage(m, q, text) ==
  IF HasPendingExchange(m, q) THEN [m EXCEPT !.pending[q].queue = Append(@, text)] ELSE m

InitiateKeyExchange(m, q) == [m EXCEPT !.pending[q] = AwaitingBundle(<<>>)]

\* The new manager, the init message, and the queue, to be encrypted.
HandleBundleResponse(p, q, bundle, n) ==
  LET m == manager[p]
      x == X3dhSender(p, bundle, n)
      session == [exchange |-> x.init.ephemeral, secret |-> x.secret, sends |-> TRUE]
      queue == IF HasPendingExchange(m, q) /\ m.pending[q].state = "AwaitingBundle"
                 THEN m.pending[q].queue ELSE <<>>
  IN  [manager |-> [m EXCEPT !.identities[q] = bundle.identity,
                             !.pending[q] = AwaitingComplete(session)],
       init |-> x.init,
       encrypted |-> queue]

HandleInitMessage(q, p, init) ==
  LET m == manager[q]
      has == init.oneTime \in ToSet(m.oneTime)
      oneTime == IF has THEN OneTimePreKey(q, init.oneTime) ELSE Nil
  IN  [m EXCEPT !.oneTime = SelectSeq(@, LAMBDA id : id # init.oneTime),
                !.identities[p] = init.identity,
                !.sessions[p] = [exchange |-> init.ephemeral, sends |-> FALSE,
                                 secret |-> X3dhReceiver(q, oneTime, init)]]

\* A bug the mutation runs plant: the session stays pending.
FaultHandleComplete(m, q) == [m EXCEPT !.pending[q] = Nil]
HandleComplete(m, q) ==
  IF HasPendingExchange(m, q) /\ m.pending[q].state = "AwaitingComplete"
    THEN [m EXCEPT !.pending[q] = Nil, !.sessions[q] = m.pending[q].session]
    ELSE [m EXCEPT !.pending[q] = Nil]

RemoveSession(m, q) ==
  [m EXCEPT !.sessions[q] = Nil, !.pending[q] = Nil, !.identities[q] = Nil]

EncryptionStatus(m, q) ==
  IF HasSession(m, q) THEN "Active" ELSE IF HasPendingExchange(m, q) THEN "Establishing" ELSE "None"

ListPeers(m) == {<<q, EncryptionStatus(m, q)>> : q \in {x \in Client : EncryptionStatus(m, x) # "None"}}

\* The messages waiting behind p's exchange with q.
QueueOf(m, p, q) ==
  IF HasPendingExchange(m, q) THEN {[from |-> p, to |-> q, text |-> t] : t \in ToSet(m.pending[q].queue)} ELSE {}

----------------------------------------------------------------------------
(* Lines between the clients *)

Line(kind, body) == [kind |-> kind, n |-> 1, of |-> 1, body |-> body]
ChunksOf(body) == IF body.tag = "bundle" THEN BundleChunks ELSE IF body.tag = "init" THEN InitChunks ELSE 1

\* send_chunked_key_exchange
SendChunkedKeyExchange(body) ==
  [n \in 1..ChunksOf(body) |-> [kind |-> "KEYEXCHANGE", n |-> n, of |-> ChunksOf(body), body |-> body]]

\* send_encrypted_message
EncryptedLine(text, secret) == Line("ENCRYPTED", [text |-> text, secret |-> secret])

Sent(from, to, lines) == [wire EXCEPT ![from, to] = @ \o lines]

\* handle_key_exchange: a request is answered by the server, under its own name.
RelayRequest(p, q) ==
  IF relay = "direct" THEN Sent(p, q, SendChunkedKeyExchange([tag |-> "request"]))
  ELSE IF stored[q] = Nil THEN Sent(Server, p, <<Line("NOTICE", Nil)>>)
  ELSE Sent(Server, p, SendChunkedKeyExchange(stored[q]))

\* upload_pre_key_bundle, once the client is connected
UploadPreKeyBundle(p, ids) == stored' = [stored EXCEPT ![p] = CreatePreKeyBundle(p, ids)]

\* parse_chunk_header and the buffer of handle_pirc_message; Nil while incomplete.
AddChunk(buf, line) ==
  LET b == IF buf # Nil /\ Len(buf) = line.of THEN buf ELSE [k \in 1..line.of |-> Nil]
  IN  [b EXCEPT ![line.n] = line.body]

----------------------------------------------------------------------------
(* What the user does *)

\* initiate_key_exchange: the exchange begins and the message waits for it.
FreshExchange(p, q, text) ==
  /\ manager' = [manager EXCEPT ![p] = QueueMessage(InitiateKeyExchange(manager[p], q), q, text)]
  /\ wire' = RelayRequest(p, q)

\* send_private_message and handle_private_msg_command
SendPrivateMessage(p, q) ==
  LET m == manager[p]
      text == said[p] + 1
  IN  /\ said[p] < MaxTexts
      /\ said' = [said EXCEPT ![p] = text]
      /\ IF HasSession(m, q) /\ m.sessions[q].sends
           THEN /\ wire' = Sent(p, q, <<EncryptedLine(text, m.sessions[q].secret)>>)
                /\ UNCHANGED <<manager, plain>>
         ELSE IF HasSession(m, q)
           THEN /\ wire' = Sent(p, q, <<Line("PRIVMSG", [text |-> text])>>)
                /\ plain' = plain \cup {[from |-> p, to |-> q, text |-> text]}
                /\ UNCHANGED manager
         ELSE IF HasPendingExchange(m, q)
           THEN manager' = [manager EXCEPT ![p] = QueueMessage(m, q, text)] /\ UNCHANGED <<wire, plain>>
           ELSE FreshExchange(p, q, text) /\ UNCHANGED plain
      /\ UNCHANGED <<disk, chunkBufs, stored, ephemerals, heard, undecrypted, discarded, disturbed, resets, kills>>

\* /encryption reset
EncryptionReset(p, q) ==
  /\ resets < MaxResets
  /\ EncryptionStatus(manager[p], q) # "None"
  /\ resets' = resets + 1
  /\ disturbed' = TRUE
  /\ manager' = [manager EXCEPT ![p] = RemoveSession(manager[p], q)]
  /\ UNCHANGED <<disk, chunkBufs, stored, wire, ephemerals, said, heard, undecrypted, discarded, plain, kills>>

\* The client is killed and started again: load_or_create, connect, upload.
Restart(p) ==
  /\ kills < MaxCrashes
  /\ kills' = kills + 1
  /\ disturbed' = TRUE
  /\ manager' = [manager EXCEPT ![p] = NewManager(disk[p])]
  /\ chunkBufs' = [chunkBufs EXCEPT ![p] = [q \in Client |-> Nil]]
  /\ wire' = [c \in DOMAIN wire |-> IF c[2] = p THEN <<>> ELSE wire[c]]
  /\ UploadPreKeyBundle(p, disk[p])
  /\ UNCHANGED <<disk, ephemerals, said, heard, undecrypted, discarded, plain, resets>>

----------------------------------------------------------------------------
(* What the client does with a line from q *)

Arrives(p, q) == wire[q, p] # <<>>
Rest(p, q) == [wire EXCEPT ![q, p] = Tail(@)]

\* A chunk of a message that is not complete yet.
BufferChunk(p, q) ==
  /\ Arrives(p, q)
  /\ LET line == Head(wire[q, p])
         buf == AddChunk(chunkBufs[p][q], line)
     IN  /\ line.kind = "KEYEXCHANGE"
         /\ Nil \in ToSet(buf)
         /\ chunkBufs' = [chunkBufs EXCEPT ![p][q] = buf]
  /\ wire' = Rest(p, q)
  /\ UNCHANGED <<manager, disk, stored, ephemerals, said, heard, undecrypted, discarded, plain, disturbed, resets, kills>>

\* The message that the line at hand completes.
Assembled(p, q, tag) ==
  /\ Arrives(p, q)
  /\ LET line == Head(wire[q, p])
     IN  /\ line.kind = "KEYEXCHANGE" /\ line.body.tag = tag
         /\ Nil \notin ToSet(AddChunk(chunkBufs[p][q], line))
         /\ chunkBufs' = IF line.of = 1 THEN chunkBufs ELSE [chunkBufs EXCEPT ![p][q] = Nil]

Body(p, q) == Head(wire[q, p]).body

HandleRequestBundle(p, q) ==
  /\ Assembled(p, q, "request")
  /\ wire' = [Rest(p, q) EXCEPT ![p, q] = @ \o SendChunkedKeyExchange(CreatePreKeyBundle(p, manager[p].oneTime))]
  /\ UNCHANGED <<manager, disk, stored, ephemerals, said, heard, undecrypted, discarded, plain, disturbed, resets, kills>>

HandleBundle(p, q) ==
  /\ Assembled(p, q, "bundle")
  /\ Validate(Body(p, q))
  /\ ephemerals < MaxExchanges
  /\ ephemerals' = ephemerals + 1
  /\ LET r == HandleBundleResponse(p, q, Body(p, q), ephemerals)
     IN  /\ manager' = [manager EXCEPT ![p] = r.manager]
         /\ wire' = [Rest(p, q) EXCEPT ![p, q] = @ \o SendChunkedKeyExchange(r.init)
                       \o [i \in DOMAIN r.encrypted |->
                             EncryptedLine(r.encrypted[i], r.manager.pending[q].session.secret)]]
         /\ discarded' = discarded \cup
              IF HasPendingExchange(manager[p], q) /\ manager[p].pending[q].state = "AwaitingComplete"
                THEN QueueOf(manager[p], p, q) ELSE {}
  /\ UNCHANGED <<disk, stored, said, heard, undecrypted, plain, disturbed, resets, kills>>

HandleInit(p, q) ==
  /\ Assembled(p, q, "init")
  /\ manager' = [manager EXCEPT ![p] = HandleInitMessage(p, q, Body(p, q))]
  /\ disk' = [disk EXCEPT ![p] = manager'[p].oneTime]
  /\ wire' = [Rest(p, q) EXCEPT ![p, q] = Append(@, Line("COMPLETE", Nil))]
  /\ disturbed' = (disturbed \/ HasPendingExchange(manager[p], q) \/ HasSession(manager[p], q))
  /\ UNCHANGED <<stored, ephemerals, said, heard, undecrypted, discarded, plain, resets, kills>>

\* Killed after COMPLETE is sent, the client has not written its keys.
KilledBeforePersist(p, q) ==
  /\ kills < MaxCrashes
  /\ Assembled(p, q, "init")
  /\ kills' = kills + 1
  /\ disturbed' = TRUE
  /\ manager' = [manager EXCEPT ![p] = NewManager(disk[p])]
  /\ wire' = [c \in DOMAIN wire |->
               IF c[2] = p THEN <<>> ELSE IF c = <<p, q>> THEN Append(wire[c], Line("COMPLETE", Nil)) ELSE wire[c]]
  /\ UploadPreKeyBundle(p, disk[p])
  /\ UNCHANGED <<disk, ephemerals, said, heard, undecrypted, discarded, plain, resets>>

HandleKeyExchangeComplete(p, q) ==
  /\ Arrives(p, q)
  /\ Head(wire[q, p]).kind = "COMPLETE"
  /\ manager' = [manager EXCEPT ![p] = HandleComplete(manager[p], q)]
  /\ disk' = [disk EXCEPT ![p] = manager[p].oneTime]
  /\ discarded' = discarded \cup QueueOf(manager[p], p, q)
  /\ wire' = Rest(p, q)
  /\ UNCHANGED <<chunkBufs, stored, ephemerals, said, heard, undecrypted, plain, disturbed, resets, kills>>

HandleEncryptedMessage(p, q) ==
  /\ Arrives(p, q)
  /\ Head(wire[q, p]).kind = "ENCRYPTED"
  /\ LET msg == [from |-> q, to |-> p, text |-> Body(p, q).text]
     IN  IF HasSession(manager[p], q) /\ manager[p].sessions[q].secret = Body(p, q).secret
           THEN /\ heard' = heard \cup {msg}
                /\ manager' = [manager EXCEPT ![p].sessions[q].sends = TRUE]
                /\ UNCHANGED undecrypted
           ELSE undecrypted' = undecrypted \cup {msg} /\ UNCHANGED <<heard, manager>>
  /\ wire' = Rest(p, q)
  /\ UNCHANGED <<disk, chunkBufs, stored, ephemerals, said, discarded, plain, disturbed, resets, kills>>

\* A PRIVMSG is displayed by the message router.
RoutePrivmsg(p, q) ==
  /\ Arrives(p, q)
  /\ Head(wire[q, p]).kind = "PRIVMSG"
  /\ heard' = heard \cup {[from |-> q, to |-> p, text |-> Body(p, q).text]}
  /\ wire' = Rest(p, q)
  /\ UNCHANGED <<manager, disk, chunkBufs, stored, ephemerals, said, undecrypted, discarded, plain, disturbed, resets, kills>>

\* handle_pirc_message takes no line whose prefix is not a user's.
IgnoreServerLine(p) ==
  /\ Arrives(p, Server)
  /\ wire' = Rest(p, Server)
  /\ UNCHANGED <<manager, disk, chunkBufs, stored, ephemerals, said, heard, undecrypted, discarded, plain, disturbed, resets, kills>>

Receive(p, q) ==
  \/ BufferChunk(p, q) \/ HandleRequestBundle(p, q) \/ HandleBundle(p, q) \/ HandleInit(p, q)
  \/ HandleKeyExchangeComplete(p, q) \/ HandleEncryptedMessage(p, q) \/ RoutePrivmsg(p, q)

KeyInit ==
  /\ manager = [p \in Client |-> NewManager([i \in 1..BatchSize |-> i - 1])]
  /\ disk = [p \in Client |-> [i \in 1..BatchSize |-> i - 1]]
  /\ chunkBufs = [p \in Client |-> [q \in Client |-> Nil]]
  /\ stored = [p \in Client |-> CreatePreKeyBundle(p, disk[p])]
  /\ wire = [c \in (Client \cup {Server}) \X Client |-> <<>>]
  /\ ephemerals = 0
  /\ said = [p \in Client |-> 0]
  /\ heard = {} /\ undecrypted = {} /\ discarded = {} /\ plain = {}
  /\ disturbed = FALSE
  /\ resets = 0 /\ kills = 0
  /\ relay \in Relays

Step == \E p \in Client :
  \/ \E q \in Peers(p) : \/ SendPrivateMessage(p, q)
                         \/ EncryptionReset(p, q)
                         \/ KilledBeforePersist(p, q)
                         \/ Receive(p, q)
  \/ Restart(p)
  \/ IgnoreServerLine(p)

KeyNext == Step /\ UNCHANGED relay

KeySpec == KeyInit /\ [][KeyNext]_keyVars
\* A client reads the lines it is sent.
KeyFairSpec == KeySpec /\ \A p \in Client : WF_keyVars(IgnoreServerLine(p) /\ UNCHANGED relay)
                                            /\ \A q \in Peers(p) : WF_keyVars(Receive(p, q) /\ UNCHANGED relay)

----------------------------------------------------------------------------
(* Properties *)

\* The two ends of one exchange derive one secret, whatever is lost, reset or
\* restarted; except that an init message that names a one-time key which is
\* gone leaves its receiver without the fourth secret (x3dh_sender,
\* x3dh_receiver, handle_init_message).
ExchangeAgrees ==
  \A p \in Client : \A q \in Peers(p) :
    LET s == manager[p].sessions[q]
        t == manager[q].sessions[p]
    IN  (HasSession(manager[p], q) /\ HasSession(manager[q], p) /\ s.exchange = t.exchange)
          => /\ s.secret.dhs = t.secret.dhs
             /\ s.secret.kem = t.secret.kem
             /\ s.secret.oneTime = t.secret.oneTime \/ Nil \in {s.secret.oneTime, t.secret.oneTime}

\* Unless exchanges cross, or a session is reset or lost, no message fails to
\* decrypt: what is encrypted before and after COMPLETE opens at the peer, in
\* both directions (handle_bundle_response, handle_init_message, handle_complete).
OpensUndisturbed == ~disturbed => undecrypted = {}

\* A message that was queued behind a key exchange is not thrown away.
QueuedNeverDropped == discarded = {}

\* A message queued behind a key exchange is sent in the end.
QueuedLeaves ==
  \A p \in Client : \A q \in Peers(p) :
    (HasPendingExchange(manager[p], q) /\ manager[p].pending[q].queue # <<>>)
      ~> ~(HasPendingExchange(manager[p], q) /\ manager[p].pending[q].queue # <<>>)
=============================================================================
