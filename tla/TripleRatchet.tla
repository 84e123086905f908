---------------------------- MODULE TripleRatchet ----------------------------
(***************************************************************************)
(* An encrypted session between a sender (who set it up) and a receiver:   *)
(* the symmetric, Diffie-Hellman and post-quantum ratchets, header keys,   *)
(* and the cache of skipped message keys.                                  *)
(*                                                                         *)
(*   pirc-crypto/src/{symmetric_ratchet,dh_ratchet,pq_ratchet}.rs          *)
(*   pirc-crypto/src/{header,message}.rs                                   *)
(*   pirc-crypto/src/triple_ratchet/mod.rs                                 *)
(*                                                                         *)
(* Keys are terms: a key pair is its owner and a number, the secret of two *)
(* pairs the set of them, and a derived key the list of secrets that went  *)
(* into it.  Decryption succeeds with the key that encrypted and with no   *)
(* other.  Messages are lost and overtake one another.                     *)
(***************************************************************************)
EXTENDS Integers, Sequences, FiniteSets, SequencesExt, TLC

CONSTANTS Nil,
          MaxSkip,              \* symmetric_ratchet::MAX_SKIP
          MaxSkippedKeys,       \* MAX_SKIPPED_KEYS
          MaxRetainedHeaders,   \* MAX_RETAINED_HEADER_KEYS
          SenderPqInterval, ReceiverPqInterval,
          MaxMessages,          \* bound on the messages sent
          MaxInFlight           \* bound on the messages on their way

Party == {"sender", "receiver"}
OtherParty(p) == IF p = "sender" THEN "receiver" ELSE "sender"
PqInterval(p) == IF p = "sender" THEN SenderPqInterval ELSE ReceiverPqInterval

VARIABLES ratchet,    \* per party, its TripleRatchetSession
          inFlight,   \* messages sent and neither delivered nor lost
          disordered, \* a message was lost or overtaken
          readBy      \* per party, the bodies decrypted

ratchetVars == <<ratchet, inFlight, disordered, readBy>>

----------------------------------------------------------------------------
(* Key derivation: of a root key, the next root, a chain and a header key. *)

DhPair(p, n) == <<p, n>>
Secret(a, b) == {a, b}
RootKey(root, secret) == Append(root, secret)
ChainKey(root, secret) == [use |-> "chain", from |-> Append(root, secret)]
HeaderKey(root, secret) == [use |-> "header", from |-> Append(root, secret)]
InitialHeaderKey(i) == [use |-> "header", from |-> <<{<<"shared", i>>}>>]

\* A chain is its key and the number of the next message.
SymmetricRatchet(chainKey) == [key |-> chainKey, number |-> 0]
MessageKey(chain, n) == [chain |-> chain.key, number |-> n]
Advance(chain) == [chain EXCEPT !.number = @ + 1]

\* The keys up to target, or Nil: a step back, or one too far.
SkipTo(chain, target) ==
  IF target < chain.number \/ (target - chain.number) + 1 > MaxSkip THEN Nil
  ELSE [chain |-> [chain EXCEPT !.number = target + 1],
        keys  |-> {[number |-> n, key |-> MessageKey(chain, n)] : n \in chain.number..target}]

----------------------------------------------------------------------------
(* DhRatchetState *)

DhInitSender(me, remote) ==
  [dh |-> DhPair(me, 0), remote |-> remote, step |-> 0,
   root |-> RootKey(<<>>, Secret(DhPair(me, 0), remote)),
   sending |-> SymmetricRatchet(ChainKey(<<>>, Secret(DhPair(me, 0), remote))), receiving |-> Nil]

DhInitReceiver(me) ==
  [dh |-> DhPair(me, 0), remote |-> Nil, step |-> 0, root |-> <<>>, sending |-> Nil, receiving |-> Nil]


RatchetStep(me, d, newRemote) ==
  LET fresh == DhPair(me, d.step + 1)
      into == Secret(d.dh, newRemote)
      root == RootKey(d.root, into)
      out  == Secret(fresh, newRemote)
  IN  [state |-> [d EXCEPT !.dh = fresh, !.remote = newRemote, !.step = @ + 1,
                           !.root = RootKey(root, out),
                           !.receiving = SymmetricRatchet(ChainKey(d.root, into)),
                           !.sending = SymmetricRatchet(ChainKey(root, out))],
       receivingHeader |-> HeaderKey(d.root, into), sendingHeader |-> HeaderKey(root, out)]

\* [state, key, number], or Nil: the sending chain is not there yet.
EncryptMessageKey(d) ==
  IF d.sending = Nil THEN Nil
  ELSE [state |-> [d EXCEPT !.sending = Advance(d.sending)],
        key |-> MessageKey(d.sending, d.sending.number), number |-> d.sending.number]

\* [state, key, skipped], or Nil: no chain yet, or the key is used up.
ReceiveMessageKey(d, n) ==
  IF d.receiving = Nil \/ SkipTo(d.receiving, n) = Nil THEN Nil
  ELSE LET to == SkipTo(d.receiving, n)
       IN  [state |-> [d EXCEPT !.receiving = to.chain], key |-> MessageKey(d.receiving, n),
            skipped |-> {k \in to.keys : k.number # n}]

\* The keys of the old chain that its messages still to come will need.
SkipRemainingReceivingKeys(d, upTo) ==
  IF d.receiving = Nil \/ upTo <= d.receiving.number THEN [state |-> d, keys |-> {}]
  ELSE LET to == SkipTo(d.receiving, upTo - 1)
       IN  IF to = Nil THEN Nil ELSE [state |-> [d EXCEPT !.receiving = to.chain], keys |-> to.keys]

----------------------------------------------------------------------------
(* PqRatchetState *)

KemPair(p, n) == <<p, n>>

PqNew(me) == [kem |-> KemPair(me, 0), remoteKem |-> Nil, chain |-> <<>>, steps |-> 0]
SetRemotePublicKey(q, key) == [q EXCEPT !.remoteKem = key]

\* [state, data], or Nil when the peer's key is not known.
InitiateStep(me, q) ==
  IF q.remoteKem = Nil THEN Nil
  ELSE LET secret == <<me, q.steps>>
           next   == KemPair(me, q.steps + 1)
       IN  [state |-> [q EXCEPT !.kem = next, !.chain = Append(@, secret), !.steps = @ + 1],
            data  |-> [under |-> q.remoteKem, secret |-> secret, public |-> next]]

\* A ciphertext for another key gives another secret, and no error.
Decapsulate(me, q, data) == IF data.under = q.kem THEN data.secret ELSE <<me, 0 - 1>>

\* A bug the mutation runs plant: the key pair is replaced before it is used.
FaultCompleteStep(me, q, data) ==
  LET next == [q EXCEPT !.kem = KemPair(me, q.steps + 1)]
  IN  [next EXCEPT !.chain = Append(@, Decapsulate(me, next, data)), !.remoteKem = data.public, !.steps = @ + 1]

CompleteStep(me, q, data) ==
  [q EXCEPT !.chain = Append(@, Decapsulate(me, q, data)), !.remoteKem = data.public,
            !.kem = KemPair(me, q.steps + 1), !.steps = @ + 1]

----------------------------------------------------------------------------
(* TripleRatchetSession *)

InitSender(me, remote) ==
  [dh |-> DhInitSender(me, DhPair(remote, 0)),
   pq |-> SetRemotePublicKey(PqNew(me), KemPair(remote, 0)),
   sendingHeader |-> InitialHeaderKey(0), receivingHeader |-> InitialHeaderKey(1),
   previousHeader |-> Nil, retained |-> <<>>,
   nextSendingHeader |-> HeaderKey(<<>>, Secret(DhPair(me, 0), DhPair(remote, 0))),
   nextReceivingHeader |-> InitialHeaderKey(2),
   skipped |-> {}, sincePq |-> 0, previousLength |-> 0, sent |-> 0]

InitReceiver(me) ==
  [dh |-> DhInitReceiver(me), pq |-> PqNew(me),
   sendingHeader |-> InitialHeaderKey(1), receivingHeader |-> InitialHeaderKey(0),
   previousHeader |-> Nil, retained |-> <<>>,
   nextSendingHeader |-> InitialHeaderKey(2), nextReceivingHeader |-> InitialHeaderKey(2),
   skipped |-> {}, sincePq |-> 0, previousLength |-> 0, sent |-> 0]

EncryptHeader(headerKey, header) == [headerKey |-> headerKey, header |-> header]

PqDue(p, s) == PqInterval(p) > 0 /\ s.sincePq >= PqInterval(p)

\* [state, message], or Nil: a post-quantum step is due that cannot be taken,
\* or there is no sending chain yet.
Encrypt(p, s, body) ==
  LET step == InitiateStep(p, s.pq)
      out  == EncryptMessageKey(s.dh)
      header == [dh |-> s.dh.dh, number |-> out.number, previousLength |-> s.previousLength,
                 kem |-> IF PqDue(p, s) THEN step.data ELSE Nil]
  IN  IF (PqDue(p, s) /\ step = Nil) \/ out = Nil THEN Nil
      ELSE [state   |-> [s EXCEPT !.pq = IF PqDue(p, s) THEN step.state ELSE @,
                                  !.sincePq = IF PqDue(p, s) THEN 0 ELSE @,
                                  !.dh = out.state, !.sent = out.number + 1],
            message |-> [key |-> out.key, body |-> body] @@ EncryptHeader(s.sendingHeader, header)]

OpensWith(m, headerKey) == headerKey # Nil /\ headerKey = m.headerKey

\* The cache gives up an arbitrary key when it is full.
StoreSkippedKeys(s, dhPublic, keys) ==
  LET all == s.skipped \cup {[dh |-> dhPublic, number |-> k.number, key |-> k.key, step |-> s.dh.step] : k \in keys}
  IN  {[s EXCEPT !.skipped = kept] :
         kept \in {k \in SUBSET all : Cardinality(k) = IF Cardinality(all) < MaxSkippedKeys
                                                       THEN Cardinality(all) ELSE MaxSkippedKeys}}

\* The cached key of the message, if some header key we still have opens it.
TrySkippedKeys(s, m) ==
  IF \E hk \in {s.receivingHeader, s.nextReceivingHeader, s.previousHeader} \cup ToSet(s.retained) :
       OpensWith(m, hk)
  THEN {k \in s.skipped : k.dh = m.header.dh /\ k.number = m.header.number}
  ELSE {}

\* "new", "same", or Nil when no header key opens the message.
DetectRatchet(s, m) ==
  CASE OpensWith(m, s.nextReceivingHeader) -> "new"
    [] ~ OpensWith(m, s.nextReceivingHeader) /\ OpensWith(m, s.receivingHeader) ->
         IF s.dh.remote # m.header.dh THEN "new" ELSE "same"
    [] ~ OpensWith(m, s.nextReceivingHeader) /\ ~ OpensWith(m, s.receivingHeader)
         /\ OpensWith(m, s.previousHeader) -> "same"
    [] OTHER -> Nil

\* A bug the mutation runs plant: the header key of the epoch before the last
\* is forgotten.
FaultRotateHeaderKeys(s) ==
  [s EXCEPT !.previousHeader = s.receivingHeader,
            !.receivingHeader = s.nextReceivingHeader, !.sendingHeader = s.nextSendingHeader]

RotateHeaderKeys(s) ==
  [s EXCEPT !.previousHeader = s.receivingHeader,
            !.retained = IF s.previousHeader # Nil /\ Len(@) < MaxRetainedHeaders
                         THEN Append(@, s.previousHeader) ELSE @,
            !.receivingHeader = s.nextReceivingHeader, !.sendingHeader = s.nextSendingHeader]

\* The session after the DH step a message of a new epoch calls for.
NewEpoch(p, s, m) ==
  LET old == IF s.dh.remote = Nil THEN [state |-> s.dh, keys |-> {}]
             ELSE SkipRemainingReceivingKeys(s.dh, m.header.previousLength)
  IN  IF old = Nil THEN {}
      ELSE {LET step == RatchetStep(p, kept.dh, m.header.dh)
            IN  [RotateHeaderKeys(kept) EXCEPT
                   !.dh = step.state, !.sincePq = @ + 1,
                   !.nextReceivingHeader = step.receivingHeader,
                   !.nextSendingHeader = step.sendingHeader,
                   !.previousLength = kept.sent, !.sent = 0]
              : kept \in StoreSkippedKeys([s EXCEPT !.dh = old.state], s.dh.remote, old.keys)}

HandlePq(p, s, m) ==
  IF m.header.kem = Nil THEN s ELSE [s EXCEPT !.pq = CompleteStep(p, @, m.header.kem)]

\* The sessions and bodies decrypting a message can end with: body Nil is an
\* error.
Decrypt(p, s, m) ==
  LET cached == TrySkippedKeys(s, m)
      epoch  == DetectRatchet(s, m)
  IN  IF cached # {}
      THEN {[state |-> [s EXCEPT !.skipped = @ \ cached],
             body  |-> IF \E k \in cached : k.key = m.key THEN m.body ELSE Nil]}
      ELSE IF epoch = Nil THEN {[state |-> s, body |-> Nil]}
      ELSE LET entered == IF epoch = "new" THEN NewEpoch(p, s, m) ELSE {s}
           IN  IF entered = {} THEN {[state |-> s, body |-> Nil]}
               ELSE UNION {LET t   == HandlePq(p, e, m)
                               got == ReceiveMessageKey(t.dh, m.header.number)
                           IN  IF got = Nil THEN {[state |-> t, body |-> Nil]}
                               ELSE {[state |-> u, body |-> IF got.key = m.key THEN m.body ELSE Nil] :
                                       u \in StoreSkippedKeys([t EXCEPT !.dh = got.state], m.header.dh, got.skipped)}
                             : e \in entered}

PurgeSkippedKeys(s, maxAge) == [s EXCEPT !.skipped = {k \in @ : s.dh.step - k.step <= maxAge}]

----------------------------------------------------------------------------
(* The two ends. *)

RatchetInit ==
  /\ ratchet = [p \in Party |-> IF p = "sender" THEN InitSender(p, "receiver") ELSE InitReceiver(p)]
  /\ inFlight = {} /\ disordered = FALSE /\ readBy = [p \in Party |-> {}]

SentSoFar == Cardinality(inFlight) + Cardinality(readBy["sender"]) + Cardinality(readBy["receiver"])

Say(p) ==
  /\ SentSoFar < MaxMessages /\ Cardinality(inFlight) < MaxInFlight
  /\ LET out == Encrypt(p, ratchet[p], <<p, SentSoFar>>)
     IN  /\ out # Nil
         /\ ratchet' = [ratchet EXCEPT ![p] = out.state]
         /\ inFlight' = inFlight \cup {[to |-> OtherParty(p), at |-> SentSoFar, message |-> out.message]}
  /\ UNCHANGED <<disordered, readBy>>

Hear(p) ==
  \E f \in inFlight :
    /\ f.to = p
    /\ \E out \in Decrypt(p, ratchet[p], f.message) :
         /\ ratchet' = [ratchet EXCEPT ![p] = out.state]
         /\ readBy' = [readBy EXCEPT ![p] = @ \cup {IF out.body = Nil THEN <<"unread", f.at>> ELSE out.body}]
    /\ inFlight' = inFlight \ {f}
    /\ disordered' = (disordered \/ \E g \in inFlight : g.to = p /\ g.at < f.at)

\* A message that gets lost still counts as sent.
LoseMessage ==
  \E f \in inFlight :
    /\ inFlight' = inFlight \ {f}
    /\ readBy' = [readBy EXCEPT ![f.to] = @ \cup {<<"lost", f.at>>}]
    /\ disordered' = TRUE
    /\ UNCHANGED ratchet

Purge(p) ==
  /\ ratchet[p].skipped # {}
  /\ ratchet' = [ratchet EXCEPT ![p] = PurgeSkippedKeys(@, 5)]
  /\ UNCHANGED <<inFlight, disordered, readBy>>

RatchetNext == (\E p \in Party : Say(p) \/ Hear(p) \/ Purge(p)) \/ LoseMessage

RatchetSpec == RatchetInit /\ [][RatchetNext]_ratchetVars

----------------------------------------------------------------------------
(* Properties *)

\* Every message on its way can be read when it arrives, however messages
\* overtook one another and whichever were lost, in this epoch or in earlier
\* ones, as long as the caches are not full.
SentReadable ==
  \A f \in inFlight :
    \A out \in Decrypt(f.to, ratchet[f.to], f.message) : out.body = f.message.body

\* When nothing was lost or overtaken and nothing is on its way, the two ends
\* have mixed the same post-quantum secrets in the same order.
PqChainsAgree ==
  ~disordered /\ inFlight = {} => ratchet["sender"].pq.chain = ratchet["receiver"].pq.chain

\* Whoever has a sending chain can send ("If a PQ ratchet step is due, it
\* includes KEM data in the header").  With equal intervals the receiver is due
\* first and has no key to encapsulate under: it can never send again.
ChainCanSend ==
  \A p \in Party : ratchet[p].dh.sending # Nil => Encrypt(p, ratchet[p], <<p, 0>>) # Nil
============================================================================
