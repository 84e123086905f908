------------------------------ MODULE KeyStore ------------------------------
(***************************************************************************)
(* The pre-keys of a client at rest: how they are made, rotated, retained, *)
(* used up, locked under a passphrase and taken over by the client.        *)
(*                                                                         *)
(*   pirc-crypto/src/key_storage/{mod,rotation}.rs, rotation.rs, prekey.rs *)
(*   pirc-crypto/src/{aead,signing}.rs                                 *)
(*                                                                         *)
(* A pre-key is its id and, for what is said below of it, the time it was  *)
(* made at; the store itself keeps the times of the KEM pre-keys in a list *)
(* of their own.  Ciphertexts, derived keys and signatures are terms.      *)
(***************************************************************************)
EXTENDS Integers, Sequences, SequencesExt, FiniteSets

CONSTANTS Nil, Passphrase,
          MaxAge, GracePeriod, MinOneTime, BatchSize,  \* RotationPolicy
          MaxTime, MaxId                               \* bounds

VARIABLES store,  \* KeyStore, or Nil while it is locked
          sealed, \* EncryptedKeyStore, or Nil
          now

storeVars == <<store, sealed, now>>

----------------------------------------------------------------------------
(* Derived keys, authenticated encryption, signatures *)

StorageKey(passphrase, salt) == [argon2id |-> passphrase, salt |-> salt]
Encrypt(key, plaintext, aad) == [key |-> key, aad |-> aad, plaintext |-> plaintext]
\* Nil: the tag does not verify.
Decrypt(key, c, aad) == IF c.key = key /\ c.aad = aad THEN c.plaintext ELSE Nil
Sign(signer, message) == [by |-> signer, of |-> message]
Verify(signer, message, signature) == signature = Sign(signer, message)

SignedPreKeyGenerate(id, identity, t) == [id |-> id, made |-> t, signature |-> Sign(identity, id)]
KemPreKeyGenerate(id, identity, t) == [id |-> id, made |-> t, signature |-> Sign(identity, id)]
OneTimePreKeyGenerate(id) == [id |-> id]

----------------------------------------------------------------------------

Create ==
  [identity |-> "identity", signed |-> <<SignedPreKeyGenerate(1, "identity", 0)>>, oneTime |-> <<>>,
   kem |-> <<KemPreKeyGenerate(2, "identity", 0)>>, kemTimes |-> <<0>>, next |-> 3]

RotateSignedPreKey(s, t) ==
  [s EXCEPT !.signed = <<SignedPreKeyGenerate(s.next, s.identity, t)>> \o @, !.next = @ + 1]

RotateKemPreKey(s, t) ==
  [s EXCEPT !.kem = <<KemPreKeyGenerate(s.next, s.identity, t)>> \o @,
            !.kemTimes = <<t>> \o @, !.next = @ + 1]

\* The current key, and of the retained ones those not older than the cutoff.
Retained(keys, Time(_), cutoff) ==
  LET Keeps(i) == i = 1 \/ Time(i) >= cutoff
      kept == SetToSortSeq({i \in DOMAIN keys : Keeps(i)}, LAMBDA a, b : a < b)
  IN  [k \in DOMAIN kept |-> keys[kept[k]]]

\* A bug the mutation runs plant: the times of removed keys stay.
FaultCleanup(s, cutoff) ==
  [s EXCEPT !.signed = Retained(s.signed, LAMBDA i : s.signed[i].made, cutoff),
            !.kem = Retained(s.kem, LAMBDA i : s.kemTimes[i], cutoff)]
CleanupExpiredPreKeys(s, cutoff) ==
  [s EXCEPT !.signed = Retained(s.signed, LAMBDA i : s.signed[i].made, cutoff),
            !.kem = Retained(s.kem, LAMBDA i : s.kemTimes[i], cutoff),
            !.kemTimes = Retained(s.kemTimes, LAMBDA i : s.kemTimes[i], cutoff)]

FindSignedPreKey(s, id) == {k \in ToSet(s.signed) : k.id = id}
FindKemPreKey(s, id) == {k \in ToSet(s.kem) : k.id = id}
ConsumeOneTimePreKey(s, id) == [s EXCEPT !.oneTime = SelectSeq(@, LAMBDA k : k.id # id)]

GenerateOneTimePreKeys(s, count) ==
  [s EXCEPT !.oneTime = @ \o [k \in 1..count |-> OneTimePreKeyGenerate(s.next + k - 1)],
            !.next = @ + count]

ReplenishOneTimePreKeys(s, target) ==
  IF Len(s.oneTime) >= target THEN s ELSE GenerateOneTimePreKeys(s, target - Len(s.oneTime))

CountExpiredPreKeys(s, cutoff) ==
  Cardinality({i \in 2..Len(s.signed) : s.signed[i].made < cutoff})
    + Cardinality({i \in 2..Len(s.kemTimes) : s.kemTimes[i] < cutoff})

CurrentSignedPreKeyTimestamp(s) == Head(s.signed).made
CurrentKemPreKeyTimestamp(s) == Head(s.kemTimes)
SaturatingSub(a, b) == IF a > b THEN a - b ELSE 0

CheckRotation(s, t) ==
  [signed |-> SaturatingSub(t, CurrentSignedPreKeyTimestamp(s)) >= MaxAge,
   kem |-> SaturatingSub(t, CurrentKemPreKeyTimestamp(s)) >= MaxAge,
   oneTime |-> Len(s.oneTime) < MinOneTime,
   expired |-> CountExpiredPreKeys(s, SaturatingSub(t, GracePeriod))]

\* The bundle to publish, or Nil.
PublicBundle(s) ==
  LET b == [signed |-> Head(s.signed), kem |-> Head(s.kem),
            oneTime |-> IF s.oneTime = <<>> THEN Nil ELSE Head(s.oneTime)]
  IN  IF s.signed = <<>> \/ s.kem = <<>> THEN Nil
      ELSE IF Verify(s.identity, b.signed.id, b.signed.signature)
              /\ Verify(s.identity, b.kem.id, b.kem.signature) THEN b ELSE Nil

Save(s, passphrase, salt) == [salt |-> salt, ciphertext |-> Encrypt(StorageKey(passphrase, salt), s, "pirc-key-store-v1")]
Open(e, passphrase) == Decrypt(StorageKey(passphrase, e.salt), e.ciphertext, "pirc-key-store-v1")

\* into_parts and from_parts: what the client takes over and gives back.
IntoParts(s) == [identity |-> s.identity, signed |-> Head(s.signed), kem |-> Head(s.kem), oneTime |-> s.oneTime]

\* A bug the mutation runs plant: the number of keys for the highest id.
FaultNextId(ids) == Cardinality(ids) + 1
NextId(ids) == (CHOOSE m \in ids : \A i \in ids : i <= m) + 1

FromParts(p) ==
  [identity |-> p.identity, signed |-> <<p.signed>>, oneTime |-> p.oneTime,
   kem |-> <<[p.kem EXCEPT !.made = 0]>>, kemTimes |-> <<0>>,
   next |-> NextId({p.signed.id, p.kem.id} \cup {k.id : k \in ToSet(p.oneTime)})]

----------------------------------------------------------------------------
(* The owner of the store *)

Change(s) == store' = s /\ UNCHANGED <<sealed, now>>
Unlocked == store # Nil
Spare(count) == store.next + count <= MaxId

Rotate ==
  /\ Unlocked /\ Spare(1)
  /\ \/ CheckRotation(store, now).signed /\ Change(RotateSignedPreKey(store, now))
     \/ CheckRotation(store, now).kem /\ Change(RotateKemPreKey(store, now))

CleanUp ==
  /\ Unlocked
  /\ CheckRotation(store, now).expired > 0
  /\ Change(CleanupExpiredPreKeys(store, SaturatingSub(now, GracePeriod)))

Replenish ==
  /\ Unlocked /\ Spare(BatchSize)
  /\ CheckRotation(store, now).oneTime
  /\ Change(ReplenishOneTimePreKeys(store, BatchSize))

Consume == Unlocked /\ \E k \in ToSet(store.oneTime) : Change(ConsumeOneTimePreKey(store, k.id))

Lock == Unlocked /\ sealed' = Save(store, Passphrase, now) /\ store' = Nil /\ UNCHANGED now

\* Another passphrase opens nothing.  The container is written anew before it
\* is opened again.
Unlock(passphrase) ==
  /\ ~Unlocked /\ Open(sealed, passphrase) # Nil
  /\ store' = Open(sealed, passphrase)
  /\ sealed' = Nil
  /\ UNCHANGED now

\* load_or_create followed by persist
TakeOver == Unlocked /\ Change(FromParts(IntoParts(store)))

Tick == now < MaxTime /\ now' = now + 1 /\ UNCHANGED <<store, sealed>>

StoreInit == store = Create /\ sealed = Nil /\ now = 0
StoreNext == Rotate \/ CleanUp \/ Replenish \/ Consume \/ Lock \/ Unlock(Passphrase) \/ TakeOver \/ Tick

\* Whatever is rotated, cleaned up, used up, locked and taken over, the store
\* can publish a bundle, no two of its pre-keys have one id, and the time kept
\* for a KEM pre-key is that of the key at the same place, so that cleaning up
\* removes the keys it means to (cleanup_expired_pre_keys, rotate_kem_pre_key,
\* from_parts).
StoreConsistent == Unlocked =>
  /\ PublicBundle(store) # Nil
  /\ Len(store.kemTimes) = Len(store.kem)
  /\ \A i \in DOMAIN store.kem : store.kemTimes[i] = store.kem[i].made
  /\ LET keys == store.signed \o store.kem \o store.oneTime
     IN  \A i, j \in DOMAIN keys : i # j => keys[i].id # keys[j].id
  /\ \A k \in ToSet(store.signed) : FindSignedPreKey(store, k.id) = {k}
  /\ \A k \in ToSet(store.kem) : FindKemPreKey(store, k.id) = {k}
=============================================================================
