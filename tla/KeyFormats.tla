------------------------------ MODULE KeyFormats ------------------------------
(***************************************************************************)
(* The byte formats of pirc-crypto: message headers and encrypted          *)
(* messages, identity keys, pre-keys and pre-key bundles, the messages of  *)
(* a key exchange, and the key store as it is written to disk.  Numbers    *)
(* are laid out byte by byte; a key, a signature or a nonce is an opaque   *)
(* run of bytes, shorter than the real one (the lengths are constants).    *)
(* The result of a parser is Nil when the code returns an error.           *)
(***************************************************************************)
EXTENDS Integers, Sequences, SequencesExt, FiniteSetsExt

CONSTANTS Nil,
          KEY_LEN, VERIFYING_KEY_LEN, SIGNING_KEY_LEN, SIGNATURE_LEN,  \* lengths in bytes
          PUBLIC_KEY_LEN, SECRET_KEY_LEN, CIPHERTEXT_LEN,              \* ... of ML-KEM
          NONCE_SIZE, SALT_LEN, TAG_SIZE,
          Number    \* the ids, counters and times that are tried

VARIABLES value     \* the value that is written and read back, [kind, of]

-----------------------------------------------------------------------------
\* to_le_bytes and to_be_bytes on w bytes; the numbers tried are below 2^31.
LE(n, w) == [k \in 1..w |-> IF k > 4 THEN 0 ELSE (n \div 256^(k - 1)) % 256]
BE(n, w) == Reverse(LE(n, w))

FromBE(b) == FoldLeft(LAMBDA n, byte : n * 256 + byte, 0, b)
FromLE(b) == FromBE(Reverse(b))

\* bytes[from..from + n]
Slice(b, from, n) == SubSeq(b, from + 1, from + n)

\* The consecutive fields of a record, of the given lengths.
Cut(b, lengths) ==
  [k \in DOMAIN lengths |->
     Slice(b, FoldLeft(LAMBDA sum, n : sum + n, 0, SubSeq(lengths, 1, k - 1)), lengths[k])]

Join(parts) == FlattenSeq(parts)

\* A field of a fixed length: from_bytes of a public key, a signature, a ciphertext.
Exactly(b, n) == IF Len(b) = n THEN b ELSE Nil
VerifyingKeyFromBytes(b) == Exactly(b, VERIFYING_KEY_LEN)
SignatureFromBytes(b) == Exactly(b, SIGNATURE_LEN)
KemPublicKeyFromBytes(b) == Exactly(b, PUBLIC_KEY_LEN)
KemCiphertextFromBytes(b) == Exactly(b, CIPHERTEXT_LEN)

\* A key pair of X25519 is its secret: the public key is derived from it.
PublicOf(secret) == [k \in DOMAIN secret |-> 255 - secret[k]]
KeyPairFromSecretBytes(secret) == [secret |-> secret, public |-> PublicOf(secret)]

-----------------------------------------------------------------------------
\* message.rs
HeaderToBytes(h) ==
  LET flags == (IF h.kem_ciphertext # Nil THEN 1 ELSE 0) + (IF h.kem_public # Nil THEN 2 ELSE 0)
  IN Join(<< h.dh_public, BE(h.message_number, 4), BE(h.previous_chain_length, 4), <<flags>>,
             IF h.kem_ciphertext # Nil THEN h.kem_ciphertext ELSE <<>>,
             IF h.kem_public # Nil THEN h.kem_public ELSE <<>> >>)

HeaderFixedLen == KEY_LEN + 4 + 4 + 1

FaultHeaderFromBytes(b) ==
  IF Len(b) < HeaderFixedLen THEN Nil
  ELSE LET f == Cut(b, <<KEY_LEN, 4, 4, 1>>)
           flags == f[4][1]
           ct == flags % 2 = 1
           pk == flags >= 2
       IN IF \/ ct /\ Len(b) < HeaderFixedLen + CIPHERTEXT_LEN
             \/ pk /\ Len(b) < HeaderFixedLen + PUBLIC_KEY_LEN
          THEN Nil
          ELSE [dh_public |-> f[1], message_number |-> FromBE(f[2]),
                previous_chain_length |-> FromBE(f[3]),
                kem_ciphertext |-> IF ct THEN Slice(b, HeaderFixedLen, CIPHERTEXT_LEN) ELSE Nil,
                kem_public |-> IF pk THEN Slice(b, HeaderFixedLen, PUBLIC_KEY_LEN) ELSE Nil]

HeaderFromBytes(b) ==
  IF Len(b) < HeaderFixedLen THEN Nil
  ELSE LET f == Cut(b, <<KEY_LEN, 4, 4, 1>>)
           flags == f[4][1]
           ct == flags % 2 = 1
           pk == (flags \div 2) % 2 = 1
           pkAt == HeaderFixedLen + (IF ct THEN CIPHERTEXT_LEN ELSE 0)
       IN IF \/ ct /\ Len(b) < HeaderFixedLen + CIPHERTEXT_LEN
             \/ pk /\ Len(b) < pkAt + PUBLIC_KEY_LEN
          THEN Nil
          ELSE [dh_public |-> f[1], message_number |-> FromBE(f[2]),
                previous_chain_length |-> FromBE(f[3]),
                kem_ciphertext |-> IF ct THEN Slice(b, HeaderFixedLen, CIPHERTEXT_LEN) ELSE Nil,
                kem_public |-> IF pk THEN Slice(b, pkAt, PUBLIC_KEY_LEN) ELSE Nil]

EncryptedToBytes(m) ==
  Join(<< BE(Len(m.encrypted_header), 4), m.encrypted_header, m.header_nonce,
          BE(Len(m.ciphertext), 4), m.ciphertext, m.body_nonce >>)

EncryptedFromBytes(b) ==
  IF Len(b) < 4 THEN Nil
  ELSE LET hlen == FromBE(Slice(b, 0, 4))
           ctAt == 4 + hlen + NONCE_SIZE
       IN IF Len(b) < ctAt + 4 THEN Nil
          ELSE LET clen == FromBE(Slice(b, ctAt, 4))
                   f == Cut(b, <<4, hlen, NONCE_SIZE, 4, clen, NONCE_SIZE>>)
               IN IF Len(b) < ctAt + 4 + clen + NONCE_SIZE THEN Nil
                  ELSE [encrypted_header |-> f[2], header_nonce |-> f[3],
                        ciphertext |-> f[5], body_nonce |-> f[6]]

-----------------------------------------------------------------------------
\* identity.rs, with the pairs of signing.rs and kem.rs
SigningPairToBytes(p) == p.sk \o p.vk
SigningPairFromBytes(b) ==
  IF Len(b) # SIGNING_KEY_LEN + VERIFYING_KEY_LEN THEN Nil
  ELSE LET f == Cut(b, <<SIGNING_KEY_LEN, VERIFYING_KEY_LEN>>) IN [sk |-> f[1], vk |-> f[2]]

KemPairToBytes(p) == p.dk \o p.ek
KemPairFromBytes(b) ==
  IF Len(b) # SECRET_KEY_LEN + PUBLIC_KEY_LEN THEN Nil
  ELSE LET f == Cut(b, <<SECRET_KEY_LEN, PUBLIC_KEY_LEN>>) IN [dk |-> f[1], ek |-> f[2]]

IdentityPairLen == SIGNING_KEY_LEN + VERIFYING_KEY_LEN + KEY_LEN
IdentityPairToBytes(i) == SigningPairToBytes(i.signing_key) \o i.dh_key.secret
IdentityPairFromBytes(b) ==
  IF Len(b) # IdentityPairLen THEN Nil
  ELSE LET f == Cut(b, <<IdentityPairLen - KEY_LEN, KEY_LEN>>)
       IN [signing_key |-> SigningPairFromBytes(f[1]), dh_key |-> KeyPairFromSecretBytes(f[2])]

PublicIdentity(i) == [verifying_key |-> i.signing_key.vk, dh_public_key |-> i.dh_key.public]

IdentityPublicLen == VERIFYING_KEY_LEN + KEY_LEN
IdentityToBytes(i) == i.verifying_key \o i.dh_public_key
IdentityFromBytes(b) ==
  IF Len(b) # IdentityPublicLen THEN Nil
  ELSE LET f == Cut(b, <<VERIFYING_KEY_LEN, KEY_LEN>>)
       IN [verifying_key |-> VerifyingKeyFromBytes(f[1]), dh_public_key |-> f[2]]

-----------------------------------------------------------------------------
\* prekey.rs: the secret halves ...
SignedLen == 4 + KEY_LEN + SIGNATURE_LEN + 8
SignedToBytes(k) == Join(<<LE(k.id, 4), k.key_pair.secret, k.signature, LE(k.timestamp, 8)>>)
SignedFromBytes(b) ==
  IF Len(b) # SignedLen THEN Nil
  ELSE LET f == Cut(b, <<4, KEY_LEN, SIGNATURE_LEN, 8>>)
       IN [id |-> FromLE(f[1]), key_pair |-> KeyPairFromSecretBytes(f[2]),
           signature |-> SignatureFromBytes(f[3]), timestamp |-> FromLE(f[4])]

OneTimeLen == 4 + KEY_LEN
OneTimeToBytes(k) == LE(k.id, 4) \o k.key_pair.secret
OneTimeFromBytes(b) ==
  IF Len(b) # OneTimeLen THEN Nil
  ELSE LET f == Cut(b, <<4, KEY_LEN>>)
       IN [id |-> FromLE(f[1]), key_pair |-> KeyPairFromSecretBytes(f[2])]

KemPairLen == SECRET_KEY_LEN + PUBLIC_KEY_LEN
KemToBytes(k) == Join(<<LE(k.id, 4), KemPairToBytes(k.kem_pair), k.signature>>)
KemFromBytes(b) ==
  IF Len(b) # 4 + KemPairLen + SIGNATURE_LEN THEN Nil
  ELSE LET f == Cut(b, <<4, KemPairLen, SIGNATURE_LEN>>)
       IN [id |-> FromLE(f[1]), kem_pair |-> KemPairFromBytes(f[2]),
           signature |-> SignatureFromBytes(f[3])]

\* ... and the public ones
SignedToPublic(k) == [id |-> k.id, public_key |-> k.key_pair.public,
                      signature |-> k.signature, timestamp |-> k.timestamp]
SignedPublicToBytes(k) == Join(<<LE(k.id, 4), k.public_key, k.signature, LE(k.timestamp, 8)>>)
SignedPublicFromBytes(b) ==
  IF Len(b) # SignedLen THEN Nil
  ELSE LET f == Cut(b, <<4, KEY_LEN, SIGNATURE_LEN, 8>>)
       IN [id |-> FromLE(f[1]), public_key |-> f[2],
           signature |-> SignatureFromBytes(f[3]), timestamp |-> FromLE(f[4])]

OneTimeToPublic(k) == [id |-> k.id, public_key |-> k.key_pair.public]
OneTimePublicToBytes(k) == LE(k.id, 4) \o k.public_key
OneTimePublicFromBytes(b) ==
  IF Len(b) # OneTimeLen THEN Nil
  ELSE LET f == Cut(b, <<4, KEY_LEN>>) IN [id |-> FromLE(f[1]), public_key |-> f[2]]

KemPublicLen == 4 + PUBLIC_KEY_LEN + SIGNATURE_LEN
KemToPublic(k) == [id |-> k.id, public_key |-> k.kem_pair.ek, signature |-> k.signature]
KemPublicToBytes(k) == Join(<<LE(k.id, 4), k.public_key, k.signature>>)
KemPublicFromBytes(b) ==
  IF Len(b) # KemPublicLen THEN Nil
  ELSE LET f == Cut(b, <<4, PUBLIC_KEY_LEN, SIGNATURE_LEN>>)
       IN [id |-> FromLE(f[1]), public_key |-> KemPublicKeyFromBytes(f[2]),
           signature |-> SignatureFromBytes(f[3])]

BundleToBytes(p) ==
  Join(<< IdentityToBytes(p.identity_public), SignedPublicToBytes(p.signed_pre_key),
          KemPublicToBytes(p.kem_pre_key),
          IF p.one_time_pre_key # Nil
          THEN <<1>> \o OneTimePublicToBytes(p.one_time_pre_key) ELSE <<0>> >>)

BundleFromBytes(b) ==
  LET min == IdentityPublicLen + SignedLen + KemPublicLen + 1
      f == Cut(b, <<IdentityPublicLen, SignedLen, KemPublicLen, 1, OneTimeLen>>)
      has == f[4][1] = 1
  IN IF Len(b) < min \/ (has /\ Len(b) < min + OneTimeLen) THEN Nil
     ELSE [identity_public |-> IdentityFromBytes(f[1]),
           signed_pre_key |-> SignedPublicFromBytes(f[2]),
           kem_pre_key |-> KemPublicFromBytes(f[3]),
           one_time_pre_key |-> IF has THEN OneTimePublicFromBytes(f[5]) ELSE Nil]

-----------------------------------------------------------------------------
\* x3dh.rs and protocol.rs
InitToBytes(m) ==
  Join(<< IdentityToBytes(m.sender_identity), m.ephemeral_public,
          LE(Len(m.kem_ciphertext), 4), m.kem_ciphertext,
          IF m.used_one_time_pre_key_id # Nil
          THEN <<1>> \o LE(m.used_one_time_pre_key_id, 4) ELSE <<0>>,
          LE(m.used_signed_pre_key_id, 4), LE(m.used_kem_pre_key_id, 4) >>)

InitFromBytes(b) ==
  LET ctAt == IdentityPublicLen + KEY_LEN + 4
      ctLen == FromLE(Slice(b, ctAt - 4, 4))
      flagAt == ctAt + ctLen
      has == b[flagAt + 1] = 1
      idsAt == flagAt + (IF has THEN 5 ELSE 1)
      f == Cut(b, <<IdentityPublicLen, KEY_LEN, 4, ctLen>>)
  IN IF \/ Len(b) < ctAt + 9
        \/ Len(b) < flagAt + 1
        \/ KemCiphertextFromBytes(f[4]) = Nil
        \/ Len(b) < idsAt + 8
     THEN Nil
     ELSE [sender_identity |-> IdentityFromBytes(f[1]), ephemeral_public |-> f[2],
           kem_ciphertext |-> f[4],
           used_one_time_pre_key_id |-> IF has THEN FromLE(Slice(b, flagAt + 1, 4)) ELSE Nil,
           used_signed_pre_key_id |-> FromLE(Slice(b, idsAt, 4)),
           used_kem_pre_key_id |-> FromLE(Slice(b, idsAt + 4, 4))]

ExchangeToBytes(m) ==
  CASE m.type = "RequestBundle" -> <<0>>
    [] m.type = "Bundle" -> <<1>> \o BundleToBytes(m.of)
    [] m.type = "InitMessage" -> <<2>> \o InitToBytes(m.of)
    [] m.type = "Complete" -> <<3>>

ExchangeFromBytes(b) ==
  LET typed(type, of) == IF of = Nil /\ type \in {"Bundle", "InitMessage"} THEN Nil
                         ELSE [type |-> type, of |-> of]
  IN IF b = <<>> \/ b[1] \notin 0..3 THEN Nil
     ELSE CASE b[1] = 0 -> typed("RequestBundle", Nil)
            [] b[1] = 1 -> typed("Bundle", BundleFromBytes(Tail(b)))
            [] b[1] = 2 -> typed("InitMessage", InitFromBytes(Tail(b)))
            [] b[1] = 3 -> typed("Complete", Nil)

-----------------------------------------------------------------------------
\* key_storage/mod.rs
WriteBlob(data) == LE(Len(data), 4) \o data
WriteCount(n) == LE(n, 4)

WriteAll(items, ToBytes(_)) ==
  WriteCount(Len(items)) \o FoldLeft(LAMBDA b, x : b \o WriteBlob(ToBytes(x)), <<>>, items)

Serialize(s) ==
  Join(<< WriteBlob(IdentityPairToBytes(s.identity)),
          WriteAll(s.signed_pre_keys, SignedToBytes),
          WriteAll(s.one_time_pre_keys, OneTimeToBytes),
          WriteAll(s.kem_pre_keys, KemToBytes),
          LE(s.next_pre_key_id, 4),
          WriteCount(Len(s.kem_pre_key_timestamps)),
          FoldLeft(LAMBDA b, t : b \o LE(t, 8), <<>>, s.kem_pre_key_timestamps) >>)

Parsed(kind, b) ==
  CASE kind = "identity" -> IdentityPairFromBytes(b)
    [] kind = "signed"   -> SignedFromBytes(b)
    [] kind = "one_time" -> OneTimeFromBytes(b)
    [] kind = "kem"      -> KemFromBytes(b)

\* What has been read so far: the offset and the items, or Nil once a read failed.
Start(offset) == [offset |-> offset, items |-> <<>>]

ReadU32(data, off) == IF off + 4 > Len(data) THEN Nil ELSE FromLE(Slice(data, off, 4))

Took(r, len, item) ==
  IF item = Nil THEN Nil ELSE [offset |-> r.offset + 4 + len, items |-> Append(r.items, item)]

Blob(data, r, len, kind) ==
  IF len = Nil THEN Nil
  ELSE IF r.offset + 4 + len > Len(data) THEN Nil
  ELSE Took(r, len, Parsed(kind, Slice(data, r.offset + 4, len)))

ReadBlob(data, r, kind) == Blob(data, r, ReadU32(data, r.offset), kind)

\* The blobs of a section: one identity, and a count and as many of the others.
ReadSection(data, s, kind) ==
  LET next(r, k) == IF r = Nil THEN Nil ELSE ReadBlob(data, r, kind)
      read(count, off) == IF count = Nil THEN Nil ELSE FoldLeft(next, Start(off), [k \in 1..count |-> k])
      joined(r) == IF r = Nil THEN Nil ELSE [offset |-> r.offset, items |-> Append(s.items, r.items)]
      single == kind = "identity"
  IN joined(read(IF single THEN 1 ELSE ReadU32(data, s.offset), IF single THEN s.offset ELSE s.offset + 4))

ReadTimestamps(data, off, keys) ==
  IF off + 4 > Len(data) THEN [k \in 1..keys |-> 0]      \* older data: filled with zeros
  ELSE LET count == FromLE(Slice(data, off, 4))
       IN IF off + 4 + 8 * count > Len(data) THEN Nil
          ELSE [k \in 1..count |-> FromLE(Slice(data, off + 4 + 8 * (k - 1), 8))]

Assembled(keys, nextId, times) ==
  IF nextId = Nil \/ times = Nil THEN Nil
  ELSE [identity |-> keys.items[1][1], signed_pre_keys |-> keys.items[2],
        one_time_pre_keys |-> keys.items[3], kem_pre_keys |-> keys.items[4],
        next_pre_key_id |-> nextId, kem_pre_key_timestamps |-> times]

Deserialize(data) ==
  LET next(s, kind) == IF s = Nil THEN Nil ELSE ReadSection(data, s, kind)
      rest(keys) == IF keys = Nil THEN Nil
                    ELSE Assembled(keys, ReadU32(data, keys.offset),
                                   ReadTimestamps(data, keys.offset + 4, Len(keys.items[4])))
  IN rest(FoldLeft(next, Start(0), <<"identity", "signed", "one_time", "kem">>))

StoreToBytes(e) == Join(<<e.salt, e.nonce, e.ciphertext>>)
StoreFromBytes(b) ==
  IF Len(b) < SALT_LEN + NONCE_SIZE + TAG_SIZE THEN Nil
  ELSE LET f == Cut(b, <<SALT_LEN, NONCE_SIZE, Len(b) - SALT_LEN - NONCE_SIZE>>)
       IN [salt |-> f[1], nonce |-> f[2], ciphertext |-> f[3]]

-----------------------------------------------------------------------------
\* The values that are tried: every combination of present and absent parts, of
\* a few numbers, and of two byte patterns, so that fields that change places show.
Run(n) == {[k \in 1..n |-> p * 16 + k] : p \in 1..2}
RunOf(n, p) == [k \in 1..n |-> p * 16 + k]
Maybe(S) == S \cup {Nil}

APair(p) == KeyPairFromSecretBytes(RunOf(KEY_LEN, p))
AnIdentity(p) == [signing_key |-> [sk |-> RunOf(SIGNING_KEY_LEN, p), vk |-> RunOf(VERIFYING_KEY_LEN, p + 1)],
                  dh_key |-> APair(p)]
SignedKeys == {[id |-> i, key_pair |-> APair(2), signature |-> RunOf(SIGNATURE_LEN, p), timestamp |-> t] :
                 i \in Number, p \in 1..2, t \in Number}
OneTimeKeys == {[id |-> i, key_pair |-> APair(p)] : i \in Number, p \in 1..2}
KemKeys == {[id |-> i, signature |-> RunOf(SIGNATURE_LEN, 1),
             kem_pair |-> [dk |-> RunOf(SECRET_KEY_LEN, p), ek |-> RunOf(PUBLIC_KEY_LEN, 3)]] :
              i \in Number, p \in 1..2}

Bundles == [identity_public : {PublicIdentity(AnIdentity(1))},
            signed_pre_key : {SignedToPublic(k) : k \in SignedKeys},
            kem_pre_key : {KemToPublic(k) : k \in KemKeys},
            one_time_pre_key : Maybe({OneTimeToPublic(k) : k \in OneTimeKeys})]

Inits == [sender_identity : {PublicIdentity(AnIdentity(2))}, ephemeral_public : Run(KEY_LEN),
          kem_ciphertext : Run(CIPHERTEXT_LEN), used_one_time_pre_key_id : Maybe(Number),
          used_signed_pre_key_id : Number, used_kem_pre_key_id : Number]

UpTo2(S) == {<<>>} \cup {<<x>> : x \in S} \cup {<<x, x>> : x \in S}

Values(kind) ==
  CASE kind = "header" ->
         [dh_public : Run(KEY_LEN), message_number : Number, previous_chain_length : Number,
          kem_ciphertext : Maybe(Run(CIPHERTEXT_LEN)), kem_public : Maybe(Run(PUBLIC_KEY_LEN))]
    [] kind = "encrypted" ->
         [encrypted_header : {<<>>} \cup Run(3), header_nonce : Run(NONCE_SIZE),
          ciphertext : {<<>>} \cup Run(5), body_nonce : Run(NONCE_SIZE)]
    [] kind = "exchange" ->
         {[type |-> t, of |-> Nil] : t \in {"RequestBundle", "Complete"}}
           \cup {[type |-> "Bundle", of |-> p] : p \in Bundles}
           \cup {[type |-> "InitMessage", of |-> m] : m \in Inits}
    [] kind = "keys" ->
         {[identity |-> AnIdentity(1), signed_pre_keys |-> s, one_time_pre_keys |-> o,
           kem_pre_keys |-> k, next_pre_key_id |-> n,
           kem_pre_key_timestamps |-> [j \in DOMAIN k |-> n]] :
            s \in {<<x>> : x \in {y \in SignedKeys : y.id # y.timestamp}},
            o \in UpTo2({x \in OneTimeKeys : x.id # 0}),
            k \in UpTo2({x \in KemKeys : x.id # 0}) \ {<<>>}, n \in Number}
    [] kind = "store" ->
         [salt : Run(SALT_LEN), nonce : Run(NONCE_SIZE), ciphertext : Run(TAG_SIZE) \cup Run(TAG_SIZE + 3)]

Write(v) ==
  CASE v.kind = "header" -> HeaderToBytes(v.of)
    [] v.kind = "encrypted" -> EncryptedToBytes(v.of)
    [] v.kind = "exchange" -> ExchangeToBytes(v.of)
    [] v.kind = "keys" -> Serialize(v.of)
    [] v.kind = "store" -> StoreToBytes(v.of)

ReadBack(kind, b) ==
  CASE kind = "header" -> HeaderFromBytes(b)
    [] kind = "encrypted" -> EncryptedFromBytes(b)
    [] kind = "exchange" -> ExchangeFromBytes(b)
    [] kind = "keys" -> Deserialize(b)
    [] kind = "store" -> StoreFromBytes(b)

FormatInit == value = Nil

PickValue == \E kind \in {"header", "encrypted", "exchange", "keys", "store"} :
               /\ value = Nil
               /\ \E x \in Values(kind) : value' = [kind |-> kind, of |-> x]

\* Every value that pirc-crypto writes is read back unchanged.  A message that lost
\* its end is refused: no strict prefix of it is a message.  A key store that lost
\* its end is refused, or it lost the times of the KEM pre-keys only (a store of an
\* older version has none): no key is lost, and each KEM pre-key still has a time.
FormatsExact ==
  LET faithful(bytes, read) ==       \* read[n]: what the first n bytes are read as
        /\ read[Len(bytes)] = value.of
        /\ \A n \in 0..(Len(bytes) - 1) :
             /\ value.kind \in {"header", "encrypted", "exchange"} => read[n] = Nil
             /\ value.kind = "keys" =>
                  read[n] \in {Nil, [value.of EXCEPT !.kem_pre_key_timestamps =
                                       [k \in DOMAIN value.of.kem_pre_keys |-> 0]]}
      readings(bytes) == faithful(bytes, [n \in 0..Len(bytes) |-> ReadBack(value.kind, SubSeq(bytes, 1, n))])
  IN value # Nil => readings(Write(value))
=============================================================================
