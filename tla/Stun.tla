-------------------------------- MODULE Stun --------------------------------
(***************************************************************************)
(* STUN and TURN (stun.rs, turn/codec.rs, turn/client.rs) and the framing  *)
(* of the peer-to-peer transports (transport.rs): what is written on the   *)
(* wire and what is made of it, and the requests a client retransmits      *)
(* while it gathers candidates (ice.rs), over a network that loses, delays *)
(* and duplicates.                                                         *)
(***************************************************************************)
EXTENDS Integers, Sequences, SequencesExt, FiniteSets, Bitwise

CONSTANTS Nil,
          MaxPayload,     \* MAX_PAYLOAD_SIZE of a frame
          MaxAttributes,  \* bound: attributes of a message
          MaxAttempts,    \* the attempts of a request: MAX_RETRANSMISSIONS + 1
          MaxInFlight     \* bound: answers to a request under way

VARIABLES wire,    \* the message being written and read
          step,    \* the request the client is in: "stun", "challenge", "allocate", "done"
          attempts,\* the attempts of this request so far
          inflight,\* inflight[r]: answers to request r on their way to the client
          gathered \* the outcomes: an address, "timeout" or "error" for each request

gatherVars == <<step, attempts, inflight, gathered>>

-----------------------------------------------------------------------------
(* Bytes.                                                                   *)
Bytes16(n) == <<n \div 256, n % 256>>
Bytes32(n) == Bytes16(n \div 65536) \o Bytes16(n % 65536)
Int16(b) == b[1] * 256 + b[2]
Zeros(n) == [i \in 1..n |-> 0]
Cookie == <<33, 18, 164, 66>>
HeaderSize == 20

\* pad_to_4, and the length parse_attributes skips.
FaultPadding(n) == 4 - (n % 4)
Padding(n) == (4 - (n % 4)) % 4

Tlv(type, value) == Bytes16(type) \o Bytes16(Len(value)) \o value \o Zeros(Padding(Len(value)))

\* An address is a family (1 or 2), a port and 4 or 16 octets.
XorKey(tid) == Cookie \o tid
XorBytes(bytes, key) == [i \in 1..Len(bytes) |-> bytes[i] ^^ key[i]]

EncodeMappedAddress(a) == <<0, a.family>> \o Bytes16(a.port) \o a.ip
EncodeXorAddress(a, tid) == <<0, a.family>> \o XorBytes(Bytes16(a.port), Cookie) \o XorBytes(a.ip, XorKey(tid))

IpLength(family) == CASE family = 1 -> 4 [] family = 2 -> 16 [] OTHER -> 0

ParseMappedAddress(b) ==
  IF Len(b) < 4 \/ b[2] \notin {1, 2} THEN Nil
  ELSE IF Len(b) < 4 + IpLength(b[2]) THEN Nil
  ELSE [family |-> b[2], port |-> Int16(SubSeq(b, 3, 4)), ip |-> SubSeq(b, 5, 4 + IpLength(b[2]))]

ParseXorAddress(b, tid) ==
  LET a == ParseMappedAddress(b) IN
  IF a = Nil THEN Nil
  ELSE [a EXCEPT !.port = Int16(XorBytes(Bytes16(@), Cookie)), !.ip = XorBytes(@, XorKey(tid))]

-----------------------------------------------------------------------------
(* Attributes: a type and a content.                                        *)
Mapped == 1
Username == 6
Integrity == 8
ErrorCode == 9
ChannelNumber == 12
Lifetime == 13
XorPeer == 18
Data == 19
Realm == 20
Nonce == 21
XorRelayed == 22
RequestedTransport == 25
XorMapped == 32

XorTypes == {XorPeer, XorRelayed, XorMapped}

\* encode_attributes.  MAPPED-ADDRESS is not a TURN attribute.
Content(a, tid) ==
  CASE a.type \in XorTypes -> EncodeXorAddress(a.content, tid)
    [] a.type = Mapped -> EncodeMappedAddress(a.content)
    [] a.type = Lifetime -> Bytes32(a.content)
    [] a.type = RequestedTransport -> <<a.content, 0, 0, 0>>
    [] a.type = ChannelNumber -> Bytes16(a.content) \o <<0, 0>>
    [] a.type = ErrorCode -> <<0, 0, a.content.code \div 100, a.content.code % 100>> \o a.content.reason
    [] OTHER -> a.content

EncodeAttributes(attributes, tid) ==
  FoldLeft(LAMBDA buf, a : buf \o Tlv(a.type, Content(a, tid)), <<>>, attributes)

\* One attribute of parse_attributes or parse_turn_attributes, Nil when refused.
ParseAttribute(type, value, tid) ==
  LET attribute(content) == IF content = Nil THEN Nil ELSE [type |-> type, content |-> content] IN
  CASE type \in XorTypes -> attribute(ParseXorAddress(value, tid))
    [] type = Mapped -> attribute(ParseMappedAddress(value))
    [] type = Integrity /\ Len(value) # 20 -> Nil
    [] type = Lifetime ->
         IF Len(value) < 4 THEN Nil
         ELSE attribute(Int16(SubSeq(value, 1, 2)) * 65536 + Int16(SubSeq(value, 3, 4)))
    [] type = RequestedTransport -> IF value = <<>> THEN Nil ELSE attribute(value[1])
    [] type = ChannelNumber -> IF Len(value) < 4 THEN Nil ELSE attribute(Int16(value))
    [] type = ErrorCode ->
         IF Len(value) < 4 THEN Nil
         ELSE attribute([code |-> value[3] * 100 + value[4], reason |-> SubSeq(value, 5, Len(value))])
    [] OTHER -> attribute(value)

\* The attributes in the bytes, or Nil.
RECURSIVE ParseAttributes(_, _)
ParseAttributes(data, tid) ==
  IF Len(data) < 4 THEN <<>>
  ELSE LET type == Int16(data)
           length == Int16(SubSeq(data, 3, 4)) IN
       IF 4 + length > Len(data) THEN Nil
       ELSE LET first == ParseAttribute(type, SubSeq(data, 5, 4 + length), tid)
                others == ParseAttributes(SubSeq(data, 5 + length + Padding(length), Len(data)), tid) IN
            IF first = Nil \/ others = Nil THEN Nil ELSE <<first>> \o others

-----------------------------------------------------------------------------
(* Messages.                                                                *)
Header(m, length) == Bytes16(m.type) \o Bytes16(length) \o Cookie \o m.tid

\* HMAC-SHA1: some function of the key and the bytes, of which there are 20 or more.
Hmac(key, bytes) == [i \in 1..20 |-> (bytes[i] + key + Len(bytes)) % 256]

\* The hash covers a header whose length counts the hash itself.
FaultIntegrityTlv(m, attributes, key) == Tlv(Integrity, Hmac(key, Header(m, Len(attributes)) \o attributes))
IntegrityTlv(m, attributes, key) == Tlv(Integrity, Hmac(key, Header(m, Len(attributes) + 24) \o attributes))

ToBytes(m, key) ==
  LET attributes == EncodeAttributes(m.attributes, m.tid)
      whole == IF key = Nil THEN attributes ELSE attributes \o IntegrityTlv(m, attributes, key)
  IN  Header(m, Len(whole)) \o whole

FromBytes(data) ==
  IF Len(data) < HeaderSize THEN Nil
  ELSE LET length == Int16(SubSeq(data, 3, 4))
           tid == SubSeq(data, 9, 20) IN
       IF SubSeq(data, 5, 8) # Cookie \/ Int16(data) >= 2^14 \/ Len(data) < HeaderSize + length THEN Nil
       ELSE LET attributes == ParseAttributes(SubSeq(data, HeaderSize + 1, HeaderSize + length), tid) IN
            IF attributes = Nil THEN Nil ELSE [type |-> Int16(data), tid |-> tid, attributes |-> attributes]

\* The first attribute of a type, as relayed_address, lifetime, data... read it.
Attribute(m, type) ==
  LET of == SelectSeq(m.attributes, LAMBDA a : a.type = type) IN
  IF of = <<>> THEN Nil ELSE of[1].content

MappedAddress(m) ==
  IF Attribute(m, XorMapped) # Nil THEN Attribute(m, XorMapped) ELSE Attribute(m, Mapped)

ParseDataIndication(data) ==
  LET m == FromBytes(data) IN
  IF m = Nil THEN Nil
  ELSE IF m.type # 23 \/ Attribute(m, XorPeer) = Nil \/ Attribute(m, Data) = Nil THEN Nil
  ELSE Attribute(m, Data)

EncodeChannelData(channel, data) == Bytes16(channel) \o Bytes16(Len(data)) \o data \o Zeros(Padding(Len(data)))

DecodeChannelData(b) ==
  IF Len(b) < 4 THEN Nil
  ELSE IF Len(b) < 4 + Int16(SubSeq(b, 3, 4)) THEN Nil
  ELSE [channel |-> Int16(b), data |-> SubSeq(b, 5, 4 + Int16(SubSeq(b, 3, 4)))]

\* The frames of the transports.
EncodeFrame(payload) ==
  IF payload = <<>> \/ Len(payload) > MaxPayload THEN Nil ELSE Bytes16(Len(payload)) \o payload

DecodeFrame(b) ==
  IF Len(b) < 2 THEN Nil
  ELSE IF Len(b) < 2 + Int16(b) \/ Int16(b) = 0 THEN Nil
  ELSE SubSeq(b, 3, 2 + Int16(b))

-----------------------------------------------------------------------------
Ipv4(n) == [family |-> 1, port |-> 3478 + n, ip |-> <<192, 0, 2, n>>]
Ipv6(n) == [family |-> 2, port |-> 65535 - n, ip |-> [i \in 1..16 |-> (i * n) % 256]]
Tid == [i \in 1..12 |-> i * 20]

Attributes ==
  [type : XorTypes \cup {Mapped}, content : {Ipv4(1), Ipv6(7)}]
  \cup [type : {Username, Data, 300}, content : {<<>>, <<97>>, <<1, 2, 3, 4>>, <<1, 2, 3, 4, 5>>}]
  \cup [type : {Lifetime}, content : {0, 600}]
  \cup [type : {RequestedTransport}, content : {17}]
  \cup [type : {ChannelNumber}, content : {16384}]
  \cup [type : {ErrorCode}, content : {[code |-> 401, reason |-> <<110, 111>>], [code |-> 300, reason |-> <<>>]}]

\* The messages of the client.
Credentials == <<[type |-> Username, content |-> <<117>>], [type |-> Realm, content |-> <<114>>],
                 [type |-> Nonce, content |-> <<110, 49>>]>>
AllocateRequest == [type |-> 3, with |-> <<[type |-> RequestedTransport, content |-> 17]>>]
AllocateRequestWithCredentials ==
  [type |-> 3, with |-> <<[type |-> RequestedTransport, content |-> 17]>> \o Credentials]
CreatePermissionRequest == [type |-> 8, with |-> <<[type |-> XorPeer, content |-> Ipv4(2)]>> \o Credentials]
ChannelBindRequest ==
  [type |-> 9, with |-> <<[type |-> ChannelNumber, content |-> 16384],
                          [type |-> XorPeer, content |-> Ipv4(2)]>> \o Credentials]
RefreshRequest == [type |-> 4, with |-> <<[type |-> Lifetime, content |-> 0]>> \o Credentials]
SendIndication ==
  [type |-> 22, with |-> <<[type |-> XorPeer, content |-> Ipv6(3)], [type |-> Data, content |-> <<0, 1, 120>>]>>]
BindingRequest == [type |-> 1, with |-> <<>>]

ClientMessages == {AllocateRequest, AllocateRequestWithCredentials, CreatePermissionRequest,
                   ChannelBindRequest, RefreshRequest, SendIndication, BindingRequest}

Build ==
  /\ wire = Nil
  /\ \E key \in {Nil, 7}, built \in ClientMessages
         \cup [type : {257, 23}, with : BoundedSeq(Attributes, MaxAttributes)] :
       wire' = [message |-> [type |-> built.type, tid |-> Tid, attributes |-> built.with], key |-> key]

\* A message reads back as it was written, with the hash that the receiver
\* computes; no strict prefix of it is taken for a message; and the same holds
\* of channel data and of the frames a data indication or a datagram carries.
WireFaithful ==
  wire # Nil =>
    LET m == wire.message
        bytes == ToBytes(m, wire.key)
        read == FromBytes(bytes)
        body == SubSeq(bytes, 1, Len(bytes) - 24)
        frame == EncodeFrame([i \in 1..Len(m.attributes) |-> i]) IN
    /\ read # Nil /\ read.type = m.type /\ read.tid = m.tid
    /\ IsPrefix(m.attributes, read.attributes)
    /\ wire.key # Nil => Attribute(read, Integrity) = Hmac(wire.key, body)
    /\ \A n \in 0..(Len(bytes) - 1) : FromBytes(SubSeq(bytes, 1, n)) = Nil
    /\ m.type = 23 => ParseDataIndication(bytes) =
                        IF Attribute(m, XorPeer) = Nil THEN Nil ELSE Attribute(m, Data)
    /\ DecodeChannelData(EncodeChannelData(16384, bytes)) = [channel |-> 16384, data |-> bytes]
    /\ IF m.attributes = <<>> \/ Len(m.attributes) > MaxPayload THEN frame = Nil
       ELSE DecodeFrame(frame) = [i \in 1..Len(m.attributes) |-> i]

-----------------------------------------------------------------------------
(* Gathering: a STUN binding, then the two requests of a TURN allocation,   *)
(* on one socket; then the permission and the channel of a peer.  The       *)
(* servers answer each copy of a request they get.                          *)
Requests == {"stun", "challenge", "allocate", "permission", "bind"}

Answer(r) ==
  CASE r = "stun" -> "mapped" [] r = "challenge" -> "unauthorized" [] r = "allocate" -> "relayed"
    [] r = "permission" -> "permitted" [] r = "bind" -> "bound"

\* One attempt: the request may be lost, and its answer delayed or doubled.
Attempt ==
  /\ step \in Requests /\ attempts < MaxAttempts
  /\ attempts' = attempts + 1
  /\ \E n \in 0..2 :
       /\ inflight[step] + n <= MaxInFlight
       /\ inflight' = [inflight EXCEPT ![step] = @ + n]

\* What becomes of the request: gather goes on to TURN whatever STUN gave.
Settle(outcome) ==
  /\ gathered' = [gathered EXCEPT ![step] = outcome]
  /\ step' = CASE step = "stun" -> "challenge"
               [] step = "challenge" /\ outcome = "unauthorized" -> "allocate"
               [] step = "allocate" /\ outcome = "relayed" -> "permission"
               [] step = "permission" /\ outcome = "permitted" -> "bind"
               [] OTHER -> "done"

\* discover_reflexive_address.
DiscoverReflexiveAddress(kind) == Settle(IF kind = "mapped" THEN kind ELSE "error")

\* allocate: the first answer must be a 401, the second the allocation.
Allocate(kind) ==
  Settle(IF kind = (IF step = "challenge" THEN "unauthorized" ELSE "relayed") THEN kind ELSE "error")

CreatePermission(kind) == Settle(IF kind = "permitted" THEN kind ELSE "error")
ChannelBind(kind) == Settle(IF kind = "bound" THEN kind ELSE "error")

Conclude(kind) ==
  CASE step = "stun" -> DiscoverReflexiveAddress(kind)
    [] step \in {"challenge", "allocate"} -> Allocate(kind)
    [] step = "permission" -> CreatePermission(kind)
    [] step = "bind" -> ChannelBind(kind)

\* The answer of another transaction costs an attempt.
FaultReceive(r) ==
  /\ attempts > 0 /\ inflight[r] > 0
  /\ inflight' = [inflight EXCEPT ![r] = @ - 1]
  /\ Conclude(Answer(r))
  /\ attempts' = 0

Receive(r) ==
  /\ attempts > 0 /\ inflight[r] > 0
  /\ IF r # step
     THEN /\ attempts < MaxAttempts
          /\ \E n \in 0..2 :
               /\ inflight[step] + n <= MaxInFlight
               /\ inflight' = [inflight EXCEPT ![r] = @ - 1, ![step] = @ + n]
          /\ attempts' = attempts + 1
          /\ UNCHANGED <<gathered, step>>
     ELSE /\ inflight' = [inflight EXCEPT ![r] = @ - 1]
          /\ Conclude(Answer(r))
          /\ attempts' = 0

\* The last attempt times out, or gets a stray answer.
Exhaust ==
  /\ attempts = MaxAttempts
  /\ Settle("timeout")
  /\ attempts' = 0
  /\ UNCHANGED inflight

WireInit == wire = Nil

GatherInit ==
  /\ step = "stun" /\ attempts = 0
  /\ inflight = [r \in Requests |-> 0] /\ gathered = [r \in Requests |-> Nil]

GatherNext ==
  \/ Attempt /\ UNCHANGED <<step, gathered>>
  \/ step \in Requests /\ (Exhaust \/ \E r \in Requests : Receive(r))

\* With servers that answer what they are asked, late and doubled answers to an
\* earlier request never spoil a later one: each request gives its own answer or
\* a timeout, and a relay is allocated only after the challenge.
GatheredOwnAnswer ==
  /\ \A r \in Requests : gathered[r] \in {Nil, "timeout", Answer(r)}
  /\ gathered["allocate"] # Nil => gathered["challenge"] = "unauthorized"
  /\ gathered["permission"] # Nil => gathered["allocate"] = "relayed"
=============================================================================
