----------------------------- MODULE P2pSession -----------------------------
(***************************************************************************)
(* Two clients that set up a peer-to-peer connection by signalling through *)
(* the chat server, and the transport they then use.                       *)
(*                                                                         *)
(*   pirc-p2p/src/{ice,connectivity,session,transport}.rs                  *)
(*   pirc-p2p/src/encrypted_transport.rs                                   *)
(*   pirc-client/src/p2p.rs, pirc-client/src/app/p2p.rs                    *)
(*                                                                         *)
(* The server hands a client's messages over in order (mail).  A candidate *)
(* is known by its type.  The types a client can gather beyond its host    *)
(* address are those whose server is configured and answers; which pairs   *)
(* of addresses can talk to one another is fixed (reach) and the same seen *)
(* from both ends.                                                         *)
(***************************************************************************)
EXTENDS Integers, Sequences, FiniteSets, SequencesExt

CONSTANTS Peer,          \* the two clients
          Nil,
          Configured,    \* candidate types for which a server is configured
          MaxOffers,     \* bound on the connections initiated
          MaxDrops,      \* bound on disconnects from the server
          MaxDatagrams   \* bound on the datagrams of the transport

VARIABLES session,   \* per client, P2pManager.sessions of the other one
          mail,      \* per client, signalling on its way to it
          linked,    \* the clients connected to the server
          reach,     \* the address pairs that can talk
          offers, drops,
          silent     \* an offer was swallowed, or signalling was cut off

sessionVars == <<session, mail, linked, reach, offers, drops, silent>>

First == CHOOSE c \in Peer : TRUE
Other(c) == CHOOSE d \in Peer : d # c

----------------------------------------------------------------------------
(* Candidates. *)

CandidateType == {"host", "srflx", "relay"}

TypePreference(t) == CASE t = "host" -> 126 [] t = "srflx" -> 100 [] t = "relay" -> 0

ComputePriority(t, localPreference, component) ==
  TypePreference(t) * 2^24 + localPreference * 2^8 + (256 - component)

IceCandidate(t) ==
  [candidate_type |-> t, priority |-> ComputePriority(t, 65535, 1), foundation |-> t, component |-> 1]

ToSdpString(c) ==
  <<c.foundation, c.component, "udp", c.priority, "addr", "port", "typ", c.candidate_type>>

FromSdpString(line) ==
  IF Len(line) = 8 /\ line[3] = "udp" /\ line[7] = "typ" /\ line[8] \in CandidateType
  THEN [candidate_type |-> line[8], priority |-> line[4], foundation |-> line[1], component |-> line[2]]
  ELSE Nil

ParseCandidates(lines) ==
  SelectSeq([i \in DOMAIN lines |-> FromSdpString(lines[i])], LAMBDA c : c # Nil)

\* What gathering can return: the host candidate, and the others whose server
\* answered; highest priority first.
Gather ==
  {SortSeq(SetToSeq({IceCandidate(t) : t \in {"host"} \cup answered}),
           LAMBDA a, b : a.priority > b.priority) : answered \in SUBSET Configured}

\* A bug the mutation runs plant: the roles are not told apart.
FaultComputePairPriority(local, remote, role) ==
  IF local > remote THEN <<remote, local, 1>> ELSE <<local, remote, 0>>

\* 2^32 * min + 2 * max + tie, compared field by field: 2 * max + tie of two
\* gathered priorities stays below 2^32.
ComputePairPriority(local, remote, role) ==
  LET g == IF role = "Controlling" THEN local ELSE remote
      d == IF role = "Controlling" THEN remote ELSE local
  IN  IF g > d THEN <<d, g, 1>> ELSE <<g, d, 0>>

HigherPair(a, b) ==
  \E i \in 1..3 : a.priority[i] > b.priority[i] /\ \A j \in 1..(i - 1) : a.priority[j] = b.priority[j]

FormPairs(local, remote, role) ==
  SortSeq(SetToSeq({[local |-> local[i], remote |-> remote[j],
                     priority |-> ComputePairPriority(local[i].priority, remote[j].priority, role)]
                      : i \in DOMAIN local, j \in DOMAIN remote}),
          HigherPair)

\* A pair succeeds when one of its three requests is answered in time.
CheckPair(c, pair) ==
  LET mine == pair.local.candidate_type
      theirs == pair.remote.candidate_type
  IN  (IF c = First THEN <<mine, theirs>> ELSE <<theirs, mine>>) \in reach

NominatedPair(c, pairs) ==
  LET won == SelectSeq(pairs, LAMBDA p : CheckPair(c, p))
  IN  IF won = <<>> THEN Nil
      ELSE [local |-> won[1].local.candidate_type, remote |-> won[1].remote.candidate_type]

\* The pairs checked before the five seconds are over, in order.
RunPairs(c, pairs) == {NominatedPair(c, SubSeq(pairs, 1, k)) : k \in 0..Len(pairs)}

----------------------------------------------------------------------------
(* P2pSession: every operation returns the session and what it emits. *)

SessionState == {"Idle", "GatheringCandidates", "OfferSent", "AnswerSent", "Checking", "Connected", "Failed"}
Event == {"OFFER", "ANSWER", "ICE", "ESTABLISHED", "FAILED"}

\* role is the one its checks took, which the code keeps no longer than that.
NewSession == [state |-> "Idle", local |-> <<>>, remote |-> <<>>, nominated |-> Nil, role |-> Nil]

Lines(candidates) == [i \in DOMAIN candidates |-> ToSdpString(candidates[i])]

Trickle(candidates) ==
  [i \in DOMAIN candidates |-> [kind |-> "ICE", lines |-> <<ToSdpString(candidates[i])>>]]

SessionInitiate(candidates) ==
  [session |-> [NewSession EXCEPT !.local = candidates, !.state = "OfferSent"],
   events  |-> Append(Trickle(candidates), [kind |-> "OFFER", lines |-> Lines(candidates)])]

SessionRespond(remote, candidates) ==
  [session |-> [NewSession EXCEPT !.local = candidates, !.remote = remote, !.state = "AnswerSent"],
   events  |-> Append(Trickle(candidates), [kind |-> "ANSWER", lines |-> Lines(candidates)])]

SetRemoteCandidates(s, candidates) == [s EXCEPT !.remote = candidates]
AddRemoteCandidate(s, candidate) == [s EXCEPT !.remote = Append(@, candidate)]

FailSession(s) ==
  [session |-> [s EXCEPT !.state = "Failed"], events |-> <<[kind |-> "FAILED", lines |-> <<>>]>>]

SessionRunChecks(c, s) ==
  IF s.remote = <<>> THEN {FailSession(s)}
  ELSE LET role == IF s.state = "OfferSent" THEN "Controlling" ELSE "Controlled"
       IN  {IF n = Nil THEN FailSession(s)
            ELSE [session |-> [s EXCEPT !.state = "Connected", !.nominated = n, !.role = role],
                  events  |-> <<[kind |-> "ESTABLISHED", lines |-> <<>>]>>]
              : n \in RunPairs(c, FormPairs(s.local, s.remote, role))}

----------------------------------------------------------------------------
(* P2pManager and the App: one action per message, up to its last send. *)

SendSignalingMessages(c, events, left) ==
  mail' = [mail EXCEPT ![c] = left, ![Other(c)] = IF Other(c) \in linked THEN @ \o events ELSE @]

\* The session a client already has, a failed one too, keeps it from trying.
Initiate(c) ==
  /\ c \in linked /\ offers < MaxOffers
  /\ session[c] = Nil
  /\ \E candidates \in Gather :
       LET begun == SessionInitiate(candidates)
       IN  /\ session' = [session EXCEPT ![c] = begun.session]
           /\ SendSignalingMessages(c, begun.events, mail[c])
           /\ silent' = (silent \/ Other(c) \notin linked)
  /\ offers' = offers + 1
  /\ UNCHANGED <<linked, reach, drops>>

\* The responder's checks end before its answer leaves.
HandleOffer(c, m) ==
  LET remote == ParseCandidates(m.lines)
  IN  IF remote = <<>>
      THEN SendSignalingMessages(c, <<>>, Tail(mail[c])) /\ UNCHANGED <<session, silent>>
      ELSE \/ \E candidates \in Gather :
                LET answer == SessionRespond(remote, candidates)
                IN  \E checked \in SessionRunChecks(c, answer.session) :
                      /\ session' = [session EXCEPT ![c] = checked.session]
                      /\ SendSignalingMessages(c, answer.events \o checked.events, Tail(mail[c]))
                      /\ UNCHANGED silent
           \/ \* no local socket: the old session is gone, nothing is answered
              /\ session' = [session EXCEPT ![c] = Nil]
              /\ SendSignalingMessages(c, <<>>, Tail(mail[c]))
              /\ silent' = TRUE

HandleAnswer(c, m) ==
  IF session[c] = Nil \/ session[c].state # "OfferSent"
  THEN SendSignalingMessages(c, <<>>, Tail(mail[c])) /\ UNCHANGED <<session, silent>>
  ELSE \E checked \in SessionRunChecks(c, SetRemoteCandidates(session[c], ParseCandidates(m.lines))) :
         /\ session' = [session EXCEPT ![c] = checked.session]
         /\ SendSignalingMessages(c, checked.events, Tail(mail[c]))
         /\ UNCHANGED silent

HandleIceCandidate(c, m) ==
  /\ session' = IF session[c] = Nil \/ ParseCandidates(m.lines) = <<>> THEN session
                ELSE [session EXCEPT ![c] = AddRemoteCandidate(@, ParseCandidates(m.lines)[1])]
  /\ SendSignalingMessages(c, <<>>, Tail(mail[c]))
  /\ UNCHANGED silent

HandleEstablished(c) ==
  SendSignalingMessages(c, <<>>, Tail(mail[c])) /\ UNCHANGED <<session, silent>>


HandleFailed(c) ==
  /\ session' = [session EXCEPT ![c] = Nil]
  /\ SendSignalingMessages(c, <<>>, Tail(mail[c]))
  /\ UNCHANGED silent

HandleP2pMessage(c) ==
  /\ c \in linked /\ mail[c] # <<>>
  /\ LET m == Head(mail[c])
     IN  CASE m.kind = "OFFER"       -> HandleOffer(c, m)
           [] m.kind = "ANSWER"      -> HandleAnswer(c, m)
           [] m.kind = "ICE"         -> HandleIceCandidate(c, m)
           [] m.kind = "ESTABLISHED" -> HandleEstablished(c)
           [] m.kind = "FAILED"      -> HandleFailed(c)
  /\ UNCHANGED <<linked, reach, offers, drops>>

\* The connection to the server ends: every session is forgotten.
Clear(c) ==
  /\ c \in linked /\ drops < MaxDrops
  /\ linked' = linked \ {c}
  /\ session' = [session EXCEPT ![c] = Nil]
  /\ mail' = [mail EXCEPT ![c] = <<>>]
  /\ drops' = drops + 1 /\ silent' = TRUE
  /\ UNCHANGED <<reach, offers>>

Reconnect(c) ==
  c \notin linked /\ linked' = linked \cup {c} /\ UNCHANGED <<session, mail, reach, offers, drops, silent>>

SessionInit ==
  /\ session = [c \in Peer |-> Nil] /\ mail = [c \in Peer |-> <<>>]
  /\ linked = Peer
  /\ reach \in SUBSET (({"host"} \cup Configured) \X ({"host"} \cup Configured))
  /\ offers = 0 /\ drops = 0 /\ silent = FALSE

SessionNext == \E c \in Peer : Initiate(c) \/ HandleP2pMessage(c) \/ Clear(c) \/ Reconnect(c)

----------------------------------------------------------------------------
(* The encrypted transport between the two clients, once they have one.    *)
(* Datagrams get lost, overtake one another and arrive twice.              *)

VARIABLES transport,  \* per client: "direct", "relayed" or Nil
          datagrams,  \* those on their way, with the client they go to
          said,       \* what each client handed to send
          heard,      \* what recv returned to each client
          sentCount

transportVars == <<transport, datagrams, said, heard, sentCount>>

Fly(c, contents) == datagrams' = datagrams \cup {[to |-> Other(c), contents |-> contents]}

RegisterEncryptedTransport(c) ==
  /\ transport[c] = Nil
  /\ \E kind \in {"direct", "relayed"} :
       transport[Other(c)] \in {Nil, kind} /\ transport' = [transport EXCEPT ![c] = kind]
  /\ UNCHANGED <<datagrams, said, heard, sentCount>>

RemoveTransport(c) == transport' = [transport EXCEPT ![c] = Nil]

SendP2p(c) ==
  /\ transport[c] # Nil /\ sentCount < MaxDatagrams
  /\ sentCount' = sentCount + 1
  /\ \/ /\ said' = [said EXCEPT ![c] = @ \cup {sentCount}]
        /\ Fly(c, [cipher |-> sentCount])
        /\ UNCHANGED transport
     \/ RemoveTransport(c) /\ UNCHANGED <<said, datagrams>>
  /\ UNCHANGED heard

\* The keep-alive of a relayed transport goes to the TURN server.
Keepalive(c) ==
  /\ transport[c] # Nil
  /\ IF transport[c] = "direct" THEN Fly(c, [stun |-> "binding request"]) ELSE UNCHANGED datagrams
  /\ UNCHANGED <<transport, said, heard, sentCount>>

\* A bug the mutation runs plant: what cannot be decrypted is handed on.
FaultDecrypt(contents) == IF "cipher" \in DOMAIN contents THEN contents.cipher ELSE 0 - 1

Decrypt(contents) == IF "cipher" \in DOMAIN contents THEN contents.cipher ELSE Nil

RecvP2p(c) ==
  /\ transport[c] # Nil
  /\ \E d \in datagrams :
       /\ d.to = c
       /\ datagrams' \in {datagrams, datagrams \ {d}}
       /\ LET plaintext == Decrypt(d.contents)
          IN  IF plaintext = Nil
              THEN RemoveTransport(c) /\ UNCHANGED heard
              ELSE heard' = [heard EXCEPT ![c] = @ \cup {plaintext}] /\ UNCHANGED transport
  /\ UNCHANGED <<said, sentCount>>

Lose == \E d \in datagrams : datagrams' = datagrams \ {d} /\ UNCHANGED <<transport, said, heard, sentCount>>

TransportInit ==
  /\ transport = [c \in Peer |-> Nil] /\ datagrams = {}
  /\ said = [c \in Peer |-> {}] /\ heard = [c \in Peer |-> {}] /\ sentCount = 0

TransportNext ==
  \/ \E c \in Peer : RegisterEncryptedTransport(c) \/ SendP2p(c) \/ Keepalive(c) \/ RecvP2p(c)
  \/ Lose

----------------------------------------------------------------------------
(* Properties *)

Connected(c) == session[c] # Nil /\ session[c].state = "Connected"

\* Once no signalling is on its way, one client has a connected session only
\* if the other has, whatever the outcome of the checks at either end and
\* however the two offers cross: a failure at one end ends the other's
\* session too.  (An offer that finds no local socket at the other end, and a
\* disconnect from the server, tell the peer nothing: silent.)
SessionsAgree ==
  (\A c \in Peer : mail[c] = <<>>) /\ ~silent => \A c \in Peer : Connected(c) => Connected(Other(c))

\* Two connected ends nominated the same pair, each from its own side, though
\* each sorted and checked the pairs on its own and ran out of time on its own.
\* (When two offers cross, both ends answer and both check as the controlled
\* one, and they may nominate two different pairs.)
NominationsMirror ==
  /\ \A c \in Peer : mail[c] = <<>> /\ Connected(c)
  /\ ~silent
  /\ \E c \in Peer : session[c].role = "Controlling"
  => \A c \in Peer : session[c].nominated = [local  |-> session[Other(c)].nominated.remote,
                                             remote |-> session[Other(c)].nominated.local]

\* A client hears from its encrypted transport only what its peer said.
HeardWasSaid == \A c \in Peer : heard[c] \subseteq said[Other(c)]

\* A keep-alive costs nobody the transport ("The peer simply ignores
\* unsolicited binding requests").  It does, on a direct transport.
KeepaliveIgnored ==
  [][\A c \in Peer : transport[c] # Nil /\ transport'[c] = Nil => sentCount' # sentCount]_transportVars
============================================================================
