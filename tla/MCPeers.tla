------------------------------ MODULE MCPeers -------------------------------
(* What clients do with one another, side by side, for TLC: connections and  *)
(* their framing, peer-to-peer sessions and groups, ratchets, keys and key   *)
(* exchange. The initial state picks one part, and every step is one of its  *)
(* steps. Modules with several machines give several parts.                  *)
EXTENDS Integers, Sequences

CONSTANTS
    Nil, peer1, peer2, peer3, Server

VARIABLES
    part,  \* the part of the system that a behaviour is about
    stream, taken, rbuf, ended, messages,
    flow,
    signal, open, early, shutdowns,
    retry, pool,
    datagram,
    step, attempts, inflight, gathered,
    session, mail, linked, reach, offers, drops, silent,
    transport, datagrams, spoken, listened, sentCount,
    group, verdict, gs, conn, buffer, copies, fanout, changes,
    members, created, online, task, lines, views, window, missed, budget,
    ratchet, inFlight, disordered, readBy,
    value,
    manager, disk, chunkBufs, stored, wire, ephemerals, said, heard, undecrypted,
    discarded, plain, disturbed, resets, kills, relay,
    store, sealed, now

\* pirc-network: framing, flow control, shutdown, and the pool of connections
Net == INSTANCE Network WITH
    MaxMessageLen <- 4, StreamBytes <- 6, HighWater <- 3, LowWater <- 1,
    ReadLimit <- 2, Capacity <- 2, MaxWrite <- 2, Conn <- {peer1, peer2},
    MaxConnections <- 1, MaxShutdowns <- 2, MaxRetries <- 3, InitialDelay <- 1,
    MaxDelay <- 3, Factor <- 2, Link <- {peer1, peer2}, MaxLinks <- 1

\* STUN and TURN: messages on the wire, and the requests of a client
Ice == INSTANCE Stun WITH
    MaxPayload <- 4, MaxAttributes <- 2, MaxAttempts <- 3, MaxInFlight <- 3,
    wire <- datagram

\* a connection between two clients, and its encrypted transport
P2p == INSTANCE P2pSession WITH
    Peer <- {peer1, peer2}, Configured <- {"srflx"}, MaxOffers <- 2, MaxDrops <- 1,
    MaxDatagrams <- 2, said <- spoken, heard <- listened

\* the mesh of a group, and messages sent to all of it
Mesh == INSTANCE P2pGroup WITH
    Member <- {peer1, peer2}, MaxSequence <- 1, MaxChanges <- 6

\* one group as the server has it, and as its clients see it
Groups == INSTANCE GroupView WITH
    User <- {peer1, peer2, peer3}, wire <- lines, view <- views,
    Budgets <- {[peer \in {peer1, peer2, peer3} |-> 1],
                [peer \in {peer1, peer2, peer3} |-> IF peer = peer1 THEN 2 ELSE IF peer = peer2 THEN 3 ELSE 0]}

\* two ends of a triple ratchet
Ratchet == INSTANCE TripleRatchet WITH
    MaxSkip <- 8, MaxSkippedKeys <- 8, MaxRetainedHeaders <- 5,
    SenderPqInterval <- 2, ReceiverPqInterval <- 3, MaxMessages <- 6,
    MaxInFlight <- 3

\* what pirc-crypto writes as bytes; lengths are shortened
Formats == INSTANCE KeyFormats WITH
    KEY_LEN <- 2, VERIFYING_KEY_LEN <- 3, SIGNING_KEY_LEN <- 4, SIGNATURE_LEN <- 3,
    PUBLIC_KEY_LEN <- 2, SECRET_KEY_LEN <- 3, CIPHERTEXT_LEN <- 3, NONCE_SIZE <- 2,
    SALT_LEN <- 3, TAG_SIZE <- 2, Number <- {0, 258}

\* clients that agree on keys through the server
Exchange == INSTANCE KeyExchange WITH
    Client <- {peer1, peer2}, Relays <- {"direct", "stored"}, BatchSize <- 1,
    BundleChunks <- 2, InitChunks <- 2, MaxTexts <- 2, MaxExchanges <- 2,
    MaxResets <- 1, MaxCrashes <- 1

\* the identity and the pre-keys of a client
Store == INSTANCE KeyStore WITH
    Passphrase <- "p", MaxAge <- 2, GracePeriod <- 1, MinOneTime <- 1,
    BatchSize <- 2, MaxTime <- 5, MaxId <- 8

-----------------------------------------------------------------------------
codecVars == <<stream, taken, rbuf, ended, messages>>
flowVars == <<flow>>
linkVars == <<signal, open, early, shutdowns>>
poolVars == <<retry, pool>>
stunVars == <<datagram>>
turnVars == <<step, attempts, inflight, gathered>>
sessionVars == <<session, mail, linked, reach, offers, drops, silent>>
transportVars == <<transport, datagrams, spoken, listened, sentCount>>
groupVars == <<group, verdict, gs, conn, buffer, copies, fanout, changes>>
viewVars == <<members, created, online, task, lines, views, window, missed, budget>>
ratchetVars == <<ratchet, inFlight, disordered, readBy>>
formatsVars == <<value>>
exchangeVars == <<manager, disk, chunkBufs, stored, wire, ephemerals, said, heard,
                  undecrypted, discarded, plain, disturbed, resets, kills, relay>>
storeVars == <<store, sealed, now>>

\* The variables of the other parts are without a value.
Init ==
    /\ part \in {"codec", "flow", "link", "pool", "stun", "turn", "session",
                  "transport", "group", "view", "ratchet", "formats", "exchange", "store"}
    /\ IF part = "codec" THEN Net!CodecInit
       ELSE stream = Nil /\ taken = Nil /\ rbuf = Nil /\ ended = Nil /\
            messages = Nil
    /\ IF part = "flow" THEN Net!FlowInit
       ELSE flow = Nil
    /\ IF part = "link" THEN Net!LinkInit
       ELSE signal = Nil /\ open = Nil /\ early = Nil /\ shutdowns = Nil
    /\ IF part = "pool" THEN Net!PoolInit
       ELSE retry = Nil /\ pool = Nil
    /\ IF part = "stun" THEN Ice!WireInit
       ELSE datagram = Nil
    /\ IF part = "turn" THEN Ice!GatherInit
       ELSE step = Nil /\ attempts = Nil /\ inflight = Nil /\ gathered = Nil
    /\ IF part = "session" THEN P2p!SessionInit
       ELSE session = Nil /\ mail = Nil /\ linked = Nil /\ reach = Nil /\
            offers = Nil /\ drops = Nil /\ silent = Nil
    /\ IF part = "transport" THEN P2p!TransportInit
       ELSE transport = Nil /\ datagrams = Nil /\ spoken = Nil /\ listened = Nil /\
            sentCount = Nil
    /\ IF part = "group" THEN Mesh!GroupInit
       ELSE group = Nil /\ verdict = Nil /\ gs = Nil /\ conn = Nil /\
            buffer = Nil /\ copies = Nil /\ fanout = Nil /\ changes = Nil
    /\ IF part = "view" THEN Groups!ViewInit
       ELSE members = Nil /\ created = Nil /\ online = Nil /\ task = Nil /\
            lines = Nil /\ views = Nil /\ window = Nil /\ missed = Nil /\
            budget = Nil
    /\ IF part = "ratchet" THEN Ratchet!RatchetInit
       ELSE ratchet = Nil /\ inFlight = Nil /\ disordered = Nil /\ readBy = Nil
    /\ IF part = "formats" THEN Formats!FormatInit
       ELSE value = Nil
    /\ IF part = "exchange" THEN Exchange!KeyInit
       ELSE manager = Nil /\ disk = Nil /\ chunkBufs = Nil /\ stored = Nil /\
            wire = Nil /\ ephemerals = Nil /\ said = Nil /\ heard = Nil /\
            undecrypted = Nil /\ discarded = Nil /\ plain = Nil /\
            disturbed = Nil /\ resets = Nil /\ kills = Nil /\ relay = Nil
    /\ IF part = "store" THEN Store!StoreInit
       ELSE store = Nil /\ sealed = Nil /\ now = Nil

Others ==
    /\ UNCHANGED part
    /\ IF part = "codec" THEN TRUE ELSE UNCHANGED codecVars
    /\ IF part = "flow" THEN TRUE ELSE UNCHANGED flowVars
    /\ IF part = "link" THEN TRUE ELSE UNCHANGED linkVars
    /\ IF part = "pool" THEN TRUE ELSE UNCHANGED poolVars
    /\ IF part = "stun" THEN TRUE ELSE UNCHANGED stunVars
    /\ IF part = "turn" THEN TRUE ELSE UNCHANGED turnVars
    /\ IF part = "session" THEN TRUE ELSE UNCHANGED sessionVars
    /\ IF part = "transport" THEN TRUE ELSE UNCHANGED transportVars
    /\ IF part = "group" THEN TRUE ELSE UNCHANGED groupVars
    /\ IF part = "view" THEN TRUE ELSE UNCHANGED viewVars
    /\ IF part = "ratchet" THEN TRUE ELSE UNCHANGED ratchetVars
    /\ IF part = "formats" THEN TRUE ELSE UNCHANGED formatsVars
    /\ IF part = "exchange" THEN TRUE ELSE UNCHANGED exchangeVars
    /\ IF part = "store" THEN TRUE ELSE UNCHANGED storeVars

Next ==
    \/ part = "codec" /\ Net!CodecNext /\ Others
    \/ part = "flow" /\ Net!FlowNext /\ Others
    \/ part = "link" /\ Net!LinkNext /\ Others
    \/ part = "pool" /\ Net!PoolNext /\ Others
    \/ part = "stun" /\ Ice!Build /\ Others
    \/ part = "turn" /\ Ice!GatherNext /\ Others
    \/ part = "session" /\ P2p!SessionNext /\ Others
    \/ part = "transport" /\ P2p!TransportNext /\ Others
    \/ part = "group" /\ Mesh!GroupNext /\ Others
    \/ part = "view" /\ Groups!ViewNext /\ Others
    \/ part = "ratchet" /\ Ratchet!RatchetNext /\ Others
    \/ part = "formats" /\ Formats!PickValue /\ Others
    \/ part = "exchange" /\ Exchange!KeyNext /\ Others
    \/ part = "store" /\ Store!StoreNext /\ Others

vars == <<part, codecVars, flowVars, linkVars, poolVars, stunVars, turnVars, sessionVars,
          transportVars, groupVars, viewVars, ratchetVars, formatsVars, exchangeVars,
          storeVars>>

Spec == Init /\ [][Next]_vars
-----------------------------------------------------------------------------
\* Bytes that arrive in any pieces are read as the lines that were written, and a
\* writer and a reader that heed their flags keep their buffers bounded; every
\* connection served when the shutdown is requested hears of it; the pool stays
\* within its limit and a connector within its retries (PircCodec, Backpressure-
\* Controller, ShutdownController, ConnectionPool, connect_with_retry).
LinksExact ==
    /\ part = "codec" => Net!FramesAsWritten
    /\ part = "flow"  => Net!FlowBounded
    /\ part = "link"  => Net!ShutdownReaches
    /\ part = "pool"  => Net!LinksBounded




=============================================================================
