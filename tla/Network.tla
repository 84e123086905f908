------------------------------- MODULE Network -------------------------------
(***************************************************************************)
(* The network crate: the codec that frames lines on a TCP stream          *)
(* (codec.rs, connection.rs), the flow control (backpressure.rs), the      *)
(* accept loop, its connections and the shutdown signal they wait for      *)
(* (listener.rs, shutdown.rs, connection.rs), the retries of the connector *)
(* (connector.rs) and the pool of server links (pool.rs).  The parts share *)
(* no state, and each has a next-state relation of its own.                *)
(***************************************************************************)
EXTENDS Integers, Sequences, SequencesExt, FiniteSets, FiniteSetsExt

CONSTANTS MaxMessageLen,  \* MAX_MESSAGE_LEN, the line end included
          StreamBytes,    \* bound: bytes of a stream
          HighWater, LowWater, ReadLimit, Capacity, MaxWrite,
          Conn, MaxConnections, MaxShutdowns,
          MaxRetries, InitialDelay, MaxDelay, Factor,
          Link, MaxLinks

VARIABLES stream,   \* the bytes the peer wrote
          taken,    \* how many of them were read
          rbuf,     \* the read buffer
          ended,    \* the stream is over: "no", "eof" or "error"
          messages, \* the messages recv returned, and the bytes they count for
          flow,     \* the write buffer, the unprocessed messages, the channel
          signal,   \* signal[c]: the ShutdownSignal of the accept loop or of a connection
          open,     \* the connections being served
          early,    \* history: those accepted before the first shutdown
          shutdowns,\* calls of ShutdownController::shutdown
          retry,    \* connect_with_retry: attempt, the delay before the next, outcome
          pool      \* the pool's connections: the state of each

codecVars == <<stream, taken, rbuf, ended, messages>>
linkVars == <<signal, open, early, shutdowns>>

-----------------------------------------------------------------------------
(* The codec.  A byte is CR, LF, a letter, or "u", which no UTF-8 text      *)
(* holds.                                                                   *)
Byte == {"\r", "\n", "a", "u"}

Ends(s) == {i \in 1..(Len(s) - 1) : s[i] = "\r" /\ s[i + 1] = "\n"}

\* pirc_protocol::parse needs a command; the text has no other structure here.
Parses(line) == line # <<>> /\ "u" \notin ToSet(line)

\* What decode makes of a buffer: an outcome, the line, and what is left.
FaultDecode(src) ==
  IF Ends(src) = {}
  THEN [outcome |-> IF Len(src) > MaxMessageLen THEN "error" ELSE "none", line |-> <<>>, rest |-> src]
  ELSE LET end == Max(Ends(src))
           frame == SubSeq(src, 1, end - 1)
           rest == SubSeq(src, end + 2, Len(src)) IN
       IF end + 1 > MaxMessageLen \/ ~Parses(frame)
       THEN [outcome |-> "error", line |-> <<>>, rest |-> rest]
       ELSE [outcome |-> "message", line |-> frame, rest |-> rest]

Decode(src) ==
  IF Ends(src) = {}
  THEN [outcome |-> IF Len(src) > MaxMessageLen THEN "error" ELSE "none", line |-> <<>>, rest |-> src]
  ELSE LET end == Min(Ends(src))
           frame == SubSeq(src, 1, end - 1)
           rest == SubSeq(src, end + 2, Len(src)) IN
       IF end + 1 > MaxMessageLen \/ ~Parses(frame)
       THEN [outcome |-> "error", line |-> <<>>, rest |-> rest]
       ELSE [outcome |-> "message", line |-> frame, rest |-> rest]

\* encode: a message whose line is too long is refused and nothing is written.
Encode(line, dst) == IF Len(line) + 2 > MaxMessageLen THEN dst ELSE dst \o line \o <<"\r", "\n">>

\* The peer is this program, which encodes lines, or one that writes any bytes.
Write ==
  /\ ended = "no" /\ Len(stream) < StreamBytes
  /\ \/ \E b \in Byte : stream' = Append(stream, b)
     \/ \E line \in BoundedSeq({"a"}, MaxMessageLen) :
          /\ stream' = Encode(line, stream)
          /\ Len(stream') \in (Len(stream) + 1)..StreamBytes
  /\ UNCHANGED <<taken, rbuf, ended, messages>>

\* Framed reads what the socket has when the buffer holds no whole line.
Fill ==
  /\ ended = "no" /\ Decode(rbuf).outcome = "none"
  /\ \E n \in 1..(Len(stream) - taken) :
       /\ rbuf' = rbuf \o SubSeq(stream, taken + 1, taken + n)
       /\ taken' = taken + n
  /\ UNCHANGED <<stream, ended, messages>>

Recv ==
  /\ ended = "no"
  /\ LET d == Decode(rbuf) IN
     /\ d.outcome # "none"
     /\ rbuf' = d.rest
     /\ ended' = IF d.outcome = "error" THEN "error" ELSE "no"
     /\ messages' = IF d.outcome = "error" THEN messages
                    ELSE [list |-> Append(messages.list, d.line),
                          bytes |-> messages.bytes + Len(d.line) + 2]
  /\ UNCHANGED <<stream, taken>>

\* decode_eof: what is left of an unfinished line is dropped.
RecvEof ==
  /\ ended = "no" /\ taken = Len(stream) /\ Decode(rbuf).outcome = "none"
  /\ rbuf' = <<>>
  /\ ended' = "eof"
  /\ UNCHANGED <<stream, taken, messages>>

CodecInit ==
  /\ stream = <<>> /\ taken = 0 /\ rbuf = <<>> /\ ended = "no"
  /\ messages = [list |-> <<>>, bytes |-> 0]

CodecNext == Write \/ Fill \/ Recv \/ RecvEof

\* The lines of a whole stream, up to the first one that is refused.
ReferenceEnd(i) == Min({j \in Ends(stream) : j >= i} \cup {Len(stream) + 1})
Starts == {1} \cup {i + 2 : i \in Ends(stream)}
LineFrom(i) == SubSeq(stream, i, ReferenceEnd(i) - 1)
Good(i) == ReferenceEnd(i) <= Len(stream) /\ Len(LineFrom(i)) + 2 <= MaxMessageLen /\ Parses(LineFrom(i))
Reference ==
  LET upto == {i \in Starts : \A j \in Starts : j <= i => Good(j)}
  IN  [k \in 1..Cardinality(upto) |-> LineFrom(SetToSortSeq(upto, LAMBDA a, b : a < b)[k])]

\* Whatever the sizes of the pieces TCP delivers, recv returns the lines of the
\* stream in order, up to the first line that is refused, which ends the
\* connection; and it counts their bytes.
FramesAsWritten ==
  /\ IsPrefix(messages.list, Reference)
  /\ ended # "no" => messages.list = Reference
  /\ messages.bytes = FoldLeft(LAMBDA n, l : n + Len(l) + 2, 0, messages.list)

-----------------------------------------------------------------------------
(* Flow control.  The write buffer, the unprocessed messages and the queue  *)
(* of a bounded channel are counters with a flag each.                      *)
RecordBuffered(n) ==
  LET bytes == flow.bytes + n IN
  flow' = [flow EXCEPT !.bytes = bytes, !.pressed = @ \/ bytes >= HighWater]

FaultRecordFlushed(n) ==
  LET bytes == Max({0, flow.bytes - n}) IN
  flow' = [flow EXCEPT !.bytes = bytes, !.pressed = @ /\ bytes >= LowWater]

RecordFlushed(n) ==
  LET bytes == Max({0, flow.bytes - n}) IN
  flow' = [flow EXCEPT !.bytes = bytes, !.pressed = @ /\ bytes > LowWater]

RecordReceived ==
  flow' = [flow EXCEPT !.pending = @ + 1, !.paused = @ \/ flow.pending + 1 >= ReadLimit]

RecordConsumed ==
  LET pending == Max({0, flow.pending - 1}) IN
  flow' = [flow EXCEPT !.pending = pending, !.paused = @ /\ pending >= ReadLimit]

\* The bounded channel: a full one refuses, and so does one without receiver.
TrySend ==
  flow' = CASE flow.closed -> flow
            [] ~flow.closed /\ flow.queued < Capacity -> [flow EXCEPT !.queued = @ + 1, !.was_full = FALSE]
            [] OTHER -> [flow EXCEPT !.was_full = TRUE]

ChannelSend == ~flow.closed /\ flow.queued < Capacity /\ flow' = [flow EXCEPT !.queued = @ + 1]

ChannelRecv ==
  /\ ~flow.closed /\ flow.queued > 0
  /\ flow' = [flow EXCEPT !.queued = @ - 1, !.was_full = FALSE]

\* try_recv leaves the flag alone.
TryRecv == ~flow.closed /\ flow.queued > 0 /\ flow' = [flow EXCEPT !.queued = @ - 1]

CloseChannel == ~flow.closed /\ flow' = [flow EXCEPT !.closed = TRUE]

FlowInit ==
  flow = [bytes |-> 0, pressed |-> FALSE, pending |-> 0, paused |-> FALSE,
          queued |-> 0, was_full |-> FALSE, closed |-> FALSE]

\* A writer writes while is_write_ready holds, a reader reads while not paused.
FlowNext ==
  \/ ~flow.pressed /\ \E n \in 1..MaxWrite : RecordBuffered(n)
  \/ \E n \in 1..MaxWrite : RecordFlushed(n)
  \/ ~flow.paused /\ RecordReceived
  \/ RecordConsumed
  \/ TrySend \/ ChannelSend \/ ChannelRecv \/ TryRecv \/ CloseChannel

\* The buffers of a writer and a reader that heed their flags are bounded, the
\* write flag stays down until the low-water mark is reached and up until the
\* high-water mark is, and the read flag says whether the limit is reached.
FlowBounded ==
  /\ flow.pressed => flow.bytes \in (LowWater + 1)..(HighWater + MaxWrite - 1)
  /\ ~flow.pressed => flow.bytes < HighWater
  /\ flow.paused <=> flow.pending = ReadLimit
  /\ flow.queued <= Capacity

-----------------------------------------------------------------------------
(* The accept loop and its connections.  A signal is "waiting" while its    *)
(* receiver has no message, "queued" when it has one (or lags: the channel  *)
(* keeps one), and "seen" once recv returned.                               *)
Loop == "accept_loop"

\* send reaches the receivers there are at that moment.
FaultShutdown ==
  /\ shutdowns < MaxShutdowns
  /\ shutdowns' = shutdowns + 1
  /\ signal' = [signal EXCEPT ![Loop] = IF @ = "waiting" THEN "queued" ELSE @]
  /\ early' = IF shutdowns = 0 THEN open ELSE early
  /\ UNCHANGED open

Shutdown ==
  /\ shutdowns < MaxShutdowns
  /\ shutdowns' = shutdowns + 1
  /\ signal' = [c \in DOMAIN signal |-> IF signal[c] = "waiting" THEN "queued" ELSE signal[c]]
  /\ early' = IF shutdowns = 0 THEN open ELSE early
  /\ UNCHANGED open

\* clone subscribes a new receiver and keeps the flag.
Clone(s) == IF s = "seen" THEN "seen" ELSE "waiting"

\* accept_with_shutdown, when both are ready, may pick the connection.  The limit
\* counts the registered users among the open connections.
Accept(c) ==
  /\ signal[Loop] # "seen" /\ signal[c] = "none"
  /\ \/ open' = open \cup {c} /\ signal' = [signal EXCEPT ![c] = Clone(signal[Loop])]
     \/ Cardinality(open) >= MaxConnections /\ UNCHANGED <<signal, open>>
  /\ UNCHANGED <<early, shutdowns>>

AcceptStops ==
  /\ signal[Loop] = "queued"
  /\ signal' = [signal EXCEPT ![Loop] = "seen"]
  /\ UNCHANGED <<open, early, shutdowns>>

\* recv_with_shutdown of a connection: the signal, or the end of the stream.
RecvWithShutdown(c) ==
  /\ c \in open
  /\ signal' = [signal EXCEPT ![c] = IF @ = "queued" THEN "seen" ELSE "closed"]
  /\ open' = open \ {c}
  /\ UNCHANGED <<early, shutdowns>>

LinkInit ==
  /\ signal = [c \in Conn \cup {Loop} |-> IF c = Loop THEN "waiting" ELSE "none"]
  /\ open = {} /\ early = {} /\ shutdowns = 0

LinkNext ==
  \/ Shutdown
  \/ AcceptStops
  \/ \E c \in Conn : Accept(c) \/ RecvWithShutdown(c)

\* Every connection that was being served when the shutdown was requested has
\* heard of it, and so has the accept loop.
ShutdownReaches ==
  shutdowns > 0 => \A c \in (early \cap open) \cup {Loop} : signal[c] # "waiting"

\* What shutdown.rs says of a signal: one asked after the shutdown answers at once.
EverySignalAnswers ==
  shutdowns > 0 => \A c \in open : signal[c] # "waiting"

-----------------------------------------------------------------------------
(* connect_with_retry, and the pool of server links.                        *)
DelayForAttempt(n) == Min({MaxDelay, InitialDelay * Factor^n})

Connect ==
  /\ retry.outcome = "trying"
  /\ retry' \in {[retry EXCEPT !.outcome = "connected"],
                 IF retry.attempt >= MaxRetries THEN [retry EXCEPT !.outcome = "error"]
                 ELSE [attempt |-> retry.attempt + 1, outcome |-> "trying",
                       waited |-> Append(retry.waited, DelayForAttempt(retry.attempt))]}
  /\ UNCHANGED pool

\* add: a link replaces the one of the same server, and only a new one needs room.
FaultAdd(l, kind) ==
  /\ pool' = IF Cardinality(DOMAIN pool) > MaxLinks THEN pool
             ELSE [k \in DOMAIN pool \cup {l} |-> IF k = l THEN kind ELSE pool[k]]
  /\ UNCHANGED retry

Add(l, kind) ==
  /\ pool' = IF l \notin DOMAIN pool /\ Cardinality(DOMAIN pool) >= MaxLinks THEN pool
             ELSE [k \in DOMAIN pool \cup {l} |-> IF k = l THEN kind ELSE pool[k]]
  /\ UNCHANGED retry

RemoveLink(l) == pool' = [k \in DOMAIN pool \ {l} |-> pool[k]] /\ UNCHANGED retry

\* broadcast keeps the links whose send fails.
Broadcast ==
  /\ \E broken \in SUBSET DOMAIN pool :
       pool' = [k \in DOMAIN pool |-> IF k \in broken THEN "broken" ELSE pool[k]]
  /\ UNCHANGED retry

\* shutdown_all empties the pool, also when a link fails to close.
ShutdownAll == pool' = [k \in {} |-> "live"] /\ UNCHANGED retry

PoolInit ==
  /\ retry = [attempt |-> 0, outcome |-> "trying", waited |-> <<>>]
  /\ pool = [k \in {} |-> "live"]

PoolNext ==
  \/ Connect
  \/ \E l \in Link : Add(l, "live") \/ RemoveLink(l)
  \/ Broadcast
  \/ ShutdownAll

\* The pool stays within its limit, replacements included; and the connector
\* makes at most one attempt more than its retries, waiting longer each time.
LinksBounded ==
  /\ Cardinality(DOMAIN pool) <= MaxLinks
  /\ retry.attempt <= MaxRetries /\ Len(retry.waited) = retry.attempt
  /\ \A i \in 2..Len(retry.waited) :
       retry.waited[i] \in retry.waited[i - 1]..MaxDelay
=============================================================================
