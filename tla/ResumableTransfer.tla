-------------------------- MODULE ResumableTransfer --------------------------
(***************************************************************************)
(* One payload streamed from `share --local` to `get --local` across       *)
(* broken DataChannels: the sender and receiver engines with their         *)
(* adapters, the loops that drive them, and the checkpoint of the relay    *)
(* the sender embeds.                                                      *)
(*                                                                         *)
(* The recipient's signaling socket is the FIFO `up` into the relay; the   *)
(* relay fans what it forwards out into one queue per event at the sender. *)
(* A frame is in `wire` from the adapter's transport to the recipient's    *)
(* event queue; it is ordered and loses a suffix when the channel is lost. *)
(* Offer, answer and the channel opening are the one step Connect, and the *)
(* retry budget is RetryFlow's.                                            *)
(***************************************************************************)
EXTENDS Integers, Sequences, FiniteSetsExt

CONSTANTS
  Window,       \* SenderEngine window (256)
  Batch,        \* ReceiverEngine ack batch (64)
  WordSize,     \* 2^64: the sender's cursors are u64
  Scenes        \* the transfers considered, a behaviour is one of them

\* total: chunks in the payload; ticks: the recipient pulses
\* ReceiverAdapter::tick; settle: the relay has all of the old attempt when it
\* is joined.  losses, deaths, vain: bounds on lost channels, on recipient
\* processes that die, and on waits that time out and re-join.
ASSUME TransferAssumption ==
  /\ Batch \in Nat \ {0} /\ Window \in Nat /\ Window >= Batch /\ WordSize \in Nat
  /\ \A s \in Scenes :
       /\ s.total \in Nat \ {0} /\ s.ticks \in BOOLEAN /\ s.settle \in BOOLEAN
       /\ s.losses \in Nat /\ s.deaths \in Nat /\ s.vain \in Nat
       /\ WordSize > 2 * (s.total + Window)

VARIABLES
  sst, base, next, endSent, full, cached,           \* sender
  sAcks, sRequests, sComplete, sGone, ready,        \* its event queues
  rst, buf, adapter, expected, acked,               \* recipient
  link, wire,                                       \* the DataChannel
  up, checkpoint, sArmed, rArmed,                   \* relay
  losses, deaths, vain,                             \* counters of the bounds
  scene                                             \* the transfer, never changed

engineVars == <<base, next, endSent, full>>
eventVars == <<sAcks, sRequests, sComplete, sGone, ready>>
senderVars == <<sst, engineVars, cached>>
recipientVars == <<rst, buf, adapter, expected, acked>>
channelVars == <<link, wire>>
relayVars == <<checkpoint, sArmed, rArmed>>
boundVars == <<losses, deaths, vain>>
transferVars == <<senderVars, eventVars, recipientVars, channelVars, up, relayVars,
                  boundVars>>
vars == <<transferVars, scene>>

Total == scene.total
Ticks == scene.ticks
Settle == scene.settle

Metadata(from) == [type |-> "metadata", n |-> from]
Chunk(i) == [type |-> "chunk", n |-> i]
End == [type |-> "end", n |-> Total]
Signal(kind, n) == [type |-> kind, n |-> n]

SenderRuns == sst \notin {"done", "failed"}
RecipientRuns == rst \notin {"done", "failed", "dead"}

-----------------------------------------------------------------------------
(* Sender engine and adapter.                                              *)

\* next - base on u64.  Debug builds panic where this wraps.
InFlight(n, b) == (n - b) % WordSize

\* pump(): the new `next`.
PumpShort(n, b) ==
  IF InFlight(n, b) < Window - 1 THEN Min({Total, b + Window - 1}) ELSE n
PumpTo(n, b) ==
  IF InFlight(n, b) < Window THEN Min({Total, b + Window}) ELSE n

\* The frames pump() emits on its way from n to m.
Burst(n, m, ended) ==
  [i \in 1..(m - n) |-> Chunk(n + i - 1)]
    \o (IF m >= Total /\ ~ended THEN <<End>> ELSE <<>>)

\* The frames that go out, `head` first, and the engine after it.  Each pass of
\* the loop latches payload_fully_sent.
Stream(head, n, b, ended) ==
  LET m == PumpTo(n, b)
  IN  /\ base' = b /\ next' = m
      /\ endSent' = (ended \/ m >= Total)
      /\ full' = (full \/ m >= Total)
      /\ wire' = IF link = "up" THEN wire \o head \o Burst(n, m, ended) ELSE wire

\* open() and request() announce where they (re)start, then pump.
AnnounceNothing(from) == <<>>
Announce(from) == <<Metadata(from)>>

\* is_done!: completion selected, or pending, or everything handed over.
IsDone == sComplete \/ full

\* The sender's loop ends in success, or in an error that is retried; either
\* way it closes its end of the channel.
Leave(s) ==
  /\ sst' = s
  /\ link' = IF link = "up" THEN "closed" ELSE link

\* on_ack(): the last chunk acknowledged finishes the adapter and the loop.
SenderAck ==
  /\ sst = "sending" /\ sAcks # <<>>
  /\ LET through == Head(sAcks)
     IN  /\ Stream(<<>>, next, Max({base, through + 1}), endSent)
         /\ IF through >= Total - 1 THEN Leave("done") ELSE UNCHANGED <<sst, link>>
  /\ sAcks' = Tail(sAcks)
  /\ UNCHANGED <<cached, sRequests, sComplete, sGone, ready, recipientVars, up,
                 relayVars, boundVars>>

\* on_request(); the select is biased, acknowledgements come first.
SenderRequest ==
  /\ sst = "sending" /\ sAcks = <<>> /\ sRequests # <<>>
  /\ LET from == Head(sRequests) IN Stream(Announce(from), from, from, FALSE)
  /\ sRequests' = Tail(sRequests)
  /\ UNCHANGED <<sst, cached, sAcks, sComplete, sGone, ready, recipientVars,
                 link, up, relayVars, boundVars>>

\* p2p:complete or p2p:both-completed.
SenderToldComplete ==
  /\ sst = "sending" /\ sAcks = <<>> /\ sRequests = <<>> /\ sComplete
  /\ Leave("done")
  /\ UNCHANGED <<engineVars, cached, eventVars, recipientVars, wire, up,
                 relayVars, boundVars>>

\* p2p:peer-disconnected in the select, and both completion events before it.
SenderSeesPeerGone ==
  /\ sst = "sending" /\ sAcks = <<>> /\ sRequests = <<>> /\ ~sComplete /\ sGone > 0
  /\ sGone' = sGone - 1
  /\ Leave(IF IsDone THEN "done" ELSE "retry")
  /\ UNCHANGED <<engineVars, cached, sAcks, sRequests, sComplete, ready,
                 recipientVars, wire, up, relayVars, boundVars>>

\* During the flush a failed send or p2p:peer-disconnected asks is_done!, which
\* takes a pending completion: recipient_done is latched (in full) and the loop
\* goes on, or the attempt is over.  The flush that follows each ack and each
\* request may meet this at any time.
SenderFlushBreaks ==
  /\ sst = "sending"
  /\ \/ link \in {"closed", "lost"} /\ UNCHANGED sGone
     \/ sGone > 0 /\ sGone' = sGone - 1
  /\ sComplete' = FALSE
  /\ full' = IsDone
  /\ IF IsDone THEN UNCHANGED <<sst, link>> ELSE Leave("retry")
  /\ UNCHANGED <<base, next, endSent, cached, sAcks, sRequests, ready,
                 recipientVars, wire, up, relayVars, boundVars>>

\* The select comes to next_event() when the control plane is silent.
ControlSilent == sAcks = <<>> /\ sRequests = <<>> /\ ~sComplete /\ sGone = 0

\* LoopEvent::Done: the recipient closed the channel.
SenderSeesClose ==
  /\ sst = "sending" /\ link = "closed" /\ ControlSilent
  /\ sst' = IF IsDone THEN "done" ELSE "retry"
  /\ UNCHANGED <<engineVars, cached, eventVars, recipientVars, channelVars, up,
                 relayVars, boundVars>>

\* LoopEvent::Error: ICE disconnected.  This arm does not ask is_done!.
SenderSeesError ==
  /\ sst = "sending" /\ link = "lost" /\ ControlSilent
  /\ sst' = "retry"
  /\ UNCHANGED <<engineVars, cached, eventVars, recipientVars, channelVars, up,
                 relayVars, boundVars>>

-----------------------------------------------------------------------------
(* Re-joining and connecting.                                              *)

\* A socket that has not joined the room is relayed nothing.
JoinUnderWay == \E i \in 1..Len(up) : up[i].type = "join"

\* both-ready only once both have joined since the last one.
Arm(sender, recipient) ==
  IF sender /\ recipient
    THEN sArmed' = FALSE /\ rArmed' = FALSE /\ ready' = TRUE
    ELSE sArmed' = sender /\ rArmed' = recipient

\* With Settle, what the recipient got and acknowledged of the old attempt has
\* reached the relay before the sender's backoff is over.
Settled ==
  Settle => rst # "receiving" /\ \A i \in 1..Len(up) : up[i].type # "ack"

\* last_chunk_offset is taken from p2p:joined.
OffsetOfFirstJoin == cached
OffsetOfJoin == checkpoint

\* rejoin! at the sender: drain both-ready (not acks, requests, complete or
\* peer-disconnected), join, cache the relay's checkpoint.
JoinAsSender ==
  /\ Settled
  /\ cached' = OffsetOfJoin
  /\ sst' = "waiting"
  /\ IF rArmed
       THEN Arm(TRUE, TRUE)
       ELSE sArmed' = TRUE /\ ready' = FALSE /\ UNCHANGED rArmed
  /\ UNCHANGED <<engineVars, sAcks, sRequests, sComplete, sGone, recipientVars,
                 channelVars, up, checkpoint, losses, deaths>>

SenderRejoins == sst = "retry" /\ JoinAsSender /\ UNCHANGED vain

\* PEER_TIMEOUT_SECS in await_ready on a re-attempt; a both-ready that comes
\* during the backoff is drained.
SenderWaitsInVain ==
  /\ sst = "waiting"
  /\ vain < scene.vain /\ vain' = vain + 1
  /\ JoinAsSender

\* rejoin! at the recipient: join on the live socket.
JoinAsRecipient ==
  /\ rst' = "waiting" /\ up' = Append(up, Signal("join", 0))
  /\ UNCHANGED <<senderVars, eventVars, buf, adapter, expected, acked,
                 channelVars, relayVars, losses>>

RecipientRejoins ==
  /\ rst = "retry" /\ SenderRuns /\ JoinAsRecipient
  /\ UNCHANGED <<deaths, vain>>

\* PEER_TIMEOUT_SECS in await_offer.  It is bounded only when it is early: an
\* unarmed recipient with no both-ready to come always times out.
Unarmed == ~rArmed /\ ~ready /\ ~JoinUnderWay

RecipientWaitsInVain ==
  /\ rst = "waiting" /\ SenderRuns
  /\ IF Unarmed THEN UNCHANGED vain ELSE vain < scene.vain /\ vain' = vain + 1
  /\ JoinAsRecipient
  /\ UNCHANGED deaths

\* both-ready, offer, answer, open channel; the sender's adapter starts at the
\* checkpoint it cached, the recipient has no adapter before the metadata.
Connect ==
  /\ sst \in {"first", "waiting"} /\ ready
  /\ rst = "waiting" \/ (rst = "first" /\ ~JoinUnderWay)
  /\ ready' = FALSE /\ sst' = "sending" /\ rst' = "receiving"
  /\ link' = "up" /\ adapter' = FALSE
  /\ LET m == PumpTo(cached, cached)
     IN  /\ base' = cached /\ next' = m
         /\ endSent' = (m >= Total) /\ full' = (m >= Total)
         /\ wire' = Announce(cached) \o Burst(cached, m, FALSE)
  /\ UNCHANGED <<cached, sAcks, sRequests, sComplete, sGone, buf, expected,
                 acked, up, relayVars, boundVars>>

-----------------------------------------------------------------------------
(* Recipient: adapter, engine and the loop's buffer.                       *)

Receiving == rst = "receiving" /\ wire # <<>>
Took == wire' = Tail(wire)

\* plaintext_buf.truncate(keep).
KeepAll(from) == Len(buf)
KeepNothing(from) == 0
Keep(from) == Min({from, Len(buf)})

RecipientMetadata ==
  /\ Receiving /\ Head(wire).type = "metadata" /\ Took
  /\ LET from == Head(wire).n
     IN  /\ buf' = SubSeq(buf, 1, Keep(from))
         /\ expected' = from /\ acked' = from - 1 /\ adapter' = TRUE
  /\ UNCHANGED <<senderVars, eventVars, rst, link, up, relayVars, boundVars>>

\* An in-order chunk is delivered and acknowledged at the batch boundary, a
\* duplicate is ignored, a gap asks for a resend.
AckThrough(e) == e - 1

RecipientChunk ==
  /\ Receiving /\ Head(wire).type = "chunk" /\ adapter /\ Took
  /\ LET i == Head(wire).n
     IN  \/ /\ i = expected
            /\ buf' = Append(buf, i) /\ expected' = i + 1
            /\ IF (i + 1) % Batch = 0
                 THEN acked' = i /\ up' = Append(up, Signal("ack", AckThrough(i + 1)))
                 ELSE UNCHANGED <<acked, up>>
         \/ i < expected /\ UNCHANGED <<buf, expected, acked, up>>
         \/ /\ i > expected /\ up' = Append(up, Signal("request", expected))
            /\ UNCHANGED <<buf, expected, acked>>
  /\ UNCHANGED <<senderVars, eventVars, rst, adapter, link, relayVars, boundVars>>

\* `end`: complete if contiguous, and then the checksum of the buffer decides
\* between success and one more attempt.  Either way receiver.close().
Intact == buf = [i \in 1..Total |-> i - 1]
Unverified == TRUE
Verified == Intact

RecipientEnd ==
  /\ Receiving /\ Head(wire).type = "end" /\ adapter /\ Took
  /\ \/ /\ expected = Total
        /\ rst' = IF Verified THEN "assembled" ELSE "retry"
        /\ link' = IF link = "up" THEN "closed" ELSE link
        /\ UNCHANGED up
     \/ /\ expected # Total
        /\ up' = Append(up, Signal("request", expected))
        /\ UNCHANGED <<rst, link>>
  /\ UNCHANGED <<senderVars, eventVars, buf, adapter, expected, acked,
                 relayVars, boundVars>>

\* tick(): the periodic acknowledgement, the stall request (bounds: one request
\* under way, no more than a window of frames late).
RecipientTicks ==
  /\ Ticks /\ rst = "receiving" /\ adapter
  /\ \/ /\ expected - 1 > acked
        /\ acked' = expected - 1 /\ up' = Append(up, Signal("ack", AckThrough(expected)))
     \/ /\ \A i \in 1..Len(up) : up[i].type # "request"
        /\ sRequests = <<>> /\ Len(wire) <= Window
        /\ up' = Append(up, Signal("request", expected)) /\ UNCHANGED acked
  /\ UNCHANGED <<senderVars, eventVars, rst, buf, adapter, expected,
                 channelVars, relayVars, boundVars>>

\* LoopEvent::Error or Done, behind every frame that arrived.
RecipientSeesBreak ==
  /\ rst = "receiving" /\ link \in {"closed", "lost"} /\ wire = <<>>
  /\ rst' = "retry"
  /\ UNCHANGED <<senderVars, eventVars, buf, adapter, expected, acked,
                 channelVars, up, relayVars, boundVars>>

\* The output is written, p2p:complete goes out and the process exits.
RecipientReports ==
  /\ rst = "assembled" /\ rst' = "done"
  /\ up' = up \o <<Signal("complete", 0), Signal("bye", 0)>>
  /\ UNCHANGED <<senderVars, eventVars, buf, adapter, expected, acked,
                 channelVars, relayVars, boundVars>>

-----------------------------------------------------------------------------
(* Relay: the recipient's socket, one message at a time.                   *)

RelayHandles ==
  /\ SenderRuns /\ up # <<>> /\ up' = Tail(up)
  /\ LET m == Head(up)
     IN  \/ /\ m.type = "ack"
            /\ checkpoint' = Max({checkpoint, m.n})
            /\ sAcks' = Append(sAcks, m.n)
            /\ UNCHANGED <<sRequests, sComplete, sGone, ready, sArmed, rArmed>>
         \/ /\ m.type = "request"
            /\ sRequests' = Append(sRequests, m.n)
            /\ UNCHANGED <<sAcks, sComplete, sGone, ready, relayVars>>
         \/ /\ m.type = "complete" /\ sComplete' = TRUE
            /\ UNCHANGED <<sAcks, sRequests, sGone, ready, relayVars>>
         \/ /\ m.type = "join"
            /\ IF sArmed
                 THEN Arm(TRUE, TRUE)
                 ELSE rArmed' = TRUE /\ UNCHANGED <<sArmed, ready>>
            /\ UNCHANGED <<sAcks, sRequests, sComplete, sGone, checkpoint>>
         \/ /\ m.type = "bye"
            /\ rArmed' = FALSE /\ checkpoint' = 0 /\ sGone' = sGone + 1
            /\ UNCHANGED <<sAcks, sRequests, sComplete, ready, sArmed>>
  /\ UNCHANGED <<senderVars, recipientVars, channelVars, boundVars>>

-----------------------------------------------------------------------------
(* Failures.                                                               *)

\* ICE disconnects: only a prefix of the frames under way ever arrives.
ChannelLost ==
  /\ link = "up" /\ losses < scene.losses
  /\ losses' = losses + 1 /\ link' = "lost"
  /\ \E k \in 0..Len(wire) : wire' = SubSeq(wire, 1, k)
  /\ UNCHANGED <<senderVars, eventVars, recipientVars, up, relayVars, deaths, vain>>

\* The recipient's process dies, its buffer with it, and may be run again.
RecipientDies ==
  /\ RecipientRuns /\ deaths < scene.deaths
  /\ deaths' = deaths + 1 /\ rst' = "dead"
  /\ buf' = <<>> /\ adapter' = FALSE /\ expected' = 0 /\ acked' = -1
  /\ link' = (IF link = "up" THEN "lost" ELSE link) /\ wire' = <<>>
  /\ up' = Append(up, Signal("bye", 0))
  /\ UNCHANGED <<senderVars, eventVars, relayVars, losses, vain>>

RecipientStarts ==
  /\ rst = "dead" /\ SenderRuns
  /\ rst' = "first" /\ up' = Append(up, Signal("join", 0))
  /\ UNCHANGED <<senderVars, eventVars, buf, adapter, expected, acked,
                 channelVars, relayVars, boundVars>>

\* The budget is spent on a peer that is gone (RetryFlow), or the relay is.
SenderAbandons ==
  /\ sst \in {"waiting", "retry"} /\ ~RecipientRuns
  /\ sst' = "failed"
  /\ UNCHANGED <<engineVars, cached, eventVars, recipientVars, channelVars, up,
                 relayVars, boundVars>>

RecipientAbandons ==
  /\ rst \in {"first", "waiting", "retry"} /\ ~SenderRuns
  /\ rst' = "failed"
  /\ UNCHANGED <<senderVars, eventVars, buf, adapter, expected, acked,
                 channelVars, up, relayVars, boundVars>>

-----------------------------------------------------------------------------
Init ==
  /\ scene \in Scenes
  /\ sst = "first" /\ base = 0 /\ next = 0 /\ endSent = FALSE /\ full = FALSE
  /\ cached = 0
  /\ sAcks = <<>> /\ sRequests = <<>> /\ sComplete = FALSE /\ sGone = 0
  /\ ready = FALSE
  /\ rst = "first" /\ buf = <<>> /\ adapter = FALSE /\ expected = 0 /\ acked = -1
  /\ link = "none" /\ wire = <<>>
  /\ up = <<Signal("join", 0)>> /\ checkpoint = 0 /\ sArmed = TRUE /\ rArmed = FALSE
  /\ losses = 0 /\ deaths = 0 /\ vain = 0

Step ==
  \/ SenderAck \/ SenderRequest \/ SenderToldComplete \/ SenderSeesPeerGone
  \/ SenderFlushBreaks \/ SenderSeesClose \/ SenderSeesError
  \/ SenderRejoins \/ SenderWaitsInVain
  \/ RecipientRejoins \/ RecipientWaitsInVain \/ Connect
  \/ RecipientMetadata \/ RecipientChunk \/ RecipientEnd \/ RecipientTicks
  \/ RecipientSeesBreak \/ RecipientReports
  \/ RelayHandles
  \/ ChannelLost \/ RecipientDies \/ RecipientStarts
  \/ SenderAbandons \/ RecipientAbandons

Next == Step /\ UNCHANGED scene

\* Both processes run, sockets deliver, timeouts and retries come to an end;
\* nothing forces a failure, a tick or a person starting a new recipient.
Progress ==
  \/ SenderAck \/ SenderRequest \/ SenderToldComplete \/ SenderSeesPeerGone
  \/ SenderSeesClose \/ SenderSeesError \/ SenderRejoins
  \/ SenderAbandons
RecipientProgress ==
  \/ RecipientRejoins \/ RecipientMetadata \/ RecipientChunk \/ RecipientEnd
  \/ RecipientSeesBreak \/ RecipientReports \/ RecipientAbandons

Spec == Init /\ [][Next]_vars
FairSpec ==
  Spec /\ WF_transferVars(Progress) /\ WF_transferVars(RecipientProgress)
       /\ WF_transferVars(RelayHandles) /\ WF_transferVars(Connect)
       /\ WF_transferVars(RecipientWaitsInVain /\ Unarmed)

-----------------------------------------------------------------------------
\* The channel is ordered and every rewind is announced, so the recipient
\* meets no gap: metadata first, each chunk at most the expected one, `end`
\* only after the last (gap repair is never needed on one channel).
InOrderArrival ==
  rst = "receiving" /\ wire # <<>> =>
    \/ Head(wire).type = "metadata"
    \/ Head(wire).type = "chunk" /\ adapter /\ Head(wire).n <= expected
    \/ Head(wire).type = "end" /\ adapter /\ expected = Total

\* A recipient that reports success holds exactly the payload, whatever was
\* re-sent, truncated or resumed on the way.
IntactOnSuccess == rst \in {"assembled", "done"} => Intact

\* Nothing rewinds the sender in mid-attempt: the relay keeps up, the recipient
\* never dies and asks for nothing on a timer.  (A resend asked for on a timer
\* truncates a buffer that was acknowledged further on; a new recipient may be
\* resumed at the checkpoint of the one that died.)
Steady == Settle /\ ~Ticks /\ scene.deaths = 0

\* The committed buffer is the first Len(buf) chunks, and the engine expects
\* the next one: a resumed attempt neither skips nor doubles a chunk.
BufferAligned ==
  Steady =>
  /\ \A i \in 1..Len(buf) : buf[i] = i - 1
  /\ rst = "receiving" /\ adapter => expected = Len(buf)

\* The resume point the relay would report, and the one the sender cached, is
\* a chunk the recipient still holds, or the start.
ResumePointHeld ==
  Steady /\ RecipientRuns =>
    /\ checkpoint <= Len(buf)
    /\ sst = "waiting" => cached <= Len(buf)

\* The u64 difference next - base never wraps while the sender streams, in
\* steady operation.  (The queued acknowledgement of a recipient that died takes
\* base past next when it reaches the attempt of a new one.)
WindowArithmetic == Steady /\ sst = "sending" => base <= next

\* However often the channel breaks, both processes come to an end (unless a
\* recipient dies and nobody starts another: then the first sender waits on).
TransferEnds == Settle ~> (~SenderRuns /\ ~RecipientRuns)
=============================================================================
