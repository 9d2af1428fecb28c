------------------------------ MODULE PeerLoop ------------------------------
(***************************************************************************)
(* One WebRTC peer: the task that owns a SenderPeer or a ReceiverPeer, the *)
(* bounded command queue between them, and the sans-I/O event loop that    *)
(* drives str0m (src/src/webrtc/event_loop.rs, sender.rs, receiver.rs).    *)
(*                                                                         *)
(* One action of the loop is one turn of its inner `loop`: frames move     *)
(* from the pending queue into SCTP, the end of the grace period is        *)
(* tested, and one output of str0m or one arm of the select is handled.    *)
(* A frame is its number; text and binary frames take the same path.       *)
(* str0m, the network and the far peer are external: what they do is the   *)
(* room in the SCTP buffer, the acknowledgements and the state of the link.*)
(* The relayed path of a packet is in TurnRelay.                           *)
(***************************************************************************)
EXTENDS Integers, Sequences, SequencesExt, FiniteSetsExt

CONSTANTS
  Styles,      \* how the owner shuts the peer down: see Abandon and Finish
  Frames,      \* the number of frames the owner has to send
  Trickles,    \* bound: candidates that signaling hands over
  Capacity,    \* CMD_CHANNEL_CAPACITY (4; 256 for a ReceiverPeer)
  MaxPending,  \* MAX_PENDING (24)
  MaxDrain,    \* MAX_DRAIN_PER_CYCLE (64)
  SctpBuffer,  \* frames SCTP holds until they are acknowledged
  Grace        \* the clock ticks in the 3 s of grace

ASSUME PeerAssumption ==
  /\ Styles \subseteq {"local", "online", "recipient"}
  /\ {Frames, Trickles, Grace} \subseteq Nat
  /\ {Capacity, MaxPending, MaxDrain, SctpBuffer} \subseteq Nat \ {0}

VARIABLES
  style, owner, next, trickled, answered, lostClose,
  cmds, pending, written, acked, open, closing, grace, loop, events, link

ownerVars == <<style, owner, next, trickled, answered, lostClose>>
loopVars == <<pending, written, open, closing, grace, loop>>
vars == <<ownerVars, loopVars, acked, link, cmds, events>>

NoGrace == 0 - 1
Close == <<"close", 0>>
Ice == <<"ice", 0>>
Answer == <<"answer", 0>>
Data(n) == <<"data", n>>

Running == loop = "running"

\* The sending half of the queue, cmd_tx, lives as long as the handle.
HeldForEver == TRUE
Held == owner # "gone"

Accepted == [i \in 1..(next - 1) |-> i]

\* The frames among the first i commands of q.
FramesUpTo(q) ==
  LET frames[i \in 0..Len(q)] ==
        IF i = 0 THEN <<>>
        ELSE IF q[i][1] = "data" THEN Append(frames[i - 1], q[i][2])
        ELSE frames[i - 1]
  IN frames

FramesIn(q) == FramesUpTo(q)[Len(q)]

-----------------------------------------------------------------------------
(* The owner: share.rs and get.rs through the methods of the two peers.    *)

\* A ReceiverPeer is built from the offer: no answer is to come, and its link
\* is checked at once.
FromOffer == style = "recipient"

Init ==
  /\ style \in Styles
  /\ owner = "dialing" /\ next = 1 /\ trickled = 0
  /\ answered = FromOffer /\ lostClose = FALSE
  /\ cmds = <<>> /\ pending = <<>> /\ written = <<>> /\ acked = 0
  /\ open = FALSE /\ closing = FALSE /\ grace = NoGrace
  /\ loop = "running" /\ events = <<>>
  /\ link = IF FromOffer THEN "checking" ELSE "new"

HasRoom == Running /\ Len(cmds) < Capacity

\* try_send: a full queue and a loop that has ended give the same error.  In
\* the dialing stages it ends the attempt, and the peer is dropped.
TryOrDrop(c) ==
  IF HasRoom
    THEN cmds' = Append(cmds, c) /\ UNCHANGED owner
    ELSE owner' = "gone" /\ UNCHANGED cmds

GetAnswer ==
  /\ owner = "dialing" /\ ~answered
  /\ answered' = TRUE
  /\ TryOrDrop(Answer)
  /\ UNCHANGED <<style, next, trickled, lostClose, loopVars, acked, link, events>>

GetCandidate ==
  /\ owner = "dialing" /\ trickled < Trickles
  /\ trickled' = trickled + 1
  /\ TryOrDrop(Ice)
  /\ UNCHANGED <<style, next, answered, lostClose, loopVars, acked, link, events>>

\* 30 s for the answer, 15 s for the channel: the peer is dropped unclosed.
DialTimesOut ==
  /\ owner = "dialing"
  /\ owner' = "gone"
  /\ UNCHANGED <<style, next, trickled, answered, lostClose, loopVars, acked,
                 link, cmds, events>>

HearOpen ==
  /\ owner = "dialing" /\ answered
  /\ events # <<>> /\ Head(events) = "open"
  /\ owner' = "sending" /\ events' = Tail(events)
  /\ UNCHANGED <<style, next, trickled, answered, lostClose, loopVars, acked,
                 link, cmds>>

\* send_frame / send_binary: the owner waits for room.
SendFrame ==
  /\ owner = "sending" /\ next <= Frames /\ HasRoom
  /\ cmds' = Append(cmds, Data(next)) /\ next' = next + 1
  /\ UNCHANGED <<style, owner, trickled, answered, lostClose, loopVars, acked,
                 link, events>>

\* close(): the Close is dropped when there is no room for it.
TryClose ==
  /\ cmds' = IF HasRoom THEN Append(cmds, Close) ELSE cmds
  /\ lostClose' = (Running /\ ~HasRoom)

\* The transfer fails: an error of the link or of a frame, or the peer's
\* disconnection, which also interrupts a frame that waits for room.
Abandon ==
  /\ \/ style = "local" /\ owner' = "flushing" /\ UNCHANGED <<cmds, lostClose>>
     \/ style = "online" /\ owner' = "waiting" /\ TryClose
     \/ style = "recipient" /\ owner' = "gone"
        /\ (TryClose \/ UNCHANGED <<cmds, lostClose>>)

FailSending ==
  /\ owner = "sending"
  /\ Abandon
  /\ UNCHANGED <<style, next, trickled, answered, loopVars, acked, link, events>>

\* Error, Done, or the end of the event stream when the loop has returned.
HearEnd ==
  /\ events' = IF events = <<>> THEN events ELSE Tail(events)
  /\ IF events = <<>> THEN ~Running ELSE Head(events) # "open"
  /\ \/ owner = "dialing" /\ answered /\ owner' = "gone"
        /\ UNCHANGED <<cmds, lostClose>>
     \/ owner = "sending" /\ Abandon
  /\ UNCHANGED <<style, next, trickled, answered, loopVars, acked, link>>

Finish ==
  /\ owner = "sending" /\ next > Frames
  /\ IF style = "recipient"
       THEN owner' = "gone" /\ TryClose
       ELSE owner' = "flushing" /\ UNCHANGED <<cmds, lostClose>>
  /\ UNCHANGED <<style, next, trickled, answered, loopVars, acked, link, events>>

\* close_and_flush(): the Close waits for room, or for the loop to be gone.
FlushClose ==
  /\ owner = "flushing" /\ (HasRoom \/ ~Running)
  /\ owner' = "waiting"
  /\ cmds' = IF Running THEN Append(cmds, Close) ELSE cmds
  /\ UNCHANGED <<style, next, trickled, answered, lostClose, loopVars, acked,
                 link, events>>

\* wait_closed(): the handle, and with it cmd_tx, is dropped only afterwards.
WaitClosed ==
  /\ owner = "waiting" /\ ~Running
  /\ owner' = "gone"
  /\ UNCHANGED <<style, next, trickled, answered, lostClose, loopVars, acked,
                 link, cmds, events>>

Owner ==
  \/ GetAnswer \/ GetCandidate \/ DialTimesOut \/ HearOpen \/ SendFrame
  \/ FailSending \/ HearEnd \/ Finish \/ FlushClose \/ WaitClosed

-----------------------------------------------------------------------------
(* The event loop.                                                         *)

\* How many frames this turn moves into SCTP: ch.write answers Ok(false) when
\* the buffer is full, and the frame stays at the front.
Drained ==
  IF open
    THEN Min({Len(pending), MaxDrain, SctpBuffer - (Len(written) - acked)})
    ELSE 0

LeftPoppedFirst == SubSeq(pending, Drained + 2, Len(pending))
Left == SubSeq(pending, Drained + 1, Len(pending))

FlushedRegardless == closing
Flushed == closing /\ Left = <<>>

\* The grace period starts when the last frame is out, once.
GraceRestarted == IF Flushed THEN 0 ELSE grace
GraceStarted == IF Flushed /\ grace = NoGrace THEN 0 ELSE grace

TurnBegins ==
  /\ Running /\ ~(Flushed /\ grace > Grace)
  /\ written' = written \o SubSeq(pending, 1, Drained)
  /\ grace' = GraceStarted

\* The grace period is over: the loop returns, and the queue is dropped.
Return ==
  /\ Running /\ Flushed /\ grace > Grace
  /\ written' = written \o SubSeq(pending, 1, Drained)
  /\ pending' = Left /\ loop' = "flushed"
  /\ UNCHANGED <<ownerVars, open, closing, grace, acked, link, cmds, events>>

\* After a data frame the loop takes more of the queue while the pending
\* frames leave room, up to a Close; this many commands of rest.
Batch(rest, p) ==
  Max({j \in 0..Len(rest) :
         \A i \in 0..(j - 1) :
           /\ Len(p) + Len(FramesIn(SubSeq(rest, 1, i))) < MaxPending
           /\ rest[i + 1] # Close})

\* Whether the Close behind the batch is taken too.
ClosesAt(rest, p, j) ==
  /\ j < Len(rest) /\ rest[j + 1] = Close
  /\ Len(p) + Len(FramesIn(SubSeq(rest, 1, j))) < MaxPending

\* The answer is in the commands that were taken.
Apply(taken) ==
  link' = IF link = "new" /\ Contains(taken, Answer) THEN "checking" ELSE link

TakeData ==
  LET p == Append(Left, Head(cmds)[2])
      rest == Tail(cmds)
      j == Batch(rest, p)
      taken == IF ClosesAt(rest, p, j) THEN Len(rest) ELSE j
  IN /\ Head(cmds)[1] = "data"
     /\ pending' = p \o FramesIn(SubSeq(rest, 1, taken))
     /\ cmds' = SubSeq(rest, taken + 1, Len(rest))
     /\ closing' = ClosesAt(rest, p, j)
     /\ Apply(SubSeq(rest, 1, j))

TakeSignal ==
  /\ Head(cmds) \in {Ice, Answer}
  /\ cmds' = Tail(cmds) /\ Apply(<<Head(cmds)>>)
  /\ pending' = Left /\ UNCHANGED closing

\* Close, or every sender dropped: what is left in the queue is kept.
TakeClose ==
  /\ IF cmds = <<>> THEN ~Held ELSE Head(cmds) = Close
  /\ pending' = Left \o FramesIn(cmds)
  /\ cmds' = <<>> /\ closing' = TRUE /\ UNCHANGED link

TakeCommand ==
  /\ TurnBegins /\ ~closing
  /\ \/ TakeClose
     \/ cmds # <<>> /\ (TakeData \/ TakeSignal)
  /\ UNCHANGED <<ownerVars, open, loop, acked, events>>

\* A packet, a timer of str0m or a packet to transmit: the other turns, which
\* change nothing of the loop's own state but what every turn does.
Idle ==
  /\ TurnBegins
  /\ pending' = Left
  /\ UNCHANGED <<ownerVars, open, closing, loop, acked, link, cmds, events>>

Event(e) == events' = Append(events, e)

ReportOpen ==
  /\ TurnBegins /\ link = "up" /\ ~open
  /\ open' = TRUE /\ Event("open") /\ pending' = Left
  /\ UNCHANGED <<ownerVars, closing, loop, acked, link, cmds>>

\* ICE disconnected, or poll_output failed.
ReportLost ==
  /\ TurnBegins /\ link = "lost"
  /\ loop' = "ended" /\ Event("error") /\ pending' = Left
  /\ UNCHANGED <<ownerVars, open, closing, acked, link, cmds>>

\* The far peer closed the channel.
ReportClose ==
  /\ TurnBegins /\ link = "up" /\ open
  /\ loop' = "ended" /\ Event("done") /\ pending' = Left
  /\ UNCHANGED <<ownerVars, open, closing, acked, link, cmds>>

\* handle_input or recv_from failed: the loop returns without an event.
FailSilently ==
  /\ TurnBegins
  /\ loop' = "ended" /\ pending' = Left
  /\ UNCHANGED <<ownerVars, open, closing, acked, link, cmds, events>>

Tick ==
  /\ Running /\ grace \in 0..Grace
  /\ grace' = grace + 1
  /\ UNCHANGED <<ownerVars, pending, written, open, closing, loop, acked, link,
                 cmds, events>>

Loop ==
  \/ Return \/ TakeCommand \/ Idle \/ ReportOpen \/ ReportLost \/ ReportClose
  \/ FailSilently \/ Tick

-----------------------------------------------------------------------------
(* The link and the far peer's SCTP.                                       *)

LinkComesUp ==
  /\ link = "checking" /\ link' = "up"
  /\ UNCHANGED <<ownerVars, loopVars, acked, cmds, events>>

LinkBreaks ==
  /\ link \in {"checking", "up"} /\ link' = "lost"
  /\ UNCHANGED <<ownerVars, loopVars, acked, cmds, events>>

PeerAcks ==
  /\ link = "up" /\ acked < Len(written)
  /\ acked' \in (acked + 1)..Len(written)
  /\ UNCHANGED <<ownerVars, loopVars, link, cmds, events>>

Network == LinkComesUp \/ LinkBreaks \/ PeerAcks

Next == Owner \/ Loop \/ Network

Done == ~Held /\ ~Running

Fairness ==
  /\ WF_vars(SendFrame) /\ WF_vars(FlushClose) /\ WF_vars(WaitClosed)
  /\ WF_vars(HearOpen) /\ WF_vars(HearEnd)
  /\ WF_vars(Return) /\ WF_vars(TakeCommand) /\ WF_vars(Idle)
  /\ WF_vars(ReportLost) /\ WF_vars(Tick) /\ WF_vars(PeerAcks)

Spec == Init /\ [][Next]_vars /\ Fairness

-----------------------------------------------------------------------------
(* Properties.                                                             *)

\* Every frame send_frame accepted is, in the order it was accepted, written
\* to SCTP, pending or queued: the three queues lose, repeat and reorder
\* nothing, whatever the batches, the Close and the full SCTP buffer do.
FramesKeepTheirOrder == written \o pending \o FramesIn(cmds) = Accepted

\* A loop that ends by its grace period has written every accepted frame: the
\* owner that waited for it may report the transfer as handed over.
FlushedMeansWritten == loop = "flushed" => written = Accepted

\* An owner whose Close was not dropped comes back from close_and_flush() and
\* wait_closed(): with the peer's SCTP answering or the link breaking, neither
\* a full queue nor frames still pending hold it for ever.
ShutdownReturns ==
  (owner \in {"flushing", "waiting"} /\ ~lostClose) ~> (owner = "gone")

\* The task of a peer that was dropped without a Close (a dial that timed
\* out) ends too: it holds the UDP socket.
LoopsEnd == (owner = "gone") ~> ~Running

\* "so wait_closed can't hang" (share.rs:798): an owner in wait_closed() comes
\* back from it.
WaitReturns == (owner = "waiting") ~> (owner = "gone")
=============================================================================
