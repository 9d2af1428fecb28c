---------------------------- MODULE SyncDataPort ----------------------------
(***************************************************************************)
(* The TCP data port of `share --sync --local` (src/commands/sync_tcp.rs): *)
(* the sender listens and accepts one connection within a budget, the two  *)
(* ends exchange stream metadata, and from then on sealed frames travel    *)
(* length-prefixed over the byte stream.                                   *)
(*                                                                         *)
(* The network is external: it delivers the bytes of a direction in order, *)
(* cut anywhere, and lets other hosts of the LAN connect to the port.  A   *)
(* byte is a number; a length prefix is two digits to the base Base, and a *)
(* key is the number of its salt and password.  What the frames say is the *)
(* folder protocol's (FolderSync): here each end sends Frames of them and  *)
(* expects as many.                                                        *)
(***************************************************************************)
EXTENDS Integers, Sequences, SequencesExt

CONSTANTS
  Recipient,   \* the connection the recipient opens
  Strays,      \* connections other hosts of the LAN open
  None,        \* no connection
  StrayKinds,  \* what such a connection may say
  Frames       \* bound: frames each end sends

ASSUME DataPortAssumption ==
  /\ Frames \in Nat
  /\ StrayKinds \subseteq {"silent", "closes", "huge", "empty", "foreign", "old",
                          "speaks", "leaves", "seals", "garbled"}
  /\ Recipient \notin Strays /\ None \notin Strays \cup {Recipient}

VARIABLES
  agree,      \* the two users typed the same password
  kind,       \* what each stray connection says
  pc,         \* where each end is
  opened,     \* connections opened so far
  backlog,    \* those the sender has yet to accept, in order
  slot,       \* the one it handshakes with, then its wire
  flight,     \* bytes of the recipient's connection under way to each end
  arrived,    \* bytes in each end's BufReader
  salt,       \* salt of the peer's stream metadata
  index, got, \* frames sealed, frames received
  vanished,   \* ends that lost power: they close nothing
  broken      \* the listening socket has failed

stream == <<flight, arrived>>
faults == <<vanished, broken>>
vars == <<agree, kind, pc, opened, backlog, slot, stream, salt, index, got, faults>>

Ends == {"sender", "recipient"}
Other(e) == CHOOSE o \in Ends : o # e
Conns == Strays \cup {Recipient}
Over == {"done", "failed"}

-----------------------------------------------------------------------------
(* Messages on a byte stream.                                              *)

Base == 4
PrefixBytes == 2
MaxMessage == 5
Magic == 7
Version == 1

\* write_message
Written(body) == <<Len(body) \div Base, Len(body) % Base>> \o body

\* read_message: read_exact waits for the prefix, then for the body.
Message(b) ==
  LET length == b[1] * Base + b[2]
      end == PrefixBytes + length
      is == IF Len(b) < PrefixBytes THEN "short"
            ELSE IF length \notin 1..MaxMessage THEN "refused"
            ELSE IF Len(b) < end THEN "short" ELSE "message"
  IN [is |-> is,
      body |-> IF is = "message" THEN SubSeq(b, PrefixBytes + 1, end) ELSE <<>>,
      rest |-> IF is = "message" THEN SubSeq(b, end + 1, Len(b)) ELSE b]

Salt(e) == IF e = "sender" THEN 10 ELSE 20
Password(e) == IF agree \/ e = "sender" THEN 1 ELSE 2
Key(s, e) == s + Password(e)

Hello(e) == <<Magic, Version, Salt(e)>>
ParseHandshake(body) == Len(body) = 3 /\ body[1] = Magic /\ body[2] = Version

\* encode_frame: a control frame or a chunk, which is longer.
Frame(e, i) == IF i % 2 = 0 THEN <<Salt(e) + i>> ELSE <<Salt(e) + i, i>>

\* The index names the nonce; the ciphertext opens only under its key.
Seal(e, i) == <<i, Key(Salt(e), e)>> \o Frame(e, i)
Unseals(e, body) == Len(body) > 2 /\ body[2] = Key(salt[e], e)

\* Metadata that is text but no base64, or of the wrong length, makes no key.
NoKey == 0
DerivesKey(s) == s # NoKey

\* What a stranger says before it closes; "silent" and "speaks" stay and say
\* no more.  Whoever writes the three fields of the hello has said it: only a
\* frame shows the password, and a stranger seals under another.
StrayHello == <<Magic, Version, 30>>
StrayBytes(k) ==
  CASE k = "huge"    -> <<3, 3>>
    [] k = "empty"   -> <<0, 0>>
    [] k = "foreign" -> Written(<<9, 9>>)
    [] k = "old"     -> Written(<<Magic, 0, 9>>)
    [] k = "garbled" -> Written(<<Magic, Version, NoKey>>)
    [] k \in {"speaks", "leaves"} -> Written(StrayHello)
    [] k = "seals"   -> Written(StrayHello) \o Written(<<0, 33, 30>>)
    [] OTHER         -> <<>>

-----------------------------------------------------------------------------
Init ==
  /\ agree \in BOOLEAN
  /\ kind \in [Strays -> StrayKinds]
  /\ pc = [e \in Ends |-> IF e = "sender" THEN "listening" ELSE "connecting"]
  /\ opened = {} /\ backlog = <<>> /\ slot = None
  /\ flight = [e \in Ends |-> <<>>] /\ arrived = [e \in Ends |-> <<>>]
  /\ salt = [e \in Ends |-> 0]
  /\ index = [e \in Ends |-> 0] /\ got = [e \in Ends |-> <<>>]
  /\ vanished = {} /\ broken = FALSE

Become(e, where) == pc' = [pc EXCEPT ![e] = where]
Runs(e, where) == pc[e] = where /\ e \notin vanished
Listening == pc["sender"] \in {"listening", "shaking"} /\ "sender" \notin vanished
Write(e, body) == flight' = [flight EXCEPT ![Other(e)] = @ \o Written(body)]

\* The recipient's connection is no longer one the sender holds.
Dropped == Recipient \in opened /\ slot # Recipient /\ ~Contains(backlog, Recipient)

\* The sender's connection is a stranger's.
Foreign(e) == e = "sender" /\ slot \in Strays

\* The far end of the connection has closed it.
PeerClosed(e) ==
  IF Foreign(e) THEN kind[slot] \notin {"silent", "speaks"}
  ELSE /\ Other(e) \notin vanished
       /\ pc[Other(e)] \in Over \/ (e = "recipient" /\ Dropped)

\* The end of the stream: it was closed and all that was written is read.
Eof(e) == PeerClosed(e) /\ (Foreign(e) \/ flight[e] = <<>>)

\* What an end has before it: of a stranger, the hello and what follows it.
Incoming(e) ==
  IF ~Foreign(e) THEN arrived[e]
  ELSE IF pc[e] = "wired" THEN Message(StrayBytes(kind[slot])).rest
  ELSE StrayBytes(kind[slot])
FromSlot == Incoming("sender")

-----------------------------------------------------------------------------
(* Establishing the connection.                                            *)

StrayConnects(c) ==
  /\ Listening /\ c \notin opened
  /\ opened' = opened \cup {c} /\ backlog' = Append(backlog, c)
  /\ UNCHANGED <<agree, kind, pc, slot, stream, salt, index, got, faults>>

\* connect_data: the kernel completes the connection before it is accepted.
Connect ==
  /\ Runs("recipient", "connecting") /\ Listening
  /\ opened' = opened \cup {Recipient} /\ backlog' = Append(backlog, Recipient)
  /\ Become("recipient", "shaking") /\ Write("recipient", Hello("recipient"))
  /\ UNCHANGED <<agree, kind, slot, arrived, salt, index, got, faults>>

\* Refused, or the SYN is dropped until the budget is spent.
ConnectFails ==
  /\ Runs("recipient", "connecting")
  /\ Become("recipient", "failed")
  /\ UNCHANGED <<agree, kind, opened, backlog, slot, stream, salt, index, got, faults>>

\* The accept loop: one connection at a time, our metadata first.
Accept ==
  /\ Runs("sender", "listening") /\ backlog # <<>>
  /\ slot' = Head(backlog) /\ backlog' = Tail(backlog)
  /\ Become("sender", "shaking")
  /\ IF slot' = Recipient THEN Write("sender", Hello("sender")) ELSE UNCHANGED flight
  /\ UNCHANGED <<agree, kind, opened, arrived, salt, index, got, faults>>

\* listener.accept() fails: no more connections, and the wait is over.
PortBreaks ==
  /\ Runs("sender", "listening")
  /\ Become("sender", "failed") /\ backlog' = <<>> /\ broken' = TRUE
  /\ UNCHANGED <<agree, kind, opened, slot, stream, salt, index, got, vanished>>

\* The BufReader goes on into the wire with what it has read ahead.
ReadAheadLost(b) == <<>>
ReadAhead(b) == Message(b).rest

HandshakeRejected(b, eof) ==
  \/ Message(b).is = "refused"
  \/ Message(b).is = "short" /\ eof
  \/ Message(b).is = "message" /\ ~ParseHandshake(Message(b).body)

Handshaken(b) == Message(b).is = "message" /\ ParseHandshake(Message(b).body)

\* The listener is dropped: whoever waits in the backlog is refused.
SenderHandshakes ==
  /\ Runs("sender", "shaking") /\ Handshaken(FromSlot)
  /\ DerivesKey(Message(FromSlot).body[3])
  /\ Become("sender", "wired") /\ backlog' = <<>>
  /\ salt' = [salt EXCEPT !["sender"] = Message(FromSlot).body[3]]
  /\ IF slot = Recipient
     THEN arrived' = [arrived EXCEPT !["sender"] = ReadAhead(FromSlot)]
     ELSE UNCHANGED arrived
  /\ UNCHANGED <<agree, kind, opened, slot, flight, index, got, faults>>

\* wire_from: the hello was taken, and no key comes of it.
KeyFails ==
  /\ Runs("sender", "shaking") /\ Handshaken(FromSlot)
  /\ ~DerivesKey(Message(FromSlot).body[3])
  /\ Become("sender", "failed") /\ backlog' = <<>>
  /\ UNCHANGED <<agree, kind, opened, slot, stream, salt, index, got, faults>>

\* Noise is dropped and the loop goes on; so it does when the recipient has
\* given up and its connection is reset.
NoiseEndsAccept == "failed"
AfterNoise == "listening"

Ignore ==
  /\ Runs("sender", "shaking")
  /\ \/ HandshakeRejected(FromSlot, Eof("sender"))
     \/ slot = Recipient /\ PeerClosed("sender")
  /\ Become("sender", AfterNoise) /\ slot' = None
  /\ UNCHANGED <<agree, kind, opened, backlog, stream, salt, index, got, faults>>

\* tokio's timeout polls the loop first: it fires only while that waits.
AwaitsConnection == pc["sender"] = "listening" /\ backlog = <<>>
AcceptAwaits ==
  \/ AwaitsConnection
  \/ /\ pc["sender"] = "shaking"
     /\ ~Handshaken(FromSlot) /\ ~HandshakeRejected(FromSlot, Eof("sender"))

AcceptTimesOut ==
  /\ "sender" \notin vanished /\ AcceptAwaits
  /\ Become("sender", "failed") /\ backlog' = <<>>
  /\ UNCHANGED <<agree, kind, opened, slot, stream, salt, index, got, faults>>

RecipientHandshakes ==
  LET b == arrived["recipient"]
  IN /\ Runs("recipient", "shaking") /\ Handshaken(b)
     /\ Become("recipient", "wired")
     /\ salt' = [salt EXCEPT !["recipient"] = Message(b).body[3]]
     /\ arrived' = [arrived EXCEPT !["recipient"] = ReadAhead(b)]
     /\ UNCHANGED <<agree, kind, opened, backlog, slot, flight, index, got, faults>>

\* Rejected, or still waiting when its budget is spent.
RecipientGivesUp ==
  /\ Runs("recipient", "shaking") /\ ~Handshaken(arrived["recipient"])
  /\ Become("recipient", "failed")
  /\ UNCHANGED <<agree, kind, opened, backlog, slot, stream, salt, index, got, faults>>

-----------------------------------------------------------------------------
(* The wire.                                                               *)

Send(e) ==
  /\ Runs(e, "wired") /\ index[e] < Frames
  /\ IF Foreign(e) THEN UNCHANGED flight ELSE Write(e, Seal(e, index[e]))
  /\ index' = [index EXCEPT ![e] = @ + 1]
  /\ UNCHANGED <<agree, kind, pc, opened, backlog, slot, arrived, salt, got, faults>>

\* The connection is closed under a frame.
SendFails(e) ==
  /\ Runs(e, "wired") /\ index[e] < Frames /\ PeerClosed(e)
  /\ Become(e, "failed")
  /\ UNCHANGED <<agree, kind, opened, backlog, slot, stream, salt, index, got, faults>>

\* A frame that does not unseal poisons the wire and ends the run.
Recv(e) ==
  LET m == Message(Incoming(e))
  IN /\ Runs(e, "wired") /\ m.is = "message"
     /\ IF Foreign(e) THEN UNCHANGED arrived
        ELSE arrived' = [arrived EXCEPT ![e] = m.rest]
     /\ IF Unseals(e, m.body)
        THEN /\ got' = [got EXCEPT ![e] = Append(@, SubSeq(m.body, 3, Len(m.body)))]
             /\ UNCHANGED pc
        ELSE Become(e, "failed") /\ UNCHANGED got
     /\ UNCHANGED <<agree, kind, opened, backlog, slot, flight, salt, index, faults>>

\* A refused length, a stream that closed before the frame was whole, or one
\* that was reset: what an end did not read before it failed goes with it.
RecvFails(e) ==
  /\ Runs(e, "wired") /\ Len(got[e]) < Frames
  /\ LET m == Message(Incoming(e))
     IN \/ m.is = "refused"
        \/ m.is = "short" /\ Eof(e)
        \/ ~Foreign(e) /\ PeerClosed(e) /\ pc[Other(e)] # "done"
  /\ Become(e, "failed")
  /\ UNCHANGED <<agree, kind, opened, backlog, slot, stream, salt, index, got, faults>>

\* shutdown, after the last frame either way.
Finish(e) ==
  /\ Runs(e, "wired") /\ index[e] = Frames /\ Len(got[e]) = Frames
  /\ Become(e, "done")
  /\ UNCHANGED <<agree, kind, opened, backlog, slot, stream, salt, index, got, faults>>

-----------------------------------------------------------------------------
(* The network and the machines.                                           *)

\* A segment of any size arrives.
Deliver(e) ==
  \E n \in 1..Len(flight[e]) :
    /\ arrived' = [arrived EXCEPT ![e] = @ \o SubSeq(flight[e], 1, n)]
    /\ flight' = [flight EXCEPT ![e] = SubSeq(@, n + 1, Len(@))]
    /\ UNCHANGED <<agree, kind, pc, opened, backlog, slot, salt, index, got, faults>>

\* Power is lost, or the cable: nobody closes the connection.
Vanish(e) ==
  /\ pc[e] \notin Over /\ vanished = {}
  /\ vanished' = {e}
  /\ UNCHANGED <<agree, kind, pc, opened, backlog, slot, stream, salt, index, got, broken>>

SenderSteps ==
  Accept \/ PortBreaks \/ SenderHandshakes \/ KeyFails \/ Ignore \/ AcceptTimesOut
RecipientSteps == Connect \/ ConnectFails \/ RecipientHandshakes \/ RecipientGivesUp
WireSteps(e) == Send(e) \/ SendFails(e) \/ Recv(e) \/ RecvFails(e) \/ Finish(e)

Next ==
  \/ SenderSteps \/ RecipientSteps
  \/ \E e \in Ends : WireSteps(e) \/ Deliver(e) \/ Vanish(e)
  \/ \E c \in Strays : StrayConnects(c)

\* Each process runs on, its deadlines pass, and what was sent arrives.
Fairness ==
  /\ WF_vars(SenderSteps) /\ WF_vars(RecipientSteps)
  /\ \A e \in Ends : WF_vars(WireSteps(e)) /\ WF_vars(Deliver(e))

Spec == Init /\ [][Next]_vars /\ Fairness

-----------------------------------------------------------------------------
(* Properties.                                                             *)

\* However the network cuts the stream, what an end has received is what the
\* other end sent, whole and in order, and nothing at all when the passwords
\* differ or when a stranger that speaks the protocol has taken the sender's one
\* wire: the handshake lets it in, the seal does not (read_message, the
\* BufReader that outlives the handshake, TcpWire::recv).
FramesArriveWhole ==
  /\ slot \in Strays => got["sender"] = <<>>
  /\ \A e \in Ends :
       /\ Len(got[e]) <= index[Other(e)]
       /\ \A i \in 1..Len(got[e]) : got[e][i] = Frame(Other(e), i - 1)
       /\ agree \/ got[e] = <<>>

\* The sender gives up on its data port for a reason that is not noise: the
\* recipient's hello has not come through, or its connection is gone; the only
\* slot is held by a connection that has said nothing, or a hello no key comes
\* of; or the listening socket itself has failed (the accept loop of
\* accept_data_within, which keeps listening after a bad handshake).
HelloIsHere ==
  /\ slot = Recipient \/ Contains(backlog, Recipient)
  /\ Message(arrived["sender"]).is = "message"
HeldByStranger == slot \in Strays /\ kind[slot] \in {"silent", "garbled"}

AcceptFailsForCause ==
  [][Listening /\ pc'["sender"] = "failed" =>
       ~HelloIsHere \/ HeldByStranger \/ broken']_vars

\* Every end returns, unless it is on an established wire whose far end has
\* vanished, or is a stranger that speaks the protocol and then stays silent:
\* the deadlines cover the whole of accept, connect and handshake, and nothing
\* after (SYNC_DATA_TIMEOUT_SECS).
FarEndIsMute(e) == Other(e) \in vanished \/ (Foreign(e) /\ kind[slot] = "speaks")

SessionEnds ==
  \A e \in Ends :
    <>(pc[e] \in Over \/ e \in vanished \/ (pc[e] = "wired" /\ FarEndIsMute(e)))
=============================================================================
