--------------------------- MODULE ConnectionHost ---------------------------
(***************************************************************************)
(* The ConnectionMachine inside the runtime its unit tests stand for: a    *)
(* signaling socket that is dialed and lost, p2p:join requests answered    *)
(* later, a PeerConnection that is built, opens and fails, and the two     *)
(* timers.  The runtime is not part of the repository (the CLI feeds the   *)
(* machine a subset, see RetryFlow); each action delivers one event the    *)
(* tests of connection.rs deliver and carries out what handle() returned.  *)
(***************************************************************************)
EXTENDS ConnectionMachine

CONSTANT
  JoinMax       \* bound on unanswered p2p:join requests

ASSUME HostAssumption == JoinMax \in Nat

VARIABLES
  dialing,     \* a Dial is under way
  joins,       \* Join requests not answered yet
  armed,       \* joined since the last p2p:both-ready
  pc,          \* the PeerConnection: "none", "building" or "open"
  peerGone,    \* the other peer left and will not return
  flaps,       \* history: live channels lost since the last real progress
  prompt       \* TRUE: a dial and a join end before the link changes again

hostVars == <<dialing, joins, armed, pc, peerGone, flaps>>
vars == <<machineVars, hostVars, prompt>>

Failing == phase' \in {"Reconnecting", "Stopped"}

\* When prompt, timers and link events wait for the signaling round trip.
Settled == prompt => joins = 0 /\ ~dialing

\* Carry out what handle() returned.
Perform(joinsLeft) ==
  /\ joins' = joinsLeft + (IF "Join" \in acts' THEN 1 ELSE 0)
  /\ joins' <= JoinMax

\* An event of the schedule_retry family; a live channel lost is counted.
Fail(event) ==
  /\ event
  /\ flaps' = IF phase = "Transferring" /\ Failing THEN flaps + 1 ELSE flaps

HostInit ==
  /\ Init
  /\ dialing = FALSE /\ joins = 0 /\ armed = FALSE /\ pc = "none"
  /\ peerGone = FALSE /\ flaps = 0 /\ prompt \in BOOLEAN

HostStart ==
  /\ phase = "Idle"
  /\ Start /\ dialing' = TRUE
  /\ UNCHANGED <<joins, armed, pc, peerGone, flaps>>

DialSucceeds ==
  /\ dialing /\ SocketUp
  /\ dialing' = FALSE /\ Perform(joins)
  /\ UNCHANGED <<armed, pc, peerGone, flaps>>

DialFails ==
  /\ dialing /\ Fail(LinkFailed)
  /\ dialing' = FALSE
  /\ UNCHANGED <<joins, armed, pc, peerGone>>

SocketLost ==
  /\ socketUp /\ Fail(SocketDown)
  /\ joins' = 0 /\ armed' = FALSE
  /\ UNCHANGED <<dialing, pc, peerGone>>

JoinAnswered ==
  /\ joins > 0 /\ socketUp
  /\ \E offset \in Offsets : Joined(offset)
  /\ joins' = joins - 1 /\ armed' = TRUE
  /\ UNCHANGED <<dialing, pc, peerGone, flaps>>

PeersReady ==
  /\ armed /\ socketUp /\ ~peerGone /\ BothReady
  /\ armed' = FALSE /\ pc' = "building"
  /\ flaps' = IF phase = "Stopped" THEN 0 ELSE flaps
  /\ UNCHANGED <<dialing, joins, peerGone>>

PcOpens ==
  /\ Settled /\ pc = "building" /\ ~peerGone /\ DcOpen
  /\ pc' = "open"
  /\ UNCHANGED <<dialing, joins, armed, peerGone, flaps>>

PcFails ==
  /\ Settled /\ pc # "none" /\ Fail(LinkFailed)
  /\ pc' = "none"
  /\ UNCHANGED <<dialing, joins, armed, peerGone>>

\* p2p:peer-disconnected or a recoverable p2p:error, on a live socket.
SignaledFailure ==
  /\ Settled /\ socketUp /\ Fail(LinkFailed)
  /\ UNCHANGED <<dialing, joins, armed, pc, peerGone>>

SignaledFatal ==
  /\ socketUp /\ FatalError
  /\ UNCHANGED hostVars

ChunkAcked ==
  /\ pc = "open" /\ ~peerGone /\ TransferProgress
  /\ flaps' = 0
  /\ UNCHANGED <<dialing, joins, armed, pc, peerGone>>

AllDone ==
  /\ pc = "open" /\ ~peerGone /\ TransferComplete
  /\ UNCHANGED hostVars

UserRetries ==
  /\ phase = "Stopped" /\ ~peerGone /\ ManualRetry
  /\ dialing' = (dialing \/ "Dial" \in acts') /\ Perform(joins)
  /\ flaps' = 0
  /\ UNCHANGED <<armed, pc, peerGone>>

RetryTimerFires ==
  /\ timerArmed /\ Settled /\ RetryTimer
  /\ dialing' = (dialing \/ "Dial" \in acts') /\ Perform(joins)
  /\ UNCHANGED <<armed, pc, peerGone, flaps>>

DeadlineFires ==
  /\ deadlineArmed /\ Settled /\ Fail(ReconnectDeadline)
  /\ UNCHANGED <<dialing, joins, armed, pc, peerGone>>

PeerLeavesForGood ==
  /\ peerEverPresent /\ ~peerGone
  /\ peerGone' = TRUE
  /\ UNCHANGED <<machineVars, dialing, joins, armed, pc, flaps>>

HostEvent ==
  \/ HostStart \/ DialSucceeds \/ DialFails \/ SocketLost \/ JoinAnswered
  \/ PeersReady \/ PcOpens \/ PcFails \/ SignaledFailure \/ SignaledFatal
  \/ ChunkAcked \/ AllDone \/ UserRetries \/ RetryTimerFires \/ DeadlineFires
  \/ PeerLeavesForGood

HostNext == HostEvent /\ UNCHANGED prompt

\* Timers fire, a dial comes to an end and a join is answered.  The deadline
\* runs on the wall clock: fast re-dials that keep unsettling the socket do not
\* put it off for ever (the point of bug 021-A), hence strong fairness.
HostFairness ==
  /\ WF_vars(JoinAnswered /\ UNCHANGED prompt)
  /\ WF_vars(RetryTimerFires /\ UNCHANGED prompt)
  /\ SF_vars(DeadlineFires /\ UNCHANGED prompt)
  /\ WF_vars((DialSucceeds \/ DialFails) /\ UNCHANGED prompt)

HostSpec == HostInit /\ [][HostNext]_vars /\ HostFairness

-----------------------------------------------------------------------------
TypeOK ==
  /\ MachineTypeOK
  /\ dialing \in BOOLEAN /\ joins \in 0..JoinMax /\ armed \in BOOLEAN
  /\ pc \in {"none", "building", "open"}
  /\ peerGone \in BOOLEAN /\ flaps \in 0..AttemptMax /\ prompt \in BOOLEAN

\* Bugs B1 and 024-A: every live channel that is lost before a chunk is
\* acknowledged costs one attempt, whatever joins, errors and re-opened
\* channels happen in between, so a flapping link reaches Stopped.
FlapsConsumeBudget == flaps <= attempt

\* BUG-RECONNECT-STALL and BUG-020: a machine in Reconnecting still has
\* something to wake it: a timer, a dial under way or an unanswered join.  (A
\* join answered after the next failure takes that failure's timer away, hence
\* prompt.)
ReconnectingHasWakeup ==
  prompt /\ phase = "Reconnecting" =>
    timerArmed \/ deadlineArmed \/ dialing \/ joins > 0

\* A stopped machine leaves no timer behind, so only a person, a peer or a
\* socket can move it.
StoppedIsQuiet ==
  phase = "Stopped" => ~timerArmed /\ ~deadlineArmed /\ ~retryScheduled

\* Bug 021-A, BUG-020: when the peer is gone for good, a reconnecting machine
\* comes to Stopped (or a fatal error), even if every dial fails at once.
GonePeerStops ==
  (prompt /\ phase = "Reconnecting" /\ peerGone) ~> (phase \in {"Stopped", "Expired"})
=============================================================================
