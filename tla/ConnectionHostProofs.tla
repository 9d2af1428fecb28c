------------------------ MODULE ConnectionHostProofs ------------------------
(***************************************************************************)
(* ConnectionHost, for every retry budget, backoff table and number of     *)
(* unanswered joins: the fields keep their types, a stopped machine is     *)
(* quiet, no lost live channel is free of charge, and a machine that       *)
(* reconnects under prompt signaling has something to wake it.             *)
(***************************************************************************)
EXTENDS ConnectionHost, TLAPS

\* A channel that opened proves a peer was there and leaves no retry pending,
\* so that its loss is always the first failure of a climb; the budget is
\* given back for a join only before there was a peer.
Charged ==
  /\ phase = "Transferring" => peerEverPresent /\ ~retryScheduled
  /\ flaps > 0 => peerEverPresent
  /\ flaps <= attempt

HostInv == TypeOK /\ Charged /\ StoppedIsQuiet

-----------------------------------------------------------------------------
(* The machine's helpers.                                                  *)

\* arm_retry() only ever looks up an entry of the table.
LEMMA BackoffInTable == ASSUME NEW a \in Nat PROVE BackoffFor(a) \in Nat
<1>1. Backoff \in Seq(Nat) /\ Len(Backoff) > 0 BY MachineAssumption
<1>2. Len(Backoff) \in Nat BY <1>1
<1> DEFINE i == IF a <= 1 THEN 1 ELSE IF a > Len(Backoff) THEN Len(Backoff) ELSE a
<1>3. i \in 1..Len(Backoff) BY <1>1, <1>2
<1>4. Backoff[i] \in Nat BY <1>1, <1>3
<1> QED BY <1>4 DEF BackoffFor

ArmedStep(a) ==
  ArmRetry(a) => timerArmed' = TRUE /\ acts' \subseteq ActionKind /\ delay' \in Nat

\* arm_retry() returns a kind of action and a delay of the table.
LEMMA ArmRetryStep ==
  ASSUME MachineTypeOK, NEW a \in Nat PROVE ArmedStep(a)
<1>1. SUFFICES ASSUME ArmRetry(a)
               PROVE  timerArmed' = TRUE /\ acts' \subseteq ActionKind /\ delay' \in Nat
  BY DEF ArmedStep
<1>2. BackoffFor(a) \in Nat BY BackoffInTable
<1>3. CASE timerArmed BY <1>1, <1>3 DEF ArmRetry, MachineTypeOK, ActionKind
<1>4. CASE ~timerArmed BY <1>1, <1>2, <1>4 DEF ArmRetry, ActionKind
<1> QED BY <1>3, <1>4

\* What schedule_retry() leaves behind.
LEMMA ScheduleRetryStep ==
  ASSUME MachineTypeOK, NEW s \in BOOLEAN, NEW d \in BOOLEAN, ScheduleRetry(s, d)
  PROVE  /\ phase' \in Phase /\ attempt' \in 0..AttemptMax /\ attempt' >= attempt
         /\ retryScheduled' \in BOOLEAN /\ timerArmed' \in BOOLEAN
         /\ deadlineArmed' \in BOOLEAN
         /\ acts' \subseteq ActionKind /\ delay' \in Nat
         /\ phase' = "Transferring" => phase = "Transferring" /\ s
         /\ phase' = "Stopped" =>
              \/ ~timerArmed' /\ ~deadlineArmed' /\ ~retryScheduled'
              \/ phase = "Stopped" /\ s
         /\ ~s /\ phase \notin {"Completed", "Expired"} => attempt' = attempt + 1
<1>0. AttemptMax \in Nat /\ attempt \in Nat /\ attempt \in 0..AttemptMax
  BY MachineAssumption DEF MachineTypeOK
<1>1. ArmedStep(attempt) /\ ArmedStep(attempt + 1)
  BY <1>0, ArmRetryStep
<1>2. CASE Terminal
  <2>1. /\ retryScheduled' = s /\ deadlineArmed' = d /\ acts' = {}
        /\ phase' = phase /\ attempt' = attempt
        /\ timerArmed' = timerArmed /\ delay' = delay
    BY <1>2 DEF ScheduleRetry
  <2> QED BY <2>1, <1>0, <1>2 DEF MachineTypeOK, Terminal
<1>3. CASE ~Terminal /\ s
  <2>1. /\ ArmRetry(attempt) /\ retryScheduled' = TRUE /\ deadlineArmed' = d
        /\ phase' = phase /\ attempt' = attempt
    BY <1>3 DEF ScheduleRetry
  <2>2. timerArmed' = TRUE /\ acts' \subseteq ActionKind /\ delay' \in Nat
    BY <1>1, <2>1 DEF ArmedStep
  <2> QED BY <2>1, <2>2, <1>0, <1>3 DEF MachineTypeOK
<1>4. CASE ~Terminal /\ ~s
  <2>1. attempt < AttemptMax /\ attempt' = attempt + 1
    BY <1>4 DEF ScheduleRetry
  <2>2. attempt' \in 0..AttemptMax /\ attempt' >= attempt BY <2>1, <1>0
  <2>3. CASE Exhausted(attempt + 1)
    <3>1. /\ phase' = "Stopped" /\ Disarm /\ acts' = {"Stopped"}
          /\ delay' = delay
      BY <1>4, <2>3 DEF ScheduleRetry
    <3> QED BY <3>1, <2>1, <2>2 DEF Disarm, MachineTypeOK, Phase, ActionKind
  <2>4. CASE ~Exhausted(attempt + 1)
    <3>1. /\ phase' = "Reconnecting" /\ retryScheduled' = TRUE
          /\ deadlineArmed' = d /\ ArmRetry(attempt + 1)
      BY <1>4, <2>4 DEF ScheduleRetry
    <3>2. timerArmed' = TRUE /\ acts' \subseteq ActionKind /\ delay' \in Nat
      BY <1>1, <3>1 DEF ArmedStep
    <3> QED BY <3>1, <3>2, <2>1, <2>2 DEF Phase
  <2> QED BY <2>3, <2>4
<1> QED BY <1>2, <1>3, <1>4

-----------------------------------------------------------------------------
(* An event of the schedule_retry family, counted by the host.             *)

\* The machine's part of the invariant after such an event, where it is
\* entered with the scheduled flag of the machine or with FALSE.
LEMMA FailStep ==
  ASSUME HostInv, NEW s \in {retryScheduled, FALSE}, NEW d \in BOOLEAN,
         ScheduleRetry(s, d),
         socketUp' \in BOOLEAN,
         UNCHANGED <<pendingJoin, peerEverPresent, resumeFrom>>,
         flaps' = IF phase = "Transferring" /\ Failing THEN flaps + 1 ELSE flaps
  PROVE  /\ MachineTypeOK' /\ flaps' \in 0..AttemptMax
         /\ Charged' /\ StoppedIsQuiet'
<1>1. MachineTypeOK /\ flaps \in Nat /\ attempt \in Nat /\ AttemptMax \in Nat
  BY MachineAssumption DEF HostInv, TypeOK, MachineTypeOK
<1>2. retryScheduled \in BOOLEAN BY DEF HostInv, TypeOK, MachineTypeOK
<1>3. s \in BOOLEAN BY <1>2
<1>4. /\ phase' \in Phase /\ attempt' \in 0..AttemptMax /\ attempt' >= attempt
      /\ retryScheduled' \in BOOLEAN /\ timerArmed' \in BOOLEAN
      /\ deadlineArmed' \in BOOLEAN
      /\ acts' \subseteq ActionKind /\ delay' \in Nat
      /\ phase' = "Transferring" => phase = "Transferring" /\ s
      /\ phase' = "Stopped" =>
           \/ ~timerArmed' /\ ~deadlineArmed' /\ ~retryScheduled'
           \/ phase = "Stopped" /\ s
      /\ ~s /\ phase \notin {"Completed", "Expired"} => attempt' = attempt + 1
  BY <1>1, <1>3, ScheduleRetryStep
<1>5. phase = "Transferring" => peerEverPresent /\ ~s
  BY DEF HostInv, Charged
<1>6. phase = "Stopped" => ~s
  BY DEF HostInv, StoppedIsQuiet
<1>7. MachineTypeOK'
  BY <1>4 DEF HostInv, TypeOK, MachineTypeOK
<1>8. StoppedIsQuiet'
  BY <1>4, <1>6 DEF StoppedIsQuiet
<1>9. flaps' \in Nat /\ flaps' <= attempt'
  <2>1. CASE phase = "Transferring"
    <3>1. attempt' = attempt + 1 BY <2>1, <1>4, <1>5
    <3> QED BY <3>1, <2>1, <1>1 DEF HostInv, Charged
  <2>2. CASE phase # "Transferring"
    BY <2>2, <1>1, <1>4 DEF HostInv, Charged
  <2> QED BY <2>1, <2>2
<1>10. flaps' > 0 => peerEverPresent'
  BY <1>5, <1>1 DEF HostInv, Charged
<1>11. phase' # "Transferring"
  BY <1>4, <1>5
<1>12. Charged'
  BY <1>9, <1>10, <1>11 DEF Charged
<1> QED BY <1>1, <1>4, <1>7, <1>8, <1>9, <1>12

-----------------------------------------------------------------------------
(* The type invariant in two halves: SMT proves the one, Zenon the other.  *)

Flags ==
  /\ socketUp \in BOOLEAN /\ pendingJoin \in BOOLEAN
  /\ retryScheduled \in BOOLEAN /\ timerArmed \in BOOLEAN
  /\ deadlineArmed \in BOOLEAN /\ peerEverPresent \in BOOLEAN
  /\ dialing \in BOOLEAN /\ armed \in BOOLEAN /\ peerGone \in BOOLEAN

Values ==
  /\ phase \in Phase /\ attempt \in 0..AttemptMax /\ resumeFrom \in Nat
  /\ acts \subseteq ActionKind /\ delay \in Nat
  /\ joins \in 0..JoinMax /\ pc \in {"none", "building", "open"}
  /\ flaps \in 0..AttemptMax

LEMMA TypeParts == TypeOK <=> Flags /\ Values /\ prompt \in BOOLEAN
BY DEF TypeOK, MachineTypeOK, Flags, Values

LEMMA TypePartsNext == Flags' /\ Values' /\ prompt' \in BOOLEAN => TypeOK'
BY DEF TypeOK, MachineTypeOK, Flags, Values

-----------------------------------------------------------------------------
\* The invariant holds at the start.
LEMMA HostInitial == HostInit => HostInv
<1> SUFFICES ASSUME HostInit PROVE HostInv
  OBVIOUS
<1> USE DEF HostInit, Init
<1>1. Flags BY DEF Flags
<1>2. Values
  BY MachineAssumption, HostAssumption DEF Values, Phase, ActionKind
<1>3. Charged BY DEF Charged
<1>4. StoppedIsQuiet BY DEF StoppedIsQuiet
<1>5. prompt \in BOOLEAN OBVIOUS
<1> QED BY <1>1, <1>2, <1>3, <1>4, <1>5, TypeParts DEF HostInv

\* Every step of the host keeps it.
LEMMA HostStep == HostInv /\ [HostNext]_vars => HostInv'
<1>p. HostInv /\ [HostNext]_vars => prompt' \in BOOLEAN
  BY DEF HostInv, TypeOK, HostNext, vars
<1> SUFFICES ASSUME HostInv, [HostNext]_vars
             PROVE  Flags' /\ Values' /\ Charged' /\ StoppedIsQuiet'
  BY <1>p, TypePartsNext DEF HostInv
<1>a. /\ AttemptMax \in Nat /\ JoinMax \in Nat /\ Offsets \subseteq Nat
      /\ Flags /\ Values /\ Charged /\ StoppedIsQuiet
  BY MachineAssumption, HostAssumption, TypeParts DEF HostInv
<1>b. ASSUME MachineTypeOK', flaps' \in 0..AttemptMax,
             dialing' \in BOOLEAN, armed' \in BOOLEAN, peerGone' \in BOOLEAN,
             joins' \in 0..JoinMax, pc' \in {"none", "building", "open"}
      PROVE  Flags' /\ Values'
  BY <1>b DEF MachineTypeOK, Flags, Values
<1>1. CASE HostStart
  <2> USE <1>a, <1>1 DEF HostStart, Start
  <2>1. Flags' BY DEF Flags
  <2>2. Values' BY DEF Values, Phase, ActionKind
  <2>3. Charged' BY DEF Charged, Values
  <2>4. StoppedIsQuiet' BY DEF StoppedIsQuiet
  <2> QED BY <2>1, <2>2, <2>3, <2>4
<1>2. CASE DialSucceeds
  <2> USE <1>a, <1>2 DEF DialSucceeds, SocketUp, Perform
  <2>1. Flags' BY DEF Flags
  <2>2. Values' BY DEF Values, Phase, ActionKind
  <2>3. Charged' BY DEF Charged, Values
  <2>4. StoppedIsQuiet' BY DEF StoppedIsQuiet
  <2> QED BY <2>1, <2>2, <2>3, <2>4
<1>3. CASE DialFails
  <2>1. /\ ScheduleRetry(retryScheduled, deadlineArmed)
        /\ UNCHANGED <<socketUp, pendingJoin, peerEverPresent, resumeFrom>>
        /\ flaps' = IF phase = "Transferring" /\ Failing THEN flaps + 1 ELSE flaps
    BY <1>3 DEF DialFails, Fail, LinkFailed
  <2>2. MachineTypeOK' /\ flaps' \in 0..AttemptMax /\ Charged' /\ StoppedIsQuiet'
    BY <2>1, <1>a, FailStep DEF Flags
  <2> QED BY <2>2, <1>a, <1>b, <1>3 DEF DialFails, Flags, Values
<1>4. CASE SocketLost
  <2>1. /\ ScheduleRetry(retryScheduled, deadlineArmed) /\ socketUp' = FALSE
        /\ UNCHANGED <<pendingJoin, peerEverPresent, resumeFrom>>
        /\ flaps' = IF phase = "Transferring" /\ Failing THEN flaps + 1 ELSE flaps
    BY <1>4 DEF SocketLost, Fail, SocketDown
  <2>2. MachineTypeOK' /\ flaps' \in 0..AttemptMax /\ Charged' /\ StoppedIsQuiet'
    BY <2>1, <1>a, FailStep DEF Flags
  <2>3. joins' = 0 /\ armed' = FALSE /\ UNCHANGED <<dialing, pc, peerGone>>
    BY <1>4 DEF SocketLost
  <2>4. joins' \in 0..JoinMax BY <2>3, <1>a
  <2> QED BY <2>2, <2>3, <2>4, <1>a, <1>b DEF Flags, Values
<1>5. CASE JoinAnswered
  <2>0. PICK offset \in Offsets : Joined(offset) BY <1>5 DEF JoinAnswered
  <2> USE <1>a, <1>5, <2>0 DEF JoinAnswered, Joined
  <2>1. Flags' BY DEF Flags, JoinKeepsDeadline
  <2>2. Values' BY DEF Values, Phase
  <2>3. Charged' BY DEF Charged, PrePeer, Values
  <2>4. StoppedIsQuiet' BY DEF StoppedIsQuiet, JoinKeepsDeadline
  <2> QED BY <2>1, <2>2, <2>3, <2>4
<1>6. CASE PeersReady
  <2> USE <1>a, <1>6 DEF PeersReady, BothReady
  <2>1. Flags' BY DEF Flags
  <2>2. Values' BY DEF Values, Phase, ActionKind
  <2>3. Charged' BY DEF Charged, Values
  <2>4. StoppedIsQuiet' BY DEF StoppedIsQuiet
  <2> QED BY <2>1, <2>2, <2>3, <2>4
<1>7. CASE PcOpens
  <2> USE <1>a, <1>7 DEF PcOpens, DcOpen, OpenKeepsBudget
  <2>1. Flags' BY DEF Flags
  <2>2. Values' BY DEF Values, Phase, ActionKind
  <2>3. Charged' BY DEF Charged, Values
  <2>4. StoppedIsQuiet' BY DEF StoppedIsQuiet
  <2> QED BY <2>1, <2>2, <2>3, <2>4
<1>8. CASE PcFails
  <2>1. /\ ScheduleRetry(retryScheduled, deadlineArmed)
        /\ UNCHANGED <<socketUp, pendingJoin, peerEverPresent, resumeFrom>>
        /\ flaps' = IF phase = "Transferring" /\ Failing THEN flaps + 1 ELSE flaps
    BY <1>8 DEF PcFails, Fail, LinkFailed
  <2>2. MachineTypeOK' /\ flaps' \in 0..AttemptMax /\ Charged' /\ StoppedIsQuiet'
    BY <2>1, <1>a, FailStep DEF Flags
  <2> QED BY <2>2, <1>a, <1>b, <1>8 DEF PcFails, Flags, Values
<1>9. CASE SignaledFailure
  <2>1. /\ ScheduleRetry(retryScheduled, deadlineArmed)
        /\ UNCHANGED <<socketUp, pendingJoin, peerEverPresent, resumeFrom>>
        /\ flaps' = IF phase = "Transferring" /\ Failing THEN flaps + 1 ELSE flaps
    BY <1>9 DEF SignaledFailure, Fail, LinkFailed
  <2>2. MachineTypeOK' /\ flaps' \in 0..AttemptMax /\ Charged' /\ StoppedIsQuiet'
    BY <2>1, <1>a, FailStep DEF Flags
  <2> QED BY <2>2, <1>a, <1>b, <1>9 DEF SignaledFailure, Flags, Values
<1>10. CASE SignaledFatal
  <2> USE <1>a, <1>10 DEF SignaledFatal, FatalError, hostVars
  <2>1. Flags' BY DEF Flags
  <2>2. Values' BY DEF Values, Phase, ActionKind
  <2>3. Charged' BY DEF Charged, Values
  <2>4. StoppedIsQuiet' BY DEF StoppedIsQuiet
  <2> QED BY <2>1, <2>2, <2>3, <2>4
<1>11. CASE ChunkAcked
  <2> USE <1>a, <1>11 DEF ChunkAcked, TransferProgress, RefundAll
  <2>1. Flags' BY DEF Flags
  <2>2. Values' BY DEF Values, Phase, ActionKind
  <2>3. Charged' BY DEF Charged, Values
  <2>4. StoppedIsQuiet' BY DEF StoppedIsQuiet
  <2> QED BY <2>1, <2>2, <2>3, <2>4
<1>12. CASE AllDone
  <2> USE <1>a, <1>12 DEF AllDone, TransferComplete, hostVars
  <2>1. Flags' BY DEF Flags
  <2>2. Values' BY DEF Values, Phase, ActionKind
  <2>3. Charged' BY DEF Charged, Values
  <2>4. StoppedIsQuiet' BY DEF StoppedIsQuiet
  <2> QED BY <2>1, <2>2, <2>3, <2>4
<1>13. CASE UserRetries
  <2> USE <1>a, <1>13 DEF UserRetries, ManualRetry, DialOrJoin, Perform, Terminal
  <2>1. Flags' BY DEF Flags
  <2>2. Values' BY DEF Values, Phase, ActionKind
  <2>3. Charged' BY DEF Charged, Values
  <2>4. StoppedIsQuiet' BY DEF StoppedIsQuiet
  <2> QED BY <2>1, <2>2, <2>3, <2>4
<1>14. CASE RetryTimerFires
  <2> USE <1>a, <1>14 DEF RetryTimerFires, RetryTimer, DialOrJoin, Perform
  <2>1. Flags' BY DEF Flags
  <2>2. Values' BY DEF Values, Phase, ActionKind
  <2>3. Charged' BY DEF Charged, Values
  <2>4. StoppedIsQuiet' BY DEF StoppedIsQuiet
  <2> QED BY <2>1, <2>2, <2>3, <2>4
<1>15. CASE DeadlineFires
  <2>1. /\ ScheduleRetry(IF Terminal THEN retryScheduled ELSE FALSE, FALSE)
        /\ UNCHANGED <<socketUp, pendingJoin, peerEverPresent, resumeFrom>>
        /\ flaps' = IF phase = "Transferring" /\ Failing THEN flaps + 1 ELSE flaps
    BY <1>15 DEF DeadlineFires, Fail, ReconnectDeadline
  <2>2. (IF Terminal THEN retryScheduled ELSE FALSE) \in {retryScheduled, FALSE}
    OBVIOUS
  <2>3. MachineTypeOK' /\ flaps' \in 0..AttemptMax /\ Charged' /\ StoppedIsQuiet'
    BY <2>1, <2>2, <1>a, FailStep DEF Flags
  <2> QED BY <2>3, <1>a, <1>b, <1>15 DEF DeadlineFires, Flags, Values
<1>16. CASE PeerLeavesForGood
  BY <1>a, <1>16 DEF PeerLeavesForGood, machineVars, Flags, Values, Charged, StoppedIsQuiet
<1>17. CASE UNCHANGED vars
  BY <1>a, <1>17
  DEF vars, machineVars, hostVars, Flags, Values, Charged, StoppedIsQuiet
<1> QED
  BY <1>1, <1>2, <1>3, <1>4, <1>5, <1>6, <1>7, <1>8, <1>9, <1>10, <1>11,
     <1>12, <1>13, <1>14, <1>15, <1>16, <1>17 DEF HostNext, HostEvent

\* HostInv is an invariant of the host.
THEOREM HostInvariant == HostSpec => []HostInv
<1>1. HostInit => HostInv BY HostInitial
<1>2. HostInv /\ [HostNext]_vars => HostInv' BY HostStep
<1> QED BY <1>1, <1>2, PTL DEF HostSpec

\* Every field of the machine and of its host keeps its type.
THEOREM HostTypeCorrect == HostSpec => []TypeOK
<1>1. HostInv => TypeOK BY DEF HostInv
<1> QED BY <1>1, HostInvariant, PTL

\* A channel that is lost before a chunk is acknowledged is always charged to
\* the retry budget (schedule_retry, bugs B1 and 024-A).
THEOREM FlapsAreCharged == HostSpec => []FlapsConsumeBudget
<1>1. HostInv => FlapsConsumeBudget BY DEF HostInv, Charged, FlapsConsumeBudget
<1> QED BY <1>1, HostInvariant, PTL

\* Stopped leaves no timer armed and no retry scheduled behind.
THEOREM StoppedStaysQuiet == HostSpec => []StoppedIsQuiet
<1>1. HostInv => StoppedIsQuiet BY DEF HostInv
<1> QED BY <1>1, HostInvariant, PTL

-----------------------------------------------------------------------------
(* A reconnecting machine has a wake-up.                                   *)

\* With prompt signaling a dial or a join under way was started by the retry
\* timer or a person, who armed the deadline.  A join is asked for on a live
\* socket only and a dial on a dead one, so that a socket that comes or goes
\* ends what was under way; and before the start there is nothing to fail.
Untouched ==
  ~socketUp /\ ~dialing /\ ~timerArmed /\ ~deadlineArmed /\ pc = "none"

Wakeful ==
  /\ joins > 0 => socketUp
  /\ dialing => ~socketUp
  /\ phase = "Idle" => Untouched
  /\ prompt /\ phase = "Reconnecting" =>
       /\ timerArmed \/ deadlineArmed
       /\ dialing \/ joins > 0 => deadlineArmed

\* Every failure that leaves the machine reconnecting arms the timer, and none
\* takes it back to the start.
LEMMA FailureArmsTimer ==
  ASSUME NEW s, NEW d, ScheduleRetry(s, d)
  PROVE  /\ phase' = "Reconnecting" => timerArmed' = TRUE
         /\ phase # "Idle" => phase' # "Idle"
BY DEF ScheduleRetry, ArmRetry, Terminal

\* A failure keeps Wakeful when, under prompt signaling, nothing is under way
\* after it.
LEMMA FailWakes ==
  ASSUME NEW s, NEW d, ScheduleRetry(s, d),
         UNCHANGED prompt, phase # "Idle",
         dialing' => ~socketUp', joins' > 0 => socketUp',
         prompt => ~(joins' > 0) /\ ~dialing'
  PROVE  Wakeful'
<1>1. /\ phase' = "Reconnecting" => timerArmed' = TRUE
      /\ phase' # "Idle"
  BY FailureArmsTimer
<1> QED BY <1>1 DEF Wakeful

\* Every step of the host keeps Wakeful.
LEMMA WakefulStep == HostInv /\ Wakeful /\ [HostNext]_vars => Wakeful'
<1> SUFFICES ASSUME HostInv, Wakeful, [HostNext]_vars PROVE Wakeful'
  OBVIOUS
<1>t. Flags /\ Values /\ UNCHANGED prompt /\ JoinMax \in Nat
  BY TypeParts, HostAssumption DEF HostInv, HostNext, vars
<1>1. CASE HostStart
  BY <1>1, <1>t DEF HostStart, Start, Wakeful, Untouched, Values
<1>2. CASE DialSucceeds
  BY <1>2, <1>t DEF DialSucceeds, SocketUp, Perform, Wakeful, Untouched, Values
<1>3. CASE DialFails
  <2>1. ScheduleRetry(retryScheduled, deadlineArmed)
    BY <1>3 DEF DialFails, Fail, LinkFailed
  <2>2. phase # "Idle" /\ dialing' = FALSE /\ joins' = joins /\ ~(joins > 0)
    BY <1>3 DEF DialFails, Wakeful, Untouched
  <2> QED BY <2>1, <2>2, <1>t, FailWakes
<1>4. CASE SocketLost
  <2>1. ScheduleRetry(retryScheduled, deadlineArmed)
    BY <1>4 DEF SocketLost, Fail, SocketDown
  <2>2. phase # "Idle" /\ ~dialing /\ dialing' = dialing /\ joins' = 0
    BY <1>4 DEF SocketLost, Wakeful, Untouched
  <2>3. ~(joins' > 0) BY <2>2
  <2> QED BY <2>1, <2>2, <2>3, <1>t, FailWakes
<1>5. CASE JoinAnswered
  <2>1. PICK offset \in Offsets : Joined(offset) BY <1>5 DEF JoinAnswered
  <2> QED
    BY <1>5, <2>1, <1>t
    DEF JoinAnswered, Joined, JoinKeepsDeadline, Wakeful, Untouched, Values
<1>6. CASE PeersReady
  BY <1>6, <1>t DEF PeersReady, BothReady, Wakeful
<1>7. CASE PcOpens
  BY <1>7, <1>t DEF PcOpens, DcOpen, Wakeful
<1>8. CASE PcFails
  <2>1. ScheduleRetry(retryScheduled, deadlineArmed) /\ UNCHANGED socketUp
    BY <1>8 DEF PcFails, Fail, LinkFailed
  <2>2. phase # "Idle" /\ Settled /\ UNCHANGED <<dialing, joins>>
    BY <1>8 DEF PcFails, Wakeful, Untouched
  <2> QED BY <2>1, <2>2, <1>t, FailWakes DEF Settled, Wakeful
<1>9. CASE SignaledFailure
  <2>1. ScheduleRetry(retryScheduled, deadlineArmed) /\ UNCHANGED socketUp
    BY <1>9 DEF SignaledFailure, Fail, LinkFailed
  <2>2. phase # "Idle" /\ Settled /\ UNCHANGED <<dialing, joins>>
    BY <1>9 DEF SignaledFailure, Wakeful, Untouched
  <2> QED BY <2>1, <2>2, <1>t, FailWakes DEF Settled, Wakeful
<1>10. CASE SignaledFatal
  BY <1>10, <1>t DEF SignaledFatal, FatalError, hostVars, Wakeful
<1>11. CASE ChunkAcked
  BY <1>11, <1>t DEF ChunkAcked, TransferProgress, Wakeful, Untouched
<1>12. CASE AllDone
  BY <1>12, <1>t DEF AllDone, TransferComplete, hostVars, Wakeful
<1>13. CASE UserRetries
  <2>1. /\ phase = "Stopped" /\ socketUp' = socketUp /\ prompt' = prompt
        /\ phase' = "Reconnecting" /\ deadlineArmed' = TRUE
        /\ acts' = {"ArmReconnectDeadline", IF socketUp THEN "Join" ELSE "Dial"}
    BY <1>13, <1>t DEF UserRetries, ManualRetry, DialOrJoin, Terminal
  <2>2. /\ "Join" \in acts' <=> socketUp
        /\ "Dial" \in acts' <=> ~socketUp
    BY <2>1
  <2>3. joins' > 0 => socketUp'
    BY <1>13, <2>1, <2>2, <1>t DEF UserRetries, Perform, Wakeful, Values
  <2>4. dialing' => ~socketUp'
    BY <1>13, <2>1, <2>2 DEF UserRetries, Wakeful
  <2> QED BY <2>1, <2>3, <2>4 DEF Wakeful
<1>14. CASE RetryTimerFires
  <2>1. phase # "Idle" /\ UNCHANGED <<phase, socketUp, prompt>>
    BY <1>14, <1>t DEF RetryTimerFires, RetryTimer, Wakeful, Untouched
  <2>2. CASE Terminal
    <3>1. phase' # "Reconnecting" /\ acts' = {}
      BY <1>14, <2>1, <2>2 DEF RetryTimerFires, RetryTimer, Terminal
    <3>2. dialing' <=> dialing
      BY <1>14, <3>1 DEF RetryTimerFires
    <3>3. joins' = joins
      BY <1>14, <3>1, <1>t DEF RetryTimerFires, Perform, Values
    <3> QED BY <2>1, <3>1, <3>2, <3>3 DEF Wakeful
  <2>3. CASE ~Terminal
    <3>1. deadlineArmed' = TRUE
      BY <1>14, <2>3 DEF RetryTimerFires, RetryTimer
    <3>2. \E extra \in {{}, {"ArmReconnectDeadline"}} :
            acts' = extra \cup {IF socketUp THEN "Join" ELSE "Dial"}
      BY <1>14, <2>3 DEF RetryTimerFires, RetryTimer, DialOrJoin
    <3>3. ("Join" \in acts' <=> socketUp) /\ ("Dial" \in acts' <=> ~socketUp)
      BY <3>2
    <3>4. joins' > 0 => socketUp'
      BY <1>14, <2>1, <3>3, <1>t DEF RetryTimerFires, Perform, Wakeful, Values
    <3>5. dialing' => ~socketUp'
      BY <1>14, <2>1, <3>3 DEF RetryTimerFires, Wakeful
    <3> QED BY <2>1, <3>1, <3>4, <3>5 DEF Wakeful
  <2> QED BY <2>2, <2>3
<1>15. CASE DeadlineFires
  <2>1. phase # "Idle" /\ Settled /\ UNCHANGED <<dialing, joins, socketUp>>
    BY <1>15 DEF DeadlineFires, Fail, ReconnectDeadline, Wakeful, Untouched
  <2>2. /\ phase' = "Reconnecting" => timerArmed' = TRUE
        /\ phase' # "Idle"
    BY <1>15, <2>1
    DEF DeadlineFires, Fail, ReconnectDeadline, ScheduleRetry, ArmRetry, Terminal
  <2>3. prompt => ~(joins' > 0) /\ ~dialing'
    BY <2>1, <1>t DEF Settled
  <2> QED BY <2>1, <2>2, <2>3, <1>t DEF Wakeful
<1>16. CASE PeerLeavesForGood
  BY <1>16, <1>t DEF PeerLeavesForGood, machineVars, Wakeful, Untouched
<1>17. CASE UNCHANGED vars
  BY <1>17, <1>t DEF vars, machineVars, hostVars, Wakeful, Untouched
<1> QED
  BY <1>1, <1>2, <1>3, <1>4, <1>5, <1>6, <1>7, <1>8, <1>9, <1>10, <1>11,
     <1>12, <1>13, <1>14, <1>15, <1>16, <1>17 DEF HostNext, HostEvent

\* BUG-RECONNECT-STALL and BUG-020: with prompt signaling a machine that is
\* reconnecting always has a timer, a dial or a join that will move it.
THEOREM ReconnectingIsAwake == HostSpec => []ReconnectingHasWakeup
<1>1. HostInit => HostInv /\ Wakeful
  BY HostInitial DEF HostInit, Init, Wakeful, Untouched
<1>2. HostInv /\ Wakeful /\ [HostNext]_vars => (HostInv /\ Wakeful)'
  BY HostStep, WakefulStep
<1>3. Wakeful => ReconnectingHasWakeup
  BY DEF Wakeful, ReconnectingHasWakeup
<1> QED BY <1>1, <1>2, <1>3, PTL DEF HostSpec
=============================================================================
