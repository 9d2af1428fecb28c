------------------------- MODULE ConnectionMachine -------------------------
(***************************************************************************)
(* The pure reconnection state machine of one peer                         *)
(* (src/src/p2p/connection.rs).  Every ConnEvent the handler accepts is an *)
(* action below; its body is the whole match arm, with the helpers         *)
(* schedule_retry, arm_retry, on_retry_timer and manual_retry inlined as   *)
(* operators.  What handle() returns is the variable acts (each kind of    *)
(* ConnAction occurs at most once per call) with the delay of the retry    *)
(* timer it arms in delay.                                                 *)
(*                                                                         *)
(* Left out: `generation` is stored and never read, and the delay of the   *)
(* reconnect deadline is a constant.                                       *)
(***************************************************************************)
EXTENDS Integers, Sequences

CONSTANTS
  MaxRetries,   \* max_retries (3 in retry.rs)
  Backoff,      \* backoff_ms (<<1000, 2000, 4000>> in retry.rs)
  AttemptMax,   \* u32::MAX in the code; the bound on `attempt`
  Offsets       \* the values p2p:joined may carry in lastChunkOffset

ASSUME MachineAssumption ==
  /\ MaxRetries \in Nat
  /\ AttemptMax \in Nat /\ MaxRetries < AttemptMax
  /\ Backoff \in Seq(Nat) /\ Len(Backoff) > 0
  /\ Offsets \subseteq Nat

VARIABLES
  phase, socketUp, pendingJoin, attempt, retryScheduled, timerArmed,
  deadlineArmed, peerEverPresent, resumeFrom,
  acts, delay

machineVars == <<phase, socketUp, pendingJoin, attempt, retryScheduled,
                 timerArmed, deadlineArmed, peerEverPresent, resumeFrom,
                 acts, delay>>

Phase == {"Idle", "Connecting", "Waiting", "Negotiating", "Transferring",
          "Reconnecting", "Stopped", "Completed", "Expired"}
ActionKind == {"Dial", "Join", "BuildPc", "ArmRetryTimer",
               "ArmReconnectDeadline", "Stopped", "Expired", "Completed"}

\* terminal()
Terminal == phase \in {"Completed", "Expired"}

-----------------------------------------------------------------------------
(* Helpers shared by the handlers.                                         *)

\* arm_retry(): one timer at a time; its delay depends on the attempt count.
BackoffFor(a) ==
  Backoff[IF a <= 1 THEN 1 ELSE IF a > Len(Backoff) THEN Len(Backoff) ELSE a]

ArmRetry(a) ==
  /\ timerArmed' = TRUE
  /\ IF timerArmed
       THEN acts' = {} /\ UNCHANGED delay
       ELSE acts' = {"ArmRetryTimer"} /\ delay' = BackoffFor(a)

\* attempt > max_retries, after the increment.
ExhaustedOffByOne(a) == a >= MaxRetries
Exhausted(a) == a > MaxRetries

\* What schedule_retry clears when the budget is spent.
DisarmKeepingDeadline ==
  /\ retryScheduled' = FALSE /\ timerArmed' = FALSE
  /\ UNCHANGED deadlineArmed
Disarm ==
  /\ retryScheduled' = FALSE /\ timerArmed' = FALSE
  /\ deadlineArmed' = FALSE

\* schedule_retry(), entered with retry_scheduled = scheduled.  It leaves
\* socketUp, pendingJoin, peerEverPresent and resumeFrom alone.
ScheduleRetry(scheduled, deadline) ==
  \/ /\ Terminal
     /\ retryScheduled' = scheduled /\ deadlineArmed' = deadline
     /\ acts' = {}
     /\ UNCHANGED <<phase, attempt, timerArmed, delay>>
  \/ /\ ~Terminal /\ scheduled
     /\ ArmRetry(attempt)
     /\ retryScheduled' = TRUE /\ deadlineArmed' = deadline
     /\ UNCHANGED <<phase, attempt>>
  \/ /\ ~Terminal /\ ~scheduled /\ attempt < AttemptMax
     /\ attempt' = attempt + 1
     /\ \/ /\ Exhausted(attempt + 1)
           /\ phase' = "Stopped"
           /\ Disarm
           /\ acts' = {"Stopped"}
           /\ UNCHANGED delay
        \/ /\ ~Exhausted(attempt + 1)
           /\ phase' = "Reconnecting"
           /\ retryScheduled' = TRUE
           /\ deadlineArmed' = deadline
           /\ ArmRetry(attempt + 1)

\* The dial-or-join step that on_retry_timer and manual_retry share.
DialOrJoin(extra) ==
  /\ pendingJoin' = ~socketUp
  /\ acts' = extra \cup {IF socketUp THEN "Join" ELSE "Dial"}

-----------------------------------------------------------------------------
Init ==
  /\ phase = "Idle" /\ socketUp = FALSE /\ pendingJoin = FALSE
  /\ attempt = 0 /\ retryScheduled = FALSE
  /\ timerArmed = FALSE /\ deadlineArmed = FALSE
  /\ peerEverPresent = FALSE /\ resumeFrom = 0
  /\ acts = {} /\ delay = 0

Start ==
  /\ phase' = "Connecting" /\ pendingJoin' = TRUE /\ acts' = {"Dial"}
  /\ UNCHANGED <<socketUp, attempt, retryScheduled, timerArmed, deadlineArmed,
                 peerEverPresent, resumeFrom, delay>>

SocketUp ==
  /\ socketUp' = TRUE /\ pendingJoin' = FALSE
  /\ acts' = IF pendingJoin THEN {"Join"} ELSE {}
  /\ UNCHANGED <<phase, attempt, retryScheduled, timerArmed, deadlineArmed,
                 peerEverPresent, resumeFrom, delay>>

SocketDown ==
  /\ socketUp' = FALSE
  /\ ScheduleRetry(retryScheduled, deadlineArmed)
  /\ UNCHANGED <<pendingJoin, peerEverPresent, resumeFrom>>

\* SocketError, DcClosed, IceFailed, PeerDisconnected and an Error whose code
\* is not fatal run the same call.
LinkFailed ==
  /\ ScheduleRetry(retryScheduled, deadlineArmed)
  /\ UNCHANGED <<socketUp, pendingJoin, peerEverPresent, resumeFrom>>

FatalError ==
  /\ phase' = "Expired" /\ acts' = {"Expired"}
  /\ UNCHANGED <<socketUp, pendingJoin, attempt, retryScheduled, timerArmed,
                 deadlineArmed, peerEverPresent, resumeFrom, delay>>

\* Bug 021-B: no peer was ever there, so the re-join is back to waiting.
PrePeerAlways == TRUE
PrePeer == ~peerEverPresent

\* A join does not end a reconnect: the deadline stays (BUG-RECONNECT-STALL).
JoinDisarmsDeadline == deadlineArmed' = FALSE
JoinKeepsDeadline == UNCHANGED deadlineArmed

Joined(offset) ==
  /\ retryScheduled' = FALSE /\ timerArmed' = FALSE
  /\ resumeFrom' = IF offset > resumeFrom THEN offset ELSE resumeFrom
  /\ acts' = {}
  /\ \/ /\ attempt = 0
        /\ phase' = "Waiting"
        /\ JoinKeepsDeadline /\ UNCHANGED attempt
     \/ /\ attempt # 0 /\ PrePeer
        /\ phase' = "Waiting" /\ deadlineArmed' = FALSE /\ attempt' = 0
     \/ /\ attempt # 0 /\ ~PrePeer
        /\ JoinKeepsDeadline /\ UNCHANGED <<phase, attempt>>
  /\ UNCHANGED <<socketUp, pendingJoin, peerEverPresent, delay>>

BothReady ==
  /\ peerEverPresent' = TRUE /\ deadlineArmed' = FALSE
  /\ IF phase = "Stopped"
       THEN attempt' = 0 /\ retryScheduled' = FALSE
       ELSE UNCHANGED <<attempt, retryScheduled>>
  /\ phase' = "Negotiating" /\ acts' = {"BuildPc"}
  /\ UNCHANGED <<socketUp, pendingJoin, timerArmed, resumeFrom, delay>>

\* Bug B1: an open channel is no proof of recovery, the budget stays spent.
OpenResetsBudget == attempt' = 0
OpenKeepsBudget == UNCHANGED attempt

DcOpen ==
  /\ phase' = "Transferring" /\ peerEverPresent' = TRUE
  /\ retryScheduled' = FALSE /\ timerArmed' = FALSE /\ deadlineArmed' = FALSE
  /\ acts' = {}
  /\ OpenKeepsBudget
  /\ UNCHANGED <<socketUp, pendingJoin, resumeFrom, delay>>

\* An acknowledged chunk gives the whole budget back.
RefundOne == attempt' = attempt - 1
RefundAll == attempt' = 0

TransferProgress ==
  /\ RefundAll /\ retryScheduled' = FALSE /\ acts' = {}
  /\ UNCHANGED <<phase, socketUp, pendingJoin, timerArmed, deadlineArmed,
                 peerEverPresent, resumeFrom, delay>>

TransferComplete ==
  /\ phase' = "Completed" /\ acts' = {"Completed"}
  /\ UNCHANGED <<socketUp, pendingJoin, attempt, retryScheduled, timerArmed,
                 deadlineArmed, peerEverPresent, resumeFrom, delay>>

\* manual_retry(); a no-op in the terminal phases.
ManualRetry ==
  \/ /\ ~Terminal
     /\ attempt' = 0 /\ retryScheduled' = FALSE /\ timerArmed' = FALSE
     /\ phase' = "Reconnecting" /\ deadlineArmed' = TRUE
     /\ DialOrJoin({"ArmReconnectDeadline"})
     /\ UNCHANGED <<socketUp, peerEverPresent, resumeFrom, delay>>
  \/ /\ Terminal
     /\ acts' = {}
     /\ UNCHANGED <<phase, socketUp, pendingJoin, attempt, retryScheduled,
                    timerArmed, deadlineArmed, peerEverPresent, resumeFrom,
                    delay>>

\* on_retry_timer(): ignored unless armed; a dial keeps a running deadline.
RetryTimer ==
  /\ timerArmed' = FALSE
  /\ IF timerArmed /\ ~Terminal
       THEN /\ DialOrJoin(IF deadlineArmed THEN {} ELSE {"ArmReconnectDeadline"})
            /\ deadlineArmed' = TRUE
       ELSE acts' = {} /\ UNCHANGED <<pendingJoin, deadlineArmed>>
  /\ UNCHANGED <<phase, socketUp, attempt, retryScheduled, peerEverPresent,
                 resumeFrom, delay>>

\* Ignored unless armed; otherwise the next failure of the climb.
ReconnectDeadline ==
  \/ /\ deadlineArmed
     /\ ScheduleRetry(IF Terminal THEN retryScheduled ELSE FALSE, FALSE)
     /\ UNCHANGED <<socketUp, pendingJoin, peerEverPresent, resumeFrom>>
  \/ /\ ~deadlineArmed
     /\ acts' = {}
     /\ UNCHANGED <<phase, socketUp, pendingJoin, attempt, retryScheduled,
                    timerArmed, deadlineArmed, peerEverPresent, resumeFrom,
                    delay>>

-----------------------------------------------------------------------------
\* Type invariant: every field keeps its Rust type; acts and delay are what
\* the last handle() returned.
MachineTypeOK ==
  /\ phase \in Phase
  /\ socketUp \in BOOLEAN /\ pendingJoin \in BOOLEAN
  /\ attempt \in 0..AttemptMax
  /\ retryScheduled \in BOOLEAN /\ timerArmed \in BOOLEAN
  /\ deadlineArmed \in BOOLEAN /\ peerEverPresent \in BOOLEAN
  /\ resumeFrom \in Nat
  /\ acts \subseteq ActionKind /\ delay \in Nat
=============================================================================
