----------------------------- MODULE RetryFlow -----------------------------
(***************************************************************************)
(* The attempt loop of a CLI peer around its ConnectionMachine: share      *)
(* (sender) and get (recipient), online and --local.  Each step feeds the  *)
(* machine exactly the events the loop feeds it at that point.  What the   *)
(* network and the other peer do is a free choice at every stage.          *)
(***************************************************************************)
EXTENDS ConnectionMachine

CONSTANT
  SleepMax      \* bound on the length of the history `slept`

ASSUME FlowAssumption == SleepMax \in Nat

VARIABLES
  sender,    \* TRUE for share, FALSE for get
  online,    \* TRUE for the server flows, FALSE for --local
  stage,     \* where the loop is
  ending,    \* why it ended in "failed"
  slept,     \* history: backoff sleeps since progress, prompt or first channel
  manual     \* history: the machine was last reset by a manual retry

flowVars == <<sender, online, stage, ending, slept, manual>>
vars == <<machineVars, flowVars>>

Stage == {"start", "socket", "join", "await", "answer", "channel",
          "transfer", "backoff", "prompt", "rejoin", "done", "failed"}
Ending == {"none", "exhausted", "fatal", "closed", "transient", "noanswer",
           "dial", "error"}

GoTo(s) == stage' = s
GiveUp(why) == stage' = "failed" /\ ending' = why

FlowInit ==
  /\ Init /\ sender \in BOOLEAN /\ online \in BOOLEAN
  /\ stage = "start" /\ ending = "none" /\ slept = <<>> /\ manual = FALSE

\* Start, SocketUp, Joined: fed before the loop is entered.
Startup ==
  \/ stage = "start" /\ Start /\ GoTo("socket")
  \/ stage = "socket" /\ SocketUp /\ GoTo("join")
  \/ stage = "join" /\ (\E offset \in Offsets : Joined(offset)) /\ GoTo("await")

\* machine_retry!: one DcClosed per failed attempt.
Fail ==
  /\ LinkFailed
  /\ GoTo(IF phase' = "Stopped" THEN "prompt" ELSE "backoff")

\* await_ready / await_offer: the awaited event comes.
PeerAppears ==
  /\ stage = "await"
  /\ GoTo(IF sender THEN "answer" ELSE "channel")
  /\ UNCHANGED machineVars

\* Only a re-attempt is bounded (PEER_TIMEOUT_SECS, or a recoverable error at
\* the sender, or a closed socket at the recipient).
AwaitTimesOutLate == stage = "await" /\ attempt > 1 /\ Fail
AwaitTimesOut == stage = "await" /\ attempt # 0 /\ Fail

AwaitBails ==
  /\ stage = "await" /\ (sender \/ attempt = 0)
  /\ \E why \in {"fatal", "closed"} : GiveUp(why)
  /\ UNCHANGED machineVars

\* await_answer: the answer, or ANSWER_TIMEOUT_SECS, a closed socket or a
\* signaling error of any code, all of which leave the loop through `?`.
AnswerComes ==
  /\ stage = "answer" /\ GoTo("channel") /\ UNCHANGED machineVars
AnswerBails ==
  /\ stage = "answer"
  /\ \E why \in {"noanswer", "closed", "fatal", "transient"} : GiveUp(why)
  /\ UNCHANGED machineVars

\* Every other `?`: the PeerConnection cannot be built, an offer or answer not
\* sent, the output not written.
ErrorBails ==
  /\ stage \in {"answer", "channel", "transfer"} /\ GiveUp("error")
  /\ UNCHANGED machineVars

ChannelOpens == stage = "channel" /\ DcOpen /\ GoTo("transfer")
ChannelTimesOut == stage = "channel" /\ Fail

\* An ACK at the sender, a delivered chunk at the recipient.
Progress ==
  /\ stage = "transfer"
  /\ IF attempt > 0 THEN TransferProgress ELSE UNCHANGED machineVars
  /\ UNCHANGED stage

TransferBreaks == stage = "transfer" /\ Fail

\* The loop returns; the machine is not told.
TransferSucceeds ==
  /\ stage = "transfer" /\ GoTo("done") /\ UNCHANGED machineVars

\* The retry arm of machine_retry!: retry_delay_ms of what DcClosed returned.
Backoffs ==
  /\ stage = "backoff" /\ Len(slept) < SleepMax
  /\ RetryTimer
  /\ slept' = Append(slept, IF "ArmRetryTimer" \in acts THEN delay ELSE 0)
  /\ GoTo("rejoin")
  /\ UNCHANGED <<ending, manual>>

\* The Stopped arm: --local bails; online asks on a terminal.
PromptRetry ==
  /\ stage = "prompt" /\ online
  /\ ManualRetry
  /\ GoTo("rejoin") /\ slept' = <<>> /\ manual' = TRUE
  /\ UNCHANGED ending

PromptQuit ==
  /\ stage = "prompt" /\ GiveUp("exhausted")
  /\ UNCHANGED machineVars

\* rejoin!: join on the live socket, or dial first (the online sender tells
\* the machine SocketUp then); a failed dial leaves the loop through `?`.
Redial ==
  /\ stage = "rejoin" /\ online /\ sender /\ SocketUp /\ GoTo("join")

Rejoin ==
  /\ stage = "rejoin"
  /\ IF sender THEN \E offset \in Offsets : Joined(offset) ELSE Joined(0)
  /\ GoTo("await")

RedialFails ==
  /\ stage = "rejoin" /\ GiveUp("dial") /\ UNCHANGED machineVars

Loop ==
  \/ /\ \/ Startup \/ PeerAppears \/ AwaitTimesOut \/ AnswerComes
        \/ ChannelTimesOut \/ TransferBreaks \/ TransferSucceeds
        \/ Redial \/ Rejoin
     /\ UNCHANGED <<ending, slept, manual>>
  \/ /\ AwaitBails \/ AnswerBails \/ ErrorBails \/ RedialFails \/ PromptQuit
     /\ UNCHANGED <<slept, manual>>
  \/ /\ ChannelOpens
     /\ slept' = (IF peerEverPresent THEN slept ELSE <<>>)
     /\ UNCHANGED <<ending, manual>>
  \/ /\ Progress
     /\ slept' = <<>> /\ manual' = FALSE
     /\ UNCHANGED ending
  \/ Backoffs
  \/ PromptRetry

FlowNext == Loop /\ UNCHANGED <<sender, online>>

FlowSpec == FlowInit /\ [][FlowNext]_vars

\* Every stage but the unbounded waits comes to an end: timeouts, the ICE
\* failure that ends a silent transfer, the sleep, the dial and its error.
FlowFairness ==
  /\ WF_vars(FlowNext /\ stage \notin {"await", "transfer", "prompt"})
  /\ WF_vars(AwaitTimesOut /\ UNCHANGED <<sender, online, ending, slept, manual>>)
  /\ WF_vars(TransferBreaks /\ UNCHANGED <<sender, online, ending, slept, manual>>)

FairFlowSpec == FlowSpec /\ FlowFairness

-----------------------------------------------------------------------------
TypeOK ==
  /\ MachineTypeOK
  /\ stage \in Stage /\ ending \in Ending
  /\ slept \in Seq(Nat) /\ Len(slept) <= SleepMax
  /\ manual \in BOOLEAN /\ sender \in BOOLEAN /\ online \in BOOLEAN

\* Once a channel has opened, the sleeps since the last progress, manual retry
\* or first channel are the backoff table in order, never more than
\* MaxRetries of them, and never skipped (retry_delay_ms's unwrap_or(0)).
BackoffSchedule ==
  peerEverPresent =>
    /\ Len(slept) <= MaxRetries
    /\ \A i \in 1..Len(slept) : slept[i] = BackoffFor(i)

\* After a channel has opened, a re-attempt never waits for its peer without a
\* timeout (the waits are unbounded exactly when attempts() == 0), unless a
\* person asked for it.
RetryWaitsAreBounded ==
  stage = "await" /\ peerEverPresent /\ ~manual => attempt \in 1..MaxRetries

\* The loop gives up on a transfer that had a channel, for lack of budget,
\* only when every retry of the climb was spent.
ExhaustedMeansSpent ==
  ending = "exhausted" => attempt > MaxRetries /\ Len(slept) = MaxRetries

\* A climb ends: in progress, in success, at the prompt or in an error.
ClimbEnds ==
  (slept # <<>> /\ peerEverPresent) ~>
    (slept = <<>> \/ stage \in {"done", "failed", "prompt"})
=============================================================================
