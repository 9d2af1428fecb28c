--------------------------- MODULE ShareGetProofs ---------------------------
(***************************************************************************)
(* `share` and `get`, in two parts.  RetryFlow, for every budget and       *)
(* backoff table: the sleeps of a climb are the table in order,            *)
(* re-attempts wait with a timeout, and giving up means that every retry   *)
(* was spent.  ServerShare, for every number of recipients in one          *)
(* directory: a directory is not sent as the text of its path, and a run   *)
(* leaves its share, or what was there.                                    *)
(***************************************************************************)
EXTENDS RetryFlow, ServerShare, TLAPS

Live == {"await", "answer", "channel", "transfer"}
Rejoining == {"rejoin", "join"}

\* The loop never feeds the machine a completion or a fatal error, and works
\* with no retry pending and no timer armed: each failure is the first of its
\* climb.
Fresh ==
  /\ phase \notin {"Completed", "Expired"}
  /\ stage \in Live => ~retryScheduled /\ ~timerArmed
  /\ stage \in {"start", "socket"} => ~peerEverPresent
  /\ stage = "transfer" => peerEverPresent

\* Before the first channel a join gives the attempt back.
Before ==
  ~peerEverPresent =>
    /\ attempt <= 1
    /\ stage \in {"start", "socket", "await", "answer", "channel"} => attempt = 0
    /\ stage = "prompt" => MaxRetries = 0 /\ attempt = 1
    /\ slept # <<>> => MaxRetries >= 1

\* After it, the machine's attempt count is the number of sleeps of the climb.
After ==
  peerEverPresent =>
    /\ stage \in Live \cup Rejoining => attempt = Len(slept)
    /\ stage = "backoff" => attempt = Len(slept) + 1
    /\ stage = "prompt" => attempt = MaxRetries + 1 /\ Len(slept) = MaxRetries
    /\ stage \in (Live \cup Rejoining) \ {"transfer"} /\ ~manual => Len(slept) >= 1

\* A failure that is retried has armed the timer with the table's delay.
Backing ==
  stage = "backoff" =>
    /\ attempt \in 1..MaxRetries
    /\ "ArmRetryTimer" \in acts /\ delay = BackoffFor(attempt)

Ended == ending # "none" => stage = "failed"

FlowInv ==
  /\ TypeOK /\ Fresh /\ Before /\ After /\ Backing /\ Ended
  /\ BackoffSchedule /\ ExhaustedMeansSpent

-----------------------------------------------------------------------------
(* The type invariant in parts: SMT proves the one, Zenon the others.      *)

Flags ==
  /\ socketUp \in BOOLEAN /\ pendingJoin \in BOOLEAN
  /\ retryScheduled \in BOOLEAN /\ timerArmed \in BOOLEAN
  /\ deadlineArmed \in BOOLEAN /\ peerEverPresent \in BOOLEAN
  /\ manual \in BOOLEAN

Values ==
  /\ phase \in Phase /\ attempt \in 0..AttemptMax /\ resumeFrom \in Nat
  /\ acts \subseteq ActionKind /\ delay \in Nat
  /\ stage \in Stage /\ ending \in Ending
  /\ slept \in Seq(Nat) /\ Len(slept) <= SleepMax

\* Which of the four flows it is: no step changes that.
Role == sender \in BOOLEAN /\ online \in BOOLEAN

LEMMA TypeParts == TypeOK <=> Flags /\ Values /\ Role
BY DEF TypeOK, MachineTypeOK, Flags, Values, Role

LEMMA TypePartsNext == Flags' /\ Values' /\ Role' => TypeOK'
BY DEF TypeOK, MachineTypeOK, Flags, Values, Role

\* What the invariant says about the loop's place and its history.
Place == Fresh /\ Before /\ After /\ Backing /\ Ended
History == BackoffSchedule /\ ExhaustedMeansSpent

-----------------------------------------------------------------------------
\* arm_retry() only ever looks up an entry of the table.
LEMMA BackoffInTable == ASSUME NEW a \in Nat PROVE BackoffFor(a) \in Nat
<1>1. Backoff \in Seq(Nat) /\ Len(Backoff) > 0 BY MachineAssumption
<1>2. Len(Backoff) \in Nat BY <1>1
<1> DEFINE i == IF a <= 1 THEN 1 ELSE IF a > Len(Backoff) THEN Len(Backoff) ELSE a
<1>3. i \in 1..Len(Backoff) BY <1>1, <1>2
<1>4. Backoff[i] \in Nat BY <1>1, <1>3
<1> QED BY <1>4 DEF BackoffFor

\* The first failure of a climb, with no timer running: it costs one attempt,
\* and unless the budget is spent it arms the timer with the table's delay.
LEMMA FirstFailureStep ==
  ASSUME MachineTypeOK, ~Terminal, ~timerArmed, ~retryScheduled,
         ScheduleRetry(retryScheduled, deadlineArmed)
  PROVE  /\ attempt' \in 0..AttemptMax /\ attempt' = attempt + 1
         /\ retryScheduled' \in BOOLEAN /\ timerArmed' \in BOOLEAN
         /\ deadlineArmed' \in BOOLEAN /\ delay' \in Nat
         /\ \/ /\ attempt' > MaxRetries /\ phase' = "Stopped"
               /\ acts' = {"Stopped"}
            \/ /\ attempt' <= MaxRetries /\ phase' = "Reconnecting"
               /\ timerArmed' = TRUE
               /\ acts' = {"ArmRetryTimer"} /\ delay' = BackoffFor(attempt')
<1>0. attempt \in Nat /\ MaxRetries \in Nat /\ AttemptMax \in Nat
  BY MachineAssumption DEF MachineTypeOK
<1>1. attempt < AttemptMax /\ attempt' = attempt + 1 BY DEF ScheduleRetry
<1>2. CASE Exhausted(attempt + 1)
  <2>1. /\ phase' = "Stopped" /\ Disarm /\ acts' = {"Stopped"}
        /\ delay' = delay
    BY <1>2 DEF ScheduleRetry
  <2>2. attempt + 1 > MaxRetries BY <1>2 DEF Exhausted
  <2>3. attempt' \in 0..AttemptMax /\ attempt' > MaxRetries BY <1>0, <1>1, <2>2
  <2>4. delay' \in Nat BY <2>1 DEF MachineTypeOK
  <2> QED BY <1>1, <2>1, <2>3, <2>4 DEF Disarm
<1>3. CASE ~Exhausted(attempt + 1)
  <2>1. /\ phase' = "Reconnecting" /\ retryScheduled' = TRUE
        /\ deadlineArmed' = deadlineArmed /\ ArmRetry(attempt + 1)
    BY <1>3 DEF ScheduleRetry
  <2>2. timerArmed' = TRUE /\ acts' = {"ArmRetryTimer"}
        /\ delay' = BackoffFor(attempt + 1)
    BY <2>1 DEF ArmRetry
  <2>3. BackoffFor(attempt + 1) \in Nat BY <1>0, BackoffInTable
  <2>4. attempt + 1 <= MaxRetries BY <1>0, <1>3 DEF Exhausted
  <2> QED BY <1>0, <1>1, <2>1, <2>2, <2>3, <2>4 DEF MachineTypeOK
<1> QED BY <1>2, <1>3

\* machine_retry! from a stage that fails: the prompt when the budget is
\* spent, the table's next delay otherwise.
LEMMA FailKeeps ==
  ASSUME Flags, Values, Place, History, stage \in Live, Fail,
         UNCHANGED <<ending, slept, manual>>
  PROVE  Flags' /\ Values' /\ Place' /\ History'
<1>1. /\ MachineTypeOK /\ attempt \in Nat /\ MaxRetries \in Nat /\ AttemptMax \in Nat
      /\ slept \in Seq(Nat) /\ Len(slept) \in Nat
  BY MachineAssumption DEF Flags, Values, MachineTypeOK
<1>2. ~Terminal /\ ~timerArmed /\ ~retryScheduled
  BY DEF Place, Fresh, Terminal
<1>3. /\ ScheduleRetry(retryScheduled, deadlineArmed)
      /\ UNCHANGED <<socketUp, pendingJoin, peerEverPresent, resumeFrom>>
      /\ stage' = IF phase' = "Stopped" THEN "prompt" ELSE "backoff"
  BY DEF Fail, LinkFailed, GoTo
<1>4. /\ phase' \in Phase /\ attempt' \in 0..AttemptMax
      /\ retryScheduled' \in BOOLEAN /\ timerArmed' \in BOOLEAN
      /\ deadlineArmed' \in BOOLEAN
      /\ acts' \subseteq ActionKind /\ delay' \in Nat
  BY <1>1, <1>2, <1>3, FirstFailureStep DEF Phase, ActionKind
<1>5. /\ attempt' = attempt + 1
      /\ \/ attempt' > MaxRetries /\ phase' = "Stopped" /\ stage' = "prompt"
         \/ /\ attempt' <= MaxRetries /\ phase' = "Reconnecting"
            /\ stage' = "backoff"
            /\ "ArmRetryTimer" \in acts' /\ delay' = BackoffFor(attempt')
  <2>1. /\ attempt' = attempt + 1
        /\ \/ attempt' > MaxRetries /\ phase' = "Stopped"
           \/ /\ attempt' <= MaxRetries /\ phase' = "Reconnecting"
              /\ timerArmed' = TRUE
              /\ acts' = {"ArmRetryTimer"} /\ delay' = BackoffFor(attempt')
    BY <1>1, <1>2, <1>3, FirstFailureStep
  <2> QED BY <2>1, <1>3
<1>6. attempt <= MaxRetries
  <2>1. CASE peerEverPresent
    BY <2>1, <1>1 DEF Place, After, History, BackoffSchedule
  <2>2. CASE ~peerEverPresent
    BY <2>2, <1>1 DEF Place, Before, Fresh, Live
  <2> QED BY <2>1, <2>2
<1>7. Flags' BY <1>3, <1>4 DEF Flags
<1>8. Values' BY <1>3, <1>4 DEF Values, Stage
<1>9. Fresh' BY <1>3, <1>5 DEF Fresh, Live
<1>10. Before'
  <2>1. ~peerEverPresent => attempt = 0
    BY DEF Place, Before, Fresh, Live
  <2> QED BY <2>1, <1>1, <1>3, <1>5, <1>6 DEF Before, Place
<1>11. After'
  <2>1. peerEverPresent => attempt = Len(slept)
    BY DEF Place, After, Live
  <2> QED BY <2>1, <1>1, <1>3, <1>5, <1>6 DEF After, Live, Rejoining
<1>12. Backing'
  BY <1>1, <1>5 DEF Backing
<1>13. Ended'
  BY <1>3 DEF Place, Ended, Live
<1>14. History'
  <2>1. BackoffSchedule' BY <1>3 DEF History, BackoffSchedule
  <2>2. ending = "none" BY DEF Place, Ended, Live
  <2> QED BY <2>1, <2>2 DEF History, ExhaustedMeansSpent
<1> QED BY <1>7, <1>8, <1>9, <1>10, <1>11, <1>12, <1>13, <1>14 DEF Place

\* A p2p:joined before the await: no timer, no retry, and the attempt count is
\* given back only if no channel has opened yet.
LEMMA JoinKeeps ==
  ASSUME Flags, Values, Place, History, NEW offset \in Nat, Joined(offset),
         stage \in Rejoining, stage' = "await",
         UNCHANGED <<ending, slept, manual>>
  PROVE  Flags' /\ Values' /\ Place' /\ History'
<1>1. attempt \in Nat /\ MaxRetries \in Nat /\ AttemptMax \in Nat
  BY MachineAssumption DEF Values
<1>2. Flags' BY DEF Flags, Joined, JoinKeepsDeadline
<1>3. Values' BY <1>1 DEF Values, Joined, Phase, Stage
<1>4. ~retryScheduled' /\ ~timerArmed' /\ phase' \in {phase, "Waiting"}
      /\ peerEverPresent' = peerEverPresent
  BY DEF Joined
<1>5. IF peerEverPresent THEN attempt' = attempt ELSE attempt' = 0
  BY DEF Joined, PrePeer
<1>6. Fresh' BY <1>4 DEF Place, Fresh
<1>7. Before' BY <1>1, <1>4, <1>5 DEF Place, Before
<1>8. After' BY <1>4, <1>5 DEF Place, After, Rejoining, Live
<1>9. Backing' /\ Ended' BY DEF Place, Backing, Ended, Rejoining
<1>10. History'
  <2>1. ending = "none" BY DEF Place, Ended, Rejoining
  <2>2. BackoffSchedule' BY <1>4 DEF History, BackoffSchedule
  <2> QED BY <2>1, <2>2 DEF ExhaustedMeansSpent, History
<1> QED BY <1>2, <1>3, <1>6, <1>7, <1>8, <1>9, <1>10 DEF Place

\* A stage passed while the machine is left alone.
LEMMA MoveKeeps ==
  ASSUME Flags, Values, Place, History, UNCHANGED machineVars,
         UNCHANGED <<slept, manual>>,
         \/ /\ <<stage, stage'>> \in {<<"await", "answer">>, <<"await", "channel">>,
                 <<"answer", "channel">>, <<"transfer", "done">>,
                 <<"transfer", "transfer">>}
            /\ ending' = ending
         \/ /\ stage' = "failed" /\ ending' \in Ending
            /\ ending' = "exhausted" => stage = "prompt"
  PROVE  Flags' /\ Values' /\ Place' /\ History'
<1>1. attempt \in Nat /\ MaxRetries \in Nat /\ Len(slept) \in Nat
  BY MachineAssumption DEF Values
<1>2. Flags' BY DEF Flags, machineVars
<1>3. Values' BY DEF Values, machineVars, Stage
<1>4. Fresh' BY DEF Place, Fresh, machineVars, Live
<1>5. Before' BY DEF Place, Before, machineVars
<1>6. After' BY DEF Place, After, machineVars, Live, Rejoining
<1>7. Backing' BY DEF Backing
<1>8. Ended' BY DEF Place, Ended
<1>9. BackoffSchedule' BY DEF History, BackoffSchedule, machineVars
<1>10. ExhaustedMeansSpent'
  <2>1. CASE ending' = ending
    BY <2>1 DEF History, ExhaustedMeansSpent, machineVars
  <2>2. CASE ending' = "exhausted" /\ stage = "prompt"
    <3>1. CASE peerEverPresent
      BY <2>2, <3>1, <1>1 DEF Place, After, ExhaustedMeansSpent, machineVars
    <3>2. CASE ~peerEverPresent
      <4>1. MaxRetries = 0 /\ attempt = 1 /\ slept = <<>>
        BY <2>2, <3>2 DEF Place, Before
      <4> QED BY <4>1 DEF ExhaustedMeansSpent, machineVars
    <3> QED BY <3>1, <3>2
  <2>3. CASE ending' # "exhausted"
    BY <2>3 DEF ExhaustedMeansSpent
  <2> QED BY <2>1, <2>2, <2>3
<1> QED BY <1>2, <1>3, <1>4, <1>5, <1>6, <1>7, <1>8, <1>9, <1>10 DEF Place, History

-----------------------------------------------------------------------------
\* The invariant holds at the start.
LEMMA FlowInitial == FlowInit => FlowInv
<1> SUFFICES ASSUME FlowInit PROVE FlowInv
  OBVIOUS
<1> USE DEF FlowInit, Init
<1>1. Flags BY DEF Flags
<1>2. Values
  BY MachineAssumption, FlowAssumption DEF Values, Phase, ActionKind, Stage, Ending
<1>3. Fresh /\ Ended BY DEF Fresh, Ended, Live
<1>4. Before /\ After /\ Backing BY DEF Before, After, Backing
<1>5. BackoffSchedule /\ ExhaustedMeansSpent
  BY DEF BackoffSchedule, ExhaustedMeansSpent
<1>6. Role BY DEF Role
<1> QED BY <1>1, <1>2, <1>3, <1>4, <1>5, <1>6, TypeParts DEF FlowInv

\* Every step of the loop keeps it.
LEMMA FlowStep == FlowInv /\ [FlowNext]_vars => FlowInv'
<1>r. FlowInv /\ [FlowNext]_vars => Role'
  BY TypeParts DEF FlowInv, FlowNext, vars, flowVars, Role
<1> SUFFICES ASSUME FlowInv, [FlowNext]_vars
             PROVE  Flags' /\ Values' /\ Place' /\ History'
  BY <1>r, TypePartsNext DEF FlowInv, Place, History
<1>a. Flags /\ Values /\ Place /\ History
  BY TypeParts DEF FlowInv, Place, History
<1>b. /\ attempt \in Nat /\ MaxRetries \in Nat /\ AttemptMax \in Nat
      /\ slept \in Seq(Nat) /\ Len(slept) \in Nat /\ Offsets \subseteq Nat
      /\ delay \in Nat /\ SleepMax \in Nat
  BY <1>a, MachineAssumption, FlowAssumption DEF Values
<1> DEFINE Same == UNCHANGED <<ending, slept, manual>>
<1>1. CASE stage = "start" /\ Start /\ GoTo("socket") /\ Same
  <2> USE <1>a, <1>b, <1>1 DEF Start, GoTo
  <2>1. Flags' BY DEF Flags
  <2>2. Values' BY DEF Values, Phase, ActionKind, Stage
  <2>3. Fresh' /\ Ended' BY DEF Place, Fresh, Ended, Live
  <2>4. Before' /\ After' /\ Backing'
    BY DEF Place, Fresh, Before, After, Backing
  <2>5. History' BY DEF Place, Fresh, Ended, History, BackoffSchedule, ExhaustedMeansSpent
  <2> QED BY <2>1, <2>2, <2>3, <2>4, <2>5 DEF Place
<1>2. CASE stage \in {"socket", "rejoin"} /\ SocketUp /\ GoTo("join") /\ Same
  <2> USE <1>a, <1>b, <1>2 DEF SocketUp, GoTo
  <2>1. Flags' BY DEF Flags
  <2>2. Values' BY DEF Values, Phase, ActionKind, Stage
  <2>3. Fresh' /\ Ended' BY DEF Place, Fresh, Ended, Live
  <2>4. Before' BY DEF Place, Before
  <2>5. After' BY DEF Place, Fresh, After, Live, Rejoining
  <2>6. Backing' BY DEF Backing
  <2>7. History' BY DEF Place, Ended, History, BackoffSchedule, ExhaustedMeansSpent
  <2> QED BY <2>1, <2>2, <2>3, <2>4, <2>5, <2>6, <2>7 DEF Place
<1>3. CASE /\ stage \in Rejoining /\ (\E offset \in Nat : Joined(offset))
           /\ GoTo("await") /\ Same
  <2>1. PICK offset \in Nat : Joined(offset) BY <1>3
  <2> QED BY <2>1, <1>3, <1>a, JoinKeeps DEF GoTo
<1>4. CASE stage \in Live /\ Fail /\ Same
  BY <1>4, <1>a, FailKeeps
<1>5. CASE PeerAppears /\ Same
  BY <1>5, <1>a, MoveKeeps DEF PeerAppears, GoTo
<1>6. CASE AnswerComes /\ Same
  BY <1>6, <1>a, MoveKeeps DEF AnswerComes, GoTo
<1>7. CASE TransferSucceeds /\ Same
  BY <1>7, <1>a, MoveKeeps DEF TransferSucceeds, GoTo
<1>8. CASE /\ AwaitBails \/ AnswerBails \/ ErrorBails \/ RedialFails \/ PromptQuit
           /\ UNCHANGED <<slept, manual>>
  <2>1. /\ stage' = "failed" /\ ending' \in Ending
        /\ ending' = "exhausted" => stage = "prompt"
        /\ UNCHANGED machineVars
    BY <1>8 DEF AwaitBails, AnswerBails, ErrorBails, RedialFails, PromptQuit, GiveUp, Ending
  <2> QED BY <2>1, <1>8, <1>a, MoveKeeps
<1>9. CASE /\ ChannelOpens /\ UNCHANGED <<ending, manual>>
           /\ slept' = (IF peerEverPresent THEN slept ELSE <<>>)
  <2> USE <1>a, <1>b, <1>9 DEF ChannelOpens, DcOpen, OpenKeepsBudget, GoTo
  <2>0. slept' \in Seq(Nat) /\ Len(slept') <= SleepMax BY DEF Values
  <2>1. Flags' BY DEF Flags
  <2>2. Values' BY <2>0 DEF Values, Phase, Stage
  <2>3. Fresh' /\ Ended' BY DEF Place, Fresh, Ended, Live
  <2>4. Before' BY DEF Before
  <2>5. attempt' = Len(slept')
    BY DEF Place, Before, After, Live
  <2>6. After' /\ Backing' BY <2>5 DEF After, Backing, Live, Rejoining
  <2>7. BackoffSchedule' BY DEF History, BackoffSchedule
  <2>8. ExhaustedMeansSpent' BY DEF Place, Ended, ExhaustedMeansSpent
  <2> QED BY <2>1, <2>2, <2>3, <2>4, <2>6, <2>7, <2>8 DEF Place, History
<1>10. CASE Progress /\ slept' = <<>> /\ manual' = FALSE /\ UNCHANGED ending
  <2> USE <1>a, <1>b, <1>10 DEF Progress
  <2>1. /\ attempt' = 0 /\ stage' = "transfer" /\ stage = "transfer"
        /\ UNCHANGED <<phase, socketUp, pendingJoin, timerArmed, deadlineArmed,
                       peerEverPresent, resumeFrom, delay>>
        /\ retryScheduled' = FALSE /\ acts' \subseteq ActionKind
    <3>1. CASE attempt > 0
      BY <3>1 DEF TransferProgress, RefundAll
    <3>2. CASE attempt = 0
      BY <3>2 DEF machineVars, Place, Fresh, Live, Flags, Values
    <3>3. attempt > 0 \/ attempt = 0 BY <1>b
    <3> HIDE <1>a, <1>b, <1>10 DEF Progress
    <3> QED BY <3>1, <3>2, <3>3
  <2>2. slept' \in Seq(Nat) /\ Len(slept') = 0 OBVIOUS
  <2>3. Flags' BY <2>1 DEF Flags
  <2>4. Values' BY <2>1, <2>2 DEF Values
  <2>5. Fresh' /\ Ended' BY <2>1 DEF Place, Fresh, Ended, Live
  <2>6. Before' /\ After' /\ Backing'
    BY <2>1, <2>2 DEF Before, After, Backing, Live, Rejoining, Place, Fresh
  <2>7. BackoffSchedule' BY <2>2 DEF BackoffSchedule
  <2>8. ExhaustedMeansSpent' BY <2>1 DEF Place, Ended, ExhaustedMeansSpent
  <2> QED BY <2>3, <2>4, <2>5, <2>6, <2>7, <2>8 DEF Place, History
<1>11. CASE Backoffs
  <2>0. /\ stage = "backoff" /\ stage' = "rejoin" /\ Len(slept) < SleepMax
        /\ UNCHANGED <<ending, manual>> /\ RetryTimer
    BY <1>11 DEF Backoffs, GoTo
  <2>1. attempt \in 1..MaxRetries /\ slept' = Append(slept, BackoffFor(attempt))
        /\ BackoffFor(attempt) \in Nat
    BY <1>11, <1>a, <1>b, <2>0, BackoffInTable DEF Backoffs, Place, Backing
  <2>2. slept' \in Seq(Nat) /\ Len(slept') = Len(slept) + 1
        /\ slept'[Len(slept) + 1] = BackoffFor(attempt)
        /\ \A i \in 1..Len(slept) : slept'[i] = slept[i]
    BY <2>1, <1>b
  <2>3. /\ UNCHANGED <<phase, socketUp, attempt, retryScheduled, peerEverPresent,
                       resumeFrom, delay>>
        /\ timerArmed' = FALSE
    BY <2>0 DEF RetryTimer
  <2>4. Flags' BY <1>a, <2>0, <2>3 DEF Flags, RetryTimer, DialOrJoin
  <2>5. acts' \subseteq ActionKind
    BY <2>0 DEF RetryTimer, DialOrJoin, ActionKind
  <2>6. Values' BY <1>a, <1>b, <2>0, <2>2, <2>3, <2>5 DEF Values, Stage
  <2>7. Fresh' /\ Ended' BY <1>a, <2>0, <2>3 DEF Place, Fresh, Ended, Live
  <2>8. Before' BY <1>a, <1>b, <2>0, <2>1, <2>3 DEF Place, Before
  <2>9. After'
    BY <1>a, <1>b, <2>0, <2>2, <2>3 DEF Place, After, Live, Rejoining
  <2>10. Backing' BY <2>0 DEF Backing
  <2>11. BackoffSchedule'
    <3>1. CASE peerEverPresent
      <4>1. attempt = Len(slept) + 1 BY <1>a, <2>0, <3>1 DEF Place, After
      <4>2. \A i \in 1..Len(slept) : slept[i] = BackoffFor(i)
        BY <1>a, <3>1 DEF History, BackoffSchedule
      <4>3. \A i \in 1..Len(slept') : slept'[i] = BackoffFor(i)
        <5> TAKE i \in 1..Len(slept')
        <5>1. CASE i = Len(slept) + 1 BY <5>1, <4>1, <2>2
        <5>2. CASE i # Len(slept) + 1
          <6>1. i \in 1..Len(slept) BY <5>2, <2>2, <1>b
          <6> QED BY <6>1, <4>2, <2>2
        <5> QED BY <5>1, <5>2
      <4> QED BY <4>1, <4>3, <2>1, <2>2, <1>b DEF BackoffSchedule
    <3>2. CASE ~peerEverPresent BY <3>2, <2>3 DEF BackoffSchedule
    <3> QED BY <3>1, <3>2
  <2>12. ExhaustedMeansSpent' BY <1>a, <2>0 DEF Place, Ended, ExhaustedMeansSpent
  <2> QED BY <2>4, <2>6, <2>7, <2>8, <2>9, <2>10, <2>11, <2>12 DEF Place, History
<1>12. CASE PromptRetry
  <2> USE <1>a, <1>b, <1>12 DEF PromptRetry, ManualRetry, DialOrJoin, GoTo
  <2>0. ~Terminal BY DEF Place, Fresh, Terminal
  <2>1. slept' \in Seq(Nat) /\ Len(slept') = 0 OBVIOUS
  <2>2. Flags' BY <2>0 DEF Flags
  <2>3. Values' BY <2>0, <2>1 DEF Values, Phase, ActionKind, Stage
  <2>4. Fresh' /\ Ended' BY <2>0 DEF Place, Fresh, Ended, Live
  <2>5. Before' /\ After' /\ Backing'
    BY <2>0, <2>1 DEF Before, After, Backing, Live, Rejoining
  <2>6. BackoffSchedule' BY <2>1 DEF BackoffSchedule
  <2>7. ExhaustedMeansSpent' BY DEF Place, Ended, ExhaustedMeansSpent
  <2> QED BY <2>2, <2>3, <2>4, <2>5, <2>6, <2>7 DEF Place, History
<1>13. CASE UNCHANGED vars
  <2> USE <1>a, <1>13 DEF vars, machineVars, flowVars
  <2>1. Flags' BY DEF Flags
  <2>2. Values' BY DEF Values
  <2>3. Place' BY DEF Place, Fresh, Before, After, Backing, Ended
  <2>4. History' BY DEF History, BackoffSchedule, ExhaustedMeansSpent
  <2> QED BY <2>1, <2>2, <2>3, <2>4
<1>14. CASE FlowNext
  <2>1. CASE Startup /\ Same
    <3>1. CASE stage = "join" /\ \E offset \in Offsets : Joined(offset)
      <4>1. stage \in Rejoining BY <3>1 DEF Rejoining
      <4>2. \E offset \in Nat : Joined(offset) BY <3>1, <1>b
      <4> QED BY <4>1, <4>2, <3>1, <2>1, <1>3 DEF Startup, GoTo
    <3> QED BY <3>1, <2>1, <1>1, <1>2 DEF Startup, GoTo
  <2>2. CASE Rejoin /\ Same
    <3>1. stage \in Rejoining BY <2>2 DEF Rejoin, Rejoining
    <3>2. \E offset \in Nat : Joined(offset) BY <2>2, <1>b DEF Rejoin
    <3> QED BY <3>1, <3>2, <2>2, <1>3 DEF Rejoin
  <2>3. CASE (AwaitTimesOut \/ ChannelTimesOut \/ TransferBreaks) /\ Same
    <3>1. stage \in Live /\ Fail
      BY <2>3 DEF AwaitTimesOut, ChannelTimesOut, TransferBreaks, Live
    <3> QED BY <3>1, <2>3, <1>4
  <2>4. CASE Redial /\ Same
    BY <2>4, <1>2 DEF Redial
  <2> QED BY <1>14, <2>1, <2>2, <2>3, <2>4, <1>5, <1>6, <1>7, <1>8, <1>9,
             <1>10, <1>11, <1>12 DEF FlowNext, Loop
<1> QED BY <1>13, <1>14

\* FlowInv is an invariant of the loop.
THEOREM FlowInvariant == FlowSpec => []FlowInv
<1>1. FlowInit => FlowInv BY FlowInitial
<1>2. FlowInv /\ [FlowNext]_vars => FlowInv' BY FlowStep
<1> QED BY <1>1, <1>2, PTL DEF FlowSpec

\* The machine and the loop around it keep their types.
THEOREM FlowTypeCorrect == FlowSpec => []TypeOK
<1>1. FlowInv => TypeOK BY DEF FlowInv
<1> QED BY <1>1, FlowInvariant, PTL

\* The sleeps of a climb are the backoff table, in order, at most MaxRetries
\* (machine_retry!, retry_delay_ms, arm_retry).
THEOREM SleepsFollowTable == FlowSpec => []BackoffSchedule
<1>1. FlowInv => BackoffSchedule BY DEF FlowInv
<1> QED BY <1>1, FlowInvariant, PTL

\* A re-attempt that nobody asked for waits for its peer with a timeout
\* (await_ready and await_offer are entered with attempts() # 0).
THEOREM ReattemptsAreBounded == FlowSpec => []RetryWaitsAreBounded
<1>1. FlowInv => RetryWaitsAreBounded
  <2> SUFFICES ASSUME FlowInv, stage = "await", peerEverPresent, ~manual
               PROVE  attempt \in 1..MaxRetries
    BY DEF RetryWaitsAreBounded
  <2>1. MaxRetries \in Nat /\ Len(slept) \in Nat
    BY MachineAssumption DEF FlowInv, TypeOK
  <2>2. attempt = Len(slept) /\ Len(slept) >= 1
    BY DEF FlowInv, After, Live
  <2>3. Len(slept) <= MaxRetries BY DEF FlowInv, BackoffSchedule
  <2> QED BY <2>1, <2>2, <2>3
<1> QED BY <1>1, FlowInvariant, PTL

\* The loop gives up for lack of budget only after every retry (the Stopped
\* arm of machine_retry!).
THEOREM GivingUpIsEarned == FlowSpec => []ExhaustedMeansSpent
<1>1. FlowInv => ExhaustedMeansSpent BY DEF FlowInv
<1> QED BY <1>1, FlowInvariant, PTL

-----------------------------------------------------------------------------
(* The command line.                                                       *)

\* A directory that is accepted as text or as a password was asked for as one.
LEMMA DirectoryAsText ==
  ASSUME NEW f \in ShareFlags, Accepted(f, TRUE), ResolvedType(f) \in {"txt", "password"}
  PROVE  Types(f) \cap {"txt", "pwd"} # {}
<1>1. ~WantsSync(f) /\ ~WantsZip(f)
  BY SMTT(30) DEF ResolvedType
<1>2. f.text \/ f.pwd \/ f.alias \in {"txt", "pwd"}
  BY <1>1 DEF Accepted, FolderFlagsAgree
<1>. QED
  BY <1>2 DEF Types

LEMMA OutcomeIsAsked ==
  ASSUME NEW o \in Outcomes[TRUE], o.type \in {"txt", "password"}
  PROVE  o.asked \cap {"txt", "pwd"} # {}
<1>1. PICK f \in ShareFlags : Accepted(f, TRUE) /\ o = Outcome(f)
  BY DEF Outcomes
<1>2. Types(f) \cap {"txt", "pwd"} # {}
  BY <1>1, DirectoryAsText DEF Outcome
<1>. QED
  BY <1>1, <1>2 DEF Outcome

-----------------------------------------------------------------------------
(* What the owner holds and what the server stores.                        *)

\* An archive is a sequence of names; a share is a record that holds one.
IsArchive(a) == Len(a) \in Nat /\ DOMAIN a = 1..Len(a)
IsStored(s) ==
  s.live => /\ DOMAIN s = {"live", "version", "type", "pwd", "ext", "oneTime", "archive"}
            /\ s.version \in Int /\ IsArchive(s.archive)

\* A command that holds content as the text of a path was told to.
IsAsked(o) ==
  /\ "pc" \in DOMAIN o
  /\ o.pc \in {"limit", "upload", "handed over"} =>
       (o.content.is = "dir" /\ o.flag \in {"txt", "password"}
          => o.asked \cap {"txt", "pwd"} # {})

OwnerInv == IsAsked(owner) /\ IsStored(share)

LEMMA ArchivesAreSequences == \A a \in Archives \cup {NoArchive} : IsArchive(a)
  BY DEF Archives, NoArchive, IsArchive

LEMMA GoneIsStored == IsStored(Gone)
  BY DEF Gone, IsStored

LEMMA CreatedIsStored ==
  ASSUME NEW archive, IsArchive(archive), NEW type, NEW pwd, NEW ext, NEW oneTime
  PROVE  IsStored([live |-> TRUE, version |-> 1, type |-> type, pwd |-> pwd, ext |-> ext,
                   oneTime |-> oneTime, archive |-> archive])
  BY DEF IsStored

LEMMA ReplacedIsStored ==
  ASSUME NEW s, IsStored(s), s.live, NEW ext
  PROVE  IsStored([s EXCEPT !.version = @ + 1, !.ext = ext, !.archive = NoArchive])
  BY ArchivesAreSequences DEF IsStored

LEMMA OwnerStep ==
  ASSUME OwnerInv, [StoreNext]_storeVars
  PROVE  OwnerInv'
<1>. USE DEF OwnerInv
<1>1. CASE Share
  <2>1. PICK content \in Contents : \E o \in Outcomes[content.is = "dir"] :
          /\ OwnerGoes(IF o.mode = "u"
               THEN [pc |-> "limit", left |-> owner.left, content |-> content,
                     flag |-> o.type, asked |-> o.asked]
               ELSE [pc |-> "handed over", left |-> 0, content |-> content,
                     flag |-> o.type, asked |-> o.asked])
          /\ UNCHANGED share
    BY <1>1 DEF Share
  <2>2. PICK o \in Outcomes[content.is = "dir"] :
          /\ OwnerGoes(IF o.mode = "u"
               THEN [pc |-> "limit", left |-> owner.left, content |-> content,
                     flag |-> o.type, asked |-> o.asked]
               ELSE [pc |-> "handed over", left |-> 0, content |-> content,
                     flag |-> o.type, asked |-> o.asked])
          /\ UNCHANGED share
    BY <2>1
  <2>3. /\ "pc" \in DOMAIN owner' /\ owner'.content = content
        /\ owner'.flag = o.type /\ owner'.asked = o.asked
    BY <2>2 DEF OwnerGoes
  <2>4. ASSUME content.is = "dir", o.type \in {"txt", "password"}
        PROVE  o.asked \cap {"txt", "pwd"} # {}
    <3>1. (content.is = "dir") = TRUE
      BY <2>4
    <3>2. o \in Outcomes[TRUE]
      BY <3>1, Zenon
    <3>. QED
      BY <2>4, <3>2, OutcomeIsAsked
  <2>5. IsAsked(owner')
    BY <2>3, <2>4 DEF IsAsked
  <2>. QED
    BY <2>2, <2>5
<1>2. CASE Refuse
  <2>1. owner' = [pc |-> "refused", left |-> 0] /\ share' = share
    BY <1>2 DEF Refuse, OwnerGoes
  <2>. QED
    BY <2>1 DEF IsAsked
<1>3. CASE FetchServerLimit
  <2>1. PICK limit : owner' = [pc |-> "upload", left |-> owner.left, content |-> owner.content,
                               flag |-> owner.flag, asked |-> owner.asked, limit |-> limit]
    BY <1>3 DEF FetchServerLimit, OwnerGoes
  <2>2. owner.pc = "limit" /\ share' = share
    BY <1>3 DEF FetchServerLimit
  <2>. QED
    BY <2>1, <2>2 DEF IsAsked
<1>4. CASE CreateShare
  <2>1. IsAsked(owner')
    <3>1. owner'.pc \in {"shared", "refused"} /\ "pc" \in DOMAIN owner'
      BY <1>4 DEF CreateShare, OwnerGoes
    <3>. QED
      BY <3>1 DEF IsAsked
  <2>2. IsStored(share')
    <3>1. CASE UNCHANGED share
      BY <3>1
    <3>2. CASE ~UNCHANGED share
      <4>1. PICK oneTime \in BOOLEAN, archive \in Archives \cup {NoArchive} :
              share' = [live |-> TRUE, version |-> 1,
                        type |-> ShareContentType(owner.flag), pwd |-> "pwd" \in owner.asked,
                        ext |-> owner.content.ext, oneTime |-> oneTime,
                        archive |-> archive]
        BY <1>4, <3>2 DEF CreateShare
      <4>. QED
        BY <4>1, ArchivesAreSequences, CreatedIsStored
    <3>. QED
      BY <3>1, <3>2
  <2>. QED
    BY <2>1, <2>2
<1>5. CASE Manage
  <2>1. owner'.pc = "verify" /\ "pc" \in DOMAIN owner' /\ UNCHANGED share
    BY <1>5 DEF Manage, OwnerGoes
  <2>. QED
    BY <2>1 DEF IsAsked
<1>6. CASE VerifyOwner
  <2>1. owner'.pc \in {"act", "shared"} /\ "pc" \in DOMAIN owner' /\ UNCHANGED share
    BY <1>6 DEF VerifyOwner, OwnerGoes, IsAsked
  <2>. QED
    BY <2>1 DEF IsAsked
<1>7. CASE Act
  <2>1. owner'.pc = "shared" /\ "pc" \in DOMAIN owner'
    BY <1>7 DEF Act, OwnerGoes
  <2>2. \/ share' \in {share, Gone}
        \/ share.live /\ share' = [share EXCEPT !.version = @ + 1, !.ext = owner.content.ext,
                                                 !.archive = NoArchive]
    BY <1>7 DEF Act
  <2>3. IsStored(share')
    <3>1. CASE share' \in {share, Gone}
      BY <3>1, GoneIsStored
    <3>2. CASE share.live /\ share' = [share EXCEPT !.version = @ + 1,
                                        !.ext = owner.content.ext, !.archive = NoArchive]
      <4>1. IsStored([share EXCEPT !.version = @ + 1, !.ext = owner.content.ext,
                                   !.archive = NoArchive])
        BY <3>2, ReplacedIsStored
      <4>. QED
        BY <3>2, <4>1
    <3>. QED
      BY <2>2, <3>1, <3>2
  <2>. QED
    BY <2>1, <2>3 DEF IsAsked
<1>8. ASSUME NEW g \in Getters,
             \/ FetchMetadata(g) \/ DecryptChallenge(g) \/ FetchPayload(g) \/ ShowText(g)
             \/ DeduplicatePath(g) \/ WriteFile(g)
             \/ BeginExtract(g) \/ ExtractEntry(g) \/ ExtractFails(g) \/ FinishExtract(g)
      PROVE  OwnerInv'
  <2>1. owner' = owner /\ share' \in {share, Gone}
    BY <1>8 DEF FetchMetadata, DecryptChallenge, FetchPayload, ShowText, DeduplicatePath,
       WriteFile, BeginExtract, ExtractEntry, ExtractFails, FinishExtract
  <2>. QED
    BY <2>1, GoneIsStored
<1>9. CASE UNCHANGED storeVars
  BY <1>9 DEF storeVars
<1>. QED
  BY <1>1, <1>2, <1>3, <1>4, <1>5, <1>6, <1>7, <1>8, <1>9 DEF StoreNext

\* For every command line: a directory is stored, or handed to a P2P flow, as
\* the words of its path only when that was asked for (validate_folder_flags).
THEOREM DirectoryStaysADirectory == StoreSpec => []DirectoryIsNeverSentAsText
<1>1. StoreInit => OwnerInv
  BY GoneIsStored DEF StoreInit, OwnerInv, IsAsked
<1>2. OwnerInv /\ [StoreNext]_storeVars => OwnerInv'
  BY OwnerStep
<1>3. OwnerInv => DirectoryIsNeverSentAsText
  BY DEF OwnerInv, IsAsked, DirectoryIsNeverSentAsText
<1>. QED
  BY <1>1, <1>2, <1>3, PTL DEF StoreSpec

-----------------------------------------------------------------------------
(* The directory, and a run of `get` in it.                                *)

IsDisk(d) ==
  /\ d \in [top : [ToSet(Names) -> Int], dest : BOOLEAN, tree : [Inside -> Int]]
  /\ ~d.dest => d.tree = EmptyDisk.tree

Steps == {"named", "extract", "entries"}
IsPayload(p) == p.version \in Int /\ IsArchive(p.archive)
Done(r) == {r.payload.archive[k] : k \in 1..(r.i - 1)} \cap Inside

IsRun(r) ==
  /\ DOMAIN r = {"pc", "noExtract", "replaceDelete", "payload", "path", "before", "alone",
                 "i", "existed"}
  /\ IsPayload(r.payload) /\ r.path \in ToSet(Names) /\ IsDisk(r.before)
  /\ r.alone \in BOOLEAN /\ r.existed \in BOOLEAN
  /\ r.i \in 1..(Len(r.payload.archive) + 1)
  /\ r.pc \in {"named", "extract"} => r.i = 1
  /\ r.pc \in {"extract", "entries"} => r.payload.archive # NoArchive /\ ~r.noExtract

\* What a run that has had the directory to itself finds there.
WithFile(r) == [r.before EXCEPT !.top[r.path] = r.payload.version]
Unpacked(r) ==
  [n \in Inside |-> IF n \in Done(r) THEN r.payload.version ELSE r.before.tree[n]]
Finds(r, d) ==
  /\ r.pc = "named" => d = r.before
  /\ r.pc = "extract" => d = WithFile(r)
  /\ r.pc = "entries" =>
       /\ d.top = WithFile(r).top /\ d.dest /\ d.tree = Unpacked(r)
       /\ r.existed = r.before.dest

RunFits(r, d) ==
  /\ r.pc = "payload" => IsPayload(r.payload)
  /\ r.pc \in Steps => IsRun(r) /\ (r.alone => Finds(r, d))

\* Two runs are at it at once only if neither is alone.
Sole == \A g, h \in Getters : Saving(g) /\ get[g].alone /\ Saving(h) => g = h

DiskInv ==
  /\ OwnerInv
  /\ get = [g \in Getters |-> get[g]]
  /\ IsDisk(disk)
  /\ \A g \in Getters : RunFits(get[g], disk)
  /\ Sole

-----------------------------------------------------------------------------
(* Moves of one run.                                                       *)

LEMMA Moved ==
  ASSUME NEW r, IsRun(r), NEW p
  PROVE  LET m == [r EXCEPT !.pc = p]
         IN /\ DOMAIN m = DOMAIN r /\ m.pc = p
            /\ m.payload = r.payload /\ m.path = r.path /\ m.before = r.before
            /\ m.alone = r.alone /\ m.i = r.i /\ m.existed = r.existed
            /\ m.noExtract = r.noExtract /\ m.replaceDelete = r.replaceDelete
  BY DEF IsRun

LEMMA MovedIsRun ==
  ASSUME NEW r, IsRun(r), NEW p, p \in {"named", "extract"} => r.i = 1,
         p \in {"extract", "entries"} => r.payload.archive # NoArchive /\ ~r.noExtract
  PROVE  IsRun([r EXCEPT !.pc = p])
  BY Moved DEF IsRun

LEMMA NotAlone ==
  ASSUME NEW r, IsRun(r), NEW d
  PROVE  LET m == [r EXCEPT !.alone = FALSE]
         IN /\ m.pc = r.pc /\ m.path = r.path /\ m.before = r.before /\ m.alone = FALSE
            /\ r.pc \in Steps => RunFits(m, d)
<1>. DEFINE m == [r EXCEPT !.alone = FALSE]
<1>1. /\ DOMAIN m = DOMAIN r /\ m.pc = r.pc
      /\ m.payload = r.payload /\ m.path = r.path /\ m.before = r.before
      /\ m.alone = FALSE /\ m.i = r.i /\ m.existed = r.existed
      /\ m.noExtract = r.noExtract
  BY DEF IsRun
<1>2. IsRun(m)
  <2>. HIDE DEF m
  <2>. QED
    BY <1>1 DEF IsRun
<1>. QED
  BY <1>1, <1>2 DEF RunFits, Steps

LEMMA TopWritten ==
  ASSUME NEW d, IsDisk(d), NEW p \in ToSet(Names), NEW v \in Int
  PROVE  /\ IsDisk([d EXCEPT !.top[p] = v])
         /\ [d EXCEPT !.top[p] = v].top = [d.top EXCEPT ![p] = v]
         /\ [d EXCEPT !.top[p] = v].dest = d.dest
         /\ [d EXCEPT !.top[p] = v].tree = d.tree
  BY DEF IsDisk

\* One run's turn: the others are where they were, in a directory that is
\* theirs too.
LEMMA Turn ==
  ASSUME DiskInv, NEW g \in Getters, Saving(g), NEW r, GetGoes(g, r),
         OwnerInv', IsDisk(disk'), RunFits(r, disk'),
         r.pc \in Steps => r.alone = get[g].alone
  PROVE  DiskInv'
<1>. USE DEF DiskInv
<1>1. /\ get' = [h \in Getters |-> get'[h]]
      /\ get'[g] = r /\ \A h \in Getters \ {g} : get'[h] = get[h]
  BY DEF GetGoes
<1>2. ASSUME NEW h \in Getters
      PROVE  RunFits(get'[h], disk')
  <2>1. CASE h = g
    BY <1>1, <2>1
  <2>2. CASE h # g
    <3>1. get'[h] = get[h] /\ RunFits(get[h], disk)
      BY <1>1, <2>2
    <3>2. get[h].pc \in Steps => ~get[h].alone
      BY <2>2 DEF Sole, Saving, Steps
    <3>. QED
      BY <3>1, <3>2 DEF RunFits
  <2>. QED
    BY <2>1, <2>2
<1>3. Sole'
  BY <1>1 DEF Sole, Saving, Steps
<1>. QED
  BY <1>1, <1>2, <1>3

\* One run has moved, or all have stayed.
OnlyMoves(g) ==
  /\ get' = [h \in Getters |-> get'[h]]
  /\ \A h \in Getters \ {g} : get'[h] = get[h]

LEMMA GoesMoves ==
  ASSUME DiskInv, NEW g \in Getters, NEW r, GetGoes(g, r)
  PROVE  OnlyMoves(g) /\ get'[g] = r
  BY DEF GetGoes, OnlyMoves, DiskInv

\* A run that saves nothing yet, or no longer.
LEMMA Aside ==
  ASSUME DiskInv, NEW g \in Getters, OnlyMoves(g), OwnerInv', disk' = disk,
         get'[g].pc \notin Steps, get'[g].pc = "payload" => IsPayload(get'[g].payload)
  PROVE  DiskInv'
<1>. USE DEF DiskInv, OnlyMoves
<1>1. ASSUME NEW h \in Getters
      PROVE  RunFits(get'[h], disk')
  BY DEF RunFits
<1>2. Sole'
  BY DEF Sole, Saving, Steps
<1>. QED
  BY <1>1, <1>2

-----------------------------------------------------------------------------
(* The steps of a run.                                                     *)

LEMMA NamesListed ==
  /\ Len(Names) = 3 /\ ToSet(Names) = {Names[i] : i \in 1..3} /\ Names[1] = "doc"
  BY DEF Names, ToSet

\* deduplicate_path returns a name of the directory, and a free one when
\* there is one.
LEMMA DeduplicatedIsFree ==
  ASSUME NEW d
  PROVE  /\ Deduplicated(d) \in ToSet(Names)
         /\ (\E n \in ToSet(Names) : d.top[n] = None) => d.top[Deduplicated(d)] = None
<1>1. CASE Free(d) = {}
  <2>1. "doc" \in ToSet(Names)
    BY NamesListed
  <2>. QED
    BY <1>1, <2>1, NamesListed DEF Deduplicated, Free
<1>2. CASE Free(d) # {}
  <2>1. Free(d) \subseteq 1..3
    BY NamesListed DEF Free
  <2>2. \E m \in Free(d) : \A k \in Free(d) : m <= k
    BY <1>2, <2>1
  <2>3. Min(Free(d)) \in Free(d)
    BY <2>2 DEF Min
  <2>. QED
    BY <1>2, <2>1, <2>3, NamesListed DEF Deduplicated, Free
<1>. QED
  BY <1>1, <1>2

LEMMA DeduplicateStep ==
  ASSUME DiskInv, OwnerInv', NEW g \in Getters, DeduplicatePath(g)
  PROVE  DiskInv'
<1>. DEFINE others == {h \in Getters \ {g} : Saving(h)}
            mine == [pc |-> "named", noExtract |-> get[g].noExtract,
                     replaceDelete |-> get[g].replaceDelete, payload |-> get[g].payload,
                     path |-> Deduplicated(disk), before |-> disk, alone |-> others = {},
                     i |-> 1, existed |-> FALSE]
<1>. USE DEF DiskInv
<1>1. /\ get[g].pc = "payload" /\ disk' = disk
      /\ get' = [h \in Getters |-> IF h = g THEN mine
                                    ELSE IF h \in others THEN [get[h] EXCEPT !.alone = FALSE]
                                    ELSE get[h]]
  BY DEF DeduplicatePath
<1>2. IsPayload(get[g].payload)
  BY <1>1 DEF RunFits
<1>3. Deduplicated(disk) \in ToSet(Names)
  BY DeduplicatedIsFree
<1>. HIDE DEF others
<1>4. /\ mine.pc = "named" /\ mine.before = disk /\ mine.alone = (others = {})
      /\ IsRun(mine)
  BY <1>2, <1>3 DEF IsRun, IsPayload, IsArchive
<1>5. RunFits(mine, disk)
  BY <1>4 DEF RunFits, Finds
<1>. HIDE DEF mine
<1>6. \A h \in others : /\ h \in Getters /\ h # g /\ get[h].pc \in Steps /\ IsRun(get[h])
  BY DEF others, Saving, Steps, RunFits
<1>7. \A h \in others : /\ get'[h].pc \in Steps /\ ~get'[h].alone /\ RunFits(get'[h], disk)
  BY <1>1, <1>6, NotAlone
<1>8. \A h \in Getters \ others : h # g =>
        get'[h] = get[h] /\ get[h].pc \notin Steps
  BY <1>1 DEF others, Saving, Steps
<1>9. get'[g] = mine
  BY <1>1
<1>10. \A h \in Getters : RunFits(get'[h], disk')
  BY <1>1, <1>5, <1>7, <1>8, <1>9
<1>11. Sole'
  <2>1. SUFFICES ASSUME NEW h \in Getters, NEW k \in Getters,
                        get'[h].pc \in Steps, get'[h].alone, get'[k].pc \in Steps
                 PROVE  h = k
    BY DEF Sole, Saving, Steps
  <2>2. h = g
    BY <2>1, <1>7, <1>8
  <2>3. others = {}
    BY <2>1, <2>2, <1>4, <1>9
  <2>. QED
    BY <2>1, <2>2, <2>3, <1>8
<1>. QED
  BY <1>1, <1>10, <1>11

\* A run that ends: it may have changed the directory.
LEMMA LeavesStep ==
  ASSUME DiskInv, OwnerInv', NEW g \in Getters, Saving(g), NEW p, p \notin Steps \cup {"payload"},
         GetGoes(g, [get[g] EXCEPT !.pc = p]), IsDisk(disk')
  PROVE  DiskInv'
<1>1. IsRun(get[g])
  BY DEF Saving, DiskInv, RunFits, Steps
<1>2. [get[g] EXCEPT !.pc = p].pc = p
  BY <1>1, Moved
<1>3. RunFits([get[g] EXCEPT !.pc = p], disk')
  BY <1>2 DEF RunFits
<1>. QED
  BY <1>2, <1>3, Turn

LEMMA WriteStep ==
  ASSUME DiskInv, OwnerInv', NEW g \in Getters, WriteFile(g)
  PROVE  DiskInv'
<1>. DEFINE r == get[g]
<1>1. /\ r.pc = "named" /\ Saving(g) /\ IsRun(r) /\ r.i = 1 /\ IsDisk(disk)
      /\ r.alone => disk = r.before
  BY DEF WriteFile, Saving, DiskInv, RunFits, Steps, IsRun, Finds
<1>2. CASE /\ disk' = [disk EXCEPT !.top[get[g].path] = get[g].payload.version]
           /\ GetGoes(g, [get[g] EXCEPT !.pc = IF IsFolder(g) /\ ~get[g].noExtract
                                                THEN "extract" ELSE "saved"])
  <2>. DEFINE p == IF IsFolder(g) /\ ~get[g].noExtract THEN "extract" ELSE "saved"
              m == [r EXCEPT !.pc = p]
  <2>1. IsDisk(disk')
    BY <1>1, <1>2, TopWritten DEF IsRun, IsPayload
  <2>2. IsRun(m) /\ m.pc = p /\ m.alone = r.alone /\ m.before = r.before
          /\ m.path = r.path /\ m.payload = r.payload
    BY <1>1, Moved, MovedIsRun DEF IsFolder
  <2>3. p \in {"extract", "saved"}
    OBVIOUS
  <2>4. r.alone => disk' = WithFile(r)
    BY <1>1, <1>2 DEF WithFile
  <2>. HIDE DEF m, p, r
  <2>5. WithFile(m) = WithFile(r)
    BY <2>2 DEF WithFile
  <2>6. RunFits(m, disk')
    BY <2>2, <2>3, <2>4, <2>5 DEF RunFits, Finds, Steps
  <2>7. GetGoes(g, m) /\ m.alone = get[g].alone
    BY <1>2, <2>2 DEF m, p, r
  <2>. QED
    BY <1>1, <2>1, <2>6, <2>7, Turn
<1>3. CASE GetGoes(g, [get[g] EXCEPT !.pc = "aborted"]) /\ UNCHANGED disk
  <2>1. [get[g] EXCEPT !.pc = "aborted"].pc = "aborted"
    BY <1>1, Moved
  <2>. QED
    BY <1>3, <2>1, GoesMoves, Aside DEF Steps
<1>4. CASE /\ \E left \in {disk.top[get[g].path], Part} :
                disk' = [disk EXCEPT !.top[get[g].path] = left]
           /\ GetGoes(g, [get[g] EXCEPT !.pc = "aborted"])
  <2>1. PICK left \in {disk.top[get[g].path], Part} :
          disk' = [disk EXCEPT !.top[get[g].path] = left]
    BY <1>4
  <2>2. get[g].path \in ToSet(Names) /\ left \in Int
    BY <1>1, <2>1 DEF IsRun, IsDisk, Part
  <2>3. IsDisk(disk')
    BY <1>1, <2>1, <2>2, TopWritten
  <2>. QED
    BY <1>1, <1>4, <2>3, LeavesStep DEF Steps
<1>. QED
  BY <1>2, <1>3, <1>4 DEF WriteFile

\* What is under the name is this run's archive, or another's.
LEMMA FoundIsPayload ==
  ASSUME NEW g, IsRun(get[g]), get[g].payload.archive # NoArchive, IsDisk(disk),
         NEW found \in Found(g)
  PROVE  IsPayload(found) /\ found.archive # NoArchive
<1>. DEFINE there == disk.top[get[g].path]
<1>1. there \in Int
  BY DEF IsRun, IsDisk
<1>2. PICK a : /\ found = [version |-> there, archive |-> a]
               /\ a = get[g].payload.archive \/ a \in Archives
  BY DEF Found
<1>3. IsArchive(a) /\ a # NoArchive
  <2>1. \A x \in Archives : IsArchive(x)
    BY ArchivesAreSequences
  <2>2. \A x \in Archives : x # NoArchive
    BY DEF Archives, NoArchive
  <2>. QED
    BY <1>2, <2>1, <2>2 DEF IsRun, IsPayload
<1>. HIDE DEF there
<1>. QED
  BY <1>1, <1>2, <1>3 DEF IsPayload

LEMMA BeginStep ==
  ASSUME DiskInv, OwnerInv', NEW g \in Getters, BeginExtract(g)
  PROVE  DiskInv'
<1>. DEFINE r == get[g]
<1>1. /\ r.pc = "extract" /\ Saving(g) /\ IsRun(r) /\ r.i = 1 /\ IsDisk(disk)
      /\ r.alone => disk = WithFile(r)
  BY DEF BeginExtract, Saving, DiskInv, RunFits, Steps, IsRun, Finds
<1>2. CASE /\ \E found \in Found(g) :
                /\ "unsafe" \notin ToSet(found.archive)
                /\ GetGoes(g, [get[g] EXCEPT !.pc = "entries", !.payload = found,
                                             !.existed = DestExisted(disk)])
           /\ disk' = [disk EXCEPT !.dest = TRUE]
  <2>0. PICK found \in Found(g) :
          GetGoes(g, [get[g] EXCEPT !.pc = "entries", !.payload = found,
                                    !.existed = DestExisted(disk)])
    BY <1>2
  <2>. DEFINE m == [r EXCEPT !.pc = "entries", !.payload = found, !.existed = disk.dest]
  <2>1. IsDisk(disk') /\ disk'.top = disk.top /\ disk'.dest /\ disk'.tree = disk.tree
    BY <1>1, <1>2 DEF IsDisk
  <2>2. /\ DOMAIN m = DOMAIN r /\ m.pc = "entries"
        /\ m.payload = found /\ m.path = r.path /\ m.before = r.before
        /\ m.alone = r.alone /\ m.i = r.i /\ m.existed = disk.dest
        /\ m.noExtract = r.noExtract
    BY <1>1 DEF IsRun
  <2>3. GetGoes(g, m)
    BY <2>0 DEF DestExisted
  <2>4. disk.dest \in BOOLEAN
    BY <1>1 DEF IsDisk
  <2>5. IsPayload(found) /\ found.archive # NoArchive
    <3>1. get[g].payload.archive # NoArchive
      BY <1>1 DEF IsRun
    <3>. QED
      BY <1>1, <3>1, FoundIsPayload
  <2>5a. 1 \in 1..(Len(found.archive) + 1)
    BY <2>5 DEF IsPayload, IsArchive
  <2>5b. r.alone => found.version = r.payload.version
    <3>1. SUFFICES ASSUME r.alone PROVE found.version = r.payload.version
      OBVIOUS
    <3>2. disk.top[r.path] = r.payload.version
      BY <1>1, <3>1, TopWritten DEF WithFile, IsRun, IsPayload, IsDisk
    <3>. QED
      BY <3>2 DEF Found
  <2>. HIDE DEF m, r
  <2>6. IsRun(m)
    BY <1>1, <2>2, <2>4, <2>5, <2>5a DEF IsRun
  <2>7. ASSUME m.alone
        PROVE  Finds(m, disk')
    <3>1. disk = WithFile(r) /\ WithFile(m) = WithFile(r)
      BY <1>1, <2>2, <2>5b, <2>7 DEF WithFile
    <3>2. disk.dest = r.before.dest /\ disk.tree = r.before.tree
      BY <1>1, <3>1, TopWritten DEF WithFile, IsRun, IsPayload
    <3>3. Done(m) = {}
      BY <1>1, <2>2 DEF Done
    <3>4. r.before.tree = Unpacked(m)
      <4>1. r.before.tree \in [Inside -> Int]
        BY <1>1 DEF IsRun, IsDisk
      <4>. QED
        BY <2>2, <3>3, <4>1 DEF Unpacked
    <3>. QED
      BY <2>1, <2>2, <3>1, <3>2, <3>4 DEF Finds
  <2>8. RunFits(m, disk')
    BY <2>2, <2>6, <2>7 DEF RunFits
  <2>. QED
    BY <1>1, <2>1, <2>2, <2>3, <2>8, Turn DEF r
<1>3. CASE GetGoes(g, [get[g] EXCEPT !.pc = "kept"]) /\ UNCHANGED disk
  <2>1. [get[g] EXCEPT !.pc = "kept"].pc = "kept"
    BY <1>1, Moved
  <2>. QED
    BY <1>3, <2>1, GoesMoves, Aside DEF Steps
<1>. QED
  BY <1>2, <1>3 DEF BeginExtract

\* A file of the folder opened, with its directories.
LEMMA OpenedIsDisk ==
  ASSUME IsDisk(disk), NEW g, Entry(g) \in Inside, NEW v \in Int
  PROVE  /\ IsDisk(Opened(g, disk, v)) /\ Opened(g, disk, v).top = disk.top
         /\ Opened(g, disk, v).dest = TRUE
         /\ \A n \in Inside : Opened(g, disk, v).tree[n]
                              = IF n = Entry(g) THEN v ELSE disk.tree[n]
<1>. DEFINE o == Opened(g, disk, v)
<1>1. o.top = disk.top /\ o.dest = TRUE /\ o.tree = [disk.tree EXCEPT ![Entry(g)] = v]
  BY DEF Opened, IsDisk
<1>2. o \in [top : [ToSet(Names) -> Int], dest : BOOLEAN, tree : [Inside -> Int]]
  BY DEF Opened, IsDisk
<1>3. \A n \in Inside : o.tree[n] = IF n = Entry(g) THEN v ELSE disk.tree[n]
  BY <1>1 DEF IsDisk
<1>. QED
  BY <1>1, <1>2, <1>3 DEF IsDisk

LEMMA EntryStep ==
  ASSUME DiskInv, OwnerInv', NEW g \in Getters, ExtractEntry(g)
  PROVE  DiskInv'
<1>. DEFINE r == get[g]
            m == [r EXCEPT !.i = @ + 1]
<1>1. /\ r.pc = "entries" /\ Saving(g) /\ IsRun(r) /\ IsDisk(disk)
      /\ r.alone => Finds(r, disk)
      /\ r.i <= Len(r.payload.archive)
  BY DEF ExtractEntry, Saving, DiskInv, RunFits, Steps
<1>2. /\ DOMAIN m = DOMAIN r /\ m.pc = "entries"
      /\ m.payload = r.payload /\ m.path = r.path /\ m.before = r.before
      /\ m.alone = r.alone /\ m.i = r.i + 1 /\ m.existed = r.existed
      /\ m.noExtract = r.noExtract
  BY <1>1 DEF IsRun
<1>3. GetGoes(g, m)
  BY DEF ExtractEntry
<1>4. Entry(g) = r.payload.archive[r.i]
  BY DEF Entry
<1>5. disk' = IF Entry(g) \in Inside THEN Opened(g, disk, r.payload.version) ELSE disk
  BY DEF ExtractEntry
<1>6. m.alone = get[g].alone
  BY <1>2
<1>. HIDE DEF m, r
<1>7. IsRun(m)
  BY <1>1, <1>2 DEF IsRun, IsPayload, IsArchive
<1>8. r.payload.version \in Int /\ r.i \in Nat \ {0}
  BY <1>1 DEF IsRun, IsPayload, IsArchive
<1>9. IsDisk(disk')
  BY <1>1, <1>5, <1>8, OpenedIsDisk
<1>10. Done(m) = Done(r) \cup ({Entry(g)} \cap Inside)
  BY <1>2, <1>4, <1>8 DEF Done
<1>11. ASSUME m.alone
       PROVE  Finds(m, disk')
  <2>1. /\ disk.top = WithFile(r).top /\ disk.dest /\ disk.tree = Unpacked(r)
        /\ r.existed = r.before.dest
    BY <1>1, <1>2, <1>11 DEF Finds
  <2>2. WithFile(m) = WithFile(r)
    BY <1>2 DEF WithFile
  <2>3. disk'.top = disk.top /\ disk'.dest
    BY <1>1, <1>5, <1>8, <2>1, OpenedIsDisk
  <2>4. disk'.tree = Unpacked(m)
    <3>1. CASE Entry(g) \in Inside
      <4>1. \A n \in Inside : disk'.tree[n]
              = IF n = Entry(g) THEN r.payload.version ELSE disk.tree[n]
        <5>1. disk' = Opened(g, disk, r.payload.version)
          BY <1>5, <3>1
        <5>2. \A n \in Inside : Opened(g, disk, r.payload.version).tree[n]
                = IF n = Entry(g) THEN r.payload.version ELSE disk.tree[n]
          BY <1>1, <1>8, <3>1, OpenedIsDisk
        <5>. QED
          BY <5>1, <5>2
      <4>2. Done(m) = Done(r) \cup {Entry(g)}
        BY <1>10, <3>1
      <4>3. disk'.tree \in [Inside -> Int]
        BY <1>9 DEF IsDisk
      <4>4. \A n \in Inside : disk'.tree[n] = Unpacked(m)[n]
        BY <1>2, <2>1, <3>1, <4>1, <4>2 DEF Unpacked
      <4>. QED
        BY <4>3, <4>4 DEF Unpacked
    <3>2. CASE Entry(g) \notin Inside
      <4>1. Done(m) = Done(r) /\ disk' = disk
        BY <1>5, <1>10, <3>2
      <4>. QED
        BY <1>2, <2>1, <4>1 DEF Unpacked
    <3>. QED
      BY <3>1, <3>2
  <2>. QED
    BY <1>2, <2>1, <2>2, <2>3, <2>4 DEF Finds
<1>12. RunFits(m, disk')
  BY <1>2, <1>7, <1>11 DEF RunFits
<1>. QED
  BY <1>1, <1>3, <1>6, <1>9, <1>12, Turn

\* What an extraction that fails may leave the directory as, before it
\* cleans up.
LEMMA FailedStep ==
  ASSUME DiskInv, NEW g \in Getters, ExtractFails(g)
  PROVE  /\ Saving(g) /\ IsRun(get[g]) /\ get[g].pc = "entries" /\ Entry(g) \in Inside
         /\ GetGoes(g, [get[g] EXCEPT !.pc = "kept"])
         /\ get[g].alone => Finds(get[g], disk)
         /\ \E d : /\ IsDisk(d) /\ disk' = CleanedUp(g, d)
                   /\ d.top = disk.top /\ (disk.dest => d.dest)
                   /\ d.tree[Entry(g)] \in {disk.tree[Entry(g)], Part}
                   /\ \A n \in Inside \ {Entry(g)} : d.tree[n] = disk.tree[n]
<1>1. /\ Saving(g) /\ IsRun(get[g]) /\ get[g].pc = "entries" /\ Entry(g) \in Inside
      /\ GetGoes(g, [get[g] EXCEPT !.pc = "kept"]) /\ IsDisk(disk)
      /\ get[g].alone => Finds(get[g], disk)
  BY DEF ExtractFails, Saving, DiskInv, RunFits, Steps
<1>2. PICK d \in {disk} \cup {Opened(g, disk, part) : part \in {disk.tree[Entry(g)], Part}} :
        disk' = CleanedUp(g, d)
  BY DEF ExtractFails
<1>3. CASE d = disk
  BY <1>1, <1>2, <1>3
<1>4. CASE d # disk
  <2>1. PICK part \in {disk.tree[Entry(g)], Part} : d = Opened(g, disk, part)
    BY <1>2, <1>4
  <2>2. part \in Int
    BY <1>1 DEF Part, IsDisk
  <2>3. /\ IsDisk(d) /\ d.top = disk.top /\ d.dest = TRUE
        /\ \A n \in Inside : d.tree[n] = IF n = Entry(g) THEN part ELSE disk.tree[n]
    <3>. DEFINE o == Opened(g, disk, part)
    <3>1. /\ IsDisk(o) /\ o.top = disk.top /\ o.dest = TRUE
          /\ \A n \in Inside : o.tree[n] = IF n = Entry(g) THEN part ELSE disk.tree[n]
      BY <1>1, <2>2, OpenedIsDisk
    <3>. QED
      BY <2>1, <3>1
  <2>4. /\ \A n \in Inside \ {Entry(g)} : d.tree[n] = disk.tree[n]
        /\ d.tree[Entry(g)] \in {disk.tree[Entry(g)], Part}
    BY <1>1, <2>1, <2>3 DEF IsDisk
  <2>. QED
    BY <1>1, <1>2, <2>3, <2>4
<1>. QED
  BY <1>3, <1>4

LEMMA CleanedIsDisk ==
  ASSUME NEW g, NEW d, IsDisk(d)
  PROVE  /\ IsDisk(CleanedUp(g, d)) /\ CleanedUp(g, d).top = d.top
         /\ ~get[g].existed => /\ CleanedUp(g, d).dest = FALSE
                               /\ CleanedUp(g, d).tree = EmptyDisk.tree
         /\ get[g].existed =>
              /\ CleanedUp(g, d).dest = d.dest
              /\ CleanedUp(g, d).tree = [n \in Inside |-> IF n \in Written(g) THEN None
                                                          ELSE d.tree[n]]
<1>. DEFINE none == EmptyDisk.tree
            left == [n \in Inside |-> IF n \in Written(g) THEN None ELSE d.tree[n]]
<1>1. none = [n \in Inside |-> None] /\ None \in Int
  BY DEF EmptyDisk, None
<1>2. none \in [Inside -> Int] /\ left \in [Inside -> Int]
  BY <1>1 DEF IsDisk
<1>3. ~d.dest => left = none
  BY <1>1 DEF IsDisk
<1>. HIDE DEF none, left
<1>4. CASE ~get[g].existed
  <2>1. CleanedUp(g, d) = [d EXCEPT !.dest = FALSE, !.tree = none]
    BY <1>4 DEF CleanedUp, none
  <2>. QED
    BY <1>2, <1>4, <2>1 DEF IsDisk, none
<1>5. CASE get[g].existed
  <2>1. CleanedUp(g, d) = [d EXCEPT !.tree = left]
    BY <1>5 DEF CleanedUp, RemovedFinished, left
  <2>2. /\ CleanedUp(g, d).top = d.top /\ CleanedUp(g, d).dest = d.dest
        /\ CleanedUp(g, d).tree = left
    BY <2>1 DEF IsDisk
  <2>3. CleanedUp(g, d) \in [top : [ToSet(Names) -> Int], dest : BOOLEAN, tree : [Inside -> Int]]
    BY <1>2, <2>1 DEF IsDisk
  <2>. QED
    BY <1>3, <1>5, <2>2, <2>3 DEF IsDisk, none, left
<1>. QED
  BY <1>4, <1>5

LEMMA FailsStep ==
  ASSUME DiskInv, OwnerInv', NEW g \in Getters, ExtractFails(g)
  PROVE  DiskInv'
<1>1. IsDisk(disk') /\ Saving(g) /\ IsRun(get[g]) /\ GetGoes(g, [get[g] EXCEPT !.pc = "kept"])
  <2>1. PICK d : IsDisk(d) /\ disk' = CleanedUp(g, d)
    BY FailedStep
  <2>2. IsDisk(CleanedUp(g, d))
    BY <2>1, CleanedIsDisk
  <2>. QED
    BY <2>1, <2>2, FailedStep
<1>2. [get[g] EXCEPT !.pc = "kept"].pc = "kept"
  BY <1>1, Moved
<1>3. RunFits([get[g] EXCEPT !.pc = "kept"], disk')
  BY <1>2 DEF RunFits, Steps
<1>. QED
  BY <1>1, <1>2, <1>3, Turn DEF Steps

LEMMA FinishedDisk ==
  ASSUME DiskInv, NEW g \in Getters, FinishExtract(g), NEW undeleted,
         disk' = [disk EXCEPT !.top[get[g].path] = None, !.tree = Pruned(g, disk, undeleted)]
  PROVE  /\ IsDisk(disk') /\ disk'.top = [disk.top EXCEPT ![get[g].path] = None]
         /\ disk'.dest = disk.dest /\ disk'.tree = Pruned(g, disk, undeleted)
<1>. DEFINE left == Pruned(g, disk, undeleted)
<1>1. IsRun(get[g]) /\ IsDisk(disk) /\ get[g].pc = "entries"
  BY DEF FinishExtract, DiskInv, RunFits, Steps
<1>2. EmptyDisk.tree = [n \in Inside |-> None] /\ None \in Int
  BY DEF EmptyDisk, None
<1>3. left \in [Inside -> Int]
  BY <1>1, <1>2 DEF Pruned, IsDisk
<1>4. disk.tree = EmptyDisk.tree => left = EmptyDisk.tree
  BY <1>2 DEF Pruned
<1>5. get[g].path \in ToSet(Names)
  BY <1>1 DEF IsRun
<1>. HIDE DEF left
<1>6. disk' = [disk EXCEPT !.top[get[g].path] = None, !.tree = left]
  BY DEF left
<1>7. /\ disk'.top = [disk.top EXCEPT ![get[g].path] = None]
      /\ disk'.dest = disk.dest /\ disk'.tree = left
  BY <1>1, <1>6 DEF IsDisk
<1>8. [disk.top EXCEPT ![get[g].path] = None] \in [ToSet(Names) -> Int]
  BY <1>1, <1>2, <1>5 DEF IsDisk
<1>9. disk' \in [top : [ToSet(Names) -> Int], dest : BOOLEAN, tree : [Inside -> Int]]
  BY <1>1, <1>3, <1>6, <1>7, <1>8 DEF IsDisk
<1>. QED
  BY <1>1, <1>4, <1>7, <1>9 DEF IsDisk, left

\* How an extraction that has written every entry ends.
LEMMA FinishForms ==
  ASSUME NEW g, FinishExtract(g)
  PROVE  \/ /\ disk' = [disk EXCEPT !.top[get[g].path] = None, !.tree = Pruned(g, disk, {})]
            /\ GetGoes(g, [get[g] EXCEPT !.pc = "saved"])
         \/ \E undeleted :
              /\ disk' = [disk EXCEPT !.top[get[g].path] = None,
                                      !.tree = Pruned(g, disk, undeleted)]
              /\ GetGoes(g, [get[g] EXCEPT !.pc = "warned"])
         \/ /\ disk' = [disk EXCEPT !.top[get[g].path] = None]
            /\ GetGoes(g, [get[g] EXCEPT !.pc = "aborted"])
         \/ GetGoes(g, [get[g] EXCEPT !.pc = "aborted"]) /\ disk' = disk
<1>1. CASE /\ disk.top[get[g].path] # None
           /\ \E undeleted \in SUBSET Extras(g, disk) :
                /\ disk' = [disk EXCEPT !.top[get[g].path] = None,
                                        !.tree = Pruned(g, disk, undeleted)]
                /\ GetGoes(g, [get[g] EXCEPT !.pc = IF undeleted = {} THEN "saved" ELSE "warned"])
  <2>1. PICK undeleted :
          /\ disk' = [disk EXCEPT !.top[get[g].path] = None,
                                  !.tree = Pruned(g, disk, undeleted)]
          /\ GetGoes(g, [get[g] EXCEPT !.pc = IF undeleted = {} THEN "saved" ELSE "warned"])
    BY <1>1
  <2>2. CASE undeleted = {}
    BY <2>1, <2>2
  <2>3. CASE undeleted # {}
    BY <2>1, <2>3
  <2>. QED
    BY <2>2, <2>3
<1>. QED
  BY <1>1 DEF FinishExtract

LEMMA FinishStep ==
  ASSUME DiskInv, OwnerInv', NEW g \in Getters, FinishExtract(g)
  PROVE  DiskInv'
<1>1. Saving(g) /\ IsRun(get[g]) /\ IsDisk(disk)
  BY DEF FinishExtract, Saving, DiskInv, RunFits, Steps
<1>2. ASSUME NEW undeleted, NEW p \in {"saved", "warned"},
             disk' = [disk EXCEPT !.top[get[g].path] = None, !.tree = Pruned(g, disk, undeleted)],
             GetGoes(g, [get[g] EXCEPT !.pc = p])
      PROVE  DiskInv'
  <2>1. IsDisk(disk')
    BY <1>2, FinishedDisk
  <2>. QED
    BY <1>1, <1>2, <2>1, LeavesStep DEF Steps
<1>3. ASSUME IsDisk(disk'), GetGoes(g, [get[g] EXCEPT !.pc = "aborted"])
      PROVE  DiskInv'
  BY <1>1, <1>3, LeavesStep DEF Steps
<1>4. disk' = [disk EXCEPT !.top[get[g].path] = None] => IsDisk(disk')
  <2>1. get[g].path \in ToSet(Names) /\ None \in Int
    BY <1>1 DEF IsRun, None
  <2>. QED
    BY <1>1, <2>1, TopWritten
<1>5. disk' = disk => IsDisk(disk')
  BY <1>1
<1>. QED
  BY <1>2, <1>3, <1>4, <1>5, FinishForms

-----------------------------------------------------------------------------
(* The invariant.                                                          *)

GetterActs(g) ==
  \/ FetchMetadata(g) \/ DecryptChallenge(g) \/ FetchPayload(g) \/ ShowText(g)
  \/ DeduplicatePath(g) \/ WriteFile(g)
  \/ BeginExtract(g) \/ ExtractEntry(g) \/ ExtractFails(g) \/ FinishExtract(g)

\* A run that has not come to the directory.
Quiet(r) ==
  /\ r.pc \notin Steps \cup {"saved", "kept"}
  /\ r.pc = "payload" => IsPayload(r.payload)

LEMMA FetchStep ==
  ASSUME DiskInv, NEW g \in Getters,
         FetchMetadata(g) \/ DecryptChallenge(g) \/ FetchPayload(g) \/ ShowText(g)
  PROVE  disk' = disk /\ OnlyMoves(g) /\ Quiet(get'[g])
<1>1. ASSUME FetchMetadata(g)
      PROVE  disk' = disk /\ \E r : Quiet(r) /\ GetGoes(g, r)
  <2>1. disk' = disk /\ get[g].pc = "idle"
    BY <1>1 DEF FetchMetadata
  <2>2. \E right \in BOOLEAN :
          \/ Ends(g, "p2p") \/ Ends(g, "unavailable")
          \/ GetGoes(g, [pc |-> "challenge", version |-> share.version, right |-> right])
    <3>1. PICK bareId \in BOOLEAN, right \in BOOLEAN :
            CASE ~share.live /\ bareId  -> Ends(g, "p2p")
              [] ~share.live /\ ~bareId -> Ends(g, "unavailable")
              [] OTHER -> GetGoes(g, [pc |-> "challenge", version |-> share.version,
                                      right |-> right])
      BY <1>1, Zenon DEF FetchMetadata
    <3>2. CASE ~share.live /\ bareId
      BY <3>1, <3>2
    <3>3. CASE ~share.live /\ ~bareId
      BY <3>1, <3>3
    <3>4. CASE share.live
      BY <3>1, <3>4
    <3>. QED
      BY <3>2, <3>3, <3>4
  <2>. QED
    BY <2>1, <2>2 DEF Ends, Quiet, Steps
<1>2. ASSUME DecryptChallenge(g)
      PROVE  disk' = disk /\ \E r : Quiet(r) /\ GetGoes(g, r)
  BY <1>2 DEF DecryptChallenge, Ends, Quiet, Steps
<1>3. ASSUME FetchPayload(g)
      PROVE  disk' = disk /\ \E r : Quiet(r) /\ GetGoes(g, r)
  <2>1. get[g].pc = "answer" /\ disk' = disk
    BY <1>3 DEF FetchPayload
  <2>2. CASE share.live /\ share.version = get[g].version
    <3>1. IsPayload(Payload(share))
      BY <2>2 DEF DiskInv, OwnerInv, IsStored, Payload, IsPayload
    <3>2. \/ Ends(g, "lost")
          \/ \E noExtract, replaceDelete \in BOOLEAN :
               GetGoes(g, [pc |-> "payload", noExtract |-> noExtract,
                           replaceDelete |-> replaceDelete, payload |-> Payload(share)])
      BY <1>3, <2>2 DEF FetchPayload
    <3>. QED
      BY <2>1, <3>1, <3>2 DEF Ends, Quiet, Steps
  <2>3. CASE ~(share.live /\ share.version = get[g].version)
    BY <1>3, <2>1, <2>3 DEF FetchPayload, Ends, Quiet, Steps
  <2>. QED
    BY <2>2, <2>3
<1>4. ASSUME ShowText(g)
      PROVE  disk' = disk /\ \E r : Quiet(r) /\ GetGoes(g, r)
  BY <1>4 DEF ShowText, Ends, Quiet, Steps
<1>5. PICK r : disk' = disk /\ Quiet(r) /\ GetGoes(g, r)
  BY <1>1, <1>2, <1>3, <1>4
<1>6. OnlyMoves(g) /\ get'[g] = r
  BY <1>5, GoesMoves
<1>. QED
  BY <1>5, <1>6

LEMMA DiskStep ==
  ASSUME DiskInv, [StoreNext]_storeVars
  PROVE  DiskInv'
<1>1. OwnerInv'
  BY OwnerStep DEF DiskInv
<1>2. ASSUME UNCHANGED <<get, disk>>
      PROVE  DiskInv'
  BY <1>1, <1>2 DEF DiskInv, Sole, Saving
<1>3. CASE Share \/ Refuse \/ FetchServerLimit \/ CreateShare \/ Manage \/ VerifyOwner \/ Act
  BY <1>2, <1>3 DEF Share, Refuse, FetchServerLimit, CreateShare, Manage, VerifyOwner, Act,
     OwnerGoes
<1>4. ASSUME NEW g \in Getters, GetterActs(g)
      PROVE  DiskInv'
  <2>1. CASE FetchMetadata(g) \/ DecryptChallenge(g) \/ FetchPayload(g) \/ ShowText(g)
    BY <1>1, <2>1, FetchStep, Aside DEF Quiet
  <2>. QED
    BY <1>1, <1>4, <2>1, DeduplicateStep, WriteStep, BeginStep, EntryStep, FailsStep, FinishStep
       DEF GetterActs
<1>5. CASE UNCHANGED storeVars
  BY <1>2, <1>5 DEF storeVars
<1>. QED
  BY <1>3, <1>4, <1>5 DEF StoreNext, GetterActs

LEMMA DiskStart == StoreInit => DiskInv
<1>. SUFFICES ASSUME StoreInit PROVE DiskInv
  OBVIOUS
<1>1. OwnerInv
  BY GoneIsStored DEF StoreInit, OwnerInv, IsAsked
<1>2. IsDisk(EmptyDisk) /\ IsDisk(UsedDisk)
  <2>1. IsDisk(EmptyDisk)
    BY DEF IsDisk, EmptyDisk, None
  <2>2. /\ UsedDisk.top = [EmptyDisk.top EXCEPT !["doc"] = Mine]
        /\ UsedDisk.dest = TRUE
        /\ UsedDisk.tree = [n \in Inside |-> IF n = "b" THEN None ELSE Mine]
        /\ UsedDisk = [top |-> UsedDisk.top, dest |-> UsedDisk.dest, tree |-> UsedDisk.tree]
    BY DEF UsedDisk
  <2>3. UsedDisk.top \in [ToSet(Names) -> Int]
    <3>1. EmptyDisk.top \in [ToSet(Names) -> Int] /\ Mine \in Int
      BY <2>1 DEF IsDisk, Mine
    <3>. QED
      BY <2>2, <3>1
  <2>4. UsedDisk.tree \in [Inside -> Int]
    BY <2>2 DEF None, Mine
  <2>. QED
    BY <2>1, <2>2, <2>3, <2>4 DEF IsDisk
<1>3. \A g \in Getters : get[g].pc = "idle"
  BY DEF StoreInit, Idle
<1>. QED
  BY <1>1, <1>2, <1>3 DEF StoreInit, DiskInv, RunFits, Steps, Sole, Saving

\* The inductive invariant: a run that has had the directory to itself finds in
\* it what it has written and, for the rest, what was there when it took its
\* name; a folder that is not there holds nothing (get.rs, archive.rs).
THEOREM StoreInvariant == StoreSpec => []DiskInv
  BY DiskStart, DiskStep, PTL DEF StoreSpec

-----------------------------------------------------------------------------
(* How a run ends.                                                         *)

LEMMA PcMoves ==
  ASSUME DiskInv, NEW g \in Getters, IsRun(get[g]), NEW p,
         GetGoes(g, [get[g] EXCEPT !.pc = p])
  PROVE  /\ get'[g].pc = p
         /\ get'[g].before = get[g].before /\ get'[g].path = get[g].path
<1>1. get'[g] = [get[g] EXCEPT !.pc = p]
  BY DEF GetGoes, DiskInv
<1>. QED
  BY <1>1, Moved

\* How a run is when it has begun to extract, and where the disk is.
LEMMA BeginMoves ==
  ASSUME DiskInv, NEW g \in Getters, BeginExtract(g)
  PROVE  /\ get'[g].pc \in {"entries", "kept"}
         /\ get'[g].before = get[g].before /\ get'[g].path = get[g].path
         /\ get'[g].pc = "kept" => disk' = disk
<1>1. get[g].pc = "extract" /\ IsRun(get[g])
  BY DEF BeginExtract, DiskInv, RunFits, Steps
<1>2. ASSUME NEW found,
             GetGoes(g, [get[g] EXCEPT !.pc = "entries", !.payload = found,
                                       !.existed = DestExisted(disk)])
      PROVE  /\ get'[g].pc = "entries"
             /\ get'[g].before = get[g].before /\ get'[g].path = get[g].path
  <2>1. get'[g] = [get[g] EXCEPT !.pc = "entries", !.payload = found,
                                 !.existed = DestExisted(disk)]
    BY <1>2 DEF GetGoes, DiskInv
  <2>. QED
    BY <1>1, <2>1 DEF IsRun
<1>3. ASSUME GetGoes(g, [get[g] EXCEPT !.pc = "kept"])
      PROVE  /\ get'[g].pc = "kept"
             /\ get'[g].before = get[g].before /\ get'[g].path = get[g].path
  BY <1>1, <1>3, PcMoves
<1>4. CASE GetGoes(g, [get[g] EXCEPT !.pc = "kept"]) /\ UNCHANGED disk
  BY <1>3, <1>4
<1>5. CASE \E found :
             GetGoes(g, [get[g] EXCEPT !.pc = "entries", !.payload = found,
                                       !.existed = DestExisted(disk)])
  BY <1>2, <1>5
<1>. QED
  BY <1>4, <1>5 DEF BeginExtract

\* A run moves by its own steps only.
LEMMA OthersStay ==
  ASSUME DiskInv, NEW g \in Getters, NEW h \in Getters, g # h, GetterActs(h)
  PROVE  /\ get'[g].pc = get[g].pc
         /\ Saving(g) => get'[g].before = get[g].before /\ get'[g].path = get[g].path
<1>1. CASE DeduplicatePath(h)
  <2>1. \/ get'[g] = get[g]
        \/ Saving(g) /\ get'[g] = [get[g] EXCEPT !.alone = FALSE]
    BY <1>1 DEF DeduplicatePath
  <2>2. Saving(g) => IsRun(get[g])
    BY DEF DiskInv, RunFits, Saving, Steps
  <2>. QED
    BY <2>1, <2>2, NotAlone
<1>2. CASE ~DeduplicatePath(h)
  <2>1. \E r : GetGoes(h, r)
    BY <1>2 DEF GetterActs, FetchMetadata, DecryptChallenge, FetchPayload, ShowText, WriteFile,
       BeginExtract, ExtractEntry, ExtractFails, FinishExtract, Ends
  <2>. QED
    BY <2>1 DEF GetGoes, DiskInv
<1>. QED
  BY <1>1, <1>2

\* A run ends well by a write or by the end of an extraction, and with its
\* archive kept by an extraction that is refused or fails.
LEMMA HowItEnds ==
  ASSUME DiskInv, [StoreNext]_storeVars, NEW g \in Getters,
         get'[g].pc # get[g].pc, get'[g].pc \in {"saved", "kept"}
  PROVE  \/ get'[g].pc = "saved" /\ (WriteFile(g) \/ FinishExtract(g))
         \/ get'[g].pc = "kept" /\ (BeginExtract(g) \/ ExtractFails(g))
<1>1. PICK h \in Getters : GetterActs(h)
  <2>1. ~UNCHANGED get
    OBVIOUS
  <2>. QED
    BY <2>1 DEF StoreNext, GetterActs, Share, Refuse, FetchServerLimit, CreateShare, Manage,
       VerifyOwner, Act, OwnerGoes, storeVars
<1>2. GetterActs(g)
  BY <1>1, OthersStay
<1>3. ~(FetchMetadata(g) \/ DecryptChallenge(g) \/ FetchPayload(g) \/ ShowText(g))
  BY FetchStep DEF Quiet
<1>4. ~DeduplicatePath(g)
  BY DEF DeduplicatePath
<1>5. Saving(g) => IsRun(get[g])
  BY DEF DiskInv, RunFits, Saving, Steps
<1>6. ASSUME NEW p, Saving(g), GetGoes(g, [get[g] EXCEPT !.pc = p])
      PROVE  get'[g].pc = p
  BY <1>5, <1>6, PcMoves
<1>7. WriteFile(g) => get'[g].pc # "kept"
  <2>1. SUFFICES ASSUME WriteFile(g) PROVE get'[g].pc # "kept"
    OBVIOUS
  <2>2. Saving(g)
    BY <2>1 DEF WriteFile, Saving
  <2>3. \/ GetGoes(g, [get[g] EXCEPT !.pc = IF IsFolder(g) /\ ~get[g].noExtract
                                           THEN "extract" ELSE "saved"])
        \/ GetGoes(g, [get[g] EXCEPT !.pc = "aborted"])
    BY <2>1 DEF WriteFile
  <2>. QED
    BY <1>6, <2>2, <2>3
<1>8. BeginExtract(g) => get'[g].pc # "saved"
  <2>1. SUFFICES ASSUME BeginExtract(g) PROVE get'[g].pc # "saved"
    OBVIOUS
  <2>2. Saving(g)
    BY <2>1 DEF BeginExtract, Saving
  <2>3. get'[g].pc \in {"entries", "kept"}
    BY <2>1, BeginMoves
  <2>. QED
    BY <2>3
<1>9. ~ExtractEntry(g)
  <2>1. SUFFICES ASSUME ExtractEntry(g) PROVE get'[g].pc = get[g].pc
    OBVIOUS
  <2>2. get'[g] = [get[g] EXCEPT !.i = @ + 1] /\ get[g].pc = "entries"
    BY <2>1 DEF ExtractEntry, GetGoes, DiskInv
  <2>. QED
    BY <1>5, <2>2 DEF Saving, IsRun
<1>10. ExtractFails(g) => get'[g].pc = "kept"
  BY <1>6 DEF ExtractFails, Saving
<1>11. FinishExtract(g) => get'[g].pc # "kept"
  <2>1. SUFFICES ASSUME FinishExtract(g) PROVE get'[g].pc # "kept"
    OBVIOUS
  <2>2. Saving(g)
    BY <2>1 DEF FinishExtract, Saving
  <2>3. \E p \in {"saved", "warned", "aborted"} : GetGoes(g, [get[g] EXCEPT !.pc = p])
    BY <2>1, FinishForms
  <2>. QED
    BY <1>6, <2>2, <2>3
<1>. QED
  BY <1>2, <1>3, <1>4, <1>7, <1>8, <1>9, <1>10, <1>11 DEF GetterActs

-----------------------------------------------------------------------------
(* Extractions that fail.                                                  *)

LEMMA RefusedLeavesArchive ==
  ASSUME DiskInv, NEW g \in Getters, BeginExtract(g), get'[g].pc = "kept", get[g].alone
  PROVE  /\ disk'.top = [get[g].before.top EXCEPT ![get[g].path] = get[g].payload.version]
         /\ disk'.dest = get[g].before.dest /\ disk'.tree = get[g].before.tree
<1>1. get[g].pc = "extract" /\ IsRun(get[g]) /\ disk = WithFile(get[g])
  BY DEF BeginExtract, DiskInv, RunFits, Steps, Finds
<1>2. disk' = disk
  BY BeginMoves
<1>. QED
  BY <1>1, <1>2, TopWritten DEF WithFile, IsRun, IsPayload

LEMMA FailedCleansUp ==
  ASSUME DiskInv, NEW g \in Getters, ExtractFails(g), get[g].alone
  PROVE  /\ disk'.top = [get[g].before.top EXCEPT ![get[g].path] = get[g].payload.version]
         /\ disk'.dest = get[g].before.dest
         /\ \A n \in Inside :
              \/ disk'.tree[n] = get[g].before.tree[n]
              \/ get[g].before.dest /\ n \in Written(g) /\ disk'.tree[n] = None
              \/ get[g].before.dest /\ n = Entry(g) /\ disk'.tree[n] = Part
<1>. DEFINE r == get[g]
<1>1. IsRun(r) /\ r.pc = "entries" /\ Finds(r, disk)
  BY FailedStep
<1>2. PICK d : /\ IsDisk(d) /\ disk' = CleanedUp(g, d)
               /\ d.top = disk.top /\ (disk.dest => d.dest)
               /\ d.tree[Entry(g)] \in {disk.tree[Entry(g)], Part}
               /\ \A n \in Inside \ {Entry(g)} : d.tree[n] = disk.tree[n]
  BY FailedStep
<1>3. /\ disk.top = WithFile(r).top /\ disk.dest /\ disk.tree = Unpacked(r)
      /\ r.existed = r.before.dest
  BY <1>1 DEF Finds
<1>4. WithFile(r).top = [r.before.top EXCEPT ![r.path] = r.payload.version]
  BY <1>1, TopWritten DEF WithFile, IsRun, IsPayload
<1>5. disk'.top = d.top
  BY <1>2, CleanedIsDisk
<1>6. CASE ~r.existed
  <2>1. disk'.dest = FALSE /\ disk'.tree = EmptyDisk.tree
    <3>1. IsDisk(d) /\ ~get[g].existed
      BY <1>2, <1>6
    <3>2. CleanedUp(g, d).dest = FALSE /\ CleanedUp(g, d).tree = EmptyDisk.tree
      BY <3>1, CleanedIsDisk
    <3>. QED
      BY <1>2, <3>2
  <2>2. r.before.dest = FALSE /\ r.before.tree = EmptyDisk.tree
    BY <1>1, <1>3, <1>6 DEF IsRun, IsDisk
  <2>. QED
    BY <1>2, <1>3, <1>4, <1>5, <2>1, <2>2
<1>7. CASE r.existed
  <2>1. /\ disk'.dest = d.dest
        /\ disk'.tree = [n \in Inside |-> IF n \in Written(g) THEN None ELSE d.tree[n]]
    BY <1>2, <1>7, CleanedIsDisk
  <2>2. Written(g) = Done(r)
    BY DEF Written, Done
  <2>3. r.before.dest = TRUE /\ d.dest = TRUE
    BY <1>1, <1>2, <1>3, <1>7 DEF IsRun, IsDisk
  <2>4. ASSUME NEW n \in Inside, n \notin Written(g)
        PROVE  \/ disk'.tree[n] = r.before.tree[n]
               \/ n = Entry(g) /\ disk'.tree[n] = Part
    <3>1. disk.tree[n] = r.before.tree[n]
      BY <1>3, <2>2, <2>4 DEF Unpacked
    <3>2. disk'.tree[n] = d.tree[n]
      BY <2>1, <2>4
    <3>. QED
      BY <1>2, <3>1, <3>2
  <2>5. ASSUME NEW n \in Inside, n \in Written(g)
        PROVE  disk'.tree[n] = None
    BY <2>1, <2>5
  <2>. QED
    BY <1>2, <1>3, <1>4, <1>5, <2>1, <2>3, <2>4, <2>5
<1>. QED
  BY <1>6, <1>7

\* For every number of recipients, in a directory of any content: an
\* extraction that is refused or fails keeps the archive, removes the folder
\* it made and, in a folder that was there, touches no file it had not come
\* to and removes those it had finished; the one at hand is as it was or half
\* written (the cleanup of archive.rs).
THEOREM FailuresAreCleanedUp == StoreSpec => FailedExtractCleansUp
<1>1. ASSUME DiskInv, [StoreNext]_storeVars, NEW g \in Getters,
             get[g].pc # "kept", get'[g].pc = "kept", get[g].alone
      PROVE  LeftClean(g)
  <2>1. BeginExtract(g) \/ ExtractFails(g)
    BY <1>1, HowItEnds
  <2>2. CASE BeginExtract(g)
    BY <1>1, <2>2, RefusedLeavesArchive DEF LeftClean
  <2>3. CASE ExtractFails(g)
    <3>1. get[g].pc = "entries"
      BY <2>3 DEF ExtractFails
    <3>. QED
      BY <1>1, <2>3, <3>1, FailedCleansUp DEF LeftClean
  <2>. QED
    BY <2>1, <2>2, <2>3
<1>2. DiskInv /\ [StoreNext]_storeVars =>
        [\A g \in Getters :
           (get[g].pc # "kept" /\ get'[g].pc = "kept" /\ get[g].alone) => LeftClean(g)]_storeVars
  BY <1>1
<1>. QED
  BY <1>2, StoreInvariant, PTL DEF StoreSpec, FailedExtractCleansUp

-----------------------------------------------------------------------------
(* Shares that are saved.                                                  *)

\* deduplicate_path finds a free name (it gives up after a thousand).
RoomLeft ==
  \A g \in Getters : get[g].pc = "payload" => \E n \in ToSet(Names) : disk.top[n] = None

NameWasFree ==
  \A g \in Getters : Saving(g) => get[g].before.top[get[g].path] = None

\* What a run found and the name it took do not change while it saves.
LEMMA RunRemembers ==
  ASSUME DiskInv, [StoreNext]_storeVars, NEW g \in Getters, get'[g].pc \in Steps,
         ~DeduplicatePath(g)
  PROVE  Saving(g) /\ get'[g].before = get[g].before /\ get'[g].path = get[g].path
<1>1. CASE UNCHANGED get
  BY <1>1 DEF Saving, Steps
<1>2. CASE ~UNCHANGED get
  <2>1. PICK h \in Getters : GetterActs(h)
    BY <1>2 DEF StoreNext, GetterActs, Share, Refuse, FetchServerLimit, CreateShare, Manage,
       VerifyOwner, Act, OwnerGoes, storeVars
  <2>2. CASE h # g
    BY <2>1, <2>2, OthersStay DEF Saving, Steps
  <2>3. CASE h = g
    <3>1. ~(FetchMetadata(g) \/ DecryptChallenge(g) \/ FetchPayload(g) \/ ShowText(g))
      BY FetchStep DEF Quiet
    <3>2. WriteFile(g) \/ BeginExtract(g) \/ ExtractEntry(g) \/ ExtractFails(g) \/ FinishExtract(g)
      BY <2>1, <2>3, <3>1 DEF GetterActs
    <3>3. Saving(g) /\ IsRun(get[g])
      BY <3>2 DEF WriteFile, BeginExtract, ExtractEntry, ExtractFails, FinishExtract, Saving,
         DiskInv, RunFits, Steps
    <3>4. CASE WriteFile(g)
      <4>1. PICK p : GetGoes(g, [get[g] EXCEPT !.pc = p])
        BY <3>4 DEF WriteFile
      <4>. QED
        BY <3>3, <4>1, PcMoves
    <3>5. CASE BeginExtract(g)
      BY <3>3, <3>5, BeginMoves
    <3>6. CASE ExtractEntry(g)
      <4>1. get'[g] = [get[g] EXCEPT !.i = @ + 1]
        BY <3>6 DEF ExtractEntry, GetGoes, DiskInv
      <4>. QED
        BY <3>3, <4>1 DEF IsRun
    <3>7. CASE ExtractFails(g)
      BY <3>3, <3>7, PcMoves DEF ExtractFails
    <3>8. CASE FinishExtract(g)
      <4>1. \E p : GetGoes(g, [get[g] EXCEPT !.pc = p])
        BY <3>8, FinishForms
      <4>. QED
        BY <3>3, <4>1, PcMoves
    <3>. QED
      BY <3>2, <3>4, <3>5, <3>6, <3>7, <3>8
  <2>. QED
    BY <2>2, <2>3
<1>. QED
  BY <1>1, <1>2

LEMMA NameStep ==
  ASSUME DiskInv, NameWasFree, RoomLeft, [StoreNext]_storeVars
  PROVE  NameWasFree'
<1>1. SUFFICES ASSUME NEW g \in Getters, get'[g].pc \in Steps
               PROVE  get'[g].before.top[get'[g].path] = None
  BY DEF NameWasFree, Saving, Steps
<1>2. CASE DeduplicatePath(g)
  <2>1. get'[g].before = disk /\ get'[g].path = Deduplicated(disk) /\ get[g].pc = "payload"
    BY <1>2 DEF DeduplicatePath
  <2>. QED
    BY <2>1, DeduplicatedIsFree DEF RoomLeft
<1>3. CASE ~DeduplicatePath(g)
  BY <1>1, <1>3, RunRemembers DEF NameWasFree
<1>. QED
  BY <1>2, <1>3

LEMMA WrittenIsWhole ==
  ASSUME DiskInv, NameWasFree, NEW g \in Getters, WriteFile(g), get'[g].pc = "saved",
         get[g].alone
  PROVE  LeftWhole(g)
<1>1. /\ get[g].pc = "named" /\ IsRun(get[g]) /\ disk = get[g].before
      /\ get[g].before.top[get[g].path] = None
  BY DEF WriteFile, DiskInv, RunFits, Steps, Finds, NameWasFree, Saving
<1>2. ASSUME NEW p, GetGoes(g, [get[g] EXCEPT !.pc = p])
      PROVE  get'[g].pc = p
  BY <1>1, <1>2, PcMoves
<1>3. /\ disk' = [disk EXCEPT !.top[get[g].path] = get[g].payload.version]
      /\ GetGoes(g, [get[g] EXCEPT !.pc = IF IsFolder(g) /\ ~get[g].noExtract
                                           THEN "extract" ELSE "saved"])
  BY <1>2 DEF WriteFile
<1>4. ~(IsFolder(g) /\ ~get[g].noExtract)
  BY <1>2, <1>3
<1>. QED
  BY <1>1, <1>3, <1>4 DEF LeftWhole

LEMMA ExtractedIsWhole ==
  ASSUME DiskInv, NameWasFree, NEW g \in Getters, FinishExtract(g), get'[g].pc = "saved",
         get[g].alone
  PROVE  LeftWhole(g)
<1>. DEFINE r == get[g]
            was == r.before
            entries == ToSet(r.payload.archive) \cap Inside
<1>1. /\ r.pc = "entries" /\ IsRun(r) /\ Finds(r, disk) /\ r.i > Len(r.payload.archive)
      /\ was.top[r.path] = None
  BY DEF FinishExtract, DiskInv, RunFits, Steps, NameWasFree, Saving
<1>2. disk' = [disk EXCEPT !.top[get[g].path] = None, !.tree = Pruned(g, disk, {})]
  <2>1. ASSUME NEW p, GetGoes(g, [get[g] EXCEPT !.pc = p])
        PROVE  p = "saved"
    BY <1>1, <2>1, PcMoves
  <2>. QED
    BY <2>1, FinishForms
<1>3. /\ IsDisk(disk') /\ disk'.top = [disk.top EXCEPT ![r.path] = None]
      /\ disk'.dest = disk.dest /\ disk'.tree = Pruned(g, disk, {})
  BY <1>2, FinishedDisk
<1>4. /\ disk.top = WithFile(r).top /\ disk.dest /\ disk.tree = Unpacked(r)
  BY <1>1 DEF Finds
<1>5. disk'.top = was.top
  <2>1. disk.top = [was.top EXCEPT ![r.path] = r.payload.version]
    BY <1>1, <1>4, TopWritten DEF WithFile, IsRun, IsPayload
  <2>2. was.top \in [ToSet(Names) -> Int]
    BY <1>1 DEF IsRun, IsDisk
  <2>. QED
    BY <1>1, <1>3, <2>1, <2>2
<1>6. Written(g) = entries /\ Done(r) = entries
  <2>1. r.i = Len(r.payload.archive) + 1 /\ DOMAIN r.payload.archive = 1..Len(r.payload.archive)
          /\ Len(r.payload.archive) \in Nat
    BY <1>1 DEF IsRun, IsPayload, IsArchive
  <2>. QED
    BY <2>1 DEF Written, Done, ToSet
<1>7. disk'.tree = [n \in Inside |-> IF n \in entries THEN r.payload.version
                                     ELSE IF r.replaceDelete THEN None ELSE was.tree[n]]
  <2>. HIDE DEF entries
  <2>1. disk.tree = [n \in Inside |-> IF n \in entries THEN r.payload.version ELSE was.tree[n]]
    BY <1>4, <1>6 DEF Unpacked
  <2>2. CASE r.replaceDelete
    BY <1>3, <1>6, <2>1, <2>2 DEF Pruned
  <2>3. CASE ~r.replaceDelete
    BY <1>3, <2>1, <2>3 DEF Pruned
  <2>. QED
    BY <2>2, <2>3
<1>8. disk' = [top |-> disk'.top, dest |-> disk'.dest, tree |-> disk'.tree]
  BY <1>3 DEF IsDisk
<1>9. disk'.dest = TRUE
  BY <1>3, <1>4 DEF IsDisk
<1>10. IsFolder(g) /\ ~get[g].noExtract
  BY <1>1 DEF IsFolder, IsRun
<1>. QED
  BY <1>1, <1>5, <1>7, <1>8, <1>9, <1>10 DEF LeftWhole

\* For every number of recipients, as long as a free name is found: what a run
\* of `get` leaves is the share, whole, under a name that was nobody's, and the
\* rest of the directory as it was (save_received_file).
THEOREM SharesAreSavedWhole == StoreSpec /\ []RoomLeft => SavedWhole
<1>1. StoreInit => NameWasFree
  BY DEF StoreInit, NameWasFree, Saving, Idle
<1>2. DiskInv /\ NameWasFree /\ RoomLeft /\ [StoreNext]_storeVars => NameWasFree'
  BY NameStep
<1>3. ASSUME DiskInv, NameWasFree, [StoreNext]_storeVars, NEW g \in Getters,
             get[g].pc # "saved", get'[g].pc = "saved", get[g].alone
      PROVE  LeftWhole(g)
  BY <1>3, HowItEnds, WrittenIsWhole, ExtractedIsWhole
<1>4. DiskInv /\ NameWasFree /\ [StoreNext]_storeVars =>
        [\A g \in Getters :
           (get[g].pc # "saved" /\ get'[g].pc = "saved" /\ get[g].alone) => LeftWhole(g)]_storeVars
  BY <1>3
<1>. QED
  BY <1>1, <1>2, <1>4, StoreInvariant, PTL DEF StoreSpec, SavedWhole
=============================================================================
