----------------------------- MODULE Rendezvous -----------------------------
(***************************************************************************)
(* How the two attempt loops meet: the signaling between share and get     *)
(* over their Socket.IO sockets and the relay (src/src/commands/share.rs,  *)
(* get.rs, p2p_stages.rs, local_server.rs, crates/p2p-control and          *)
(* crates/socketio).                                                       *)
(*                                                                         *)
(* A negotiation is the number of the sender's offer.  `up[r]` is what the *)
(* socket of r has emitted and the relay has not handled; what the relay   *)
(* sends is in the event queues of the room's live sockets at once.  A     *)
(* socket that dies takes what it had emitted and not delivered with it.   *)
(* The machine is its projection on the retry budget (ConnectionMachine    *)
(* has all of it), the payload is one step (ResumableTransfer has it), and *)
(* p2p:error is RetryFlow's.  Online the relay is a server that is not in  *)
(* the repository and keeps the rules of the embedded one, which mirrors   *)
(* it, but outlives the sender.                                            *)
(***************************************************************************)
EXTENDS Integers, Sequences, SequencesExt

CONSTANTS
  Modes,       \* subset of {"online", "local"}
  MaxRetries,  \* max_retries (3)
  MaxBreaks,   \* bound: channels that fail although both peers are there
  MaxDeaths,   \* bound: sockets that break
  Quick        \* TRUE: no await ends by its timeout within a negotiation

ASSUME RendezvousAssumption ==
  /\ Modes \subseteq {"online", "local"}
  /\ {MaxRetries, MaxBreaks, MaxDeaths} \subseteq Nat /\ Quick \in BOOLEAN

VARIABLES
  mode,
  late,         \* a socket may be noticed dead after its successor has joined
  at, attempt, opened, pc,                     \* the loops, by role
  alive, up,                                   \* the sockets, by role
  joined, gone, ready, offers, answers,        \* event queues
  room, armed, undetected,                     \* the relay
  made, breaks, deaths                         \* offers so far; bounds

setting == <<mode, late>>
loopVars == <<at, attempt, opened, pc>>
queueVars == <<joined, gone, ready, offers, answers>>
relayVars == <<room, armed, undetected>>
countVars == <<made, breaks, deaths>>
vars == <<setting, loopVars, alive, up, queueVars, relayVars, countVars>>

Roles == {"sender", "recipient"}
Other(r) == IF r = "sender" THEN "recipient" ELSE "sender"

Join == [type |-> "join", n |-> 0]
Offer(n) == [type |-> "offer", n |-> n]
Answer(n) == [type |-> "answer", n |-> n]

Ended(r) == at[r] \in {"done", "failed"}
RelayRuns == mode = "online" \/ ~Ended("sender")

\* Both sides hold peers of one negotiation.
Paired == pc["sender"] = pc["recipient"] /\ pc["sender"] # 0

-----------------------------------------------------------------------------
(* Sockets.                                                                *)

\* The client's task ends: is_alive() is false and every queue of the socket
\* ends once it is empty.
SocketEnds(R) ==
  /\ alive' = [r \in Roles |-> alive[r] /\ r \notin R]
  /\ up' = [r \in Roles |-> IF r \in R THEN <<>> ELSE up[r]]
  /\ room' = room \ R
  /\ undetected' = [r \in Roles |->
                      undetected[r] + (IF r \in R \cap room THEN 1 ELSE 0)]

\* Connection lost, liveness deadline over, or the relay is gone.
SocketDies(r) ==
  /\ alive[r] /\ ~Ended(r)
  /\ IF RelayRuns
       THEN deaths < MaxDeaths /\ deaths' = deaths + 1
       ELSE UNCHANGED deaths
  /\ SocketEnds({r})
  /\ UNCHANGED <<setting, loopVars, queueVars, armed, made, breaks>>

\* emit() on the client's outgoing queue: an error once the task has ended.
Emitted(r, m) == up' = [up EXCEPT ![r] = Append(@, m)]

\* connect(), P2PControl::new with empty queues, join().
DialAndJoin(r) ==
  /\ alive' = [alive EXCEPT ![r] = TRUE]
  /\ Emitted(r, Join)
  /\ joined' = [joined EXCEPT ![r] = 0] /\ gone' = [gone EXCEPT ![r] = 0]
  /\ IF r = "sender"
       THEN ready' = 0 /\ answers' = <<>> /\ UNCHANGED offers
       ELSE offers' = <<>> /\ UNCHANGED <<ready, answers>>

-----------------------------------------------------------------------------
(* The loops.                                                              *)

GoTo(r, s) == at' = [at EXCEPT ![r] = s]

\* bail! and `?`: the process exits, and with it its socket.
Bail(r) ==
  /\ GoTo(r, "failed") /\ pc' = [pc EXCEPT ![r] = 0]
  /\ SocketEnds({r})
  /\ UNCHANGED <<attempt, opened>>

Stay == UNCHANGED <<alive, up, room, undetected>>

Spent(a) == a > MaxRetries

\* machine_retry!: DcClosed, then the backoff or, when the budget is spent,
\* the end (--local bails; online nobody answers the prompt).
Retry(r) ==
  /\ attempt' = [attempt EXCEPT ![r] = @ + 1]
  /\ pc' = [pc EXCEPT ![r] = 0] /\ UNCHANGED opened
  /\ IF Spent(attempt[r] + 1)
       THEN GoTo(r, "failed") /\ SocketEnds({r})
       ELSE GoTo(r, "backoff") /\ Stay

\* ConnEvent::Joined: before a first channel the budget is whole again.
MachineJoined(r) ==
  attempt' = [attempt EXCEPT ![r] = IF opened[r] THEN @ ELSE 0]

Start(r) ==
  /\ at[r] = "start"
  /\ IF RelayRuns
       THEN /\ DialAndJoin(r) /\ GoTo(r, "joining")
            /\ UNCHANGED <<attempt, opened, pc, room, undetected>>
       ELSE Bail(r) /\ UNCHANGED queueVars
  /\ UNCHANGED <<setting, armed, countVars>>

\* The online recipient drains at the top of the loop, after p2p:joined.
DrainedAtTop(r) ==
  IF r = "recipient" /\ mode = "online" /\ opened[r] THEN <<>> ELSE offers

HearJoined(r) ==
  /\ at[r] \in {"joining", "rejoining"} /\ joined[r] > 0
  /\ joined' = [joined EXCEPT ![r] = @ - 1]
  /\ MachineJoined(r) /\ GoTo(r, "await")
  /\ offers' = DrainedAtTop(r)
  /\ UNCHANGED <<setting, opened, pc, alive, up, gone, ready, answers, relayVars,
                 countVars>>

\* The socket closes before p2p:joined: an error after a dial, ignored by the
\* sender that joined again on its old socket.
NotJoined(r) ==
  /\ ~alive[r] /\ joined[r] = 0
  /\ \/ at[r] = "joining" /\ Bail(r)
     \/ at[r] = "rejoining" /\ MachineJoined(r) /\ GoTo(r, "await")
        /\ Stay /\ UNCHANGED <<opened, pc>>
  /\ UNCHANGED <<setting, queueVars, armed, countVars>>

\* await_ready, then a peer and its offer.
SenderIsReady ==
  /\ at["sender"] = "await" /\ ready > 0
  /\ ready' = ready - 1 /\ answers' = <<>>
  /\ made' = made + 1
  /\ IF alive["sender"]
       THEN /\ GoTo("sender", "answer") /\ pc' = [pc EXCEPT !["sender"] = made + 1]
            /\ Emitted("sender", Offer(made + 1))
            /\ UNCHANGED <<attempt, opened, alive, room, undetected>>
       ELSE Bail("sender")
  /\ UNCHANGED <<setting, joined, gone, offers, armed, breaks, deaths>>

\* await_local_start or await_offer, then a peer from the offer and its answer.
RecipientTakesOffer ==
  /\ at["recipient"] = "await" /\ offers # <<>>
  /\ offers' = Tail(offers)
  /\ IF alive["recipient"]
       THEN /\ GoTo("recipient", "opening")
            /\ pc' = [pc EXCEPT !["recipient"] = Head(offers)]
            /\ Emitted("recipient", Answer(Head(offers)))
            /\ UNCHANGED <<attempt, opened, alive, room, undetected>>
       ELSE Bail("recipient")
  /\ UNCHANGED <<setting, joined, gone, ready, answers, armed, countVars>>

NothingToTake(r) == IF r = "sender" THEN ready = 0 ELSE offers = <<>>

Negotiating ==
  \/ ready > 0 \/ at["sender"] = "answer"
  \/ \E r \in Roles : up[r] # <<>>

\* PEER_TIMEOUT_SECS, on re-attempts only.
BoundedLate(r) == attempt[r] > 1
Bounded(r) == attempt[r] > 0

AwaitTimesOut(r) ==
  /\ at[r] = "await" /\ Bounded(r) /\ NothingToTake(r)
  /\ Quick => ~Negotiating
  /\ Retry(r)
  /\ UNCHANGED <<setting, queueVars, armed, countVars>>

\* The queue has ended: the recipient takes it for a timeout on re-attempts.
AwaitClosed(r) ==
  /\ at[r] = "await" /\ ~alive[r] /\ NothingToTake(r)
  /\ IF r = "recipient" /\ attempt[r] > 0 THEN Retry(r) ELSE Bail(r)
  /\ UNCHANGED <<setting, queueVars, armed, countVars>>

TakeAnswer ==
  /\ at["sender"] = "answer" /\ answers # <<>>
  /\ answers' = Tail(answers) /\ GoTo("sender", "opening")
  /\ UNCHANGED <<setting, attempt, opened, pc, alive, up, joined, gone, ready,
                 offers, relayVars, countVars>>

\* ANSWER_TIMEOUT_SECS or a closed queue, through `?`.
RetryOnAnswer == Retry("sender")
GiveUpOnAnswer == Bail("sender")

NoAnswer ==
  /\ at["sender"] = "answer" /\ answers = <<>>
  /\ GiveUpOnAnswer
  /\ UNCHANGED <<setting, queueVars, armed, countVars>>

ChannelOpens(r) ==
  /\ at[r] = "opening" /\ Paired /\ at["sender"] # "answer"
  /\ GoTo(r, "transfer") /\ opened' = [opened EXCEPT ![r] = TRUE]
  /\ UNCHANGED <<setting, attempt, pc, alive, up, queueVars, relayVars, countVars>>

\* CHANNEL_TIMEOUT_SECS, an ICE failure, a channel closed by the other side.
ChannelFails(r) ==
  /\ at[r] \in {"opening", "transfer"}
  /\ IF Paired THEN breaks < MaxBreaks /\ breaks' = breaks + 1 ELSE UNCHANGED breaks
  /\ Retry(r)
  /\ UNCHANGED <<setting, queueVars, armed, made, deaths>>

\* p2p:peer-disconnected, of whichever attempt it is.
HearGone(r) ==
  /\ at[r] = "transfer" /\ gone[r] > 0
  /\ gone' = [gone EXCEPT ![r] = @ - 1]
  /\ Retry(r)
  /\ UNCHANGED <<setting, joined, ready, offers, answers, armed, countVars>>

\* The own socket is dead.  At the recipient the end of peer_disconnected reads
\* as the event; at the sender so in the flush, but the select takes the end of
\* the acks for completion, and then p2p:complete cannot be sent.
HearNothing(r) ==
  /\ at[r] = "transfer" /\ ~alive[r] /\ gone[r] = 0
  /\ \/ Retry(r)
     \/ r = "sender" /\ Bail(r)
  /\ UNCHANGED <<setting, queueVars, armed, countVars>>

\* A chunk delivered or acknowledged.
Progress(r) ==
  /\ at[r] = "transfer" /\ attempt[r] > 0
  /\ attempt' = [attempt EXCEPT ![r] = 0]
  /\ UNCHANGED <<setting, at, opened, pc, alive, up, queueVars, relayVars, countVars>>

\* Payload, completion and p2p:delete, in one step.
Finish ==
  /\ Paired /\ \A r \in Roles : at[r] = "transfer"
  /\ at' = [at EXCEPT !["recipient"] = "done",
                      !["sender"] = IF alive["sender"] THEN "done" ELSE "failed"]
  /\ pc' = [r \in Roles |-> 0]
  /\ SocketEnds(Roles)
  /\ UNCHANGED <<setting, attempt, opened, queueVars, armed, countVars>>

\* rejoin! at the sender.
SenderRejoins ==
  /\ at["sender"] = "backoff"
  /\ \/ /\ alive["sender"]
        /\ ready' = 0 /\ answers' = <<>>
        /\ Emitted("sender", Join) /\ GoTo("sender", "rejoining")
        /\ UNCHANGED <<attempt, opened, pc, alive, joined, gone, offers, room,
                       undetected>>
     \/ /\ ~alive["sender"]
        /\ DialAndJoin("sender") /\ GoTo("sender", "joining")
        /\ UNCHANGED <<attempt, opened, pc, room, undetected>>
  /\ UNCHANGED <<setting, armed, countVars>>

\* rejoin! at the recipient, which does not wait for p2p:joined on a live
\* socket: locally the offers are drained before the join, online after it.
RecipientRejoins ==
  /\ at["recipient"] = "backoff"
  /\ \/ /\ alive["recipient"]
        /\ Emitted("recipient", Join)
        /\ MachineJoined("recipient") /\ GoTo("recipient", "await")
        /\ offers' = IF mode = "local" THEN <<>> ELSE DrainedAtTop("recipient")
        /\ UNCHANGED <<opened, pc, alive, joined, gone, ready, answers, room,
                       undetected>>
     \/ /\ ~alive["recipient"] /\ RelayRuns
        /\ DialAndJoin("recipient") /\ GoTo("recipient", "joining")
        /\ UNCHANGED <<attempt, opened, pc, room, undetected>>
     \/ /\ ~alive["recipient"] /\ ~RelayRuns
        /\ Bail("recipient") /\ UNCHANGED queueVars
  /\ UNCHANGED <<setting, armed, countVars>>

-----------------------------------------------------------------------------
(* The relay.                                                              *)

\* The recipient never reads the p2p:joined of a live re-join.
Awaited(r) == IF at[r] \in {"joining", "rejoining"} THEN 1 ELSE 0

\* p2p:join; both-ready when both are armed, which disarms both.
HandleJoin(r) ==
  /\ Head(up[r]) = Join
  /\ late \/ undetected[r] = 0
  /\ room' = room \cup {r}
  /\ joined' = [joined EXCEPT ![r] = @ + Awaited(r)]
  /\ IF armed \cup {r} = Roles
       THEN /\ armed' = {}
            /\ ready' = ready + (IF "sender" \in room \cup {r} THEN 1 ELSE 0)
       ELSE armed' = armed \cup {r} /\ UNCHANGED ready
  /\ UNCHANGED <<gone, offers, answers, undetected>>

\* The other events go to the room's other sockets.
Forward(r) ==
  /\ Head(up[r]) # Join
  /\ offers' = IF r = "sender" /\ "recipient" \in room
                 THEN Append(offers, Head(up[r]).n) ELSE offers
  /\ answers' = IF r = "recipient" /\ "sender" \in room
                  THEN Append(answers, Head(up[r]).n) ELSE answers
  /\ UNCHANGED <<joined, gone, ready, relayVars>>

RelayHandles(r) ==
  /\ RelayRuns /\ up[r] # <<>>
  /\ up' = [up EXCEPT ![r] = Tail(@)]
  /\ HandleJoin(r) \/ Forward(r)
  /\ UNCHANGED <<setting, loopVars, alive, countVars>>

\* on_disconnect, by the role of the socket, whoever has that role by now.
RelayNotices(r) ==
  /\ RelayRuns /\ undetected[r] > 0
  /\ undetected' = [undetected EXCEPT ![r] = @ - 1]
  /\ armed' = armed \ {r}
  /\ gone' = [x \in Roles |-> gone[x] + (IF x \in room THEN 1 ELSE 0)]
  /\ UNCHANGED <<setting, loopVars, alive, up, joined, ready, offers, answers, room,
                 countVars>>

-----------------------------------------------------------------------------
Init ==
  /\ mode \in Modes /\ late \in BOOLEAN
  /\ at = [r \in Roles |-> "start"] /\ attempt = [r \in Roles |-> 0]
  /\ opened = [r \in Roles |-> FALSE] /\ pc = [r \in Roles |-> 0]
  /\ alive = [r \in Roles |-> FALSE] /\ up = [r \in Roles |-> <<>>]
  /\ joined = [r \in Roles |-> 0] /\ gone = [r \in Roles |-> 0]
  /\ ready = 0 /\ offers = <<>> /\ answers = <<>>
  /\ room = {} /\ armed = {} /\ undetected = [r \in Roles |-> 0]
  /\ made = 0 /\ breaks = 0 /\ deaths = 0

Loop(r) ==
  \/ Start(r) \/ HearJoined(r) \/ NotJoined(r)
  \/ AwaitTimesOut(r) \/ AwaitClosed(r)
  \/ ChannelOpens(r) \/ HearGone(r) \/ HearNothing(r)
  \/ r = "sender" /\ (SenderIsReady \/ TakeAnswer \/ NoAnswer \/ SenderRejoins)
  \/ r = "recipient" /\ (RecipientTakesOffer \/ RecipientRejoins)

Relay == \E r \in Roles : RelayHandles(r) \/ RelayNotices(r)

Next ==
  \/ \E r \in Roles : Loop(r) \/ ChannelFails(r) \/ Progress(r) \/ SocketDies(r)
  \/ Finish \/ Relay

\* Both processes and the relay run, a channel between two peers of one
\* negotiation opens and carries the payload unless it breaks, and what can
\* no longer open or go on is noticed (timeout, ICE, closed sockets).
Fairness ==
  /\ \A r \in Roles :
       WF_vars(Loop(r)) /\ WF_vars(~Paired /\ ChannelFails(r))
                        /\ WF_vars(~RelayRuns /\ SocketDies(r))
  /\ WF_vars(Finish) /\ WF_vars(Relay)

Spec == Init /\ [][Next]_vars /\ Fairness

-----------------------------------------------------------------------------
(* Properties.                                                             *)

\* No offer or answer of an earlier negotiation is ever under way or queued
\* once the sender has made the next offer, however the two loops retry.
NoStaleNegotiation ==
  /\ Len(offers) <= 1 /\ Len(answers) <= 1
  /\ \A r \in Roles : \A i \in 1..Len(up[r]) :
       up[r][i] # Join => up[r][i].n = made
  /\ \A q \in {offers, answers} : q # <<>> => Head(q) = made

\* Both loops come to an end, or one waits on its unbounded first attempt for
\* a peer whose process has ended: they never wait for each other for ever.
\* (A socket noticed late disarms the one that replaced it, and before a first
\* channel both waits are unbounded: then they do.)
MeetOrEnd ==
  ~late => <>(\A r \in Roles :
       Ended(r) \/ (at[r] = "await" /\ attempt[r] = 0 /\ Ended(Other(r))))

\* get.rs:889-892 on draining before the join: "so a fresh offer relayed right
\* after both-ready over loopback isn't accidentally discarded here".  The
\* recipient takes each offer the sender waits on, or loses its socket.
FreshOfferIsKept ==
  [][at["sender"] = "answer" /\ offers # <<>> /\ offers' = <<>>
       /\ alive["recipient"]
     => pc'["recipient"] = Head(offers)]_vars
=============================================================================
