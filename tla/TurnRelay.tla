----------------------------- MODULE TurnRelay -----------------------------
(***************************************************************************)
(* The TURN client: the allocation handshake that a peer runs while it     *)
(* gathers candidates (crates/turn/src/allocate.rs driven by               *)
(* src/webrtc/turn.rs), the candidates it advertises (webrtc/mod.rs), and  *)
(* the relay's part of the event loop: permissions, Send indications and   *)
(* the Refresh that keeps the allocation (webrtc/event_loop.rs).           *)
(*                                                                         *)
(* The TURN server and the UDP path are external.  Each direction keeps    *)
(* its order and may lose any datagram; what is in flight arrives or is    *)
(* lost within the 3 s of the receive timeout.  A nonce is a number, newer *)
(* ones greater; a realm changes with its nonce.  One tick is 150 s.       *)
(***************************************************************************)
EXTENDS Integers, Sequences, FiniteSetsExt

CONSTANTS
  Peers,          \* the IP addresses of the far peer's candidates
  ServerLists,    \* what the API may answer as iceServers
  MaxRetransmits, \* MAX_RETRANSMITS (3)
  MaxStale,       \* MAX_STALE_RETRIES (3)
  Lifetime,       \* ticks the server grants an allocation: 4 of 150 s
  PermitTicks,    \* ticks of a permission: 2 of 150 s
  MaxNonce,       \* bound: nonces the server goes through
  Room            \* bound: datagrams in flight in one direction

\* What is granted lasts: a lifetime of zero is how an allocation is deleted.
ASSUME TurnAssumption ==
  /\ {MaxRetransmits, MaxStale} \subseteq Nat
  /\ {Lifetime, PermitTicks, MaxNonce, Room} \subseteq Nat \ {0}

VARIABLES
  relayOnly,      \* --relay-only
  phase,          \* "gather", "relay" or "direct": allocate() runs, won, lost
  machine,        \* AllocateMachine: its state, txn id, nonce, stale retries
  resent,         \* retransmits of the initial request
  captured,       \* the nonce last seen by allocate()
  broken,         \* history: a call of allocate() on its socket failed
  permitted, refreshIn,          \* the TurnRelay of the event loop
  up, down,                      \* datagrams to and from the server
  nonce, granted, permits,       \* the server: nonce, ticks left
  early, late, refused,          \* history: losses, and a refusal
  accepted, unrefreshed, excused, dropped  \* history: see Properties

client == <<machine, resent, captured, broken>>
relay == <<permitted, refreshIn>>
server == <<nonce, granted, permits>>
history == <<early, late, refused, accepted, unrefreshed, excused, dropped>>
vars == <<relayOnly, phase, client, relay, up, down, server, history>>

-----------------------------------------------------------------------------
(* Gathering.                                                              *)

IsTurn(url) == url \in {"turn", "turns"}

\* The first server with credentials and a turn: URI; a list of URIs counts
\* by its first turn: one, a single URI only if it is one.
TurnServers(list) == SelectSeq(list, LAMBDA s : s.credentials /\ \E u \in s.urls : IsTurn(u))

\* parse_turn_uri: its name may not resolve, and no other server is tried.
Usable(list) == TurnServers(list) # <<>> /\ TurnServers(list)[1].resolves

Unauthenticated == [kind |-> "allocate", txn |-> 1, nonce |-> 0]
Authenticated(txn, n) == [kind |-> "allocate", txn |-> txn, nonce |-> n]

Init ==
  /\ relayOnly \in BOOLEAN
  /\ \/ /\ \E list \in ServerLists : Usable(list)
        /\ phase = "gather" /\ up = <<Unauthenticated>> /\ refused = FALSE /\ broken = FALSE
     \/ /\ \E list \in ServerLists : Usable(list)
        /\ phase = "direct" /\ up = <<>> /\ refused = FALSE /\ broken = TRUE
     \/ /\ \E list \in ServerLists : ~Usable(list)
        /\ phase = "direct" /\ up = <<>> /\ refused = TRUE /\ broken = FALSE
  /\ machine = [state |-> "challenge", txn |-> 1, nonce |-> 0, stale |-> 0]
  /\ resent = 0 /\ captured = 0
  /\ permitted = {} /\ refreshIn = 0
  /\ down = <<>> /\ nonce = 1 /\ granted = 0 /\ permits = [p \in Peers |-> 0]
  /\ early = 0 /\ late = FALSE /\ accepted = 0 /\ unrefreshed = FALSE
  /\ excused = {} /\ dropped = {}

Gathering == phase = "gather"

\* allocate() takes the realm and nonce of whatever datagram carries them,
\* before it hands the datagram to the machine.
Captured(msg) == IF "nonce" \in DOMAIN msg THEN msg.nonce ELSE captured

\* An error of the socket ends the handshake at once, also of a send.
SocketError == phase' = "direct" /\ broken' = TRUE
SendTo(msg) ==
  \/ up' = Append(up, msg) /\ UNCHANGED <<phase, broken>>
  \/ SocketError /\ UNCHANGED up

Authenticate(msg, stale) ==
  LET txn == machine.txn + 1 IN
  /\ machine' = [state |-> "allocate", txn |-> txn, nonce |-> msg.nonce, stale |-> stale]
  /\ SendTo(Authenticated(txn, msg.nonce))

GiveUp ==
  phase' = "direct" /\ machine' = [machine EXCEPT !.state = "done"] /\ UNCHANGED <<up, broken>>

\* The answer to the initial request: anything but a 401 ends the handshake.
OnChallenge(msg) ==
  /\ IF msg.kind = "401" THEN Authenticate(msg, machine.stale) ELSE GiveUp
  /\ UNCHANGED refreshIn

TooManyStale(stale) == stale > MaxStale

RefreshIntervalIsLifetime == Lifetime
RefreshInterval == Lifetime \div 2

\* The answer to the authenticated request: the allocation, a stale nonce,
\* which is tried again a few times, or a refusal.
OnAllocate(msg) ==
  IF msg.kind = "success"
    THEN /\ phase' = "relay" /\ machine' = [machine EXCEPT !.state = "done"]
         /\ refreshIn' = RefreshInterval /\ UNCHANGED <<up, broken>>
    ELSE /\ IF msg.kind = "438" /\ ~TooManyStale(machine.stale + 1)
              THEN Authenticate(msg, machine.stale + 1)
              ELSE GiveUp
         /\ UNCHANGED refreshIn

\* One datagram in allocate(): answers to other transactions are ignored.
ReceiveGathering ==
  /\ Gathering /\ down # <<>> /\ Len(up) < Room
  /\ LET msg == Head(down) IN
       /\ captured' = Captured(msg)
       /\ IF msg.txn = machine.txn
            THEN IF machine.state = "challenge" THEN OnChallenge(msg) ELSE OnAllocate(msg)
            ELSE UNCHANGED <<phase, machine, broken, up, refreshIn>>
  /\ down' = Tail(down)
  /\ UNCHANGED <<relayOnly, resent, permitted, server, history>>

\* Three seconds without a datagram.  It is the initial request that is sent
\* again, in every state of the machine.
RetransmitsUncounted == resent
Retransmits == resent + 1
RetransmitLimit == Retransmits >= MaxRetransmits
OutOfRetransmits == Retransmits > MaxRetransmits

ReceiveTimesOut ==
  /\ Gathering /\ up = <<>> /\ down = <<>>
  /\ resent' = Min({Retransmits, MaxRetransmits})
  /\ IF OutOfRetransmits
       THEN phase' = "direct" /\ UNCHANGED <<up, broken>>
       ELSE SendTo(Unauthenticated)
  /\ UNCHANGED <<relayOnly, machine, captured, relay, down, server, history>>

\* recv_from returns an error instead of a datagram.
ReceiveFails ==
  /\ Gathering /\ SocketError
  /\ UNCHANGED <<relayOnly, machine, resent, captured, relay, up, down, server, history>>

\* The local candidates: the host ones unless relay-only, and those of the
\* allocation.
Candidates ==
  (IF relayOnly THEN {} ELSE {"host", "loopback"})
    \cup (IF phase = "relay" THEN {"relay", "srflx"} ELSE {})

-----------------------------------------------------------------------------
(* The relay in the event loop.                                            *)

Permission(p) == [kind |-> "permission", peer |-> p, nonce |-> captured]
SendIndication(p) == [kind |-> "send", peer |-> p]

\* A packet str0m sends from the relayed address: the first one to an IP
\* asks for the permission, once, and no answer is waited for.
PermissionAfterSend(p) ==
  IF p \in permitted THEN <<SendIndication(p)>> ELSE <<SendIndication(p), Permission(p)>>
Wrapped(p) ==
  IF p \in permitted THEN <<SendIndication(p)>> ELSE <<Permission(p), SendIndication(p)>>

TransmitRelayed(p) ==
  /\ phase = "relay" /\ refreshIn > 0 /\ Len(up) + 2 <= Room
  /\ up' = up \o Wrapped(p)
  /\ permitted' = permitted \cup {p}
  /\ UNCHANGED <<relayOnly, phase, client, refreshIn, down, server, history>>

\* The refresh arm: fire and forget, with the nonce of the handshake.
Refresh ==
  /\ phase = "relay" /\ refreshIn = 0
  /\ up' = Append(up, [kind |-> "refresh", nonce |-> captured])
  /\ refreshIn' = RefreshInterval
  /\ UNCHANGED <<relayOnly, phase, client, permitted, down, server, history>>

\* A datagram of the server that is no Data indication is ignored: the
\* answers to Refresh and CreatePermission, whatever they say.
ReceiveControl ==
  /\ phase # "gather" /\ down # <<>>
  /\ down' = Tail(down)
  /\ UNCHANGED <<relayOnly, phase, client, relay, up, server, history>>

Tick ==
  /\ phase = "relay" /\ refreshIn > 0 /\ up = <<>>
  /\ refreshIn' = refreshIn - 1
  /\ granted' = Max({0, granted - 1})
  /\ permits' = [p \in Peers |-> Max({0, permits[p] - 1})]
  /\ excused' = excused \cup {p \in Peers : permits[p] = 1}
  /\ UNCHANGED <<relayOnly, phase, client, permitted, up, down, nonce, early, late,
                 refused, accepted, unrefreshed, dropped>>

-----------------------------------------------------------------------------
(* The server and the path.                                                *)

Answer(kind, txn) == down' = Append(down, [kind |-> kind, txn |-> txn])
AnswerNonce(kind, txn) == down' = Append(down, [kind |-> kind, txn |-> txn, nonce |-> nonce])

ServeAllocate(msg) ==
  /\ msg.kind = "allocate"
  /\ \/ msg.nonce = 0 /\ AnswerNonce("401", msg.txn) /\ UNCHANGED <<granted, refused, accepted>>
     \/ msg.nonce \in 1..(nonce - 1) /\ AnswerNonce("438", msg.txn)
        /\ UNCHANGED <<granted, refused, accepted>>
     \/ msg.nonce = nonce /\ Answer("success", msg.txn)
        /\ granted' = Lifetime /\ accepted' = nonce /\ UNCHANGED refused
     \/ Answer("refusal", msg.txn) /\ refused' = TRUE /\ UNCHANGED <<granted, accepted>>
  /\ UNCHANGED <<permits, unrefreshed, excused, dropped>>

\* A request of the relay: done with the current nonce, and otherwise
\* answered with an error.
ServeRefresh(msg) ==
  /\ msg.kind = "refresh" /\ AnswerNonce("control", 0)
  /\ LET done == msg.nonce = nonce /\ granted > 0 IN
       /\ granted' = IF done THEN Lifetime ELSE granted
       /\ unrefreshed' = (unrefreshed \/ ~done)
  /\ UNCHANGED <<permits, refused, accepted, excused, dropped>>

ServePermission(msg) ==
  /\ msg.kind = "permission" /\ AnswerNonce("control", 0)
  /\ LET done == msg.nonce = nonce /\ granted > 0 IN
       /\ permits' = IF done THEN [permits EXCEPT ![msg.peer] = PermitTicks] ELSE permits
       /\ excused' = IF done THEN excused ELSE excused \cup {msg.peer}
  /\ UNCHANGED <<granted, refused, accepted, unrefreshed, dropped>>

ServeSend(msg) ==
  /\ msg.kind = "send"
  /\ dropped' = IF granted = 0 \/ permits[msg.peer] = 0
                  THEN dropped \cup {msg.peer} ELSE dropped
  /\ UNCHANGED <<down, granted, permits, refused, accepted, unrefreshed, excused>>

Serve ==
  /\ up # <<>> /\ Len(down) < Room
  /\ up' = Tail(up)
  /\ LET msg == Head(up) IN
       ServeAllocate(msg) \/ ServeRefresh(msg) \/ ServePermission(msg) \/ ServeSend(msg)
  /\ UNCHANGED <<relayOnly, phase, client, relay, nonce, early, late>>

NewNonce ==
  /\ nonce < MaxNonce
  /\ nonce' = nonce + 1
  /\ UNCHANGED <<relayOnly, phase, client, relay, up, down, granted, permits, history>>

\* Early losses are of the initial request and its answer while the machine
\* waits for the challenge, late ones of the exchange after it.
Note(msg) ==
  /\ early' = IF Gathering /\ machine.state = "challenge" THEN early + 1 ELSE early
  /\ late' = (late \/ (Gathering /\ machine.state = "allocate" /\ msg.txn = machine.txn))
  /\ unrefreshed' = (unrefreshed \/ msg.kind = "refresh")
  /\ excused' = IF msg.kind = "permission" THEN excused \cup {msg.peer} ELSE excused
  /\ UNCHANGED <<refused, accepted, dropped>>

LoseUp ==
  /\ up # <<>> /\ Note(Head(up)) /\ up' = Tail(up)
  /\ UNCHANGED <<relayOnly, phase, client, relay, down, server>>

LoseDown ==
  /\ down # <<>> /\ Gathering /\ Note(Head(down)) /\ down' = Tail(down)
  /\ UNCHANGED <<relayOnly, phase, client, relay, up, server>>

Next ==
  \/ ReceiveGathering \/ ReceiveTimesOut \/ ReceiveFails \/ Refresh \/ ReceiveControl \/ Tick
  \/ \E p \in Peers : TransmitRelayed(p)
  \/ Serve \/ NewNonce \/ LoseUp \/ LoseDown

Fairness == WF_vars(ReceiveGathering) /\ WF_vars(ReceiveTimesOut) /\ WF_vars(Serve)

Spec == Init /\ [][Next]_vars /\ Fairness

-----------------------------------------------------------------------------
(* Properties.                                                             *)

\* The handshake fails for a reason: no usable server, a refusal, an error of
\* the socket (one is enough), more losses before the challenge than
\* retransmits, one loss after it, or a server that kept changing its nonce.
\* Fewer early losses never cost the relay.
GatherFailsForCause ==
  /\ broken => phase = "direct"
  /\ phase = "direct" =>
       \/ refused \/ broken
       \/ early > MaxRetransmits \/ late \/ machine.stale = MaxStale

\* The allocation the relay candidate stands for lives at the server, unless
\* a Refresh was lost or came with a nonce that had turned stale; and the nonce
\* of the refreshes is at least as new as the one the allocation was accepted
\* with, although it is taken from any datagram, also from the second answer to
\* a retransmitted request.
AllocationKept ==
  phase = "relay" => captured >= accepted /\ (granted = 0 => unrefreshed)

\* The server drops a Send indication only if the permission asked for before
\* it was lost, refused or has run out, or the allocation is gone.
DropsHaveACause == dropped # {} => unrefreshed \/ dropped \subseteq excused

\* allocate() returns, whatever is lost: share and get wait for it before
\* they have an offer or an answer to send.
AllocateReturns == Gathering ~> ~Gathering
=============================================================================
