-------------------------- MODULE RendezvousProofs --------------------------
(***************************************************************************)
(* Rendezvous, for both modes and every bound on retries, failing channels *)
(* and breaking sockets: no offer or answer of an earlier negotiation is   *)
(* under way or queued once the sender has made the next offer.            *)
(*                                                                         *)
(* The argument: the offer and the answer it becomes are one token.  The   *)
(* sender makes it when it begins to wait for the answer, and leaves that  *)
(* wait only with the token in hand or by ending (the `?` on the answer    *)
(* that never comes); so there is no token left when it makes the next.    *)
(***************************************************************************)
EXTENDS Rendezvous, TLAPS

Stations == {"start", "joining", "rejoining", "await", "answer", "opening",
             "transfer", "backoff", "done", "failed"}
Message == [type : {"join", "offer", "answer"}, n : Nat]

NegotiationTypeOK ==
  /\ at \in [Roles -> Stations]
  /\ up \in [Roles -> Seq(Message)]
  /\ offers \in Seq(Nat) /\ answers \in Seq(Nat) /\ made \in Nat

\* What a socket has emitted: joins only, or joins and one message of
\* negotiation n.
JoinsOnly(q) == \A i \in 1..Len(q) : q[i] = Join
AtMostOne(q, n) ==
  /\ \A i \in 1..Len(q) : q[i] # Join => q[i].n = n
  /\ \A i, j \in 1..Len(q) : q[i] # Join /\ q[j] # Join => i = j

\* The sender waits for the answer, or has ended.
Underway == at["sender"] \in {"answer", "failed", "done"}

OneToken ==
  /\ \A r \in Roles : AtMostOne(up[r], made)
  /\ offers \in {<<>>, <<made>>} /\ answers \in {<<>>, <<made>>}
  /\ offers # <<>> => answers = <<>> /\ \A r \in Roles : JoinsOnly(up[r])
  /\ answers # <<>> => \A r \in Roles : JoinsOnly(up[r])
  /\ \E r \in Roles : JoinsOnly(up[r])
  /\ ~Underway =>
       offers = <<>> /\ answers = <<>> /\ \A r \in Roles : JoinsOnly(up[r])

NegotiationInv == NegotiationTypeOK /\ OneToken

-----------------------------------------------------------------------------
(* What an emit and a delivery do to the queue of a socket.                *)

LEMMA JoinsHaveNoToken ==
  ASSUME NEW q, NEW n, JoinsOnly(q)
  PROVE  AtMostOne(q, n)
BY DEF JoinsOnly, AtMostOne

LEMMA EmitJoin ==
  ASSUME NEW q \in Seq(Message), NEW n
  PROVE  /\ AtMostOne(q, n) => AtMostOne(Append(q, Join), n)
         /\ JoinsOnly(q) => JoinsOnly(Append(q, Join))
<1>1. /\ Len(Append(q, Join)) = Len(q) + 1 /\ Len(q) \in Nat
      /\ \A i \in 1..Len(q) : Append(q, Join)[i] = q[i]
      /\ Append(q, Join)[Len(q) + 1] = Join
  BY DEF Join, Message
<1> HIDE DEF Join
<1> QED BY <1>1 DEF AtMostOne, JoinsOnly

LEMMA EmitToken ==
  ASSUME NEW q \in Seq(Message), NEW m \in Message, JoinsOnly(q)
  PROVE  AtMostOne(Append(q, m), m.n)
<1>1. /\ Len(Append(q, m)) = Len(q) + 1 /\ Len(q) \in Nat
      /\ \A i \in 1..Len(q) : Append(q, m)[i] = Join
      /\ Append(q, m)[Len(q) + 1] = m
  BY DEF JoinsOnly
<1> HIDE DEF Join
<1> QED BY <1>1 DEF AtMostOne

LEMMA Deliver ==
  ASSUME NEW q \in Seq(Message), NEW n, q # <<>>, AtMostOne(q, n)
  PROVE  /\ Head(q) \in Message /\ Tail(q) \in Seq(Message)
         /\ AtMostOne(Tail(q), n)
         /\ JoinsOnly(q) => JoinsOnly(Tail(q)) /\ Head(q) = Join
         /\ Head(q) # Join => JoinsOnly(Tail(q)) /\ Head(q).n = n
<1>1. /\ Len(q) \in Nat \ {0} /\ Len(Tail(q)) = Len(q) - 1
      /\ \A i \in 1..Len(Tail(q)) : Tail(q)[i] = q[i + 1]
      /\ Head(q) = q[1]
      /\ Head(q) \in Message /\ Tail(q) \in Seq(Message)
  OBVIOUS
<1> HIDE DEF Join, Message
<1> QED BY <1>1 DEF AtMostOne, JoinsOnly

-----------------------------------------------------------------------------
(* Steps that make no token and carry none over.                           *)

\* The queues of the sockets stay, gain a join or are lost.
LEMMA CalmQueues ==
  ASSUME NegotiationInv, NEW R,
         up' \in {up, [r \in Roles |-> IF r \in R THEN <<>> ELSE up[r]]}
                  \cup {[up EXCEPT ![r] = Append(@, Join)] : r \in Roles}
  PROVE  /\ up' \in [Roles -> Seq(Message)]
         /\ \A r \in Roles : /\ AtMostOne(up'[r], made)
                             /\ JoinsOnly(up[r]) => JoinsOnly(up'[r])
<1>1. /\ up \in [Roles -> Seq(Message)]
      /\ \A r \in Roles : AtMostOne(up[r], made)
  BY DEF NegotiationInv, NegotiationTypeOK, OneToken
<1>2. <<>> \in Seq(Message) /\ AtMostOne(<<>>, made) /\ JoinsOnly(<<>>)
  BY DEF AtMostOne, JoinsOnly
<1>3. Join \in Message BY DEF Join, Message
<1>4. CASE up' = up BY <1>1, <1>4
<1>5. CASE up' = [r \in Roles |-> IF r \in R THEN <<>> ELSE up[r]]
  BY <1>1, <1>2, <1>5
<1>6. CASE \E r \in Roles : up' = [up EXCEPT ![r] = Append(@, Join)]
  <2>1. PICK s \in Roles : up' = [up EXCEPT ![s] = Append(@, Join)] BY <1>6
  <2>2. /\ Append(up[s], Join) \in Seq(Message)
        /\ AtMostOne(Append(up[s], Join), made)
        /\ JoinsOnly(up[s]) => JoinsOnly(Append(up[s], Join))
    <3>1. up[s] \in Seq(Message) BY <1>1
    <3> HIDE DEF Message, Join
    <3> QED BY <1>1, <1>3, <3>1, EmitJoin
  <2> QED BY <1>1, <2>1, <2>2
<1> QED BY <1>4, <1>5, <1>6
-----------------------------------------------------------------------------
LEMMA NegotiationInitial == Init => NegotiationInv
<1> SUFFICES ASSUME Init PROVE NegotiationInv
  OBVIOUS
<1> USE DEF Init
<1>1. NegotiationTypeOK BY DEF NegotiationTypeOK, Stations
<1>2. \A r \in Roles : up[r] = <<>> /\ AtMostOne(up[r], made) /\ JoinsOnly(up[r])
  BY DEF AtMostOne, JoinsOnly
<1>3. OneToken BY <1>2 DEF OneToken, Roles
<1> QED BY <1>1, <1>3 DEF NegotiationInv

\* What the queues of the sockets and the sender's place become in a step that
\* makes no token.
CalmUp ==
  \E R \in SUBSET Roles :
    up' \in {up, [r \in Roles |-> IF r \in R THEN <<>> ELSE up[r]]}
             \cup {[up EXCEPT ![r] = Append(@, Join)] : r \in Roles}
CalmAt == at' \in [Roles -> Stations] /\ (Underway => Underway')

LEMMA CalmStep ==
  ASSUME NegotiationInv, CalmUp, CalmAt, UNCHANGED made,
         offers' \in {offers, <<>>}, answers' \in {answers, <<>>}
  PROVE  NegotiationInv'
<1>1. PICK R \in SUBSET Roles :
        up' \in {up, [r \in Roles |-> IF r \in R THEN <<>> ELSE up[r]]}
                 \cup {[up EXCEPT ![r] = Append(@, Join)] : r \in Roles}
  BY DEF CalmUp
<1>2. /\ up' \in [Roles -> Seq(Message)]
      /\ \A r \in Roles : /\ AtMostOne(up'[r], made)
                          /\ JoinsOnly(up[r]) => JoinsOnly(up'[r])
  BY <1>1, CalmQueues
<1>e. <<>> \in Seq(Nat) OBVIOUS
<1>3. offers' \in Seq(Nat) /\ answers' \in Seq(Nat) /\ made' \in Nat
  BY <1>e DEF NegotiationInv, NegotiationTypeOK
<1>4. NegotiationTypeOK' BY <1>2, <1>3 DEF NegotiationTypeOK, CalmAt
<1> QED BY <1>2, <1>4 DEF NegotiationInv, OneToken, CalmAt

\* How a loop moves: from a place that is not the wait for the answer to any
\* other, or on from there by ending.
LEMMA MoveIsCalm ==
  ASSUME NegotiationInv, NEW r \in Roles, NEW s \in Stations, GoTo(r, s),
         at[r] \notin {"answer", "failed", "done"} \/ s \in {"failed", "done"}
  PROVE  CalmAt
<1>1. at \in [Roles -> Stations] /\ "sender" \in Roles
  BY DEF NegotiationInv, NegotiationTypeOK, Roles
<1>2. at' \in [Roles -> Stations]
  BY <1>1 DEF GoTo
<1>3. at'["sender"] = IF r = "sender" THEN s ELSE at["sender"]
  BY <1>1 DEF GoTo
<1> QED BY <1>1, <1>2, <1>3 DEF CalmAt, Underway

LEMMA StayIsCalm == NegotiationInv /\ UNCHANGED at => CalmAt
BY DEF CalmAt, Underway, NegotiationInv, NegotiationTypeOK

LEMMA SocketEndsIsCalm ==
  ASSUME NEW R \in SUBSET Roles, SocketEnds(R)
  PROVE  CalmUp
BY DEF SocketEnds, CalmUp

LEMMA BailIsCalm ==
  ASSUME NegotiationInv, NEW r \in Roles, Bail(r)
  PROVE  CalmAt /\ CalmUp
<1>1. GoTo(r, "failed") /\ SocketEnds({r}) BY DEF Bail
<1>2. "failed" \in Stations /\ {r} \in SUBSET Roles BY DEF Stations
<1> QED BY <1>1, <1>2, MoveIsCalm, SocketEndsIsCalm

LEMMA RetryIsCalm ==
  ASSUME NegotiationInv, NEW r \in Roles, Retry(r),
         at[r] \notin {"answer", "failed", "done"}
  PROVE  CalmAt /\ CalmUp
<1>1. "failed" \in Stations /\ "backoff" \in Stations /\ {r} \in SUBSET Roles
  BY DEF Stations
<1>2. CASE Spent(attempt[r] + 1)
  <2>1. GoTo(r, "failed") /\ SocketEnds({r}) BY <1>2 DEF Retry
  <2> QED BY <1>1, <2>1, MoveIsCalm, SocketEndsIsCalm
<1>3. CASE ~Spent(attempt[r] + 1)
  <2>1. GoTo(r, "backoff") /\ up' = up BY <1>3 DEF Retry, Stay
  <2> QED BY <1>1, <2>1, MoveIsCalm DEF CalmUp
<1> QED BY <1>2, <1>3

LEMMA EmitIsCalm ==
  ASSUME NEW r \in Roles, Emitted(r, Join)
  PROVE  CalmUp
BY DEF Emitted, CalmUp

LEMMA StillIsCalm == up' = up => CalmUp
BY DEF CalmUp

-----------------------------------------------------------------------------
\* The steps of the loops that make no token and take none.
LEMMA LoopIsCalm ==
  ASSUME NegotiationInv, NEW r \in Roles,
         \/ Start(r) \/ HearJoined(r) \/ NotJoined(r)
         \/ AwaitTimesOut(r) \/ AwaitClosed(r) \/ ChannelOpens(r)
         \/ HearGone(r) \/ HearNothing(r) \/ ChannelFails(r)
         \/ Progress(r) \/ SocketDies(r)
  PROVE  NegotiationInv'
<1> USE DEF queueVars, loopVars, countVars, relayVars
<1>s. /\ {"failed", "done"} \subseteq Stations
      /\ {"joining", "await", "transfer", "backoff"} \subseteq Stations
  BY DEF Stations
<1>1. CASE Start(r)
  <2>1. CASE RelayRuns
    <3>1. /\ GoTo(r, "joining") /\ Emitted(r, Join) /\ at[r] = "start"
          /\ offers' \in {offers, <<>>} /\ answers' \in {answers, <<>>}
          /\ made' = made
      BY <1>1, <2>1 DEF Start, DialAndJoin
    <3> QED BY <3>1, <1>s, MoveIsCalm, EmitIsCalm, CalmStep
  <2>2. CASE ~RelayRuns
    <3>1. Bail(r) /\ offers' = offers /\ answers' = answers /\ made' = made
      BY <1>1, <2>2 DEF Start
    <3> QED BY <3>1, BailIsCalm, CalmStep
  <2> QED BY <2>1, <2>2
<1>2. CASE HearJoined(r)
  <2>1. /\ GoTo(r, "await") /\ at[r] \in {"joining", "rejoining"} /\ up' = up
        /\ offers' \in {offers, <<>>} /\ answers' = answers /\ made' = made
    BY <1>2 DEF HearJoined, DrainedAtTop
  <2> QED BY <2>1, <1>s, MoveIsCalm, StillIsCalm, CalmStep
<1>3. CASE NotJoined(r)
  <2>1. offers' = offers /\ answers' = answers /\ made' = made
    BY <1>3 DEF NotJoined
  <2>2. CASE Bail(r) BY <2>1, <2>2, BailIsCalm, CalmStep
  <2>3. CASE at[r] = "rejoining" /\ GoTo(r, "await") /\ Stay
    BY <2>1, <2>3, <1>s, MoveIsCalm, StillIsCalm, CalmStep DEF Stay
  <2> QED BY <1>3, <2>2, <2>3 DEF NotJoined
<1>4. CASE AwaitTimesOut(r) \/ HearGone(r) \/ ChannelFails(r)
  <2>1. /\ Retry(r) /\ at[r] \in {"await", "transfer", "opening"}
        /\ offers' = offers /\ answers' = answers /\ made' = made
    BY <1>4 DEF AwaitTimesOut, HearGone, ChannelFails
  <2> QED BY <2>1, RetryIsCalm, CalmStep
<1>5. CASE AwaitClosed(r) \/ HearNothing(r)
  <2>1. /\ at[r] \in {"await", "transfer"} /\ (Retry(r) \/ Bail(r))
        /\ offers' = offers /\ answers' = answers /\ made' = made
    BY <1>5 DEF AwaitClosed, HearNothing
  <2> QED BY <2>1, RetryIsCalm, BailIsCalm, CalmStep
<1>6. CASE ChannelOpens(r)
  <2>1. /\ GoTo(r, "transfer") /\ at[r] = "opening" /\ up' = up
        /\ offers' = offers /\ answers' = answers /\ made' = made
    BY <1>6 DEF ChannelOpens
  <2> QED BY <2>1, <1>s, MoveIsCalm, StillIsCalm, CalmStep
<1>7. CASE Progress(r)
  <2>1. /\ at' = at /\ up' = up
        /\ offers' = offers /\ answers' = answers /\ made' = made
    BY <1>7 DEF Progress
  <2> QED BY <2>1, StayIsCalm, StillIsCalm, CalmStep
<1>8. CASE SocketDies(r)
  <2>1. /\ at' = at /\ SocketEnds({r}) /\ {r} \in SUBSET Roles
        /\ offers' = offers /\ answers' = answers /\ made' = made
    BY <1>8 DEF SocketDies
  <2> QED BY <2>1, StayIsCalm, SocketEndsIsCalm, CalmStep
<1> QED BY <1>1, <1>2, <1>3, <1>4, <1>5, <1>6, <1>7, <1>8

\* The same for the steps that are of one role or of both.
LEMMA RoleIsCalm ==
  ASSUME NegotiationInv,
         NoAnswer \/ SenderRejoins \/ RecipientRejoins \/ Finish
  PROVE  NegotiationInv'
<1> USE DEF queueVars, loopVars, countVars, relayVars
<1>s. /\ "sender" \in Roles /\ "recipient" \in Roles
      /\ {"joining", "rejoining", "await"} \subseteq Stations
  BY DEF Stations, Roles
<1>1. CASE NoAnswer
  <2>1. /\ Bail("sender")
        /\ offers' = offers /\ answers' = answers /\ made' = made
    BY <1>1 DEF NoAnswer, GiveUpOnAnswer
  <2> QED BY <2>1, <1>s, BailIsCalm, CalmStep
<1>2. CASE SenderRejoins
  <2>1. /\ at["sender"] = "backoff" /\ Emitted("sender", Join)
        /\ GoTo("sender", "joining") \/ GoTo("sender", "rejoining")
        /\ offers' = offers /\ answers' \in {answers, <<>>} /\ made' = made
    BY <1>2 DEF SenderRejoins, DialAndJoin
  <2> QED BY <2>1, <1>s, MoveIsCalm, EmitIsCalm, CalmStep
<1>3. CASE RecipientRejoins
  <2>1. /\ at["recipient"] = "backoff"
        /\ offers' \in {offers, <<>>} /\ answers' = answers /\ made' = made
    BY <1>3 DEF RecipientRejoins, DialAndJoin, DrainedAtTop, Bail
  <2>2. \/ Bail("recipient")
        \/ Emitted("recipient", Join)
           /\ (GoTo("recipient", "joining") \/ GoTo("recipient", "await"))
    BY <1>3 DEF RecipientRejoins, DialAndJoin
  <2> QED BY <2>1, <2>2, <1>s, MoveIsCalm, BailIsCalm, EmitIsCalm, CalmStep
<1>4. CASE Finish
  <2>1. /\ SocketEnds(Roles) /\ Roles \in SUBSET Roles
        /\ offers' = offers /\ answers' = answers /\ made' = made
    BY <1>4 DEF Finish
  <2>2. /\ at \in [Roles -> Stations] /\ at["sender"] = "transfer"
        /\ at' = [at EXCEPT !["recipient"] = "done",
                            !["sender"] = IF alive["sender"] THEN "done" ELSE "failed"]
    BY <1>4, <1>s DEF Finish, NegotiationInv, NegotiationTypeOK
  <2>3. CalmAt
    BY <2>2 DEF CalmAt, Underway, Stations
  <2> QED BY <2>1, <2>3, SocketEndsIsCalm, CalmStep
<1> QED BY <1>1, <1>2, <1>3, <1>4

-----------------------------------------------------------------------------
(* The steps that make the token or carry it on.                           *)

LEMMA SenderIsReadyStep ==
  ASSUME NegotiationInv, SenderIsReady
  PROVE  NegotiationInv'
<1>t. /\ at \in [Roles -> Stations] /\ up \in [Roles -> Seq(Message)]
      /\ made \in Nat /\ "sender" \in Roles /\ "recipient" \in Roles
  BY DEF NegotiationInv, NegotiationTypeOK, Roles
<1>1. /\ at["sender"] = "await" /\ answers' = <<>> /\ made' = made + 1
      /\ offers' = offers
  BY DEF SenderIsReady
<1>2. /\ offers = <<>> /\ answers = <<>> /\ \A r \in Roles : JoinsOnly(up[r])
  BY <1>1 DEF NegotiationInv, OneToken, Underway
<1>3. offers' = <<>> /\ <<>> \in Seq(Nat) /\ made' \in Nat
  BY <1>1, <1>2, <1>t
<1>4. CASE alive["sender"]
  <2> DEFINE m == Offer(made')
  <2>1. /\ GoTo("sender", "answer")
        /\ up' = [up EXCEPT !["sender"] = Append(@, m)]
    BY <1>1, <1>4 DEF SenderIsReady, Emitted
  <2>2. m \in Message /\ m.n = made'
    BY <1>3 DEF Offer, Message
  <2> HIDE DEF m
  <2>3. /\ up' \in [Roles -> Seq(Message)]
        /\ up'["sender"] = Append(up["sender"], m)
        /\ up'["recipient"] = up["recipient"]
    <3> HIDE DEF Message
    <3>1. Append(up["sender"], m) \in Seq(Message) BY <1>t, <2>2
    <3> QED BY <1>t, <2>1, <3>1 DEF Roles
  <2>4. AtMostOne(up'["sender"], made')
    BY <1>2, <1>t, <2>2, <2>3, EmitToken
  <2>5. AtMostOne(up'["recipient"], made') /\ JoinsOnly(up'["recipient"])
    BY <1>2, <1>t, <2>3, JoinsHaveNoToken
  <2>6. at' \in [Roles -> Stations] /\ Underway'
    BY <2>1, <1>t DEF GoTo, Underway, Stations
  <2>7. NegotiationTypeOK'
    BY <1>1, <1>3, <2>3, <2>6 DEF NegotiationTypeOK
  <2>8. OneToken'
    BY <1>1, <1>3, <2>4, <2>5, <2>6 DEF OneToken, Roles
  <2> QED BY <2>7, <2>8 DEF NegotiationInv
<1>5. CASE ~alive["sender"]
  <2>1. Bail("sender") BY <1>1, <1>5 DEF SenderIsReady
  <2>2. CalmAt /\ at'["sender"] = "failed"
    BY <2>1, <1>t, BailIsCalm DEF Bail, GoTo
  <2>3. up' = [r \in Roles |-> IF r \in {"sender"} THEN <<>> ELSE up[r]]
    BY <2>1 DEF Bail, SocketEnds
  <2>4. up' \in [Roles -> Seq(Message)]
    <3>1. <<>> \in Seq(Message) OBVIOUS
    <3> HIDE DEF Message
    <3> QED BY <2>3, <3>1, <1>t
  <2>5. \A r \in Roles : JoinsOnly(up'[r])
    BY <2>3, <1>2 DEF JoinsOnly
  <2>6. \A r \in Roles : AtMostOne(up'[r], made')
    BY <2>5, JoinsHaveNoToken
  <2>7. NegotiationTypeOK'
    BY <1>1, <1>3, <2>2, <2>4 DEF NegotiationTypeOK, CalmAt
  <2>8. OneToken'
    BY <1>1, <1>3, <1>t, <2>5, <2>6 DEF OneToken
  <2> QED BY <2>7, <2>8 DEF NegotiationInv
<1> QED BY <1>4, <1>5

LEMMA RecipientTakesOfferStep ==
  ASSUME NegotiationInv, RecipientTakesOffer
  PROVE  NegotiationInv'
<1>t. /\ at \in [Roles -> Stations] /\ up \in [Roles -> Seq(Message)]
      /\ made \in Nat /\ "sender" \in Roles /\ "recipient" \in Roles
  BY DEF NegotiationInv, NegotiationTypeOK, Roles
<1>1. /\ at["recipient"] = "await" /\ offers # <<>> /\ offers' = Tail(offers)
      /\ answers' = answers /\ made' = made
  BY DEF RecipientTakesOffer, countVars
<1>2. /\ offers = <<made>> /\ answers = <<>> /\ Underway
      /\ \A r \in Roles : JoinsOnly(up[r])
  BY <1>1 DEF NegotiationInv, OneToken
<1>3. Head(offers) = made /\ offers' = <<>> /\ <<>> \in Seq(Nat)
  BY <1>1, <1>2, <1>t
<1>4. CASE alive["recipient"]
  <2> DEFINE m == Answer(made)
  <2>1. /\ GoTo("recipient", "opening")
        /\ up' = [up EXCEPT !["recipient"] = Append(@, m)]
    BY <1>3, <1>4 DEF RecipientTakesOffer, Emitted
  <2>2. m \in Message /\ m.n = made
    BY <1>t DEF Answer, Message
  <2> HIDE DEF m
  <2>3. /\ up' \in [Roles -> Seq(Message)]
        /\ up'["recipient"] = Append(up["recipient"], m)
        /\ up'["sender"] = up["sender"]
    <3> HIDE DEF Message
    <3>1. Append(up["recipient"], m) \in Seq(Message) BY <1>t, <2>2
    <3> QED BY <1>t, <2>1, <3>1 DEF Roles
  <2>4. AtMostOne(up'["recipient"], made)
    BY <1>2, <1>t, <2>2, <2>3, EmitToken
  <2>5. AtMostOne(up'["sender"], made) /\ JoinsOnly(up'["sender"])
    BY <1>2, <1>t, <2>3, JoinsHaveNoToken
  <2>6. at' \in [Roles -> Stations] /\ Underway'
    BY <2>1, <1>2, <1>t DEF GoTo, Underway, Stations
  <2>7. NegotiationTypeOK'
    BY <1>1, <1>2, <1>3, <1>t, <2>3, <2>6 DEF NegotiationTypeOK
  <2>8. OneToken'
    BY <1>1, <1>2, <1>3, <2>4, <2>5, <2>6 DEF OneToken, Roles
  <2> QED BY <2>7, <2>8 DEF NegotiationInv
<1>5. CASE ~alive["recipient"]
  <2>1. Bail("recipient") BY <1>1, <1>5 DEF RecipientTakesOffer
  <2> QED BY <1>1, <1>3, <1>t, <2>1, BailIsCalm, CalmStep
<1> QED BY <1>4, <1>5

LEMMA TakeAnswerStep ==
  ASSUME NegotiationInv, TakeAnswer
  PROVE  NegotiationInv'
<1>t. /\ at \in [Roles -> Stations] /\ up \in [Roles -> Seq(Message)]
      /\ made \in Nat /\ offers \in Seq(Nat)
  BY DEF NegotiationInv, NegotiationTypeOK
<1>1. /\ answers # <<>> /\ answers' = Tail(answers) /\ GoTo("sender", "opening")
      /\ up' = up /\ offers' = offers /\ made' = made
  BY DEF TakeAnswer, countVars
<1>2. /\ answers = <<made>> /\ offers = <<>>
      /\ \A r \in Roles : JoinsOnly(up[r]) /\ AtMostOne(up[r], made)
  BY <1>1 DEF NegotiationInv, OneToken
<1>3. answers' = <<>> /\ <<>> \in Seq(Nat)
  BY <1>1, <1>2, <1>t
<1>4. at' \in [Roles -> Stations]
  BY <1>1, <1>t DEF GoTo, Stations
<1>5. NegotiationTypeOK'
  BY <1>1, <1>3, <1>4, <1>t DEF NegotiationTypeOK
<1>6. OneToken'
  BY <1>1, <1>2, <1>3 DEF OneToken, Roles
<1> QED BY <1>5, <1>6 DEF NegotiationInv

LEMMA RelayHandlesStep ==
  ASSUME NegotiationInv, NEW r \in Roles, RelayHandles(r)
  PROVE  NegotiationInv'
<1>t. /\ at \in [Roles -> Stations] /\ up \in [Roles -> Seq(Message)]
      /\ made \in Nat /\ offers \in Seq(Nat) /\ answers \in Seq(Nat)
  BY DEF NegotiationInv, NegotiationTypeOK
<1>1. /\ up[r] # <<>> /\ up' = [up EXCEPT ![r] = Tail(@)]
      /\ at' = at /\ made' = made
  BY DEF RelayHandles, loopVars, countVars
<1>o. \A x \in Roles : AtMostOne(up[x], made)
  BY DEF NegotiationInv, OneToken
<1>2. /\ Head(up[r]) \in Message /\ Tail(up[r]) \in Seq(Message)
      /\ AtMostOne(Tail(up[r]), made)
      /\ JoinsOnly(up[r]) => JoinsOnly(Tail(up[r])) /\ Head(up[r]) = Join
      /\ Head(up[r]) # Join => JoinsOnly(Tail(up[r])) /\ Head(up[r]).n = made
  <2> HIDE DEF Message, Join
  <2>1. up[r] \in Seq(Message) BY <1>t
  <2> QED BY <1>1, <1>o, <2>1, Deliver
<1>3. /\ up' \in [Roles -> Seq(Message)]
      /\ up'[r] = Tail(up[r]) /\ \A x \in Roles \ {r} : up'[x] = up[x]
  <2> HIDE DEF Message
  <2> QED BY <1>1, <1>2, <1>t
<1>4. \A x \in Roles : /\ AtMostOne(up'[x], made)
                       /\ JoinsOnly(up[x]) => JoinsOnly(up'[x])
  BY <1>2, <1>3, <1>o
<1>5. CASE HandleJoin(r)
  <2>1. offers' = offers /\ answers' = answers BY <1>5 DEF HandleJoin
  <2>2. NegotiationTypeOK' BY <1>1, <1>3, <1>t, <2>1 DEF NegotiationTypeOK
  <2>3. OneToken' BY <1>1, <1>4, <2>1 DEF NegotiationInv, OneToken, Underway
  <2> QED BY <2>2, <2>3 DEF NegotiationInv
<1>6. CASE Forward(r)
  <2>1. /\ Head(up[r]) # Join
        /\ offers' \in {offers, Append(offers, Head(up[r]).n)}
        /\ answers' \in {answers, Append(answers, Head(up[r]).n)}
        /\ offers' = offers \/ answers' = answers
    BY <1>6 DEF Forward
  <2>2. /\ JoinsOnly(Tail(up[r])) /\ Head(up[r]).n = made /\ ~JoinsOnly(up[r])
    BY <1>2, <2>1
  <2>3. offers = <<>> /\ answers = <<>> /\ Underway
    BY <2>2 DEF NegotiationInv, OneToken
  <2>4. \A x \in Roles : JoinsOnly(up'[x])
    <3>1. PICK y \in Roles : JoinsOnly(up[y]) BY DEF NegotiationInv, OneToken
    <3>2. y # r BY <3>1, <2>2
    <3>3. \A x \in Roles : x = y \/ x = r BY <3>1, <3>2 DEF Roles
    <3> QED BY <3>1, <3>3, <1>3, <1>4, <2>2
  <2>5. /\ offers' \in {<<>>, <<made>>} /\ answers' \in {<<>>, <<made>>}
        /\ offers' = <<>> \/ answers' = <<>>
    BY <2>1, <2>2, <2>3
  <2>6. offers' \in Seq(Nat) /\ answers' \in Seq(Nat)
    <3>1. <<>> \in Seq(Nat) /\ <<made>> \in Seq(Nat) BY <1>t
    <3> QED BY <3>1, <2>5
  <2>7. NegotiationTypeOK' BY <1>1, <1>3, <1>t, <2>6 DEF NegotiationTypeOK
  <2>8. OneToken' BY <1>1, <1>4, <2>3, <2>4, <2>5 DEF OneToken, Underway, Roles
  <2> QED BY <2>7, <2>8 DEF NegotiationInv
<1> QED BY <1>5, <1>6 DEF RelayHandles

-----------------------------------------------------------------------------
\* Every step keeps the invariant.
LEMMA NegotiationStep == NegotiationInv /\ [Next]_vars => NegotiationInv'
<1> SUFFICES ASSUME NegotiationInv, [Next]_vars PROVE NegotiationInv'
  OBVIOUS
<1>1. ASSUME NEW r \in Roles, Loop(r) PROVE NegotiationInv'
  BY <1>1, LoopIsCalm, RoleIsCalm, SenderIsReadyStep, RecipientTakesOfferStep,
     TakeAnswerStep DEF Loop
<1>2. ASSUME NEW r \in Roles, ChannelFails(r) \/ Progress(r) \/ SocketDies(r)
      PROVE  NegotiationInv'
  BY <1>2, LoopIsCalm
<1>3. CASE Finish BY <1>3, RoleIsCalm
<1>4. ASSUME NEW r \in Roles, RelayHandles(r) PROVE NegotiationInv'
  BY <1>4, RelayHandlesStep
<1>5. ASSUME NEW r \in Roles, RelayNotices(r) PROVE NegotiationInv'
  <2>1. /\ at' = at /\ up' = up
        /\ offers' = offers /\ answers' = answers /\ made' = made
    BY <1>5 DEF RelayNotices, loopVars, countVars
  <2> QED BY <2>1, StayIsCalm, StillIsCalm, CalmStep
<1>6. CASE UNCHANGED vars
  <2>1. /\ at' = at /\ up' = up
        /\ offers' = offers /\ answers' = answers /\ made' = made
    BY <1>6 DEF vars, loopVars, queueVars, countVars
  <2> QED BY <2>1, StayIsCalm, StillIsCalm, CalmStep
<1> QED BY <1>1, <1>2, <1>3, <1>4, <1>5, <1>6 DEF Next, Relay

\* The token of the current negotiation is the only one there ever is.
THEOREM OneNegotiationAtATime == Spec => []NegotiationInv
<1>1. Init => NegotiationInv BY NegotiationInitial
<1>2. NegotiationInv /\ [Next]_vars => NegotiationInv' BY NegotiationStep
<1> QED BY <1>1, <1>2, PTL DEF Spec

\* Whatever the two loops and the relay do, what is under way or queued belongs
\* to the sender's newest offer (rejoin! and the `?` on the answer, share.rs).
THEOREM NoNegotiationIsStale == Spec => []NoStaleNegotiation
<1>1. ASSUME NegotiationInv PROVE NoStaleNegotiation
  <2>1. \A r \in Roles : \A i \in 1..Len(up[r]) :
          up[r][i] # Join => up[r][i].n = made
    BY <1>1 DEF NegotiationInv, OneToken, AtMostOne
  <2>2. /\ offers \in {<<>>, <<made>>} /\ answers \in {<<>>, <<made>>}
    BY <1>1 DEF NegotiationInv, OneToken
  <2>3. ASSUME NEW q \in {<<>>, <<made>>}
        PROVE  Len(q) <= 1 /\ (q # <<>> => Head(q) = made)
    BY <2>3
  <2> QED BY <2>1, <2>2, <2>3 DEF NoStaleNegotiation
<1> QED BY <1>1, OneNegotiationAtATime, PTL
=============================================================================
