--------------------------- MODULE TurnRelayProofs ---------------------------
(***************************************************************************)
(* TurnRelay, for every number of peers, nonces and retransmits, every     *)
(* lifetime and every capacity of the path: the handshake fails for a      *)
(* cause only, and allocation and permissions last as long as the loop     *)
(* counts on them.                                                         *)
(***************************************************************************)
EXTENDS TurnRelay, TLAPS

(* The inductive invariant.                                                *)

\* What travels to the server: the initial request, or one with a nonce of the
\* handshake, and the requests of the relay.
Initial == [kind : {"allocate"}, txn : {1}, nonce : {0}]
Signed == [kind : {"allocate"}, txn : Nat \ {0, 1}, nonce : Nat \ {0}]
Allocates == Initial \cup Signed
Refreshes == [kind : {"refresh"}, nonce : Nat]
Permissions == [kind : {"permission"}, peer : Peers, nonce : Nat]
Sends == [kind : {"send"}, peer : Peers]
Requests == Allocates \cup Refreshes \cup Permissions \cup Sends

\* What travels back: each answer fits the request with its transaction, and
\* only errors carry a nonce.
Challenges == [kind : {"401"}, txn : {1}, nonce : Nat \ {0}]
Stales == [kind : {"438"}, txn : Nat \ {0, 1}, nonce : Nat \ {0}]
Successes == [kind : {"success"}, txn : Nat \ {0, 1}]
Refusals == [kind : {"refusal"}, txn : Nat \ {0}]
Controls == [kind : {"control"}, txn : {0}, nonce : Nat \ {0}]
Answers == Challenges \cup Stales \cup Successes \cup Refusals \cup Controls

Machines == [state : {"challenge", "allocate", "done"}, txn : Nat \ {0},
             nonce : Nat, stale : 0..MaxStale]

TypeOK ==
  /\ relayOnly \in BOOLEAN
  /\ phase \in {"gather", "relay", "direct"}
  /\ machine \in Machines /\ resent \in 0..MaxRetransmits /\ captured \in Nat
  /\ broken \in BOOLEAN
  /\ permitted \subseteq Peers /\ refreshIn \in 0..RefreshInterval
  /\ up \in Seq(Requests) /\ down \in Seq(Answers)
  /\ nonce \in Nat \ {0} /\ granted \in Nat /\ permits \in [Peers -> Nat]
  /\ early \in Nat /\ late \in BOOLEAN /\ refused \in BOOLEAN
  /\ accepted \in Nat /\ unrefreshed \in BOOLEAN
  /\ excused \subseteq Peers /\ dropped \subseteq Peers

At(s) == 1..Len(s)

\* Nonces only get newer along their way: at the server, in the answers, at
\* the client, in its requests.
Carried(msg) == "nonce" \in DOMAIN msg
NoncesGrow ==
  /\ accepted <= captured /\ captured <= nonce
  /\ \A i \in At(up) : Carried(up[i]) => up[i].nonce <= captured
  /\ \A i \in At(down) : Carried(down[i]) => captured <= down[i].nonce /\ down[i].nonce <= nonce
  /\ \A i, j \in At(down) :
       i < j /\ Carried(down[i]) /\ Carried(down[j]) => down[i].nonce <= down[j].nonce

\* While allocate() runs only its requests are under way, none of a later
\* transaction than the machine's.
OnlyAllocates ==
  Gathering =>
    /\ machine.state # "done"
    /\ \A i \in At(up) : up[i] \in Allocates /\ up[i].txn <= machine.txn
    /\ \A i \in At(down) : 1 <= down[i].txn /\ down[i].txn <= machine.txn

RefusalsAreNoted == \A i \in At(down) : down[i].kind = "refusal" => refused

\* Every initial request is under way, answered or lost; later, so is the
\* request that the machine waits for.
Awaited ==
  \/ \E i \in At(up) : up[i] \in Allocates /\ up[i].txn = machine.txn
  \/ \E i \in At(down) : down[i].txn = machine.txn
NothingVanishes ==
  Gathering =>
    /\ machine.state = "challenge" =>
         machine.txn = 1 /\ Len(up) + Len(down) + early = 1 + resent
    /\ machine.state = "allocate" => machine.txn > 1 /\ (late \/ Awaited)

\* The allocation outlives the next refresh by the other half of its lifetime;
\* while the refresh is under way, no time passes.
Spare == Lifetime - RefreshInterval
IsRefreshing == \E i \in At(up) : up[i] \in Refreshes
RefreshedInTime ==
  /\ Gathering => \A i \in At(down) : down[i].kind = "success" => granted = Lifetime
  /\ phase = "relay" =>
       \/ unrefreshed
       \/ granted >= refreshIn + Spare
       \/ IsRefreshing /\ granted >= Spare

\* A peer that was asked for has its permission, has lost it for a cause, or
\* the request is ahead of whatever is sent to it.
AskedFirst(p) ==
  \E j \in At(up) : /\ up[j] \in Permissions /\ up[j].peer = p
                    /\ \A i \in 1..(j - 1) : up[i] \in Sends => up[i].peer # p
Unasked(p) ==
  p \notin permitted /\ \A i \in At(up) : up[i] \in Sends => up[i].peer # p
SendsAreCovered ==
  \A p \in Peers : p \in excused \/ permits[p] > 0 \/ AskedFirst(p) \/ Unasked(p)

RelayOnlyInRelay ==
  phase # "relay" => (\A i \in At(up) : up[i] \in Allocates) /\ permitted = {}

TurnInv ==
  /\ TypeOK /\ NoncesGrow /\ OnlyAllocates /\ RefusalsAreNoted /\ NothingVanishes
  /\ RefreshedInTime /\ SendsAreCovered /\ RelayOnlyInRelay
  /\ GatherFailsForCause /\ DropsHaveACause

-----------------------------------------------------------------------------
(* Lemmas about constants, messages and queues.                            *)

LEMMA Constants ==
  /\ MaxRetransmits \in Nat /\ MaxStale \in Nat
  /\ Lifetime \in Nat \ {0} /\ PermitTicks \in Nat \ {0}
  /\ RefreshInterval \in Nat /\ RefreshInterval <= Lifetime
  /\ Spare \in Nat \ {0} /\ RefreshInterval + Spare = Lifetime
<1>1. /\ MaxRetransmits \in Nat /\ MaxStale \in Nat
      /\ Lifetime \in Nat \ {0} /\ PermitTicks \in Nat \ {0}
  BY TurnAssumption
<1>2. RefreshInterval \in Nat /\ RefreshInterval < Lifetime
  BY <1>1 DEF RefreshInterval
<1> QED BY <1>1, <1>2 DEF Spare

LEMMA Smaller ==
  ASSUME NEW a \in Int, NEW b \in Int
  PROVE  /\ Min({a, b}) = IF a <= b THEN a ELSE b
         /\ Max({a, b}) = IF a >= b THEN a ELSE b
<1>1. Min({a, b}) = CHOOSE x \in {a, b} : \A y \in {a, b} : x <= y BY DEF Min
<1>2. Max({a, b}) = CHOOSE x \in {a, b} : \A y \in {a, b} : x >= y BY DEF Max
<1> QED BY <1>1, <1>2

\* How the server counts down.
LEMMA OneLess ==
  ASSUME NEW n \in Nat
  PROVE  Max({0, n - 1}) \in Nat /\ Max({0, n - 1}) >= n - 1
<1> DEFINE less == n - 1
<1>1. less \in Int /\ 0 \in Int OBVIOUS
<1> HIDE DEF less
<1>2. Max({0, less}) = IF 0 >= less THEN 0 ELSE less BY <1>1, Smaller
<1>3. Max({0, less}) \in Nat /\ Max({0, less}) >= less BY <1>1, <1>2
<1> QED BY <1>3 DEF less

\* A request is of one kind, and only a Send indication has no nonce.
LEMMA RequestKinds ==
  ASSUME NEW m \in Requests
  PROVE  /\ m.kind = "allocate" <=> m \in Allocates
         /\ m.kind = "refresh" <=> m \in Refreshes
         /\ m.kind = "permission" <=> m \in Permissions
         /\ m.kind = "send" <=> m \in Sends
         /\ Carried(m) <=> m.kind # "send"
         /\ m.kind # "send" => m.nonce \in Nat
         /\ m.kind \in {"permission", "send"} => m.peer \in Peers
         /\ m.kind = "allocate" =>
              /\ m.txn \in Nat \ {0}
              /\ m.nonce = 0 <=> m.txn = 1
<1>1. CASE m \in Initial
  BY <1>1 DEF Allocates, Initial, Signed, Refreshes, Permissions, Sends, Carried
<1>2. CASE m \in Signed
  BY <1>2 DEF Allocates, Initial, Signed, Refreshes, Permissions, Sends, Carried
<1>3. CASE m \in Refreshes
  BY <1>3 DEF Allocates, Initial, Signed, Refreshes, Permissions, Sends, Carried
<1>4. CASE m \in Permissions
  BY <1>4 DEF Allocates, Initial, Signed, Refreshes, Permissions, Sends, Carried
<1>5. CASE m \in Sends
  BY <1>5 DEF Allocates, Initial, Signed, Refreshes, Permissions, Sends, Carried
<1> QED BY <1>1, <1>2, <1>3, <1>4, <1>5 DEF Requests, Allocates

LEMMA AnswerKinds ==
  ASSUME NEW m \in Answers
  PROVE  /\ m.kind \in {"401", "438", "success", "refusal", "control"}
         /\ m.txn \in Nat
         /\ Carried(m) => m.nonce \in Nat \ {0}
         /\ m.kind \in {"401", "438", "control"} => Carried(m)
         /\ m.kind = "401" => m.txn = 1
         /\ m.kind \in {"438", "success"} => m.txn > 1
         /\ m.kind = "control" <=> m.txn = 0
<1>1. CASE m \in Challenges BY <1>1 DEF Challenges, Carried
<1>2. CASE m \in Stales BY <1>2 DEF Stales, Carried
<1>3. CASE m \in Successes BY <1>3 DEF Successes, Carried
<1>4. CASE m \in Refusals BY <1>4 DEF Refusals, Carried
<1>5. CASE m \in Controls BY <1>5 DEF Controls, Carried
<1> QED BY <1>1, <1>2, <1>3, <1>4, <1>5 DEF Answers

LEMMA TailOf ==
  ASSUME NEW S, NEW s \in Seq(S), s # <<>>
  PROVE  /\ Tail(s) \in Seq(S) /\ Len(s) \in Nat \ {0}
         /\ Len(Tail(s)) = Len(s) - 1
         /\ Head(s) = s[1] /\ Head(s) \in S
         /\ \A i \in At(Tail(s)) : i + 1 \in At(s) /\ Tail(s)[i] = s[i + 1]
         /\ \A i \in At(s) : i # 1 => i - 1 \in At(Tail(s)) /\ Tail(s)[i - 1] = s[i]
  BY DEF At

-----------------------------------------------------------------------------
(* Gathering.                                                              *)

Unchanged == UNCHANGED <<relayOnly, resent, permitted, server, history>>

\* What allocate() does with a datagram: nothing, another request, one that
\* the socket refuses to send, defeat for a cause, or the allocation.
Ignores(msg) ==
  msg.txn # machine.txn /\ UNCHANGED <<phase, machine, broken, up, refreshIn>>
Breaks(msg) ==
  /\ phase' = "direct" /\ broken' = TRUE /\ machine' \in Machines
  /\ UNCHANGED <<up, refreshIn>>
Retries(msg) ==
  /\ Carried(msg) /\ UNCHANGED <<phase, broken, refreshIn>>
  /\ machine' \in Machines
  /\ machine'.state = "allocate" /\ machine'.txn = machine.txn + 1
  /\ up' = Append(up, Authenticated(machine.txn + 1, msg.nonce))
Loses(msg) ==
  /\ phase' = "direct" /\ machine' \in Machines /\ UNCHANGED <<up, broken, refreshIn>>
  /\ msg.kind = "refusal" \/ machine'.stale = MaxStale
Wins(msg) ==
  /\ msg.kind = "success" /\ phase' = "relay" /\ machine' \in Machines
  /\ refreshIn' = RefreshInterval /\ UNCHANGED <<up, broken>>

LEMMA GatheringCases ==
  ASSUME TurnInv, ReceiveGathering
  PROVE  LET msg == Head(down) IN
         /\ Gathering /\ down # <<>> /\ down' = Tail(down) /\ Unchanged
         /\ captured' = Captured(msg)
         /\ Ignores(msg) \/ Retries(msg) \/ Breaks(msg) \/ Loses(msg) \/ Wins(msg)
<1> DEFINE msg == Head(down)
<1>0. TypeOK /\ OnlyAllocates /\ NothingVanishes BY DEF TurnInv
<1>1. /\ Gathering /\ down # <<>> /\ down' = Tail(down) /\ Unchanged
      /\ captured' = Captured(msg)
  BY DEF ReceiveGathering, Unchanged
<1>2. msg \in Answers BY <1>0, <1>1, TailOf DEF TypeOK
<1> HIDE DEF msg
<1>3. machine \in Machines /\ machine.txn \in Nat /\ machine.stale \in 0..MaxStale
  BY <1>0 DEF TypeOK, Machines
<1>4. MaxStale \in Nat BY Constants
<1>5. ASSUME NEW stale \in 0..MaxStale, Authenticate(msg, stale), Carried(msg),
             UNCHANGED refreshIn
      PROVE  Retries(msg) \/ Breaks(msg)
  <2>1. msg.nonce \in Nat BY <1>2, <1>5, AnswerKinds
  <2>2. /\ machine' = [state |-> "allocate", txn |-> machine.txn + 1,
                       nonce |-> msg.nonce, stale |-> stale]
        /\ SendTo(Authenticated(machine.txn + 1, msg.nonce))
    BY <1>5 DEF Authenticate
  <2>3. machine' \in Machines /\ machine'.state = "allocate"
        /\ machine'.txn = machine.txn + 1
    BY <2>1, <2>2, <1>3 DEF Machines
  <2> QED BY <2>2, <2>3, <1>5 DEF SendTo, SocketError, Retries, Breaks
<1>6. ASSUME GiveUp, UNCHANGED refreshIn, msg.kind = "refusal" \/ machine.stale = MaxStale
      PROVE  Loses(msg)
  BY <1>3, <1>6 DEF GiveUp, Loses, Machines
<1>7. CASE msg.txn # machine.txn
  BY <1>7, <1>1 DEF ReceiveGathering, Ignores, msg
<1>8. CASE msg.txn = machine.txn /\ machine.state = "challenge"
  <2>1. OnChallenge(msg) BY <1>8 DEF ReceiveGathering, msg
  <2>2. msg.txn = 1 BY <1>0, <1>1, <1>8 DEF NothingVanishes
  <2>3. msg.kind \in {"401", "refusal"} BY <1>2, <2>2, AnswerKinds
  <2>4. CASE msg.kind = "401"
    <3>1. Authenticate(msg, machine.stale) /\ UNCHANGED refreshIn
      BY <2>1, <2>4 DEF OnChallenge
    <3>2. Retries(msg) \/ Breaks(msg) BY <3>1, <2>4, <1>2, <1>3, <1>5, AnswerKinds
    <3> QED BY <3>2, <1>1 DEF msg
  <2>5. CASE msg.kind = "refusal"
    <3>1. GiveUp /\ UNCHANGED refreshIn BY <2>1, <2>5 DEF OnChallenge
    <3>2. Loses(msg) BY <3>1, <2>5, <1>6
    <3> QED BY <3>2, <1>1 DEF msg
  <2> QED BY <2>3, <2>4, <2>5, <1>1 DEF msg
<1>9. CASE msg.txn = machine.txn /\ machine.state # "challenge"
  <2>1. OnAllocate(msg) BY <1>9 DEF ReceiveGathering, msg
  <2>2. machine.txn > 1
    BY <1>0, <1>1, <1>3, <1>9 DEF NothingVanishes, OnlyAllocates, Machines
  <2>3. msg.kind \in {"438", "success", "refusal"} BY <1>2, <1>9, <2>2, AnswerKinds
  <2>4. CASE msg.kind = "success"
    <3>1. Wins(msg) BY <2>1, <2>4, <1>3 DEF OnAllocate, Wins, Machines
    <3> QED BY <3>1, <1>1 DEF msg
  <2>5. CASE msg.kind = "438" /\ ~TooManyStale(machine.stale + 1)
    <3>1. machine.stale + 1 \in 0..MaxStale
      BY <2>5, <1>3, <1>4 DEF TooManyStale
    <3>2. Authenticate(msg, machine.stale + 1) /\ UNCHANGED refreshIn
      BY <2>1, <2>5 DEF OnAllocate
    <3>3. Retries(msg) \/ Breaks(msg) BY <3>1, <3>2, <1>2, <1>5, <2>5, AnswerKinds
    <3> QED BY <3>3, <1>1 DEF msg
  <2>6. CASE msg.kind = "438" /\ TooManyStale(machine.stale + 1)
    <3>1. machine.stale = MaxStale BY <2>6, <1>3, <1>4 DEF TooManyStale
    <3>2. GiveUp /\ UNCHANGED refreshIn BY <2>1, <2>6 DEF OnAllocate
    <3>3. Loses(msg) BY <3>1, <3>2, <1>6
    <3> QED BY <3>3, <1>1 DEF msg
  <2>7. CASE msg.kind = "refusal"
    <3>1. GiveUp /\ UNCHANGED refreshIn BY <2>1, <2>7 DEF OnAllocate
    <3>2. Loses(msg) BY <3>1, <2>7, <1>6
    <3> QED BY <3>2, <1>1 DEF msg
  <2> QED BY <2>3, <2>4, <2>5, <2>6, <2>7
<1> QED BY <1>7, <1>8, <1>9

LEMMA ReceiveGatheringKeeps ==
  ASSUME TurnInv, ReceiveGathering
  PROVE  TurnInv'
<1> DEFINE msg == Head(down)
           sent == Authenticated(machine.txn + 1, msg.nonce)
<1>0. /\ TypeOK /\ NoncesGrow /\ OnlyAllocates /\ RefusalsAreNoted /\ NothingVanishes
      /\ RefreshedInTime /\ SendsAreCovered /\ RelayOnlyInRelay
      /\ GatherFailsForCause /\ DropsHaveACause
  BY DEF TurnInv
<1>1. /\ Gathering /\ down # <<>> /\ down' = Tail(down) /\ Unchanged
      /\ captured' = Captured(msg)
      /\ Ignores(msg) \/ Retries(msg) \/ Breaks(msg) \/ Loses(msg) \/ Wins(msg)
  BY GatheringCases
<1>2. /\ Tail(down) \in Seq(Answers) /\ Len(down) \in Nat \ {0}
      /\ Len(Tail(down)) = Len(down) - 1
      /\ msg = down[1] /\ msg \in Answers
      /\ \A i \in At(Tail(down)) : i + 1 \in At(down) /\ Tail(down)[i] = down[i + 1]
  <2>1. down \in Seq(Answers) BY <1>0 DEF TypeOK
  <2> QED BY <2>1, <1>1, TailOf
<1>3. 1 \in At(down) BY <1>2 DEF At
<1>4. /\ machine \in Machines /\ machine.txn \in Nat \ {0}
      /\ captured \in Nat /\ up \in Seq(Requests)
  BY <1>0 DEF TypeOK, Machines
<1> HIDE DEF msg
<1>5. captured' \in Nat /\ captured <= captured' /\ (Carried(msg) => captured' = msg.nonce)
  <2>1. CASE Carried(msg)
    BY <2>1, <1>0, <1>1, <1>2, <1>3, AnswerKinds DEF Captured, Carried, NoncesGrow
  <2>2. CASE ~Carried(msg)
    BY <2>2, <1>1, <1>4 DEF Captured, Carried
  <2> QED BY <2>1, <2>2
<1>6. /\ UNCHANGED <<relayOnly, resent, permitted, nonce, granted, permits>>
      /\ UNCHANGED <<early, late, refused, accepted, unrefreshed, excused, dropped>>
  BY <1>1 DEF Unchanged, server, history
<1>7. ASSUME Retries(msg)
      PROVE  /\ sent \in Signed /\ sent.nonce = captured' /\ sent.txn = machine'.txn
             /\ up' \in Seq(Requests) /\ Len(up) \in Nat
             /\ Len(up') = Len(up) + 1 /\ up'[Len(up) + 1] = sent
             /\ \A i \in At(up) : up'[i] = up[i]
             /\ \A i \in At(up') : i \notin At(up) => i = Len(up) + 1
  <2>1. msg.nonce \in Nat \ {0} /\ msg.nonce = captured'
    BY <1>7, <1>2, <1>5, AnswerKinds DEF Retries
  <2>2. sent \in Signed /\ sent.nonce = captured' /\ sent.txn = machine'.txn
    BY <2>1, <1>4, <1>7 DEF Authenticated, Signed, Retries
  <2>3. sent \in Requests BY <2>2 DEF Requests, Allocates
  <2> HIDE DEF sent
  <2>4. up' = Append(up, sent) BY <1>7 DEF Retries, sent
  <2>5. /\ Append(up, sent) \in Seq(Requests) /\ Len(up) \in Nat
        /\ Len(Append(up, sent)) = Len(up) + 1 /\ Append(up, sent)[Len(up) + 1] = sent
        /\ \A i \in At(up) : i \in At(Append(up, sent)) /\ Append(up, sent)[i] = up[i]
        /\ \A i \in At(Append(up, sent)) : i \notin At(up) => i = Len(up) + 1
    <3>1. up \in Seq(Requests) BY <1>4
    <3> QED BY <2>3, <3>1 DEF At
  <2>6. At(up') = At(Append(up, sent)) BY <2>4 DEF At
  <2> QED BY <2>2, <2>4, <2>5, <2>6
<1>8. up' = up \/ Retries(msg)
  BY <1>1 DEF Ignores, Breaks, Loses, Wins
<1> HIDE DEF sent
<1>9. \A i \in At(up') :
        \/ i \in At(up) /\ up'[i] = up[i]
        \/ Retries(msg) /\ up'[i] = sent
  BY <1>7, <1>8
<1>10. TypeOK'
  <2>1. up' \in Seq(Requests) BY <1>4, <1>7, <1>8
  <2>2. machine' \in Machines
    BY <1>1, <1>4 DEF Ignores, Retries, Breaks, Loses, Wins
  <2>3. phase' \in {"gather", "relay", "direct"}
    BY <1>0, <1>1 DEF Ignores, Retries, Breaks, Loses, Wins, TypeOK
  <2>4. refreshIn' \in 0..RefreshInterval
    BY <1>0, <1>1, Constants DEF Ignores, Retries, Breaks, Loses, Wins, TypeOK
  <2>5. broken' \in BOOLEAN
    BY <1>0, <1>1 DEF Ignores, Retries, Breaks, Loses, Wins, TypeOK
  <2> QED BY <2>1, <2>2, <2>3, <2>4, <2>5, <1>0, <1>1, <1>2, <1>5, <1>6 DEF TypeOK
<1>11. NoncesGrow'
  <2>0. accepted' <= captured' BY <1>0, <1>4, <1>5, <1>6 DEF NoncesGrow, TypeOK
  <2>1. accepted' <= captured' /\ captured' <= nonce'
    <3>1. CASE Carried(msg) BY <2>0, <3>1, <1>0, <1>2, <1>3, <1>5, <1>6 DEF NoncesGrow
    <3>2. CASE ~Carried(msg)
      BY <2>0, <3>2, <1>0, <1>1, <1>6 DEF NoncesGrow, Captured, Carried
    <3> QED BY <3>1, <3>2
  <2>2. \A i \in At(up') : Carried(up'[i]) => up'[i].nonce <= captured'
    <3> SUFFICES ASSUME NEW i \in At(up'), Carried(up'[i]) PROVE up'[i].nonce <= captured'
      OBVIOUS
    <3>1. CASE i \in At(up) /\ up'[i] = up[i]
      <4>1. up[i] \in Requests /\ Carried(up[i]) BY <1>4, <3>1 DEF At
      <4>2. up[i].nonce \in Nat BY <4>1, RequestKinds
      <4> QED BY <4>1, <4>2, <3>1, <1>0, <1>4, <1>5 DEF NoncesGrow
    <3>2. CASE Retries(msg) /\ up'[i] = sent BY <3>2, <1>5, <1>7
    <3> QED BY <3>1, <3>2, <1>9
  <2>3. \A i \in At(down') : Carried(down'[i]) =>
          captured' <= down'[i].nonce /\ down'[i].nonce <= nonce'
    <3> SUFFICES ASSUME NEW i \in At(down'), Carried(down'[i])
                 PROVE  captured' <= down'[i].nonce /\ down'[i].nonce <= nonce'
      OBVIOUS
    <3>1. i + 1 \in At(down) /\ down'[i] = down[i + 1] /\ 1 < i + 1
      BY <1>1, <1>2 DEF At
    <3>2. CASE Carried(msg)
      BY <3>1, <3>2, <1>0, <1>2, <1>3, <1>5, <1>6 DEF NoncesGrow
    <3>3. CASE ~Carried(msg)
      BY <3>1, <3>3, <1>0, <1>1, <1>6 DEF NoncesGrow, Captured, Carried
    <3> QED BY <3>2, <3>3
  <2>4. \A i, j \in At(down') : i < j /\ Carried(down'[i]) /\ Carried(down'[j])
          => down'[i].nonce <= down'[j].nonce
    <3> SUFFICES ASSUME NEW i \in At(down'), NEW j \in At(down'), i < j,
                        Carried(down'[i]), Carried(down'[j])
                 PROVE  down'[i].nonce <= down'[j].nonce
      OBVIOUS
    <3>1. /\ i + 1 \in At(down) /\ j + 1 \in At(down) /\ i + 1 < j + 1
          /\ down'[i] = down[i + 1] /\ down'[j] = down[j + 1]
      BY <1>1, <1>2 DEF At
    <3> QED BY <3>1, <1>0 DEF NoncesGrow
  <2> QED BY <2>1, <2>2, <2>3, <2>4 DEF NoncesGrow
<1>12. RefusalsAreNoted'
  BY <1>0, <1>1, <1>2, <1>6 DEF RefusalsAreNoted
<1>13. ASSUME Gathering' PROVE Ignores(msg) \/ Retries(msg)
  BY <1>1, <1>13 DEF Gathering, Breaks, Loses, Wins
<1>14. OnlyAllocates'
  <2> SUFFICES ASSUME Gathering'
               PROVE  /\ machine'.state # "done"
                      /\ \A i \in At(up') : up'[i] \in Allocates /\ up'[i].txn <= machine'.txn
                      /\ \A i \in At(down') : 1 <= down'[i].txn /\ down'[i].txn <= machine'.txn
    BY DEF OnlyAllocates
  <2>1. machine'.state # "done" /\ machine'.txn \in Nat /\ machine.txn <= machine'.txn
    BY <1>0, <1>1, <1>4, <1>13 DEF OnlyAllocates, Ignores, Retries
  <2>2. \A i \in At(up') : up'[i] \in Allocates /\ up'[i].txn <= machine'.txn
    <3> SUFFICES ASSUME NEW i \in At(up')
                 PROVE  up'[i] \in Allocates /\ up'[i].txn <= machine'.txn
      OBVIOUS
    <3>1. CASE i \in At(up) /\ up'[i] = up[i]
      <4>1. up[i] \in Allocates /\ up[i].txn <= machine.txn
        BY <3>1, <1>0, <1>1 DEF OnlyAllocates
      <4>2. up[i].txn \in Nat BY <4>1, RequestKinds DEF Requests
      <4> QED BY <3>1, <4>1, <4>2, <2>1, <1>4
    <3>2. CASE Retries(msg) /\ up'[i] = sent BY <3>2, <1>7, <2>1 DEF Allocates
    <3> QED BY <3>1, <3>2, <1>9
  <2>3. \A i \in At(down') : 1 <= down'[i].txn /\ down'[i].txn <= machine'.txn
    <3> SUFFICES ASSUME NEW i \in At(down')
                 PROVE  1 <= down'[i].txn /\ down'[i].txn <= machine'.txn
      OBVIOUS
    <3>1. i + 1 \in At(down) /\ down'[i] = down[i + 1] BY <1>1, <1>2
    <3>2. 1 <= down'[i].txn /\ down'[i].txn <= machine.txn
      BY <3>1, <1>0, <1>1 DEF OnlyAllocates
    <3>3. down[i + 1] \in Answers BY <3>1, <1>0 DEF TypeOK, At
    <3>4. down'[i].txn \in Nat BY <3>1, <3>3, AnswerKinds
    <3> QED BY <3>2, <3>4, <2>1, <1>4
  <2> QED BY <2>1, <2>2, <2>3
<1>15. NothingVanishes'
  <2> SUFFICES ASSUME Gathering'
               PROVE  /\ machine'.state = "challenge" =>
                           machine'.txn = 1 /\ Len(up') + Len(down') + early' = 1 + resent'
                      /\ machine'.state = "allocate" =>
                           machine'.txn > 1 /\ (late' \/ Awaited')
    BY DEF NothingVanishes
  <2>1. CASE Ignores(msg)
    <3>1. machine' = machine /\ up' = up /\ msg.txn # machine.txn
      BY <2>1 DEF Ignores
    <3>2. machine.state # "challenge"
      <4> SUFFICES ASSUME machine.state = "challenge" PROVE FALSE OBVIOUS
      <4>1. machine.txn = 1 BY <1>0, <1>1 DEF NothingVanishes
      <4>2. 1 <= msg.txn /\ msg.txn <= 1
        BY <4>1, <1>0, <1>1, <1>2, <1>3 DEF OnlyAllocates
      <4>3. msg.txn \in Nat BY <1>2, AnswerKinds
      <4> QED BY <4>1, <4>2, <4>3, <3>1
    <3>3. machine.state = "allocate" => machine.txn > 1 /\ (late \/ Awaited)
      BY <1>0, <1>1 DEF NothingVanishes
    <3>4. Awaited => Awaited'
      <4>1. \A i \in At(down) : down[i].txn = machine.txn =>
              i - 1 \in At(down') /\ down'[i - 1] = down[i]
        <5> SUFFICES ASSUME NEW i \in At(down), down[i].txn = machine.txn
                     PROVE  i - 1 \in At(down') /\ down'[i - 1] = down[i]
          OBVIOUS
        <5>1. i # 1 BY <3>1, <1>2
        <5>2. down \in Seq(Answers) BY <1>0 DEF TypeOK
        <5> QED BY <5>1, <5>2, <1>1, TailOf
      <4> QED BY <4>1, <3>1 DEF Awaited
    <3> QED BY <3>1, <3>2, <3>3, <3>4, <1>6
  <2>2. CASE Retries(msg)
    <3>1. machine'.state = "allocate" /\ machine'.txn > 1
      BY <2>2, <1>4 DEF Retries
    <3>2. Awaited'
      <4>1. Len(up) + 1 \in At(up') BY <2>2, <1>7 DEF At
      <4>2. up'[Len(up) + 1] \in Allocates /\ up'[Len(up) + 1].txn = machine'.txn
        BY <2>2, <1>7 DEF Allocates
      <4> QED BY <4>1, <4>2 DEF Awaited
    <3> QED BY <3>1, <3>2
  <2> QED BY <2>1, <2>2, <1>13
<1>16. RefreshedInTime'
  <2>1. Gathering' => \A i \in At(down') : down'[i].kind = "success" => granted' = Lifetime
    BY <1>0, <1>1, <1>2, <1>6 DEF RefreshedInTime
  <2>2. ASSUME phase' = "relay" PROVE granted' >= refreshIn' + Spare
    <3>1. Wins(msg)
      BY <2>2, <1>1 DEF Gathering, Ignores, Retries, Breaks, Loses
    <3>2. granted' = Lifetime
      BY <3>1, <1>0, <1>1, <1>2, <1>3, <1>6 DEF Wins, RefreshedInTime
    <3> QED BY <3>1, <3>2, Constants DEF Wins
  <2> QED BY <2>1, <2>2 DEF RefreshedInTime
<1>17. permitted' = {} /\ \A i \in At(up') : up'[i] \in Allocates
  <2>1. permitted = {} BY <1>0, <1>1 DEF RelayOnlyInRelay, Gathering
  <2>2. \A i \in At(up) : up[i] \in Allocates BY <1>0, <1>1 DEF OnlyAllocates
  <2>3. \A i \in At(up') : up'[i] \in Allocates BY <2>2, <1>7, <1>9 DEF Allocates
  <2> QED BY <2>1, <2>3, <1>6
<1>18. SendsAreCovered'
  <2>1. \A m \in Allocates : m \notin Sends
    BY DEF Allocates, Initial, Signed, Sends
  <2> QED BY <2>1, <1>17 DEF SendsAreCovered, Unasked
<1>19. RelayOnlyInRelay' BY <1>17 DEF RelayOnlyInRelay
<1>20. GatherFailsForCause'
  <2>0. broken = FALSE
    BY <1>0, <1>1 DEF GatherFailsForCause, Gathering, TypeOK
  <2>1. broken' => phase' = "direct"
    BY <2>0, <1>1 DEF Ignores, Retries, Breaks, Loses, Wins
  <2>2. ASSUME phase' = "direct" PROVE refused' \/ broken' \/ machine'.stale = MaxStale
    <3>1. Breaks(msg) \/ Loses(msg) BY <2>2, <1>1 DEF Gathering, Ignores, Retries, Wins
    <3>2. CASE Breaks(msg) BY <3>2 DEF Breaks
    <3>3. CASE Loses(msg)
      BY <3>3, <1>0, <1>2, <1>3, <1>6 DEF Loses, RefusalsAreNoted
    <3> QED BY <3>1, <3>2, <3>3
  <2> QED BY <2>1, <2>2 DEF GatherFailsForCause
<1>21. DropsHaveACause' BY <1>0, <1>6 DEF DropsHaveACause
<1> QED BY <1>10, <1>11, <1>12, <1>14, <1>15, <1>16, <1>18, <1>19, <1>20, <1>21
         DEF TurnInv

\* The initial request is sent again, or it is one time too many.
LEMMA ReceiveTimesOutKeeps ==
  ASSUME TurnInv, ReceiveTimesOut
  PROVE  TurnInv'
<1>0. /\ TypeOK /\ NoncesGrow /\ OnlyAllocates /\ RefusalsAreNoted /\ NothingVanishes
      /\ RefreshedInTime /\ SendsAreCovered /\ RelayOnlyInRelay
      /\ GatherFailsForCause /\ DropsHaveACause
  BY DEF TurnInv
<1>1. /\ Gathering /\ up = <<>> /\ down = <<>>
      /\ resent' = Min({Retransmits, MaxRetransmits})
      /\ IF OutOfRetransmits
           THEN phase' = "direct" /\ up' = up /\ broken' = broken
           ELSE \/ up' = <<Unauthenticated>> /\ phase' = phase /\ broken' = broken
                \/ phase' = "direct" /\ broken' = TRUE /\ up' = up
  <2> DEFINE again == Unauthenticated
  <2>1. up = <<>> => Append(up, again) = <<again>> OBVIOUS
  <2> QED BY <2>1 DEF ReceiveTimesOut, SendTo, SocketError
<1>2. /\ UNCHANGED <<relayOnly, machine, captured, permitted, refreshIn, down>>
      /\ UNCHANGED <<nonce, granted, permits, early, late, refused, accepted>>
      /\ UNCHANGED <<unrefreshed, excused, dropped>>
  BY DEF ReceiveTimesOut, relay, server, history
<1>3. resent \in Nat /\ early \in Nat /\ machine.txn \in Nat \ {0} /\ MaxRetransmits \in Nat
      /\ captured \in Nat /\ resent <= MaxRetransmits
  BY <1>0, Constants DEF TypeOK, Machines
<1>4. resent' \in 0..MaxRetransmits /\ (~OutOfRetransmits => resent' = resent + 1)
  BY <1>1, <1>3, Smaller DEF Retransmits, OutOfRetransmits
<1>5. Unauthenticated \in Initial /\ Initial \subseteq Allocates /\ Allocates \subseteq Requests
  BY DEF Unauthenticated, Initial, Allocates, Requests
<1>6. At(up) = {} /\ At(down) = {} /\ At(down') = {} /\ Len(down') = 0
  BY <1>1, <1>2 DEF At
<1>7. /\ up' \in Seq(Requests)
      /\ \A i \in At(up') : up'[i] = Unauthenticated /\ Len(up') = 1
      /\ Gathering' => Len(up') = 1
  <2> DEFINE again == Unauthenticated
  <2>0. again \in Requests BY <1>5
  <2> HIDE DEF again
  <2>1. CASE up' = up /\ phase' = "direct" BY <2>1, <1>1 DEF At, Gathering
  <2>2. CASE up' = <<again>>
    <3>1. up' \in Seq(Requests) /\ Len(up') = 1 /\ up'[1] = again BY <2>2, <2>0
    <3> QED BY <3>1 DEF At, again
  <2> QED BY <2>1, <2>2, <1>1 DEF again
<1>8. \A i \in At(up') : up'[i] \in Allocates /\ up'[i].txn = 1 /\ up'[i].nonce = 0
  BY <1>5, <1>7 DEF Unauthenticated
<1>9. permitted = {} BY <1>0, <1>1 DEF RelayOnlyInRelay, Gathering
<1>10. TypeOK'
  <2>1. phase' \in {"gather", "relay", "direct"} /\ broken' \in BOOLEAN
    BY <1>0, <1>1 DEF TypeOK
  <2> QED BY <2>1, <1>0, <1>2, <1>4, <1>7 DEF TypeOK
<1>11. NoncesGrow' BY <1>0, <1>2, <1>3, <1>6, <1>8 DEF NoncesGrow
<1>12. OnlyAllocates'
  <2>1. Gathering /\ \A i \in At(up') : up'[i] \in Allocates /\ up'[i].txn <= machine.txn
    BY <1>1, <1>3, <1>8
  <2> QED BY <2>1, <1>0, <1>2, <1>6 DEF OnlyAllocates
<1>13. RefusalsAreNoted' BY <1>6 DEF RefusalsAreNoted
<1>14. /\ machine.state = "challenge" => machine.txn = 1 /\ early = 1 + resent
       /\ machine.state = "allocate" => machine.txn > 1 /\ late
       /\ machine.state \in {"challenge", "allocate"}
  <2>1. ~Awaited BY <1>6 DEF Awaited
  <2>2. Len(up) = 0 /\ Len(down) = 0 BY <1>1
  <2>3. machine.state \in {"challenge", "allocate"}
    BY <1>0, <1>1 DEF OnlyAllocates, TypeOK, Machines
  <2> QED BY <2>1, <2>2, <2>3, <1>0, <1>1, <1>3 DEF NothingVanishes
<1>15. NothingVanishes'
  <2> SUFFICES ASSUME Gathering'
               PROVE  /\ machine'.state = "challenge" =>
                           machine'.txn = 1 /\ Len(up') + Len(down') + early' = 1 + resent'
                      /\ machine'.state = "allocate" =>
                           machine'.txn > 1 /\ (late' \/ Awaited')
    BY DEF NothingVanishes
  <2>1. ~OutOfRetransmits BY <1>1 DEF Gathering
  <2>2. Len(up') = 1 /\ Len(down') = 0 /\ resent' = resent + 1
    BY <2>1, <1>4, <1>6, <1>7
  <2>3. machine' = machine /\ early' = early /\ late' = late BY <1>2
  <2>4. early = 1 + resent => 1 + 0 + early = 1 + (resent + 1) BY <1>3
  <2> QED BY <2>2, <2>3, <2>4, <1>14
<1>16. RefreshedInTime'
  BY <1>1, <1>6 DEF RefreshedInTime, Gathering
<1>17. RelayOnlyInRelay' BY <1>2, <1>8, <1>9 DEF RelayOnlyInRelay
<1>18. SendsAreCovered'
  <2>1. \A m \in Allocates : m \notin Sends
    BY DEF Allocates, Initial, Signed, Sends
  <2> QED BY <2>1, <1>2, <1>8, <1>9 DEF SendsAreCovered, Unasked
<1>19. GatherFailsForCause'
  <2>0. broken = FALSE
    BY <1>0, <1>1 DEF GatherFailsForCause, Gathering, TypeOK
  <2>1. broken' => phase' = "direct" BY <2>0, <1>1
  <2>2. ASSUME phase' = "direct", ~broken' PROVE early > MaxRetransmits \/ late
    <3>1. OutOfRetransmits BY <2>2, <1>1 DEF Gathering
    <3>2. resent + 1 > MaxRetransmits BY <3>1 DEF OutOfRetransmits, Retransmits
    <3> QED BY <3>2, <1>3, <1>14
  <2> QED BY <2>1, <2>2, <1>2 DEF GatherFailsForCause
<1>20. DropsHaveACause' BY <1>0, <1>2 DEF DropsHaveACause
<1> QED BY <1>10, <1>11, <1>12, <1>13, <1>15, <1>16, <1>17, <1>18, <1>19, <1>20
         DEF TurnInv

\* recv_from failed.
LEMMA ReceiveFailsKeeps ==
  ASSUME TurnInv, ReceiveFails
  PROVE  TurnInv'
<1>0. /\ TypeOK /\ NoncesGrow /\ OnlyAllocates /\ RefusalsAreNoted /\ NothingVanishes
      /\ RefreshedInTime /\ SendsAreCovered /\ RelayOnlyInRelay
      /\ GatherFailsForCause /\ DropsHaveACause
  BY DEF TurnInv
<1>1. phase = "gather" /\ phase' = "direct" /\ broken' = TRUE
  BY DEF ReceiveFails, Gathering, SocketError
<1>2. /\ UNCHANGED <<relayOnly, machine, resent, captured, permitted, refreshIn, up, down>>
      /\ UNCHANGED <<nonce, granted, permits, early, late, refused, accepted>>
      /\ UNCHANGED <<unrefreshed, excused, dropped>>
  BY DEF ReceiveFails, relay, server, history
<1>3. ~Gathering' /\ phase' # "relay" BY <1>1 DEF Gathering
<1>4. TypeOK' BY <1>0, <1>1, <1>2 DEF TypeOK
<1>5. NoncesGrow' BY <1>0, <1>2 DEF NoncesGrow
<1>6. OnlyAllocates' /\ NothingVanishes' /\ RefreshedInTime'
  BY <1>3 DEF OnlyAllocates, NothingVanishes, RefreshedInTime
<1>7. RefusalsAreNoted' BY <1>0, <1>2 DEF RefusalsAreNoted
<1>8. SendsAreCovered' BY <1>0, <1>2 DEF SendsAreCovered, AskedFirst, Unasked, At
<1>9. RelayOnlyInRelay' BY <1>0, <1>1, <1>2 DEF RelayOnlyInRelay, At
<1>10. GatherFailsForCause' BY <1>1 DEF GatherFailsForCause
<1>11. DropsHaveACause' BY <1>0, <1>2 DEF DropsHaveACause
<1> QED BY <1>4, <1>5, <1>6, <1>7, <1>8, <1>9, <1>10, <1>11 DEF TurnInv

-----------------------------------------------------------------------------
(* The relay in the event loop.                                            *)

\* What a packet adds to the queue.
LEMMA WrappedOf ==
  ASSUME NEW q \in Seq(Requests), NEW p \in Peers, captured \in Nat
  PROVE  /\ Permission(p) \in Permissions /\ SendIndication(p) \in Sends
         /\ q \o Wrapped(p) \in Seq(Requests)
         /\ Len(q) \in Nat /\ Len(q \o Wrapped(p)) >= Len(q)
         /\ \A i \in At(q) : i \in At(q \o Wrapped(p)) /\ (q \o Wrapped(p))[i] = q[i]
         /\ \A i \in At(q \o Wrapped(p)) : i \notin At(q) =>
              IF p \notin permitted /\ i = Len(q) + 1
                THEN (q \o Wrapped(p))[i] = Permission(p)
                ELSE (q \o Wrapped(p))[i] = SendIndication(p)
         /\ p \notin permitted => Len(q) + 1 \in At(q \o Wrapped(p))
<1> DEFINE ask == Permission(p)
           send == SendIndication(p)
<1>1. ask \in Permissions /\ send \in Sends
  BY DEF Permission, SendIndication, Permissions, Sends
<1>2. ask \in Requests /\ send \in Requests BY <1>1 DEF Requests
<1>3. Wrapped(p) = IF p \in permitted THEN <<send>> ELSE <<ask, send>>
  BY DEF Wrapped
<1> HIDE DEF ask, send
<1>4. CASE p \in permitted
  <2> DEFINE new == q \o <<send>>
  <2>1. /\ new \in Seq(Requests) /\ Len(q) \in Nat /\ Len(new) = Len(q) + 1
        /\ \A i \in 1..Len(q) : new[i] = q[i]
        /\ new[Len(q) + 1] = send
    BY <1>2
  <2>2. q \o Wrapped(p) = new BY <1>3, <1>4
  <2> HIDE DEF new
  <2> QED BY <2>1, <2>2, <1>1, <1>4 DEF At, ask, send
<1>5. CASE p \notin permitted
  <2> DEFINE new == q \o <<ask, send>>
  <2>1. /\ new \in Seq(Requests) /\ Len(q) \in Nat /\ Len(new) = Len(q) + 2
        /\ \A i \in 1..Len(q) : new[i] = q[i]
        /\ new[Len(q) + 1] = ask /\ new[Len(q) + 2] = send
    BY <1>2
  <2>2. q \o Wrapped(p) = new BY <1>3, <1>5
  <2> HIDE DEF new
  <2> QED BY <2>1, <2>2, <1>1, <1>5 DEF At, ask, send
<1> QED BY <1>4, <1>5

LEMMA TransmitRelayedKeeps ==
  ASSUME TurnInv, NEW p \in Peers, TransmitRelayed(p)
  PROVE  TurnInv'
<1> DEFINE new == up \o Wrapped(p)
<1>0. /\ TypeOK /\ NoncesGrow /\ OnlyAllocates /\ RefusalsAreNoted /\ NothingVanishes
      /\ RefreshedInTime /\ SendsAreCovered /\ RelayOnlyInRelay
      /\ GatherFailsForCause /\ DropsHaveACause
  BY DEF TurnInv
<1>1. phase = "relay" /\ up' = new /\ permitted' = permitted \cup {p}
  BY DEF TransmitRelayed
<1>2. /\ UNCHANGED <<relayOnly, phase, machine, resent, captured, broken, refreshIn, down>>
      /\ UNCHANGED <<nonce, granted, permits, early, late, refused, accepted>>
      /\ UNCHANGED <<unrefreshed, excused, dropped>>
  BY DEF TransmitRelayed, client, server, history
<1>3. up \in Seq(Requests) /\ captured \in Nat BY <1>0 DEF TypeOK
<1>4. /\ Permission(p) \in Permissions /\ SendIndication(p) \in Sends
      /\ new \in Seq(Requests)
      /\ Len(up) \in Nat /\ Len(new) >= Len(up)
      /\ \A i \in At(up) : i \in At(new) /\ new[i] = up[i]
      /\ \A i \in At(new) : i \notin At(up) =>
           IF p \notin permitted /\ i = Len(up) + 1
             THEN new[i] = Permission(p)
             ELSE new[i] = SendIndication(p)
      /\ p \notin permitted => Len(up) + 1 \in At(new)
  BY <1>3, WrappedOf
<1> HIDE DEF new
<1>5. \A m \in Permissions : m \notin Sends
  BY DEF Permissions, Sends
<1>6. Permission(p).peer = p /\ Permission(p).nonce = captured /\ SendIndication(p).peer = p
      /\ ~Carried(SendIndication(p))
  BY DEF Permission, SendIndication, Carried
<1>7. At(up') = At(new) BY <1>1 DEF At
<1>10. TypeOK' BY <1>0, <1>1, <1>2, <1>4 DEF TypeOK
<1>11. NoncesGrow'
  <2>1. \A i \in At(new) : Carried(new[i]) => new[i].nonce <= captured
    BY <1>0, <1>3, <1>4, <1>6 DEF NoncesGrow
  <2> QED BY <2>1, <1>0, <1>1, <1>2, <1>7 DEF NoncesGrow
<1>12. OnlyAllocates' BY <1>1, <1>2 DEF OnlyAllocates, Gathering
<1>13. RefusalsAreNoted' BY <1>0, <1>2 DEF RefusalsAreNoted
<1>14. NothingVanishes' BY <1>1, <1>2 DEF NothingVanishes, Gathering
<1>15. RefreshedInTime'
  <2>1. IsRefreshing => IsRefreshing' BY <1>1, <1>4, <1>7 DEF IsRefreshing
  <2> QED BY <2>1, <1>0, <1>1, <1>2 DEF RefreshedInTime, Gathering
<1>16. SendsAreCovered'
  <2> SUFFICES ASSUME NEW r \in Peers, r \notin excused, ~(permits[r] > 0)
               PROVE  AskedFirst(r)' \/ Unasked(r)'
    BY <1>2 DEF SendsAreCovered
  <2>1. AskedFirst(r) \/ Unasked(r) BY <1>0 DEF SendsAreCovered
  <2>2. CASE AskedFirst(r)
    <3>1. PICK j \in At(up) : /\ up[j] \in Permissions /\ up[j].peer = r
                              /\ \A i \in 1..(j - 1) : up[i] \in Sends => up[i].peer # r
      BY <2>2 DEF AskedFirst
    <3>2. j \in At(new) /\ new[j] = up[j] BY <1>4
    <3>3. \A i \in 1..(j - 1) : new[i] = up[i] BY <1>4 DEF At
    <3> QED BY <3>1, <3>2, <3>3, <1>1, <1>7 DEF AskedFirst
  <2>3. CASE Unasked(r) /\ r # p
    <3>1. \A i \in At(new) : new[i] \in Sends => new[i].peer # r
      BY <2>3, <1>4, <1>5, <1>6 DEF Unasked
    <3> QED BY <3>1, <2>3, <1>1, <1>7 DEF Unasked
  <2>4. CASE Unasked(r) /\ r = p
    <3>1. p \notin permitted BY <2>4 DEF Unasked
    <3> DEFINE j == Len(up) + 1
    <3>2. j \in At(new) /\ j \notin At(up) BY <3>1, <1>4 DEF At
    <3>3. new[j] \in Permissions /\ new[j].peer = r BY <3>1, <3>2, <2>4, <1>4, <1>6
    <3>4. \A i \in 1..(j - 1) : new[i] \in Sends => new[i].peer # r
      <4>1. \A i \in 1..(j - 1) : i \in At(up) BY <1>4 DEF At
      <4> QED BY <4>1, <2>4, <1>4 DEF Unasked
    <3> QED BY <3>2, <3>3, <3>4, <1>1, <1>7 DEF AskedFirst
  <2> QED BY <2>1, <2>2, <2>3, <2>4
<1>17. RelayOnlyInRelay' BY <1>1, <1>2 DEF RelayOnlyInRelay
<1>18. GatherFailsForCause' BY <1>0, <1>1, <1>2 DEF GatherFailsForCause
<1>19. DropsHaveACause' BY <1>0, <1>2 DEF DropsHaveACause
<1> QED BY <1>10, <1>11, <1>12, <1>13, <1>14, <1>15, <1>16, <1>17, <1>18, <1>19
         DEF TurnInv

LEMMA RefreshKeeps ==
  ASSUME TurnInv, Refresh
  PROVE  TurnInv'
<1> DEFINE sent == [kind |-> "refresh", nonce |-> captured]
<1>0. /\ TypeOK /\ NoncesGrow /\ OnlyAllocates /\ RefusalsAreNoted /\ NothingVanishes
      /\ RefreshedInTime /\ SendsAreCovered /\ RelayOnlyInRelay
      /\ GatherFailsForCause /\ DropsHaveACause
  BY DEF TurnInv
<1>1. /\ phase = "relay" /\ refreshIn = 0 /\ up' = Append(up, sent)
      /\ refreshIn' = RefreshInterval
  BY DEF Refresh
<1>2. /\ UNCHANGED <<relayOnly, phase, machine, resent, captured, broken, permitted, down>>
      /\ UNCHANGED <<nonce, granted, permits, early, late, refused, accepted>>
      /\ UNCHANGED <<unrefreshed, excused, dropped>>
  BY DEF Refresh, client, server, history
<1>3. up \in Seq(Requests) /\ captured \in Nat /\ granted \in Nat BY <1>0 DEF TypeOK
<1>4. sent \in Refreshes /\ sent.nonce = captured BY <1>3 DEF Refreshes
<1>5. sent \in Requests BY <1>4 DEF Requests
<1> HIDE DEF sent
<1>6. /\ up' \in Seq(Requests) /\ Len(up) \in Nat
      /\ \A i \in At(up) : i \in At(up') /\ up'[i] = up[i]
      /\ \A i \in At(up') : i \notin At(up) => up'[i] = sent
      /\ Len(up) + 1 \in At(up') /\ up'[Len(up) + 1] = sent
  <2> DEFINE new == Append(up, sent)
  <2>1. /\ new \in Seq(Requests) /\ Len(up) \in Nat /\ Len(new) = Len(up) + 1
        /\ \A i \in 1..Len(up) : new[i] = up[i]
        /\ new[Len(up) + 1] = sent
    BY <1>3, <1>5
  <2>2. up' = new BY <1>1
  <2> HIDE DEF new
  <2> QED BY <2>1, <2>2 DEF At
<1>7. \A m \in Refreshes : m \notin Sends BY DEF Refreshes, Sends
<1>10. TypeOK' BY <1>0, <1>1, <1>2, <1>6, Constants DEF TypeOK
<1>11. NoncesGrow'
  <2>1. \A i \in At(up') : Carried(up'[i]) => up'[i].nonce <= captured
    BY <1>0, <1>3, <1>4, <1>6 DEF NoncesGrow
  <2> QED BY <2>1, <1>0, <1>2 DEF NoncesGrow
<1>12. OnlyAllocates' BY <1>1, <1>2 DEF OnlyAllocates, Gathering
<1>13. RefusalsAreNoted' BY <1>0, <1>2 DEF RefusalsAreNoted
<1>14. NothingVanishes' BY <1>1, <1>2 DEF NothingVanishes, Gathering
<1>15. RefreshedInTime'
  <2>1. IsRefreshing' BY <1>4, <1>6 DEF IsRefreshing
  <2>2. unrefreshed \/ granted >= Spare
    BY <1>0, <1>1, <1>3, Constants DEF RefreshedInTime
  <2> QED BY <2>1, <2>2, <1>1, <1>2 DEF RefreshedInTime, Gathering
<1>16. SendsAreCovered'
  <2> SUFFICES ASSUME NEW r \in Peers, r \notin excused, ~(permits[r] > 0)
               PROVE  AskedFirst(r)' \/ Unasked(r)'
    BY <1>2 DEF SendsAreCovered
  <2>1. AskedFirst(r) \/ Unasked(r) BY <1>0 DEF SendsAreCovered
  <2>2. CASE AskedFirst(r)
    <3>1. PICK j \in At(up) : /\ up[j] \in Permissions /\ up[j].peer = r
                              /\ \A i \in 1..(j - 1) : up[i] \in Sends => up[i].peer # r
      BY <2>2 DEF AskedFirst
    <3>2. j \in At(up') /\ up'[j] = up[j] BY <1>6
    <3>3. \A i \in 1..(j - 1) : up'[i] = up[i] BY <1>6 DEF At
    <3> QED BY <3>1, <3>2, <3>3 DEF AskedFirst
  <2>3. CASE Unasked(r)
    <3>1. \A i \in At(up') : up'[i] \in Sends => up'[i].peer # r
      BY <2>3, <1>4, <1>6, <1>7 DEF Unasked
    <3> QED BY <3>1, <2>3, <1>2 DEF Unasked
  <2> QED BY <2>1, <2>2, <2>3
<1>17. RelayOnlyInRelay' BY <1>1, <1>2 DEF RelayOnlyInRelay
<1>18. GatherFailsForCause' BY <1>0, <1>1, <1>2 DEF GatherFailsForCause
<1>19. DropsHaveACause' BY <1>0, <1>2 DEF DropsHaveACause
<1> QED BY <1>10, <1>11, <1>12, <1>13, <1>14, <1>15, <1>16, <1>17, <1>18, <1>19
         DEF TurnInv

\* Time passes only while nothing is on its way to the server.
LEMMA TickKeeps ==
  ASSUME TurnInv, Tick
  PROVE  TurnInv'
<1>0. /\ TypeOK /\ NoncesGrow /\ OnlyAllocates /\ RefusalsAreNoted /\ NothingVanishes
      /\ RefreshedInTime /\ SendsAreCovered /\ RelayOnlyInRelay
      /\ GatherFailsForCause /\ DropsHaveACause
  BY DEF TurnInv
<1>1. /\ phase = "relay" /\ refreshIn > 0 /\ up = <<>> /\ refreshIn' = refreshIn - 1
      /\ granted' = Max({0, granted - 1})
      /\ permits' = [p \in Peers |-> Max({0, permits[p] - 1})]
      /\ excused' = excused \cup {p \in Peers : permits[p] = 1}
  BY DEF Tick
<1>2. /\ UNCHANGED <<relayOnly, phase, machine, resent, captured, broken, permitted, up, down>>
      /\ UNCHANGED <<nonce, early, late, refused, accepted, unrefreshed, dropped>>
  BY DEF Tick, client
<1>3. /\ refreshIn \in 0..RefreshInterval /\ granted \in Nat /\ permits \in [Peers -> Nat]
      /\ RefreshInterval \in Nat /\ Spare \in Nat \ {0}
  BY <1>0, Constants DEF TypeOK
<1>4. granted' \in Nat /\ granted' >= granted - 1
  BY <1>1, <1>3, OneLess
<1>5. \A p \in Peers : permits'[p] \in Nat /\ permits'[p] >= permits[p] - 1
  <2> TAKE p \in Peers
  <2>1. permits[p] \in Nat /\ permits'[p] = Max({0, permits[p] - 1}) BY <1>1, <1>3
  <2> QED BY <2>1, OneLess
<1>6. At(up) = {} BY <1>1 DEF At
<1>10. TypeOK'
  <2>1. refreshIn' \in 0..RefreshInterval BY <1>1, <1>3
  <2>2. permits' \in [Peers -> Nat] BY <1>1, <1>5
  <2>3. excused' \subseteq Peers BY <1>0, <1>1 DEF TypeOK
  <2> QED BY <2>1, <2>2, <2>3, <1>0, <1>2, <1>4 DEF TypeOK
<1>11. NoncesGrow' BY <1>0, <1>2 DEF NoncesGrow
<1>12. OnlyAllocates' BY <1>1, <1>2 DEF OnlyAllocates, Gathering
<1>13. RefusalsAreNoted' BY <1>0, <1>2 DEF RefusalsAreNoted
<1>14. NothingVanishes' BY <1>1, <1>2 DEF NothingVanishes, Gathering
<1>15. RefreshedInTime'
  <2>1. ~IsRefreshing BY <1>6 DEF IsRefreshing
  <2>2. unrefreshed \/ granted >= refreshIn + Spare
    BY <2>1, <1>0, <1>1 DEF RefreshedInTime
  <2>3. unrefreshed \/ granted' >= refreshIn' + Spare
    BY <2>2, <1>1, <1>3, <1>4
  <2> QED BY <2>3, <1>1, <1>2 DEF RefreshedInTime, Gathering
<1>16. SendsAreCovered'
  <2> SUFFICES ASSUME NEW p \in Peers, p \notin excused'
               PROVE  permits'[p] > 0 \/ Unasked(p)'
    BY DEF SendsAreCovered
  <2>1. p \notin excused /\ permits[p] # 1 BY <1>1
  <2>2. ~AskedFirst(p) BY <1>6 DEF AskedFirst
  <2>3. permits[p] > 0 \/ Unasked(p) BY <2>1, <2>2, <1>0 DEF SendsAreCovered
  <2>4. permits[p] > 0 => permits'[p] > 0
    <3>1. permits[p] \in Nat /\ permits'[p] \in Nat /\ permits'[p] >= permits[p] - 1
      BY <1>3, <1>5
    <3> QED BY <3>1, <2>1
  <2> QED BY <2>3, <2>4, <1>2 DEF Unasked
<1>17. RelayOnlyInRelay' BY <1>1, <1>2 DEF RelayOnlyInRelay
<1>18. GatherFailsForCause' BY <1>0, <1>1, <1>2 DEF GatherFailsForCause
<1>19. DropsHaveACause' BY <1>0, <1>1, <1>2 DEF DropsHaveACause
<1> QED BY <1>10, <1>11, <1>12, <1>13, <1>14, <1>15, <1>16, <1>17, <1>18, <1>19
         DEF TurnInv

LEMMA NewNonceKeeps ==
  ASSUME TurnInv, NewNonce
  PROVE  TurnInv'
<1>0. /\ TypeOK /\ NoncesGrow /\ OnlyAllocates /\ RefusalsAreNoted /\ NothingVanishes
      /\ RefreshedInTime /\ SendsAreCovered /\ RelayOnlyInRelay
      /\ GatherFailsForCause /\ DropsHaveACause
  BY DEF TurnInv
<1>1. nonce' = nonce + 1 BY DEF NewNonce
<1>2. /\ UNCHANGED <<relayOnly, phase, machine, resent, captured, broken, permitted, refreshIn>>
      /\ UNCHANGED <<up, down, granted, permits, early, late, refused, accepted>>
      /\ UNCHANGED <<unrefreshed, excused, dropped>>
  BY DEF NewNonce, client, relay, history
<1>3. TypeOK' BY <1>0, <1>1, <1>2 DEF TypeOK
<1>4. NoncesGrow'
  <2>1. captured \in Nat /\ nonce \in Nat BY <1>0 DEF TypeOK
  <2>2. captured <= nonce' BY <2>1, <1>0, <1>1 DEF NoncesGrow
  <2>3. \A i \in At(down) : Carried(down[i]) => down[i].nonce <= nonce'
    <3> SUFFICES ASSUME NEW i \in At(down), Carried(down[i]) PROVE down[i].nonce <= nonce'
      OBVIOUS
    <3>1. down[i] \in Answers BY <1>0 DEF TypeOK, At
    <3>2. down[i].nonce \in Nat BY <3>1, AnswerKinds
    <3> QED BY <3>2, <2>1, <1>0, <1>1 DEF NoncesGrow
  <2> QED BY <2>2, <2>3, <1>0, <1>2 DEF NoncesGrow
<1>5. OnlyAllocates' BY <1>0, <1>2 DEF OnlyAllocates, Gathering
<1>6. RefusalsAreNoted' BY <1>0, <1>2 DEF RefusalsAreNoted
<1>7. NothingVanishes' BY <1>0, <1>2 DEF NothingVanishes, Gathering, Awaited
<1>8. RefreshedInTime' BY <1>0, <1>2 DEF RefreshedInTime, Gathering, IsRefreshing
<1>9. SendsAreCovered' BY <1>0, <1>2 DEF SendsAreCovered, AskedFirst, Unasked
<1>10. RelayOnlyInRelay' BY <1>0, <1>2 DEF RelayOnlyInRelay
<1>11. GatherFailsForCause' BY <1>0, <1>2 DEF GatherFailsForCause
<1>12. DropsHaveACause' BY <1>0, <1>2 DEF DropsHaveACause
<1> QED BY <1>3, <1>4, <1>5, <1>6, <1>7, <1>8, <1>9, <1>10, <1>11, <1>12 DEF TurnInv

-----------------------------------------------------------------------------
(* Answers that are read or lost.                                          *)

\* What is left of the answers when the first has gone.
LEMMA AnswerGoes ==
  ASSUME TurnInv, down # <<>>, down' = Tail(down), UNCHANGED <<captured, nonce>>
  PROVE  /\ down' \in Seq(Answers) /\ Len(down) \in Nat /\ Len(down') = Len(down) - 1
         /\ Head(down) = down[1] /\ Head(down) \in Answers /\ 1 \in At(down)
         /\ \A i \in At(down') : i + 1 \in At(down) /\ down'[i] = down[i + 1]
         /\ \A i \in At(down) : i # 1 => i - 1 \in At(down') /\ down'[i - 1] = down[i]
         /\ \A i \in At(down') : Carried(down'[i]) =>
              captured' <= down'[i].nonce /\ down'[i].nonce <= nonce'
         /\ \A i, j \in At(down') : i < j /\ Carried(down'[i]) /\ Carried(down'[j])
              => down'[i].nonce <= down'[j].nonce
<1>0. NoncesGrow /\ down \in Seq(Answers) BY DEF TurnInv, TypeOK
<1>1. /\ down' \in Seq(Answers) /\ Len(down) \in Nat \ {0} /\ Len(down') = Len(down) - 1
      /\ Head(down) = down[1] /\ Head(down) \in Answers
      /\ \A i \in At(down') : i + 1 \in At(down) /\ down'[i] = down[i + 1]
      /\ \A i \in At(down) : i # 1 => i - 1 \in At(down') /\ down'[i - 1] = down[i]
  BY <1>0, TailOf
<1>2. 1 \in At(down) BY <1>1 DEF At
<1>3. \A i \in At(down') : Carried(down'[i]) =>
        captured' <= down'[i].nonce /\ down'[i].nonce <= nonce'
  BY <1>0, <1>1 DEF NoncesGrow
<1>4. \A i, j \in At(down') : i < j /\ Carried(down'[i]) /\ Carried(down'[j])
        => down'[i].nonce <= down'[j].nonce
  <2> SUFFICES ASSUME NEW i \in At(down'), NEW j \in At(down'), i < j,
                      Carried(down'[i]), Carried(down'[j])
               PROVE  down'[i].nonce <= down'[j].nonce
    OBVIOUS
  <2>1. i + 1 < j + 1 BY DEF At
  <2> QED BY <2>1, <1>0, <1>1 DEF NoncesGrow
<1> QED BY <1>1, <1>2, <1>3, <1>4

LEMMA ReceiveControlKeeps ==
  ASSUME TurnInv, ReceiveControl
  PROVE  TurnInv'
<1>0. /\ TypeOK /\ NoncesGrow /\ OnlyAllocates /\ RefusalsAreNoted /\ NothingVanishes
      /\ RefreshedInTime /\ SendsAreCovered /\ RelayOnlyInRelay
      /\ GatherFailsForCause /\ DropsHaveACause
  BY DEF TurnInv
<1>1. phase # "gather" /\ down # <<>> /\ down' = Tail(down) BY DEF ReceiveControl
<1>2. /\ UNCHANGED <<relayOnly, phase, machine, resent, captured, broken, permitted, refreshIn, up>>
      /\ UNCHANGED <<nonce, granted, permits, early, late, refused, accepted>>
      /\ UNCHANGED <<unrefreshed, excused, dropped>>
  BY DEF ReceiveControl, client, relay, server, history
<1>3. /\ down' \in Seq(Answers)
      /\ \A i \in At(down') : i + 1 \in At(down) /\ down'[i] = down[i + 1]
      /\ \A i \in At(down') : Carried(down'[i]) =>
           captured' <= down'[i].nonce /\ down'[i].nonce <= nonce'
      /\ \A i, j \in At(down') : i < j /\ Carried(down'[i]) /\ Carried(down'[j])
           => down'[i].nonce <= down'[j].nonce
  BY <1>1, <1>2, AnswerGoes
<1>4. TypeOK' BY <1>0, <1>2, <1>3 DEF TypeOK
<1>5. NoncesGrow' BY <1>0, <1>2, <1>3 DEF NoncesGrow
<1>6. OnlyAllocates' BY <1>1, <1>2 DEF OnlyAllocates, Gathering
<1>7. RefusalsAreNoted' BY <1>0, <1>2, <1>3 DEF RefusalsAreNoted
<1>8. NothingVanishes' BY <1>1, <1>2 DEF NothingVanishes, Gathering
<1>9. RefreshedInTime' BY <1>0, <1>1, <1>2 DEF RefreshedInTime, Gathering, IsRefreshing
<1>10. SendsAreCovered' BY <1>0, <1>2 DEF SendsAreCovered, AskedFirst, Unasked
<1>11. RelayOnlyInRelay' BY <1>0, <1>2 DEF RelayOnlyInRelay
<1>12. GatherFailsForCause' BY <1>0, <1>2 DEF GatherFailsForCause
<1>13. DropsHaveACause' BY <1>0, <1>2 DEF DropsHaveACause
<1> QED BY <1>4, <1>5, <1>6, <1>7, <1>8, <1>9, <1>10, <1>11, <1>12, <1>13 DEF TurnInv

LEMMA LoseDownKeeps ==
  ASSUME TurnInv, LoseDown
  PROVE  TurnInv'
<1> DEFINE msg == Head(down)
<1>0. /\ TypeOK /\ NoncesGrow /\ OnlyAllocates /\ RefusalsAreNoted /\ NothingVanishes
      /\ RefreshedInTime /\ SendsAreCovered /\ RelayOnlyInRelay
      /\ GatherFailsForCause /\ DropsHaveACause
  BY DEF TurnInv
<1>1. down # <<>> /\ down' = Tail(down) /\ Gathering /\ Note(msg) BY DEF LoseDown
<1>2. /\ UNCHANGED <<relayOnly, phase, machine, resent, captured, broken, permitted, refreshIn, up>>
      /\ UNCHANGED <<nonce, granted, permits, refused, accepted, dropped>>
  BY DEF LoseDown, client, relay, server, Note
<1>3. /\ down' \in Seq(Answers) /\ Len(down) \in Nat /\ Len(down') = Len(down) - 1
      /\ msg = down[1] /\ msg \in Answers /\ 1 \in At(down)
      /\ \A i \in At(down') : i + 1 \in At(down) /\ down'[i] = down[i + 1]
      /\ \A i \in At(down) : i # 1 => i - 1 \in At(down') /\ down'[i - 1] = down[i]
      /\ \A i \in At(down') : Carried(down'[i]) =>
           captured' <= down'[i].nonce /\ down'[i].nonce <= nonce'
      /\ \A i, j \in At(down') : i < j /\ Carried(down'[i]) /\ Carried(down'[j])
           => down'[i].nonce <= down'[j].nonce
  BY <1>1, <1>2, AnswerGoes
<1> HIDE DEF msg
<1>4. msg.kind \notin {"refresh", "permission"} BY <1>3, AnswerKinds
<1>5. /\ early' = IF machine.state = "challenge" THEN early + 1 ELSE early
      /\ late' = (late \/ (machine.state = "allocate" /\ msg.txn = machine.txn))
      /\ unrefreshed' = unrefreshed /\ excused' = excused
  BY <1>0, <1>1, <1>4 DEF Note, TypeOK
<1>10. TypeOK' BY <1>0, <1>2, <1>3, <1>5 DEF TypeOK
<1>11. NoncesGrow' BY <1>0, <1>2, <1>3 DEF NoncesGrow
<1>12. OnlyAllocates' BY <1>0, <1>1, <1>2, <1>3 DEF OnlyAllocates, Gathering
<1>13. RefusalsAreNoted' BY <1>0, <1>2, <1>3 DEF RefusalsAreNoted
<1>14. NothingVanishes'
  <2>1. machine.state = "challenge" =>
          machine.txn = 1 /\ Len(up) + Len(down) + early = 1 + resent
    BY <1>0, <1>1 DEF NothingVanishes
  <2>2. machine.state = "allocate" => machine.txn > 1 /\ (late \/ Awaited)
    BY <1>0, <1>1 DEF NothingVanishes
  <2>3. machine.state = "challenge" => Len(up) + Len(down') + early' = 1 + resent
    <3>1. Len(up) \in Nat /\ early \in Nat /\ resent \in Int BY <1>0, Constants DEF TypeOK
    <3> QED BY <3>1, <2>1, <1>3, <1>5
  <2>4. machine.state = "allocate" => late' \/ Awaited'
    <3> SUFFICES ASSUME machine.state = "allocate", ~late' PROVE Awaited'
      OBVIOUS
    <3>1. Awaited /\ msg.txn # machine.txn BY <2>2, <1>5
    <3> QED BY <3>1, <1>2, <1>3 DEF Awaited
  <2> QED BY <2>1, <2>2, <2>3, <2>4, <1>2 DEF NothingVanishes
<1>15. RefreshedInTime'
  BY <1>0, <1>1, <1>2, <1>3 DEF RefreshedInTime, Gathering
<1>16. SendsAreCovered' BY <1>0, <1>2, <1>5 DEF SendsAreCovered, AskedFirst, Unasked
<1>17. RelayOnlyInRelay' BY <1>0, <1>2 DEF RelayOnlyInRelay
<1>18. GatherFailsForCause' BY <1>0, <1>1, <1>2 DEF GatherFailsForCause, Gathering
<1>19. DropsHaveACause' BY <1>0, <1>2, <1>5 DEF DropsHaveACause
<1> QED BY <1>10, <1>11, <1>12, <1>13, <1>14, <1>15, <1>16, <1>17, <1>18, <1>19
         DEF TurnInv

-----------------------------------------------------------------------------
(* Requests that are served or lost.                                       *)

\* What is left of the requests when the first has gone.
RequestGoes(msg) ==
  /\ up' \in Seq(Requests) /\ Len(up) \in Nat /\ Len(up') = Len(up) - 1
  /\ msg \in Requests /\ (Carried(msg) => msg.nonce <= captured)
  /\ \A i \in At(up') : i + 1 \in At(up) /\ up'[i] = up[i + 1]
  /\ \A i \in At(up') : Carried(up'[i]) => up'[i].nonce <= captured
  /\ Gathering => msg \in Allocates /\ 1 <= msg.txn /\ msg.txn <= machine.txn
  /\ Gathering => \A i \in At(up') : up'[i] \in Allocates /\ up'[i].txn <= machine.txn
  /\ phase # "relay" => msg \in Allocates /\ \A i \in At(up') : up'[i] \in Allocates
  /\ IsRefreshing => msg \in Refreshes \/ IsRefreshing'
  /\ (\E i \in At(up) : up[i] \in Allocates /\ up[i].txn = machine.txn) =>
       \/ msg \in Allocates /\ msg.txn = machine.txn
       \/ \E i \in At(up') : up'[i] \in Allocates /\ up'[i].txn = machine.txn

LEMMA RequestGone ==
  ASSUME TurnInv, up # <<>>, up' = Tail(up)
  PROVE  RequestGoes(Head(up))
<1> DEFINE msg == Head(up)
<1>0. NoncesGrow /\ OnlyAllocates /\ RelayOnlyInRelay /\ up \in Seq(Requests)
  BY DEF TurnInv, TypeOK
<1>1. /\ up' \in Seq(Requests) /\ Len(up) \in Nat \ {0} /\ Len(up') = Len(up) - 1
      /\ msg = up[1] /\ msg \in Requests
      /\ \A i \in At(up') : i + 1 \in At(up) /\ up'[i] = up[i + 1]
      /\ \A i \in At(up) : i # 1 => i - 1 \in At(up') /\ up'[i - 1] = up[i]
  BY <1>0, TailOf
<1>2. 1 \in At(up) BY <1>1 DEF At
<1> HIDE DEF msg
<1>3. Carried(msg) => msg.nonce <= captured BY <1>0, <1>1, <1>2 DEF NoncesGrow
<1>4. \A i \in At(up') : Carried(up'[i]) => up'[i].nonce <= captured
  BY <1>0, <1>1 DEF NoncesGrow
<1>5. Gathering => msg \in Allocates /\ 1 <= msg.txn /\ msg.txn <= machine.txn
  <2>1. Gathering => msg \in Allocates /\ msg.txn <= machine.txn
    BY <1>0, <1>1, <1>2 DEF OnlyAllocates
  <2>2. msg \in Allocates => msg.txn \in Nat \ {0} BY <1>1, RequestKinds
  <2> QED BY <2>1, <2>2
<1>6. Gathering => \A i \in At(up') : up'[i] \in Allocates /\ up'[i].txn <= machine.txn
  BY <1>0, <1>1 DEF OnlyAllocates
<1>7. phase # "relay" => msg \in Allocates /\ \A i \in At(up') : up'[i] \in Allocates
  BY <1>0, <1>1, <1>2 DEF RelayOnlyInRelay
<1>8. IsRefreshing => msg \in Refreshes \/ IsRefreshing'
  BY <1>1 DEF IsRefreshing
<1>9. (\E i \in At(up) : up[i] \in Allocates /\ up[i].txn = machine.txn) =>
        \/ msg \in Allocates /\ msg.txn = machine.txn
        \/ \E i \in At(up') : up'[i] \in Allocates /\ up'[i].txn = machine.txn
  BY <1>1
<1> QED BY <1>1, <1>3, <1>4, <1>5, <1>6, <1>7, <1>8, <1>9 DEF RequestGoes, msg

\* No Send indication overtakes the request for its permission, and what was
\* promised of a peer is kept but for the request that has gone.
LEMMA CoverKept ==
  ASSUME TurnInv, up # <<>>, up' = Tail(up), UNCHANGED permitted,
         NEW p \in Peers
  PROVE  /\ AskedFirst(p) =>
              \/ AskedFirst(p)'
              \/ Head(up) \in Permissions /\ Head(up).peer = p
         /\ Unasked(p) => Unasked(p)'
         /\ Head(up) \in Sends /\ Head(up).peer = p => ~AskedFirst(p) /\ ~Unasked(p)
<1> DEFINE msg == Head(up)
<1>0. up \in Seq(Requests) BY DEF TurnInv, TypeOK
<1>1. /\ Len(up) \in Nat \ {0} /\ Len(up') = Len(up) - 1 /\ msg = up[1]
      /\ \A i \in At(up') : i + 1 \in At(up) /\ up'[i] = up[i + 1]
      /\ \A i \in At(up) : i # 1 => i - 1 \in At(up') /\ up'[i - 1] = up[i]
  BY <1>0, TailOf
<1>2. 1 \in At(up) BY <1>1 DEF At
<1>3. \A m \in Permissions : m \notin Sends BY DEF Permissions, Sends
<1> HIDE DEF msg
<1>4. ASSUME NEW j \in At(up), up[j] \in Permissions, up[j].peer = p,
             \A i \in 1..(j - 1) : up[i] \in Sends => up[i].peer # p
      PROVE  /\ AskedFirst(p)' \/ (msg \in Permissions /\ msg.peer = p)
             /\ ~(msg \in Sends /\ msg.peer = p)
  <2>1. CASE j = 1 BY <2>1, <1>1, <1>3, <1>4
  <2>2. CASE j # 1
    <3>1. j - 1 \in At(up') /\ up'[j - 1] = up[j] BY <2>2, <1>1
    <3>2. \A i \in 1..((j - 1) - 1) : up'[i] = up[i + 1] /\ i + 1 \in 1..(j - 1)
      <4> TAKE i \in 1..((j - 1) - 1)
      <4>1. i \in At(up') BY <3>1, <1>1 DEF At
      <4>2. i + 1 \in 1..(j - 1) BY <3>1, <1>1 DEF At
      <4> QED BY <4>1, <4>2, <1>1
    <3>3. AskedFirst(p)' BY <3>1, <3>2, <1>4 DEF AskedFirst
    <3>4. 1 \in 1..(j - 1) BY <2>2 DEF At
    <3> QED BY <3>3, <3>4, <1>1, <1>4
  <2> QED BY <2>1, <2>2
<1>5. AskedFirst(p) =>
        /\ AskedFirst(p)' \/ (msg \in Permissions /\ msg.peer = p)
        /\ ~(msg \in Sends /\ msg.peer = p)
  BY <1>4 DEF AskedFirst
<1>6. Unasked(p) => Unasked(p)' /\ ~(msg \in Sends /\ msg.peer = p)
  BY <1>1, <1>2 DEF Unasked
<1> QED BY <1>5, <1>6 DEF msg

LEMMA LoseUpKeeps ==
  ASSUME TurnInv, LoseUp
  PROVE  TurnInv'
<1> DEFINE msg == Head(up)
<1>0. /\ TypeOK /\ NoncesGrow /\ OnlyAllocates /\ RefusalsAreNoted /\ NothingVanishes
      /\ RefreshedInTime /\ SendsAreCovered /\ RelayOnlyInRelay
      /\ GatherFailsForCause /\ DropsHaveACause
  BY DEF TurnInv
<1>1. up # <<>> /\ up' = Tail(up) /\ Note(msg) BY DEF LoseUp
<1>2. /\ UNCHANGED <<relayOnly, phase, machine, resent, captured, broken, permitted, refreshIn, down>>
      /\ UNCHANGED <<nonce, granted, permits, refused, accepted, dropped>>
  BY DEF LoseUp, client, relay, server, Note
<1>3. RequestGoes(msg) BY <1>1, RequestGone
<1>4. \A p \in Peers : /\ AskedFirst(p) =>
                            AskedFirst(p)' \/ (msg \in Permissions /\ msg.peer = p)
                       /\ Unasked(p) => Unasked(p)'
  BY <1>1, <1>2, CoverKept
<1> HIDE DEF msg
<1>5. msg \in Requests BY <1>3 DEF RequestGoes
<1>6. /\ early' = IF Gathering /\ machine.state = "challenge" THEN early + 1 ELSE early
      /\ late' = (late \/ (Gathering /\ machine.state = "allocate" /\ msg.txn = machine.txn))
      /\ unrefreshed' = (unrefreshed \/ msg.kind = "refresh")
      /\ excused' = IF msg.kind = "permission" THEN excused \cup {msg.peer} ELSE excused
  BY <1>1 DEF Note
<1>10. TypeOK'
  <2>1. early' \in Nat /\ late' \in BOOLEAN /\ unrefreshed' \in BOOLEAN
    BY <1>0, <1>6 DEF TypeOK
  <2>2. excused' \subseteq Peers BY <1>0, <1>5, <1>6, RequestKinds DEF TypeOK
  <2> QED BY <2>1, <2>2, <1>0, <1>2, <1>3 DEF TypeOK, RequestGoes
<1>11. NoncesGrow' BY <1>0, <1>2, <1>3 DEF NoncesGrow, RequestGoes
<1>12. OnlyAllocates' BY <1>0, <1>2, <1>3 DEF OnlyAllocates, RequestGoes, Gathering
<1>13. RefusalsAreNoted' BY <1>0, <1>2 DEF RefusalsAreNoted
<1>14. NothingVanishes'
  <2> SUFFICES ASSUME Gathering
               PROVE  /\ machine.state = "challenge" =>
                           machine.txn = 1 /\ Len(up') + Len(down') + early' = 1 + resent
                      /\ machine.state = "allocate" =>
                           machine.txn > 1 /\ (late' \/ Awaited')
    BY <1>2 DEF NothingVanishes, Gathering
  <2>1. machine.state = "challenge" =>
          machine.txn = 1 /\ Len(up) + Len(down) + early = 1 + resent
    BY <1>0 DEF NothingVanishes
  <2>2. machine.state = "allocate" => machine.txn > 1 /\ (late \/ Awaited)
    BY <1>0 DEF NothingVanishes
  <2>3. machine.state = "challenge" => Len(up') + Len(down') + early' = 1 + resent
    <3>1. /\ Len(down) \in Nat /\ early \in Nat /\ resent \in Int
          /\ Len(up) \in Nat /\ Len(up') = Len(up) - 1 /\ down' = down
      BY <1>0, <1>2, <1>3, Constants DEF TypeOK, RequestGoes
    <3> QED BY <3>1, <2>1, <1>6
  <2>4. machine.state = "allocate" => late' \/ Awaited'
    <3> SUFFICES ASSUME machine.state = "allocate", ~late' PROVE Awaited'
      OBVIOUS
    <3>1. Awaited /\ msg.txn # machine.txn BY <2>2, <1>6
    <3> QED BY <3>1, <1>2, <1>3 DEF Awaited, RequestGoes
  <2> QED BY <2>1, <2>2, <2>3, <2>4
<1>15. RefreshedInTime'
  <2>1. Gathering' => \A i \in At(down') : down'[i].kind = "success" => granted' = Lifetime
    BY <1>0, <1>2 DEF RefreshedInTime, Gathering
  <2>2. msg \in Refreshes => unrefreshed' BY <1>5, <1>6, RequestKinds
  <2>3. IsRefreshing => unrefreshed' \/ IsRefreshing' BY <2>2, <1>3 DEF RequestGoes
  <2>4. unrefreshed => unrefreshed' BY <1>6
  <2> QED BY <2>1, <2>3, <2>4, <1>0, <1>2 DEF RefreshedInTime
<1>16. SendsAreCovered'
  <2>1. \A p \in Peers : msg \in Permissions /\ msg.peer = p => p \in excused'
    BY <1>5, <1>6, RequestKinds
  <2>2. excused \subseteq excused' BY <1>6
  <2> QED BY <2>1, <2>2, <1>0, <1>2, <1>4 DEF SendsAreCovered
<1>17. RelayOnlyInRelay' BY <1>0, <1>2, <1>3 DEF RelayOnlyInRelay, RequestGoes
<1>18. GatherFailsForCause'
  <2>1. early' >= early /\ (late => late') /\ early \in Nat /\ early' \in Nat
    BY <1>0, <1>6 DEF TypeOK
  <2> QED BY <2>1, <1>0, <1>2, Constants DEF GatherFailsForCause
<1>19. DropsHaveACause'
  <2>1. excused \subseteq excused' /\ (unrefreshed => unrefreshed') BY <1>6
  <2> QED BY <2>1, <1>0, <1>2 DEF DropsHaveACause
<1> QED BY <1>10, <1>11, <1>12, <1>13, <1>14, <1>15, <1>16, <1>17, <1>18, <1>19
         DEF TurnInv

\* An answer: the nonce that it carries is the server's.
Replies(ans, txn) ==
  /\ ans \in Answers /\ ans.txn = txn /\ down' = Append(down, ans)
  /\ Carried(ans) => ans.nonce = nonce
  /\ ans.kind = "success" => granted' = Lifetime
  /\ ans.kind = "refusal" => refused'

LEMMA AnswerComes ==
  ASSUME TurnInv, NEW ans, NEW txn, Replies(ans, txn), UNCHANGED <<captured, nonce>>
  PROVE  /\ down' \in Seq(Answers) /\ Len(down) \in Nat /\ Len(down') = Len(down) + 1
         /\ \A i \in At(down) : i \in At(down') /\ down'[i] = down[i]
         /\ \A i \in At(down') : i \notin At(down) => down'[i] = ans
         /\ Len(down) + 1 \in At(down') /\ down'[Len(down) + 1] = ans
         /\ \A i \in At(down') : Carried(down'[i]) =>
              captured' <= down'[i].nonce /\ down'[i].nonce <= nonce'
         /\ \A i, j \in At(down') : i < j /\ Carried(down'[i]) /\ Carried(down'[j])
              => down'[i].nonce <= down'[j].nonce
<1>0. /\ NoncesGrow /\ down \in Seq(Answers) /\ nonce \in Nat /\ captured \in Nat
      /\ ans \in Answers
  BY DEF TurnInv, TypeOK, Replies
<1> DEFINE new == Append(down, ans)
<1>1. /\ new \in Seq(Answers) /\ Len(down) \in Nat /\ Len(new) = Len(down) + 1
      /\ \A i \in 1..Len(down) : new[i] = down[i]
      /\ new[Len(down) + 1] = ans
  BY <1>0
<1>2. down' = new BY DEF Replies
<1> HIDE DEF new
<1>3. /\ \A i \in At(down) : i \in At(down') /\ down'[i] = down[i]
      /\ \A i \in At(down') : i \notin At(down) => down'[i] = ans /\ i = Len(down) + 1
      /\ Len(down) + 1 \in At(down') /\ down'[Len(down) + 1] = ans
  BY <1>1, <1>2 DEF At
<1>4. Carried(ans) => captured <= ans.nonce /\ ans.nonce = nonce
  BY <1>0 DEF NoncesGrow, Replies
<1>5. \A i \in At(down') : Carried(down'[i]) =>
        captured' <= down'[i].nonce /\ down'[i].nonce <= nonce'
  BY <1>0, <1>3, <1>4 DEF NoncesGrow
<1>6. \A i, j \in At(down') : i < j /\ Carried(down'[i]) /\ Carried(down'[j])
        => down'[i].nonce <= down'[j].nonce
  <2> SUFFICES ASSUME NEW i \in At(down'), NEW j \in At(down'), i < j,
                      Carried(down'[i]), Carried(down'[j])
               PROVE  down'[i].nonce <= down'[j].nonce
    OBVIOUS
  <2>1. i \in At(down) BY <1>1, <1>2, <1>3 DEF At
  <2>2. CASE j \in At(down) BY <2>1, <2>2, <1>0, <1>3 DEF NoncesGrow
  <2>3. CASE j \notin At(down)
    <3>1. down'[j].nonce = nonce BY <2>3, <1>3, <1>4
    <3>2. down'[i] = down[i] /\ down[i].nonce <= nonce BY <2>1, <1>0, <1>3 DEF NoncesGrow
    <3> QED BY <3>1, <3>2
  <2> QED BY <2>2, <2>3
<1> QED BY <1>1, <1>2, <1>3, <1>5, <1>6

\* What every step of the server leaves alone.
Serving(msg) ==
  /\ up # <<>> /\ up' = Tail(up) /\ msg = Head(up)
  /\ UNCHANGED <<relayOnly, phase, machine, resent, captured, broken, permitted, refreshIn>>
  /\ UNCHANGED <<nonce, early, late>>

\* The parts of the invariant that a step of the server leaves to the lemmas
\* above: no nonce, no history of a failure and nothing of the client changes.
LEMMA ServingKeeps ==
  ASSUME TurnInv, NEW msg, Serving(msg),
         \/ UNCHANGED down /\ msg.kind \notin {"allocate"}
         \/ \E ans : Replies(ans, 0) /\ msg.kind # "allocate"
         \/ \E ans : Replies(ans, msg.txn) /\ msg.kind = "allocate",
         refused \in BOOLEAN => refused' \in BOOLEAN /\ (refused => refused'),
         accepted' \in Nat /\ accepted' <= captured
  PROVE  /\ up' \in Seq(Requests) /\ down' \in Seq(Answers)
         /\ NoncesGrow' /\ OnlyAllocates' /\ RefusalsAreNoted' /\ NothingVanishes'
         /\ RelayOnlyInRelay' /\ GatherFailsForCause'
<1>0. /\ TypeOK /\ NoncesGrow /\ OnlyAllocates /\ RefusalsAreNoted /\ NothingVanishes
      /\ RelayOnlyInRelay /\ GatherFailsForCause
  BY DEF TurnInv
<1>1. RequestGoes(msg) BY RequestGone DEF Serving
<1>2. msg \in Requests BY <1>1 DEF RequestGoes
<1>3. /\ UNCHANGED <<phase, machine, resent, captured, broken, permitted, nonce, early, late>>
      /\ refused => refused'
  BY <1>0 DEF Serving, TypeOK
<1>4. msg.kind = "allocate" <=> msg \in Allocates BY <1>2, RequestKinds
<1>5. Gathering => msg.kind = "allocate" BY <1>1, <1>4 DEF RequestGoes
<1>6. down \in Seq(Answers) BY <1>0 DEF TypeOK
<1>7. CASE UNCHANGED down /\ msg.kind # "allocate"
  <2>1. ~Gathering BY <1>5, <1>7
  <2>2. NoncesGrow' BY <1>0, <1>1, <1>3, <1>7 DEF NoncesGrow, RequestGoes
  <2>3. RefusalsAreNoted' BY <1>0, <1>3, <1>7 DEF RefusalsAreNoted
  <2>4. OnlyAllocates' /\ NothingVanishes'
    BY <2>1, <1>3 DEF OnlyAllocates, NothingVanishes, Gathering
  <2>5. RelayOnlyInRelay' BY <1>0, <1>1, <1>3 DEF RelayOnlyInRelay, RequestGoes
  <2>6. GatherFailsForCause' BY <1>0, <1>3 DEF GatherFailsForCause
  <2> QED BY <2>2, <2>3, <2>4, <2>5, <2>6, <1>1, <1>6, <1>7 DEF RequestGoes
<1>8. ASSUME NEW ans, NEW txn, Replies(ans, txn),
             msg.kind = "allocate" => txn = msg.txn
      PROVE  /\ up' \in Seq(Requests) /\ down' \in Seq(Answers)
             /\ NoncesGrow' /\ OnlyAllocates' /\ RefusalsAreNoted' /\ NothingVanishes'
             /\ RelayOnlyInRelay' /\ GatherFailsForCause'
  <2>1. /\ down' \in Seq(Answers) /\ Len(down) \in Nat /\ Len(down') = Len(down) + 1
        /\ \A i \in At(down) : i \in At(down') /\ down'[i] = down[i]
        /\ \A i \in At(down') : i \notin At(down) => down'[i] = ans
        /\ Len(down) + 1 \in At(down') /\ down'[Len(down) + 1] = ans
        /\ \A i \in At(down') : Carried(down'[i]) =>
             captured' <= down'[i].nonce /\ down'[i].nonce <= nonce'
        /\ \A i, j \in At(down') : i < j /\ Carried(down'[i]) /\ Carried(down'[j])
             => down'[i].nonce <= down'[j].nonce
    BY <1>3, <1>8, AnswerComes
  <2>2. ans.txn = txn /\ (ans.kind = "refusal" => refused') BY <1>8 DEF Replies
  <2>3. NoncesGrow' BY <2>1, <1>0, <1>1, <1>3 DEF NoncesGrow, RequestGoes
  <2>4. RefusalsAreNoted' BY <2>1, <2>2, <1>0, <1>3 DEF RefusalsAreNoted
  <2>5. OnlyAllocates'
    <3> SUFFICES ASSUME Gathering
                 PROVE  /\ machine'.state # "done"
                        /\ \A i \in At(up') : up'[i] \in Allocates /\ up'[i].txn <= machine'.txn
                        /\ \A i \in At(down') : 1 <= down'[i].txn /\ down'[i].txn <= machine'.txn
      BY <1>3 DEF OnlyAllocates, Gathering
    <3>1. ans.txn = msg.txn /\ 1 <= ans.txn /\ ans.txn <= machine.txn
      BY <2>2, <1>1, <1>5, <1>8 DEF RequestGoes
    <3> QED BY <3>1, <2>1, <1>0, <1>1, <1>3 DEF OnlyAllocates, RequestGoes
  <2>6. NothingVanishes'
    <3> SUFFICES ASSUME Gathering
                 PROVE  /\ machine.state = "challenge" =>
                             machine.txn = 1 /\ Len(up') + Len(down') + early = 1 + resent
                        /\ machine.state = "allocate" =>
                             machine.txn > 1 /\ (late \/ Awaited')
      BY <1>3 DEF NothingVanishes, Gathering
    <3>1. ans.txn = msg.txn BY <2>2, <1>5, <1>8
    <3>2. Len(up') + Len(down') = Len(up) + Len(down)
      BY <2>1, <1>1 DEF RequestGoes
    <3>3. Awaited => Awaited' BY <3>1, <2>1, <1>1, <1>3 DEF Awaited, RequestGoes
    <3> QED BY <3>2, <3>3, <1>0 DEF NothingVanishes
  <2>7. RelayOnlyInRelay' BY <1>0, <1>1, <1>3 DEF RelayOnlyInRelay, RequestGoes
  <2>8. GatherFailsForCause' BY <1>0, <1>3 DEF GatherFailsForCause
  <2> QED BY <2>1, <2>3, <2>4, <2>5, <2>6, <2>7, <2>8, <1>1 DEF RequestGoes
<1> QED BY <1>7, <1>8

\* A request for an allocation: challenged, stale, granted or refused.
LEMMA ServeAllocateKeeps ==
  ASSUME TurnInv, NEW msg, Serving(msg), ServeAllocate(msg)
  PROVE  TurnInv'
<1>0. TypeOK /\ NoncesGrow /\ RefreshedInTime /\ SendsAreCovered /\ DropsHaveACause
  BY DEF TurnInv
<1>1. RequestGoes(msg) BY RequestGone DEF Serving
<1>2. /\ UNCHANGED <<relayOnly, phase, machine, resent, captured, broken, permitted, refreshIn>>
      /\ UNCHANGED <<nonce, early, late, permits, unrefreshed, excused, dropped>>
  BY DEF Serving, ServeAllocate
<1>3. /\ msg \in Requests /\ msg.kind = "allocate" /\ msg \in Allocates
      /\ msg.txn \in Nat \ {0} /\ (msg.nonce = 0 <=> msg.txn = 1)
      /\ msg.nonce \in Nat /\ msg.nonce <= captured
  <2>1. msg \in Requests /\ msg.kind = "allocate" BY <1>1 DEF RequestGoes, ServeAllocate
  <2>2. /\ msg.kind = "allocate" <=> msg \in Allocates
        /\ msg.kind = "allocate" => msg.txn \in Nat \ {0} /\ (msg.nonce = 0 <=> msg.txn = 1)
        /\ msg.kind # "send" => msg.nonce \in Nat
        /\ Carried(msg) <=> msg.kind # "send"
    BY <2>1, RequestKinds
  <2> QED BY <2>1, <2>2, <1>1 DEF RequestGoes
<1>4. /\ nonce \in Nat \ {0} /\ captured \in Nat /\ accepted \in Nat /\ granted \in Nat
      /\ accepted <= captured /\ Lifetime \in Nat \ {0}
  BY <1>0, Constants DEF TypeOK, NoncesGrow
<1>5. /\ \E ans : Replies(ans, msg.txn)
      /\ refused \in BOOLEAN => refused' \in BOOLEAN /\ (refused => refused')
      /\ accepted' \in Nat /\ accepted' <= captured
      /\ granted' = granted \/ granted' = Lifetime
  <2>1. CASE msg.nonce = 0 /\ AnswerNonce("401", msg.txn)
             /\ UNCHANGED <<granted, refused, accepted>>
    <3> DEFINE ans == [kind |-> "401", txn |-> msg.txn, nonce |-> nonce]
    <3>1. ans \in Challenges BY <2>1, <1>3, <1>4 DEF Challenges
    <3>2. down' = Append(down, ans) BY <2>1 DEF AnswerNonce
    <3>3. Replies(ans, msg.txn) BY <3>1, <3>2 DEF Replies, Answers, Carried
    <3> QED BY <3>3, <2>1, <1>4
  <2>2. CASE msg.nonce \in 1..(nonce - 1) /\ AnswerNonce("438", msg.txn)
             /\ UNCHANGED <<granted, refused, accepted>>
    <3> DEFINE ans == [kind |-> "438", txn |-> msg.txn, nonce |-> nonce]
    <3>1. ans \in Stales BY <2>2, <1>3, <1>4 DEF Stales
    <3>2. down' = Append(down, ans) BY <2>2 DEF AnswerNonce
    <3>3. Replies(ans, msg.txn) BY <3>1, <3>2 DEF Replies, Answers, Carried
    <3> QED BY <3>3, <2>2, <1>4
  <2>3. CASE msg.nonce = nonce /\ Answer("success", msg.txn)
             /\ granted' = Lifetime /\ accepted' = nonce /\ UNCHANGED refused
    <3> DEFINE ans == [kind |-> "success", txn |-> msg.txn]
    <3>1. ans \in Successes BY <2>3, <1>3, <1>4 DEF Successes
    <3>2. down' = Append(down, ans) BY <2>3 DEF Answer
    <3>3. Replies(ans, msg.txn) BY <3>1, <3>2, <2>3 DEF Replies, Answers, Carried
    <3> QED BY <3>3, <2>3, <1>3, <1>4
  <2>4. CASE Answer("refusal", msg.txn) /\ refused' = TRUE /\ UNCHANGED <<granted, accepted>>
    <3> DEFINE ans == [kind |-> "refusal", txn |-> msg.txn]
    <3>1. ans \in Refusals BY <1>3 DEF Refusals
    <3>2. down' = Append(down, ans) BY <2>4 DEF Answer
    <3>3. Replies(ans, msg.txn) BY <3>1, <3>2, <2>4 DEF Replies, Answers, Carried
    <3> QED BY <3>3, <2>4, <1>4
  <2> QED BY <2>1, <2>2, <2>3, <2>4 DEF ServeAllocate
<1>6. /\ up' \in Seq(Requests) /\ down' \in Seq(Answers)
      /\ NoncesGrow' /\ OnlyAllocates' /\ RefusalsAreNoted' /\ NothingVanishes'
      /\ RelayOnlyInRelay' /\ GatherFailsForCause'
  BY <1>3, <1>5, ServingKeeps
<1>7. TypeOK'
  BY <1>0, <1>2, <1>4, <1>5, <1>6 DEF TypeOK
<1>8. RefreshedInTime'
  <2>1. PICK ans : Replies(ans, msg.txn) BY <1>5
  <2>2. /\ ans.kind = "success" => granted' = Lifetime
        /\ \A i \in At(down') : (down'[i] = down[i] /\ i \in At(down)) \/ down'[i] = ans
    BY <2>1, <1>2, AnswerComes DEF Replies
  <2>3. Gathering' => \A i \in At(down') : down'[i].kind = "success" => granted' = Lifetime
    BY <2>2, <1>0, <1>2, <1>5 DEF RefreshedInTime, Gathering
  <2>4. msg \notin Refreshes BY <1>3 DEF Refreshes
  <2>5. ASSUME phase = "relay"
        PROVE  unrefreshed \/ granted' >= refreshIn + Spare \/ (IsRefreshing' /\ granted' >= Spare)
    <3>1. refreshIn \in 0..RefreshInterval BY <1>0 DEF TypeOK
    <3>2. CASE granted' = Lifetime BY <3>1, <3>2, Constants
    <3>3. CASE granted' = granted
      BY <3>3, <2>4, <2>5, <1>0, <1>1 DEF RefreshedInTime, RequestGoes
    <3> QED BY <3>2, <3>3, <1>5
  <2> QED BY <2>3, <2>5, <1>2 DEF RefreshedInTime
<1>9. SendsAreCovered'
  <2>1. msg \notin Permissions BY <1>3 DEF Permissions
  <2>2. \A p \in Peers : (AskedFirst(p) => AskedFirst(p)') /\ (Unasked(p) => Unasked(p)')
    BY <2>1, CoverKept DEF Serving
  <2> QED BY <2>2, <1>0, <1>2 DEF SendsAreCovered
<1>10. DropsHaveACause' BY <1>0, <1>2 DEF DropsHaveACause
<1> QED BY <1>6, <1>7, <1>8, <1>9, <1>10 DEF TurnInv

\* The answer to a request of the relay.
LEMMA ControlReplies ==
  ASSUME TurnInv, AnswerNonce("control", 0)
  PROVE  \E ans : Replies(ans, 0)
<1> DEFINE ans == [kind |-> "control", txn |-> 0, nonce |-> nonce]
<1>1. nonce \in Nat \ {0} BY DEF TurnInv, TypeOK
<1>2. ans \in Controls BY <1>1 DEF Controls
<1>3. down' = Append(down, ans) BY DEF AnswerNonce
<1>4. Replies(ans, 0) BY <1>2, <1>3 DEF Replies, Answers, Carried
<1> QED BY <1>4

\* A request of the relay finds the loop past its handshake.
LEMMA RelayServed ==
  ASSUME TurnInv, NEW msg, Serving(msg), msg.kind # "allocate"
  PROVE  phase = "relay" /\ phase' = "relay" /\ ~Gathering'
<1>1. RequestGoes(msg) BY RequestGone DEF Serving
<1>2. msg \notin Allocates BY <1>1, RequestKinds DEF RequestGoes
<1>3. phase = "relay" BY <1>1, <1>2 DEF RequestGoes
<1> QED BY <1>3 DEF Serving, Gathering

LEMMA ServeRefreshKeeps ==
  ASSUME TurnInv, NEW msg, Serving(msg), ServeRefresh(msg)
  PROVE  TurnInv'
<1> DEFINE done == msg.nonce = nonce /\ granted > 0
<1>0. /\ TypeOK /\ NoncesGrow /\ RefreshedInTime /\ SendsAreCovered /\ DropsHaveACause
  BY DEF TurnInv
<1>1. RequestGoes(msg) /\ msg \in Requests BY RequestGone DEF Serving, RequestGoes
<1>2. /\ UNCHANGED <<relayOnly, phase, machine, resent, captured, broken, permitted, refreshIn>>
      /\ UNCHANGED <<nonce, early, late, permits, refused, accepted, excused, dropped>>
  BY DEF Serving, ServeRefresh
<1>3. /\ msg.kind = "refresh" /\ AnswerNonce("control", 0)
      /\ granted' = (IF done THEN Lifetime ELSE granted)
      /\ unrefreshed' = (unrefreshed \/ ~done)
  BY DEF ServeRefresh
<1>4. phase' = "relay" /\ ~Gathering' BY <1>3, RelayServed
<1>5. accepted \in Nat /\ accepted <= captured BY <1>0 DEF TypeOK, NoncesGrow
<1>6. /\ up' \in Seq(Requests) /\ down' \in Seq(Answers)
      /\ NoncesGrow' /\ OnlyAllocates' /\ RefusalsAreNoted' /\ NothingVanishes'
      /\ RelayOnlyInRelay' /\ GatherFailsForCause'
  <2>1. \E ans : Replies(ans, 0) /\ msg.kind # "allocate" BY <1>3, ControlReplies
  <2> QED BY <2>1, <1>2, <1>5, ServingKeeps
<1> HIDE DEF done
<1>7. granted' \in Nat /\ unrefreshed' \in BOOLEAN
  BY <1>0, <1>3, Constants DEF TypeOK
<1>8. TypeOK' BY <1>0, <1>2, <1>6, <1>7 DEF TypeOK
<1>9. RefreshedInTime'
  <2>1. refreshIn \in 0..RefreshInterval BY <1>0 DEF TypeOK
  <2>2. CASE done
    <3>1. granted' = Lifetime BY <2>2, <1>3
    <3>2. granted' >= refreshIn + Spare BY <3>1, <2>1, Constants
    <3> QED BY <3>2, <1>2, <1>4 DEF RefreshedInTime
  <2>3. CASE ~done
    <3>1. unrefreshed' BY <2>3, <1>3
    <3> QED BY <3>1, <1>2, <1>4 DEF RefreshedInTime
  <2> QED BY <2>2, <2>3
<1>10. SendsAreCovered'
  <2>1. msg \notin Permissions BY <1>3 DEF Permissions
  <2>2. \A p \in Peers : (AskedFirst(p) => AskedFirst(p)') /\ (Unasked(p) => Unasked(p)')
    BY <2>1, CoverKept DEF Serving
  <2> QED BY <2>2, <1>0, <1>2 DEF SendsAreCovered
<1>11. DropsHaveACause'
  <2>1. unrefreshed => unrefreshed' BY <1>3
  <2> QED BY <2>1, <1>0, <1>2 DEF DropsHaveACause
<1> QED BY <1>6, <1>8, <1>9, <1>10, <1>11 DEF TurnInv

LEMMA ServePermissionKeeps ==
  ASSUME TurnInv, NEW msg, Serving(msg), ServePermission(msg)
  PROVE  TurnInv'
<1> DEFINE done == msg.nonce = nonce /\ granted > 0
<1>0. /\ TypeOK /\ NoncesGrow /\ RefreshedInTime /\ SendsAreCovered /\ DropsHaveACause
  BY DEF TurnInv
<1>1. RequestGoes(msg) /\ msg \in Requests BY RequestGone DEF Serving, RequestGoes
<1>2. /\ UNCHANGED <<relayOnly, phase, machine, resent, captured, broken, permitted, refreshIn>>
      /\ UNCHANGED <<nonce, early, late, granted, refused, accepted, unrefreshed, dropped>>
  BY DEF Serving, ServePermission
<1>3. /\ msg.kind = "permission" /\ AnswerNonce("control", 0)
      /\ permits' = (IF done THEN [permits EXCEPT ![msg.peer] = PermitTicks] ELSE permits)
      /\ excused' = (IF done THEN excused ELSE excused \cup {msg.peer})
  BY DEF ServePermission
<1>4. phase' = "relay" /\ phase = "relay" /\ ~Gathering' BY <1>3, RelayServed
<1>5. accepted \in Nat /\ accepted <= captured BY <1>0 DEF TypeOK, NoncesGrow
<1>6. /\ up' \in Seq(Requests) /\ down' \in Seq(Answers)
      /\ NoncesGrow' /\ OnlyAllocates' /\ RefusalsAreNoted' /\ NothingVanishes'
      /\ RelayOnlyInRelay' /\ GatherFailsForCause'
  <2>1. \E ans : Replies(ans, 0) /\ msg.kind # "allocate" BY <1>3, ControlReplies
  <2> QED BY <2>1, <1>2, <1>5, ServingKeeps
<1> HIDE DEF done
<1>7. /\ msg.peer \in Peers /\ permits \in [Peers -> Nat] /\ PermitTicks \in Nat \ {0}
      /\ excused \subseteq Peers
  BY <1>0, <1>1, <1>3, RequestKinds, Constants DEF TypeOK
<1>8. permits' \in [Peers -> Nat] /\ excused' \subseteq Peers BY <1>3, <1>7
<1>9. TypeOK' BY <1>0, <1>2, <1>6, <1>8 DEF TypeOK
<1>10. RefreshedInTime'
  <2>1. msg \notin Refreshes BY <1>3 DEF Refreshes
  <2>2. IsRefreshing => IsRefreshing' BY <2>1, <1>1 DEF RequestGoes
  <2> QED BY <2>2, <1>0, <1>2, <1>4 DEF RefreshedInTime
<1>11. SendsAreCovered'
  <2> SUFFICES ASSUME NEW p \in Peers
               PROVE  p \in excused' \/ permits'[p] > 0 \/ AskedFirst(p)' \/ Unasked(p)'
    BY DEF SendsAreCovered
  <2>1. CASE p = msg.peer BY <2>1, <1>3, <1>7
  <2>2. CASE p # msg.peer
    <3>1. (AskedFirst(p) => AskedFirst(p)') /\ (Unasked(p) => Unasked(p)')
      BY <2>2, <1>2, CoverKept DEF Serving
    <3>2. permits'[p] = permits[p] BY <2>2, <1>3, <1>7
    <3>3. excused \subseteq excused' BY <1>3
    <3> QED BY <3>1, <3>2, <3>3, <1>0 DEF SendsAreCovered
  <2> QED BY <2>1, <2>2
<1>12. DropsHaveACause'
  <2>1. excused \subseteq excused' BY <1>3
  <2> QED BY <2>1, <1>0, <1>2 DEF DropsHaveACause
<1> QED BY <1>6, <1>9, <1>10, <1>11, <1>12 DEF TurnInv

\* A Send indication that is dropped: its permission was not ahead of it, was
\* lost or has run out, or the allocation is gone.
LEMMA ServeSendKeeps ==
  ASSUME TurnInv, NEW msg, Serving(msg), ServeSend(msg)
  PROVE  TurnInv'
<1>0. /\ TypeOK /\ NoncesGrow /\ RefreshedInTime /\ SendsAreCovered /\ DropsHaveACause
  BY DEF TurnInv
<1>1. RequestGoes(msg) /\ msg \in Requests BY RequestGone DEF Serving, RequestGoes
<1>2. /\ UNCHANGED <<relayOnly, phase, machine, resent, captured, broken, permitted, refreshIn>>
      /\ UNCHANGED <<nonce, early, late, granted, permits, refused, accepted>>
      /\ UNCHANGED <<unrefreshed, excused, down>>
  BY DEF Serving, ServeSend
<1>3. /\ msg.kind = "send"
      /\ dropped' = (IF granted = 0 \/ permits[msg.peer] = 0
                       THEN dropped \cup {msg.peer} ELSE dropped)
  BY DEF ServeSend
<1>4. phase' = "relay" /\ phase = "relay" /\ ~Gathering' BY <1>3, RelayServed
<1>5. accepted \in Nat /\ accepted <= captured BY <1>0 DEF TypeOK, NoncesGrow
<1>6. /\ up' \in Seq(Requests) /\ down' \in Seq(Answers)
      /\ NoncesGrow' /\ OnlyAllocates' /\ RefusalsAreNoted' /\ NothingVanishes'
      /\ RelayOnlyInRelay' /\ GatherFailsForCause'
  BY <1>2, <1>3, <1>5, ServingKeeps
<1>7. msg \in Sends /\ msg.peer \in Peers BY <1>1, <1>3, RequestKinds
<1>8. TypeOK' BY <1>0, <1>2, <1>3, <1>6, <1>7 DEF TypeOK
<1>9. RefreshedInTime'
  <2>1. msg \notin Refreshes BY <1>3 DEF Refreshes
  <2>2. IsRefreshing => IsRefreshing' BY <2>1, <1>1 DEF RequestGoes
  <2> QED BY <2>2, <1>0, <1>2, <1>4 DEF RefreshedInTime
<1>10. SendsAreCovered'
  <2>1. msg \notin Permissions BY <1>3 DEF Permissions
  <2>2. \A p \in Peers : (AskedFirst(p) => AskedFirst(p)') /\ (Unasked(p) => Unasked(p)')
    BY <2>1, CoverKept DEF Serving
  <2> QED BY <2>2, <1>0, <1>2 DEF SendsAreCovered
<1>11. DropsHaveACause'
  <2>1. granted = 0 => unrefreshed
    BY <1>0, <1>4, Constants DEF RefreshedInTime, TypeOK
  <2>2. permits[msg.peer] = 0 => msg.peer \in excused
    <3>1. Head(up) = msg /\ ~AskedFirst(msg.peer) /\ ~Unasked(msg.peer)
      BY <1>7, CoverKept DEF Serving
    <3>2. msg.peer \in excused \/ permits[msg.peer] > 0
      BY <3>1, <1>0, <1>7 DEF SendsAreCovered
    <3> QED BY <3>2
  <2> QED BY <2>1, <2>2, <1>0, <1>2, <1>3 DEF DropsHaveACause
<1> QED BY <1>6, <1>8, <1>9, <1>10, <1>11 DEF TurnInv

LEMMA ServeKeeps ==
  ASSUME TurnInv, Serve
  PROVE  TurnInv'
<1> DEFINE msg == Head(up)
<1>1. Serving(msg) BY DEF Serve, Serving, client, relay
<1>2. ServeAllocate(msg) \/ ServeRefresh(msg) \/ ServePermission(msg) \/ ServeSend(msg)
  BY DEF Serve
<1> HIDE DEF msg
<1> QED BY <1>1, <1>2, ServeAllocateKeeps, ServeRefreshKeeps, ServePermissionKeeps,
           ServeSendKeeps

-----------------------------------------------------------------------------
(* The theorems.                                                           *)

LEMMA TurnInit == Init => TurnInv
<1> SUFFICES ASSUME Init PROVE TurnInv
  OBVIOUS
<1>1. /\ relayOnly \in BOOLEAN /\ resent = 0 /\ captured = 0
      /\ machine = [state |-> "challenge", txn |-> 1, nonce |-> 0, stale |-> 0]
      /\ permitted = {} /\ refreshIn = 0 /\ down = <<>> /\ nonce = 1 /\ granted = 0
      /\ permits = [p \in Peers |-> 0] /\ early = 0 /\ late = FALSE /\ accepted = 0
      /\ unrefreshed = FALSE /\ excused = {} /\ dropped = {}
  BY DEF Init
<1>2. \/ phase = "gather" /\ up = <<Unauthenticated>> /\ refused = FALSE /\ broken = FALSE
      \/ phase = "direct" /\ up = <<>> /\ refused = FALSE /\ broken = TRUE
      \/ phase = "direct" /\ up = <<>> /\ refused = TRUE /\ broken = FALSE
  BY DEF Init
<1>3. Unauthenticated \in Initial /\ Initial \subseteq Allocates /\ Allocates \subseteq Requests
  BY DEF Unauthenticated, Initial, Allocates, Requests
<1>4. /\ up \in Seq(Requests) /\ Len(up) \in Nat
      /\ \A i \in At(up) : up[i] = Unauthenticated
      /\ phase = "gather" => Len(up) = 1
  <2> DEFINE first == Unauthenticated
  <2>1. first \in Requests BY <1>3
  <2> HIDE DEF first
  <2>2. CASE up = <<>> /\ phase = "direct" BY <2>2 DEF At
  <2>3. CASE up = <<first>>
    <3>1. up \in Seq(Requests) /\ Len(up) = 1 /\ up[1] = first BY <2>1, <2>3
    <3> QED BY <3>1 DEF At, first
  <2> QED BY <2>2, <2>3, <1>2 DEF first
<1>5. \A i \in At(up) : up[i] \in Allocates /\ up[i].txn = 1 /\ up[i].nonce = 0
  BY <1>3, <1>4 DEF Unauthenticated
<1>6. At(down) = {} /\ Len(down) = 0 BY <1>1 DEF At
<1>7. /\ machine \in Machines /\ machine.state = "challenge" /\ machine.txn = 1
      /\ resent \in 0..MaxRetransmits /\ refreshIn \in 0..RefreshInterval
  BY <1>1, Constants DEF Machines
<1>8. TypeOK
  <2>1. phase \in {"gather", "relay", "direct"} /\ refused \in BOOLEAN /\ broken \in BOOLEAN
    BY <1>2
  <2>2. permits \in [Peers -> Nat] BY <1>1
  <2>3. down \in Seq(Answers) BY <1>1
  <2>4. /\ relayOnly \in BOOLEAN /\ captured \in Nat /\ nonce \in Nat \ {0}
        /\ granted \in Nat /\ early \in Nat /\ late \in BOOLEAN /\ accepted \in Nat
        /\ unrefreshed \in BOOLEAN
    <3>1. /\ captured = 0 /\ nonce = 1 /\ granted = 0 /\ early = 0 /\ accepted = 0
          /\ late = FALSE /\ unrefreshed = FALSE /\ relayOnly \in BOOLEAN
      BY <1>1
    <3>2. captured \in Nat /\ nonce \in Nat \ {0} /\ granted \in Nat /\ early \in Nat
          /\ accepted \in Nat
      BY <3>1
    <3>3. late \in BOOLEAN /\ unrefreshed \in BOOLEAN /\ relayOnly \in BOOLEAN BY <3>1
    <3> QED BY <3>2, <3>3
  <2>5. permitted \subseteq Peers /\ excused \subseteq Peers /\ dropped \subseteq Peers
    BY <1>1
  <2> QED BY <2>1, <2>2, <2>3, <2>4, <2>5, <1>4, <1>7 DEF TypeOK
<1>9. NoncesGrow BY <1>1, <1>5, <1>6 DEF NoncesGrow
<1>10. OnlyAllocates BY <1>5, <1>6, <1>7 DEF OnlyAllocates
<1>11. RefusalsAreNoted BY <1>6 DEF RefusalsAreNoted
<1>12. NothingVanishes BY <1>1, <1>4, <1>6, <1>7 DEF NothingVanishes, Gathering
<1>13. RefreshedInTime BY <1>2, <1>6 DEF RefreshedInTime
<1>14. RelayOnlyInRelay BY <1>1, <1>5 DEF RelayOnlyInRelay
<1>15. SendsAreCovered
  <2>1. \A m \in Allocates : m \notin Sends
    BY DEF Allocates, Initial, Signed, Sends
  <2> QED BY <2>1, <1>1, <1>5 DEF SendsAreCovered, Unasked
<1>16. GatherFailsForCause BY <1>2 DEF GatherFailsForCause
<1>17. DropsHaveACause BY <1>1 DEF DropsHaveACause
<1> QED BY <1>8, <1>9, <1>10, <1>11, <1>12, <1>13, <1>14, <1>15, <1>16, <1>17
         DEF TurnInv

LEMMA TurnStutter == ASSUME TurnInv, UNCHANGED vars PROVE TurnInv'
<1>1. /\ UNCHANGED <<relayOnly, phase, machine, resent, captured, broken, permitted, refreshIn>>
      /\ UNCHANGED <<up, down, nonce, granted, permits, early, late, refused, accepted>>
      /\ UNCHANGED <<unrefreshed, excused, dropped>>
  BY DEF vars, client, relay, server, history
<1> QED BY <1>1 DEF TurnInv, TypeOK, NoncesGrow, OnlyAllocates, RefusalsAreNoted,
         NothingVanishes, Awaited, RefreshedInTime, IsRefreshing, SendsAreCovered,
         AskedFirst, Unasked, RelayOnlyInRelay, GatherFailsForCause, DropsHaveACause,
         Gathering, At

\* The inductive invariant: nonces only get newer along their way, no request
\* of the handshake vanishes unnoticed, the allocation outlives the next
\* refresh, and no Send indication overtakes the request for its permission
\* (allocate.rs, turn.rs, event_loop.rs).
THEOREM TurnInvariant == Spec => []TurnInv
<1>1. Init => TurnInv BY TurnInit
<1>2. TurnInv /\ [Next]_vars => TurnInv'
  <2> SUFFICES ASSUME TurnInv, [Next]_vars PROVE TurnInv'
    OBVIOUS
  <2>1. CASE ReceiveGathering BY <2>1, ReceiveGatheringKeeps
  <2>2. CASE ReceiveTimesOut BY <2>2, ReceiveTimesOutKeeps
  <2>12. CASE ReceiveFails BY <2>12, ReceiveFailsKeeps
  <2>3. CASE Refresh BY <2>3, RefreshKeeps
  <2>4. CASE ReceiveControl BY <2>4, ReceiveControlKeeps
  <2>5. CASE Tick BY <2>5, TickKeeps
  <2>6. ASSUME NEW p \in Peers, TransmitRelayed(p) PROVE TurnInv'
    BY <2>6, TransmitRelayedKeeps
  <2>7. CASE Serve BY <2>7, ServeKeeps
  <2>8. CASE NewNonce BY <2>8, NewNonceKeeps
  <2>9. CASE LoseUp BY <2>9, LoseUpKeeps
  <2>10. CASE LoseDown BY <2>10, LoseDownKeeps
  <2>11. CASE UNCHANGED vars BY <2>11, TurnStutter
  <2> QED BY <2>1, <2>2, <2>3, <2>4, <2>5, <2>6, <2>7, <2>8, <2>9, <2>10, <2>11,
           <2>12 DEF Next
<1> QED BY <1>1, <1>2, PTL DEF Spec

\* Only an unusable server, a refusal, an error of the socket, more losses
\* before the challenge than retransmits, a loss after it or a server that
\* keeps changing its nonce costs a peer its relay candidates, and a single
\* error of the socket does, for every number of retransmits and stale retries (turn.rs,
\* allocate.rs).
THEOREM GatheringFailsForCause == Spec => []GatherFailsForCause
<1>1. TurnInv => GatherFailsForCause BY DEF TurnInv
<1> QED BY <1>1, TurnInvariant, PTL

\* The allocation behind the relay candidate lives for as long as its refreshes
\* arrive with a nonce the server takes, and the nonce of the handshake is one
\* it has taken (the refresh arm of event_loop.rs, at half the lifetime).
THEOREM AllocationIsKept == Spec => []AllocationKept
<1>1. TurnInv => AllocationKept
  BY Constants DEF TurnInv, TypeOK, NoncesGrow, RefreshedInTime, AllocationKept
<1> QED BY <1>1, TurnInvariant, PTL

\* The server drops what is sent to a peer only when its permission was lost,
\* refused or has run out, or the allocation is gone (event_loop.rs asks for
\* the permission ahead of the first packet).
THEOREM DropsAreExcused == Spec => []DropsHaveACause
<1>1. TurnInv => DropsHaveACause BY DEF TurnInv
<1> QED BY <1>1, TurnInvariant, PTL
=============================================================================
