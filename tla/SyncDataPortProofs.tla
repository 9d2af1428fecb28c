-------------------------- MODULE SyncDataPortProofs --------------------------
(***************************************************************************)
(* SyncDataPort, for every number of stray connections, whatever they say, *)
(* and every number of frames: frames arrive whole and in order however    *)
(* the network cuts the stream, and noise does not close the port.         *)
(***************************************************************************)
EXTENDS SyncDataPort, SequenceTheorems, TLAPS

(* The inductive invariant.                                                *)

Noisy == {"silent", "closes", "huge", "empty", "foreign", "old"}
Speakers == {"speaks", "leaves", "seals", "garbled"}
Kinds == Noisy \cup Speakers
Places == {"listening", "connecting", "shaking", "wired"} \cup Over

TypeOK ==
  /\ agree \in BOOLEAN /\ kind \in [Strays -> StrayKinds]
  /\ pc \in [Ends -> Places]
  /\ opened \subseteq Conns /\ backlog \in Seq(Conns) /\ slot \in Conns \cup {None}
  /\ flight \in [Ends -> Seq(Nat)] /\ arrived \in [Ends -> Seq(Nat)]
  /\ salt \in [Ends -> Nat]
  /\ index \in [Ends -> Nat] /\ got \in [Ends -> Seq(Seq(Nat))]

\* What one end writes on the stream: its metadata, then sealed frames, here
\* with the agreement on the password as a parameter.  The metadata and every
\* other frame take five bytes, the chunks between them six.
KeyOf(g, o) == Salt(o) + (IF g \/ o = "sender" THEN 1 ELSE 2)
Sealed(g, o, i) == <<i, KeyOf(g, o)>> \o Frame(o, i)
Body(g, o, k) == IF k = 0 THEN Hello(o) ELSE Sealed(g, o, k - 1)
Size(k) == IF k > 0 /\ k % 2 = 0 THEN 6 ELSE 5
Offset(k) == IF k = 0 THEN 0 ELSE 5 * k + ((k - 1) \div 2)

\* The messages c, .., n-1 of an end, one after the other and nothing else.
Holds(s, at, unit) == \A b \in 1..Len(unit) : s[at + b] = unit[b]
Window(g, s, o, c, n) ==
  /\ c <= n /\ Len(s) = Offset(n) - Offset(c)
  /\ \A k \in c..(n - 1) : Holds(s, Offset(k) - Offset(c), Written(Body(g, o, k)))

\* Messages written to the peer, and messages read from it.
Greeted(o) == IF o = "recipient" THEN Recipient \in opened ELSE slot = Recipient
Sent(o) == IF Greeted(o) THEN 1 + index[o] ELSE 0
Heard(e) == IF pc[e] = "wired" /\ ~Foreign(e) THEN 1 + Len(got[e]) ELSE 0

\* What is under way to an end and in its reader is what the other end wrote
\* and it has not yet read.
InTransitTo(e) ==
  pc[e] \notin Over =>
    Window(agree, arrived[e] \o flight[e], Other(e), Heard(e), Sent(Other(e)))
InTransit == \A e \in Ends : InTransitTo(e)

\* An end with a wire has the salt of whoever is at the far end, and it sends
\* nothing before.
PeerSalt(e) == IF Foreign(e) THEN 30 ELSE Salt(Other(e))
IntroducedAt(e) ==
  /\ pc[e] = "wired" => salt[e] = PeerSalt(e)
  /\ pc[e] \notin Over \cup {"wired"} => index[e] = 0 /\ got[e] = <<>>
Introduced == \A e \in Ends : IntroducedAt(e)

\* The recipient's connection is in the backlog or in the slot for as long as
\* the port is open and it has not given up; the slot holds one that was opened,
\* and the wire one that has said a hello.
Queued ==
  /\ \A i \in 1..Len(backlog) : backlog[i] \in opened
  /\ slot \in opened \cup {None}
  /\ Recipient \in opened =>
       \/ \E i \in 1..Len(backlog) : backlog[i] = Recipient
       \/ slot = Recipient \/ pc["sender"] \in Over \cup {"wired"}
       \/ pc["recipient"] \in Over
  /\ pc["recipient"] = "connecting" => Recipient \notin opened
  /\ pc["recipient"] \in {"shaking", "wired"} => Recipient \in opened
  /\ pc["sender"] = "listening" => slot # Recipient
  /\ pc["sender"] \in {"shaking", "wired"} => slot # None
  /\ pc["sender"] = "wired" /\ slot \in Strays => kind[slot] \in Speakers

PortInv == TypeOK /\ InTransit /\ Introduced /\ Queued /\ FramesArriveWhole

-----------------------------------------------------------------------------
(* Lemmas about ends, messages and windows.                                *)

LEMMA Others ==
  /\ Other("sender") = "recipient" /\ Other("recipient") = "sender"
  /\ \A e \in Ends : Other(e) \in Ends /\ Other(e) # e /\ Other(Other(e)) = e
<1>1. \A e \in Ends : \E o \in Ends : o # e BY DEF Ends
<1>2. \A e \in Ends : Other(e) \in Ends /\ Other(e) # e BY <1>1 DEF Other
<1> QED BY <1>2 DEF Ends

LEMMA Keys ==
  ASSUME agree \in BOOLEAN, NEW e \in Ends
  PROVE  /\ Key(Salt(e), e) = KeyOf(agree, e)
         /\ KeyOf(agree, Other(e)) = Key(Salt(Other(e)), e) <=> agree
         /\ \A i \in Nat : Seal(e, i) = Sealed(agree, e, i)
<1>1. /\ Salt("sender") = 10 /\ Salt("recipient") = 20
      /\ Password("sender") = 1 /\ Password("recipient") = IF agree THEN 1 ELSE 2
      /\ KeyOf(agree, "sender") = 11
      /\ KeyOf(agree, "recipient") = IF agree THEN 21 ELSE 22
  BY DEF Salt, Password, KeyOf
<1>2. e = "sender" \/ e = "recipient" BY DEF Ends
<1>3. Key(Salt(e), e) = KeyOf(agree, e) BY <1>1, <1>2 DEF Key
<1>4. KeyOf(agree, Other(e)) = Key(Salt(Other(e)), e) <=> agree
  BY <1>1, <1>2, Others DEF Key
<1>5. \A i \in Nat : Seal(e, i) = Sealed(agree, e, i) BY <1>3 DEF Seal, Sealed
<1> QED BY <1>3, <1>4, <1>5

LEMMA Offsets ==
  /\ Offset(0) = 0
  /\ \A k \in Nat : Offset(k) \in Nat /\ Offset(k + 1) = Offset(k) + Size(k)
<1>1. Offset(0) = 0 BY DEF Offset
<1>2. ASSUME NEW k \in Nat
      PROVE  Offset(k) \in Nat /\ Offset(k + 1) = Offset(k) + Size(k)
  BY <1>2 DEF Offset, Size
<1> QED BY <1>1, <1>2

LEMMA OffsetsGrow ==
  ASSUME NEW j \in Nat, NEW k \in Nat, j < k
  PROVE  Offset(j) + Size(j) <= Offset(k)
  BY DEF Offset, Size

\* Two numbers ahead of a sequence: a prefix, or the head of a frame.
LEMMA Ahead ==
  ASSUME NEW x \in Nat, NEW y \in Nat, NEW t \in Seq(Nat)
  PROVE  /\ <<x, y>> \o t \in Seq(Nat) /\ Len(<<x, y>> \o t) = Len(t) + 2
         /\ (<<x, y>> \o t)[1] = x /\ (<<x, y>> \o t)[2] = y
         /\ \A i \in 1..Len(t) : (<<x, y>> \o t)[i + 2] = t[i]
<1> DEFINE p == <<x, y>>
<1>1. p \in Seq(Nat) /\ Len(p) = 2 /\ p[1] = x /\ p[2] = y OBVIOUS
<1> HIDE DEF p
<1>2. /\ p \o t \in Seq(Nat) /\ Len(p \o t) = Len(p) + Len(t)
      /\ \A i \in 1..Len(p) + Len(t) : (p \o t)[i] =
            IF i <= Len(p) THEN p[i] ELSE t[i - Len(p)]
  BY <1>1, ConcatProperties
<1>3. Len(t) \in Nat OBVIOUS
<1> QED BY <1>1, <1>2, <1>3 DEF p

LEMMA FrameBytes ==
  ASSUME NEW o \in Ends, NEW i \in Nat
  PROVE  Frame(o, i) \in Seq(Nat) /\ Len(Frame(o, i)) = IF i % 2 = 0 THEN 1 ELSE 2
<1> DEFINE x == Salt(o) + i
<1>1. x \in Nat BY DEF Salt
<1>2. Frame(o, i) = IF i % 2 = 0 THEN <<x>> ELSE <<x, i>> BY DEF Frame
<1> HIDE DEF x
<1>3. <<x>> \in Seq(Nat) /\ <<x, i>> \in Seq(Nat) BY <1>1
<1>4. Len(<<x>>) = 1 /\ Len(<<x, i>>) = 2 OBVIOUS
<1>5. CASE i % 2 = 0 BY <1>2, <1>3, <1>4, <1>5
<1>6. CASE i % 2 # 0 BY <1>2, <1>3, <1>4, <1>6
<1> QED BY <1>5, <1>6

LEMMA Seals ==
  ASSUME NEW g \in BOOLEAN, NEW o \in Ends, NEW i \in Nat
  PROVE  /\ Sealed(g, o, i) \in Seq(Nat) /\ Len(Sealed(g, o, i)) = Len(Frame(o, i)) + 2
         /\ Sealed(g, o, i)[2] = KeyOf(g, o)
         /\ \A b \in 1..Len(Frame(o, i)) : Sealed(g, o, i)[b + 2] = Frame(o, i)[b]
<1>1. KeyOf(g, o) \in Nat BY DEF KeyOf, Salt
<1>2. Frame(o, i) \in Seq(Nat) BY FrameBytes
<1> DEFINE k == KeyOf(g, o)
           f == Frame(o, i)
<1>3. k \in Nat /\ f \in Seq(Nat) /\ Sealed(g, o, i) = <<i, k>> \o f
  BY <1>1, <1>2 DEF Sealed
<1> HIDE DEF k, f
<1>4. /\ <<i, k>> \o f \in Seq(Nat) /\ Len(<<i, k>> \o f) = Len(f) + 2
      /\ (<<i, k>> \o f)[2] = k
      /\ \A b \in 1..Len(f) : (<<i, k>> \o f)[b + 2] = f[b]
  BY <1>3, Ahead
<1>5. /\ Sealed(g, o, i) \in Seq(Nat) /\ Len(Sealed(g, o, i)) = Len(f) + 2
      /\ Sealed(g, o, i)[2] = k
      /\ \A b \in 1..Len(f) : Sealed(g, o, i)[b + 2] = f[b]
  BY <1>3, <1>4
<1> QED BY <1>5 DEF k, f

\* The bytes of one message: the prefix says how many follow.
LEMMA Units ==
  ASSUME NEW g \in BOOLEAN, NEW o \in Ends, NEW k \in Nat
  PROVE  /\ Size(k) \in {5, 6}
         /\ Body(g, o, k) \in Seq(Nat) /\ Len(Body(g, o, k)) = Size(k) - 2
         /\ Written(Body(g, o, k)) \in Seq(Nat) /\ Len(Written(Body(g, o, k))) = Size(k)
         /\ Written(Body(g, o, k))[1] \in Nat /\ Written(Body(g, o, k))[2] \in Nat
         /\ Written(Body(g, o, k))[1] * Base + Written(Body(g, o, k))[2] = Size(k) - 2
         /\ \A b \in 1..(Size(k) - 2) : Written(Body(g, o, k))[b + 2] = Body(g, o, k)[b]
<1> DEFINE body == Body(g, o, k)
           x == Len(body) \div Base
           y == Len(body) % Base
<1>1. Size(k) \in {5, 6} BY DEF Size
<1>2. body \in Seq(Nat) /\ Len(body) = Size(k) - 2
  <2>1. CASE k = 0
    <3>1. Salt(o) \in Nat BY DEF Salt
    <3>2. Body(g, o, k) = <<Magic, Version, Salt(o)>> BY <2>1 DEF Body, Hello
    <3>3. <<Magic, Version, Salt(o)>> \in Seq(Nat) BY <3>1 DEF Magic, Version
    <3>4. Len(<<Magic, Version, Salt(o)>>) = 3 OBVIOUS
    <3>5. Size(k) = 5 BY <2>1 DEF Size
    <3> QED BY <3>2, <3>3, <3>4, <3>5
  <2>2. CASE k # 0
    <3> DEFINE i == k - 1
    <3>1. i \in Nat /\ (i % 2 = 0 <=> k % 2 # 0) BY <2>2
    <3>2. Body(g, o, k) = Sealed(g, o, i) BY <2>2 DEF Body
    <3> HIDE DEF i
    <3>3. Sealed(g, o, i) \in Seq(Nat) /\ Len(Sealed(g, o, i)) = Len(Frame(o, i)) + 2
      BY <3>1, Seals
    <3>4. Len(Frame(o, i)) = IF i % 2 = 0 THEN 1 ELSE 2 BY <3>1, FrameBytes
    <3> QED BY <2>2, <3>1, <3>2, <3>3, <3>4 DEF Size
  <2> QED BY <2>1, <2>2
<1>3. x \in Nat /\ y \in Nat /\ x * Base + y = Size(k) - 2
  <2> HIDE DEF body
  <2>1. Len(body) \in {3, 4} BY <1>1, <1>2
  <2>2. /\ 3 \div 4 = 0 /\ 3 % 4 = 3
        /\ 4 \div 4 = 1 /\ 4 % 4 = 0
    OBVIOUS
  <2>3. x = Len(body) \div 4 /\ y = Len(body) % 4 BY DEF Base
  <2>4. x * 4 + y = Len(body) /\ x \in Nat /\ y \in Nat BY <2>1, <2>2, <2>3
  <2> QED BY <1>2, <2>4 DEF Base
<1>4. Written(body) = <<x, y>> \o body BY DEF Written
<1> HIDE DEF body, x, y
<1>5. /\ <<x, y>> \o body \in Seq(Nat) /\ Len(<<x, y>> \o body) = Len(body) + 2
      /\ (<<x, y>> \o body)[1] = x /\ (<<x, y>> \o body)[2] = y
      /\ \A i \in 1..Len(body) : (<<x, y>> \o body)[i + 2] = body[i]
  BY <1>2, <1>3, Ahead
<1>6. /\ Written(body) \in Seq(Nat) /\ Len(Written(body)) = Size(k)
      /\ Written(body)[1] = x /\ Written(body)[2] = y
      /\ \A i \in 1..(Size(k) - 2) : Written(body)[i + 2] = body[i]
  BY <1>1, <1>2, <1>4, <1>5
<1>7. Written(body)[1] * Base + Written(body)[2] = Size(k) - 2 BY <1>3, <1>6
<1> QED BY <1>1, <1>2, <1>3, <1>6, <1>7 DEF body

-----------------------------------------------------------------------------
(* Lemmas about the stream: a message is written at its end, cut off its   *)
(* front, and bytes that arrive leave it as it is.                         *)

LEMMA NothingUnderWay ==
  ASSUME NEW g \in BOOLEAN, NEW o \in Ends, NEW n \in Nat
  PROVE  Window(g, <<>>, o, n, n)
<1>1. Offset(n) \in Nat BY Offsets
<1>2. n..(n - 1) = {} OBVIOUS
<1> QED BY <1>1, <1>2 DEF Window

LEMMA Regroup ==
  ASSUME NEW x \in Seq(Nat), NEW y \in Seq(Nat), NEW z \in Seq(Nat)
  PROVE  (x \o y) \o z = x \o (y \o z)
BY ConcatAssociative

LEMMA WindowWritten ==
  ASSUME NEW g \in BOOLEAN, NEW o \in Ends, NEW a \in Seq(Nat), NEW f \in Seq(Nat),
         NEW c \in Nat, NEW n \in Nat, Window(g, a \o f, o, c, n)
  PROVE  /\ f \o Written(Body(g, o, n)) \in Seq(Nat)
         /\ Window(g, a \o (f \o Written(Body(g, o, n))), o, c, n + 1)
<1> DEFINE s == a \o f
           u == Written(Body(g, o, n))
           t == s \o u
<1>1. u \in Seq(Nat) /\ Len(u) = Size(n) /\ Size(n) \in {5, 6} BY Units
<1>2. s \in Seq(Nat) BY ConcatProperties
<1>3. Window(g, s, o, c, n) OBVIOUS
<1> HIDE DEF u
<1>4. f \o u \in Seq(Nat) BY <1>1, ConcatProperties
<1>5. a \o (f \o u) = t BY <1>1, Regroup
<1> HIDE DEF s
<1>6. /\ s \o u \in Seq(Nat) /\ Len(s \o u) = Len(s) + Len(u)
      /\ \A i \in 1..Len(s) + Len(u) : (s \o u)[i] =
            IF i <= Len(s) THEN s[i] ELSE u[i - Len(s)]
  BY <1>1, <1>2, ConcatProperties
<1>7. /\ Offset(c) \in Nat /\ Offset(n) \in Nat /\ Offset(n + 1) = Offset(n) + Size(n)
  BY Offsets
<1>8. c <= n /\ Len(s) = Offset(n) - Offset(c) BY <1>3 DEF Window
<1>9. Len(s) \in Nat BY <1>2
<1>10. Len(t) = Offset(n + 1) - Offset(c) BY <1>1, <1>6, <1>7, <1>8
<1>11. ASSUME NEW k \in c..n
       PROVE  Holds(t, Offset(k) - Offset(c), Written(Body(g, o, k)))
  <2>0. k \in Nat BY <1>11
  <2>1. CASE k = n
    <3>1. Offset(k) - Offset(c) = Len(s) BY <1>8, <2>1
    <3>2. \A b \in 1..Len(u) : t[Len(s) + b] = u[b] BY <1>1, <1>6, <1>9
    <3> QED BY <2>1, <3>1, <3>2 DEF Holds, u
  <2>2. CASE k # n
    <3>1. k < n /\ k \in c..(n - 1) BY <1>11, <2>2
    <3>2. Offset(k) + Size(k) <= Offset(n) BY <2>0, <3>1, OffsetsGrow
    <3>3. Len(Written(Body(g, o, k))) = Size(k) /\ Size(k) \in {5, 6} BY <2>0, Units
    <3>4. Offset(k) \in Nat BY <2>0, Offsets
    <3>5. Offset(c) <= Offset(k)
      <4>1. CASE c = k BY <4>1, <3>4
      <4>2. CASE c < k
        <5>1. Offset(c) + Size(c) <= Offset(k) BY <2>0, <4>2, OffsetsGrow
        <5>2. Size(c) \in {5, 6} BY Units
        <5> QED BY <1>7, <3>4, <5>1, <5>2
      <4> QED BY <3>1, <2>0, <4>1, <4>2
    <3>6. Holds(s, Offset(k) - Offset(c), Written(Body(g, o, k)))
      BY <1>3, <3>1 DEF Window
    <3> DEFINE at == Offset(k) - Offset(c)
               v == Written(Body(g, o, k))
    <3>7. at \in Nat /\ Len(v) \in Nat /\ at + Len(v) <= Len(s)
      BY <1>7, <1>8, <3>2, <3>3, <3>4, <3>5
    <3>8. \A b \in 1..Len(v) : s[at + b] = v[b] BY <3>6 DEF Holds
    <3> HIDE DEF at, v
    <3>9. \A b \in 1..Len(v) : t[at + b] = v[b]
      BY <1>1, <1>6, <1>9, <3>7, <3>8
    <3> QED BY <3>9 DEF Holds, at, v
  <2> QED BY <2>1, <2>2
<1>12. c <= n + 1 /\ (n + 1) - 1 = n BY <1>8
<1>13. Window(g, t, o, c, n + 1) BY <1>10, <1>11, <1>12 DEF Window
<1> QED BY <1>4, <1>5, <1>13 DEF u

Length(b) == b[1] * Base + b[2]

LEMMA MessageOf ==
  ASSUME NEW b \in Seq(Nat)
  PROVE  /\ Len(b) < 2 => Message(b).is = "short"
         /\ Len(b) >= 2 /\ Length(b) \notin 1..5 => Message(b).is = "refused"
         /\ Len(b) >= 2 /\ Length(b) \in 1..5 /\ Len(b) < 2 + Length(b) =>
              Message(b).is = "short"
         /\ Len(b) >= 2 /\ Length(b) \in 1..5 /\ Len(b) >= 2 + Length(b) =>
              /\ Message(b).is = "message"
              /\ Message(b).body = SubSeq(b, 3, 2 + Length(b))
              /\ Message(b).rest = SubSeq(b, 2 + Length(b) + 1, Len(b))
<1> DEFINE length == Length(b)
           end == 2 + length
           is == IF Len(b) < 2 THEN "short"
                 ELSE IF length \notin 1..5 THEN "refused"
                 ELSE IF Len(b) < end THEN "short" ELSE "message"
           body == IF is = "message" THEN SubSeq(b, 3, end) ELSE <<>>
           rest == IF is = "message" THEN SubSeq(b, end + 1, Len(b)) ELSE b
<1>1. Message(b) = [is |-> is, body |-> body, rest |-> rest]
  BY DEF Message, Length, PrefixBytes, MaxMessage
<1> HIDE DEF is, body, rest
<1>2. Message(b).is = is /\ Message(b).body = body /\ Message(b).rest = rest
  BY <1>1
<1>3. /\ Len(b) < 2 => is = "short"
      /\ Len(b) >= 2 /\ length \notin 1..5 => is = "refused"
      /\ Len(b) >= 2 /\ length \in 1..5 /\ Len(b) < end => is = "short"
      /\ Len(b) >= 2 /\ length \in 1..5 /\ Len(b) >= end => is = "message"
  <2>1. Len(b) \in Nat OBVIOUS
  <2>2. length \in 1..5 => end \in Nat OBVIOUS
  <2> HIDE DEF end, length
  <2> QED BY <2>1, <2>2 DEF is
<1>4. is = "message" => body = SubSeq(b, 3, end) /\ rest = SubSeq(b, end + 1, Len(b))
  BY DEF body, rest
<1> QED BY <1>2, <1>3, <1>4

\* What an end meets when it reads: a message the other end wrote, the oldest
\* it has not read, or the wait for the rest of it; never a refused length.
LEMMA WindowRead ==
  ASSUME NEW g \in BOOLEAN, NEW o \in Ends, NEW a \in Seq(Nat), NEW f \in Seq(Nat),
         NEW c \in Nat, NEW n \in Nat, Window(g, a \o f, o, c, n)
  PROVE  /\ Message(a).is \in {"short", "message"}
         /\ Message(a).is = "short" /\ f = <<>> => c = n
         /\ Message(a).is = "message" =>
              /\ c < n /\ Message(a).body = Body(g, o, c)
              /\ Message(a).rest \in Seq(Nat)
              /\ Window(g, Message(a).rest \o f, o, c + 1, n)
<1> DEFINE s == a \o f
           u == Written(Body(g, o, c))
           z == Size(c)
<1>1. /\ s \in Seq(Nat) /\ Len(s) = Len(a) + Len(f)
      /\ \A i \in 1..Len(a) + Len(f) : s[i] = IF i <= Len(a) THEN a[i] ELSE f[i - Len(a)]
  BY ConcatProperties
<1>2. Len(a) \in Nat /\ Len(f) \in Nat /\ (f = <<>> => Len(f) = 0) OBVIOUS
<1>3. c <= n /\ Len(s) = Offset(n) - Offset(c) BY DEF Window
<1>0. \A i \in 1..Len(a) : a[i] \in Nat BY ElementOfSeq
<1>a. \A i \in 1..Len(a) : s[i] = a[i] BY <1>1, <1>2
<1>b. \A i \in 1..Len(f) : s[Len(a) + i] = f[i] BY <1>1, <1>2
<1>4. CASE c = n
  <2>1. Offset(n) \in Nat BY Offsets
  <2>2. Len(a) = 0 BY <1>1, <1>2, <1>3, <1>4, <2>1
  <2>3. Len(a) < 2 BY <2>2
  <2>4. Message(a).is = "short" BY <2>3, MessageOf
  <2> QED BY <1>4, <2>4
<1>5. CASE c < n
  <2>1. /\ u \in Seq(Nat) /\ Len(u) = z /\ z \in {5, 6} /\ u[1] * Base + u[2] = z - 2
        /\ Body(g, o, c) \in Seq(Nat) /\ Len(Body(g, o, c)) = z - 2
        /\ \A b \in 1..(z - 2) : u[b + 2] = Body(g, o, c)[b]
    BY Units
  <2>2. /\ Offset(c) \in Nat /\ Offset(n) \in Nat /\ Offset(c + 1) = Offset(c) + z
        /\ Offset(c) + z <= Offset(n)
    BY <1>5, Offsets, OffsetsGrow
  <2>3. \A b \in 1..z : s[b] = u[b]
    <3>1. c \in c..(n - 1) BY <1>5
    <3>2. Holds(s, Offset(c) - Offset(c), u) BY <3>1 DEF Window
    <3>3. Offset(c) - Offset(c) = 0 BY <2>2
    <3>4. \A b \in 1..z : s[0 + b] = u[b] BY <2>1, <3>2, <3>3 DEF Holds
    <3>5. \A b \in 1..z : 0 + b = b BY <2>1
    <3> QED BY <3>4, <3>5
  <2>4. Len(s) >= z BY <1>3, <2>1, <2>2
  <2> HIDE DEF s, u, z
  <2>5. CASE Len(a) < 2
    <3>1. Message(a).is = "short" BY <2>5, MessageOf
    <3>2. f # <<>> BY <1>1, <1>2, <2>1, <2>4, <2>5
    <3> QED BY <3>1, <3>2
  <2>6. CASE Len(a) >= 2
    <3>0. 1 \in 1..Len(a) /\ 2 \in 1..Len(a) /\ 1 \in 1..z /\ 2 \in 1..z
      BY <1>2, <2>1, <2>6
    <3>1. a[1] = u[1] /\ a[2] = u[2] BY <1>a, <2>3, <3>0
    <3>2. Length(a) = z - 2 BY <2>1, <3>1 DEF Length
    <3>3. Length(a) \in 1..5 /\ 2 + Length(a) = z BY <2>1, <3>2
    <3>4. CASE Len(a) < z
      <4>1. Message(a).is = "short" BY <2>6, <3>3, <3>4, MessageOf
      <4>2. f # <<>> BY <1>1, <1>2, <2>1, <2>4, <3>4
      <4> QED BY <4>1, <4>2
    <3>5. CASE Len(a) >= z
      <4> DEFINE body == SubSeq(a, 3, z)
                 rest == SubSeq(a, z + 1, Len(a))
                 t == rest \o f
      <4>1. /\ Message(a).is = "message" /\ Message(a).body = body
            /\ Message(a).rest = rest
        BY <2>6, <3>3, <3>5, MessageOf
      <4>2. body = Body(g, o, c)
        <5>1. /\ body \in Seq(Nat) /\ Len(body) = z - 2
              /\ \A b \in 1..(z - 2) : body[b] = a[b + 2]
          <6>0. \A i \in 3..z : i \in 1..Len(a) BY <1>2, <2>1, <3>5
          <6>1. z \in Int /\ 3 \in Int /\ (\A i \in 3..z : a[i] \in Nat)
            BY <1>0, <2>1, <6>0
          <6>2. /\ body \in Seq(Nat) /\ Len(body) = IF 3 <= z THEN z - 3 + 1 ELSE 0
                /\ \A i \in 1..(z - 3 + 1) : body[i] = a[3 + i - 1]
            BY <6>1, SubSeqProperties
          <6> HIDE DEF body
          <6>3. \A b \in 1..(z - 2) : b \in 1..(z - 3 + 1) /\ 3 + b - 1 = b + 2 BY <2>1
          <6> QED BY <2>1, <6>2, <6>3
        <5>2. \A b \in 1..(z - 2) : a[b + 2] = u[b + 2]
          <6>1. \A b \in 1..(z - 2) : b + 2 \in 1..z /\ b + 2 \in 1..Len(a)
            BY <1>2, <2>1, <3>5
          <6> QED BY <1>a, <2>3, <6>1
        <5> HIDE DEF body
        <5>3. \A b \in 1..(z - 2) : body[b] = Body(g, o, c)[b] BY <2>1, <5>1, <5>2
        <5> QED BY <2>1, <5>1, <5>3, SeqEqual
      <4>3. /\ rest \in Seq(Nat) /\ Len(rest) = Len(a) - z
            /\ \A i \in 1..(Len(a) - z) : rest[i] = a[z + i]
        <5> DEFINE m == z + 1
                   l == Len(a)
        <5>0. m \in Int /\ l \in Int /\ (\A i \in m..l : i \in 1..Len(a))
          BY <1>2, <2>1, <3>5
        <5>1. \A i \in m..l : a[i] \in Nat BY <1>0, <5>0
        <5>2. /\ SubSeq(a, m, l) \in Seq(Nat)
              /\ Len(SubSeq(a, m, l)) = IF m <= l THEN l - m + 1 ELSE 0
              /\ \A i \in 1..(l - m + 1) : SubSeq(a, m, l)[i] = a[m + i - 1]
          BY <5>0, <5>1, SubSeqProperties
        <5> HIDE DEF rest
        <5>3. rest = SubSeq(a, m, l) BY DEF rest
        <5>4. \A i \in 1..(Len(a) - z) : i \in 1..(l - m + 1) /\ m + i - 1 = z + i
          BY <1>2, <2>1
        <5>5. (IF m <= l THEN l - m + 1 ELSE 0) = Len(a) - z BY <1>2, <2>1, <3>5
        <5> HIDE DEF m, l
        <5> QED BY <5>2, <5>3, <5>4, <5>5
      <4> HIDE DEF rest
      <4>4. /\ rest \o f \in Seq(Nat) /\ Len(rest \o f) = Len(rest) + Len(f)
            /\ \A i \in 1..Len(rest) + Len(f) : (rest \o f)[i] =
                  IF i <= Len(rest) THEN rest[i] ELSE f[i - Len(rest)]
        BY <4>3, ConcatProperties
      <4>5. Len(t) = Len(s) - z BY <1>1, <1>2, <2>1, <4>3, <4>4
      <4>6. \A i \in 1..Len(t) : t[i] = s[z + i]
        <5>1. ASSUME NEW i \in 1..Len(t) PROVE t[i] = s[z + i]
          <6>1. CASE i <= Len(rest)
            <7>a. i \in Nat /\ 1 <= i /\ Len(rest) \in Nat BY <4>3, <5>1
            <7>b. i \in 1..Len(rest) /\ i \in 1..(Len(rest) + Len(f))
              BY <1>2, <6>1, <7>a
            <7>1. t[i] = a[z + i] BY <4>3, <4>4, <6>1, <7>b
            <7>2. z + i \in 1..Len(a) BY <1>2, <2>1, <4>3, <7>a, <7>b
            <7> QED BY <1>a, <7>1, <7>2
          <6>2. CASE i > Len(rest)
            <7> DEFINE j == i - Len(rest)
            <7>0. i \in 1..(Len(rest) + Len(f)) /\ ~(i <= Len(rest))
              BY <1>2, <2>1, <3>5, <4>3, <4>4, <5>1, <6>2
            <7>1. t[i] = f[j] BY <4>4, <7>0
            <7>2. j \in 1..Len(f) /\ Len(a) + j = z + i
              BY <1>2, <2>1, <3>5, <4>3, <4>4, <5>1, <6>2
            <7> HIDE DEF j
            <7> QED BY <1>b, <7>1, <7>2
          <6>3. i \in Nat /\ Len(rest) \in Nat BY <4>3, <5>1
          <6> QED BY <6>1, <6>2, <6>3
        <5> QED BY <5>1
      <4> HIDE DEF t
      <4>7. Len(t) = Offset(n) - Offset(c + 1) BY <1>3, <2>1, <2>2, <4>5 DEF s
      <4>8. ASSUME NEW k \in (c + 1)..(n - 1)
            PROVE  Holds(t, Offset(k) - Offset(c + 1), Written(Body(g, o, k)))
        <5> DEFINE v == Written(Body(g, o, k))
                   at == Offset(k) - Offset(c + 1)
        <5>1. k \in Nat /\ k \in c..(n - 1) /\ c < k /\ k < n BY <4>8
        <5>2. Len(v) = Size(k) /\ Size(k) \in {5, 6} BY <5>1, Units
        <5>3. /\ Offset(k) \in Nat /\ Offset(c) + Size(c) <= Offset(k)
              /\ Offset(k) + Size(k) <= Offset(n)
          BY <5>1, Offsets, OffsetsGrow
        <5>4. /\ at \in Nat /\ Offset(k) - Offset(c) = z + at
              /\ at + Len(v) <= Len(t)
          <6>1. /\ Offset(c + 1) = Offset(c) + z /\ Offset(c) + z <= Offset(k)
            BY <2>2, <5>3 DEF z
          <6>2. at = Offset(k) - Offset(c + 1) OBVIOUS
          <6> HIDE DEF at, v
          <6>3. Offset(c + 1) \in Nat /\ z \in Nat /\ Size(k) \in Nat
            <7>1. c + 1 \in Nat OBVIOUS
            <7>2. Offset(c + 1) \in Nat BY <7>1, Offsets
            <7>3. z \in Nat BY <2>1
            <7>4. Size(k) \in Nat BY <5>2
            <7> QED BY <7>2, <7>3, <7>4
          <6>4. at \in Nat BY <5>3, <6>1, <6>2, <6>3
          <6>5. Offset(k) - Offset(c) = z + at
            <7>1. at = Offset(k) - (Offset(c) + z) BY <6>1, <6>2
            <7>2. Offset(k) \in Nat /\ Offset(c) \in Nat /\ z \in Nat BY <2>2, <5>3, <6>3
            <7> QED BY <7>1, <7>2
          <6>6. at + Len(v) <= Len(t)
            <7>1. Offset(n) \in Nat /\ Offset(k) \in Nat /\ Len(v) = Size(k)
              BY <2>2, <5>2, <5>3
            <7>2. at + Size(k) <= Offset(n) - Offset(c + 1) BY <5>3, <6>2, <6>3, <7>1
            <7> QED BY <4>7, <7>1, <7>2
          <6> QED BY <6>4, <6>5, <6>6
        <5>5. Holds(s, Offset(k) - Offset(c), v) BY <5>1 DEF Window, s
        <5> HIDE DEF v, at
        <5>6. \A b \in 1..Len(v) : s[z + at + b] = v[b] BY <5>4, <5>5 DEF Holds
        <5>7. \A b \in 1..Len(v) : t[at + b] = v[b]
          <6>1. ASSUME NEW b \in 1..Len(v) PROVE t[at + b] = v[b]
            <7>1. at + b \in 1..Len(t) /\ z + (at + b) = z + at + b
              BY <2>1, <5>2, <5>4
            <7> QED BY <4>6, <5>6, <7>1
          <6> QED BY <6>1
        <5> QED BY <5>7 DEF Holds, v, at
      <4>9. Window(g, t, o, c + 1, n) BY <1>5, <4>7, <4>8 DEF Window
      <4> QED BY <1>5, <4>1, <4>2, <4>3, <4>9 DEF t
    <3> QED BY <1>2, <2>1, <3>4, <3>5
  <2> QED BY <1>2, <2>5, <2>6
<1> QED BY <1>3, <1>4, <1>5

LEMMA WindowDelivered ==
  ASSUME NEW a \in Seq(Nat), NEW f \in Seq(Nat), NEW n \in 1..Len(f)
  PROVE  /\ a \o SubSeq(f, 1, n) \in Seq(Nat) /\ SubSeq(f, n + 1, Len(f)) \in Seq(Nat)
         /\ (a \o SubSeq(f, 1, n)) \o SubSeq(f, n + 1, Len(f)) = a \o f
<1> DEFINE x == SubSeq(f, 1, n)
           y == SubSeq(f, n + 1, Len(f))
           m == n + 1
           l == Len(f)
<1>1. \A i \in 1..Len(f) : f[i] \in Nat BY ElementOfSeq
<1>2. Len(f) \in Nat /\ n \in Nat /\ 1 <= n /\ n <= Len(f) OBVIOUS
<1>3. x \in Seq(Nat)
  <2>1. 1 \in Int /\ n \in Int /\ (\A i \in 1..n : f[i] \in Nat) BY <1>1, <1>2
  <2> QED BY <2>1, SubSeqProperties
<1>4. y \in Seq(Nat)
  <2>1. m \in Int /\ l \in Int /\ (\A i \in m..l : i \in 1..Len(f)) BY <1>2
  <2>2. \A i \in m..l : f[i] \in Nat BY <1>1, <2>1
  <2>3. SubSeq(f, m, l) \in Seq(Nat) BY <2>1, <2>2, SubSeqProperties
  <2> QED BY <2>3
<1>5. x \o y = f
  <2>1. 1 \in 1..Len(f) + 1 /\ n \in 1 - 1..Len(f) /\ l \in n..Len(f) BY <1>2
  <2>2. SubSeq(f, 1, n) \o SubSeq(f, n + 1, l) = SubSeq(f, 1, l)
    BY <2>1, ConcatAdjacentSubSeq
  <2>3. SubSeq(f, 1, Len(f)) = f BY SubSeqFull
  <2> QED BY <2>2, <2>3
<1> HIDE DEF x, y, m, l
<1>6. a \o x \in Seq(Nat) BY <1>3, ConcatProperties
<1>7. (a \o x) \o y = a \o (x \o y) BY <1>3, <1>4, Regroup
<1> QED BY <1>4, <1>5, <1>6, <1>7 DEF x, y

\* What strangers say is never a handshake, and unless they say nothing and
\* stay it is rejected.
LEMMA Noise ==
  ASSUME NEW k \in Noisy
  PROVE  /\ ~Handshaken(StrayBytes(k))
         /\ k = "silent" \/ HandshakeRejected(StrayBytes(k), TRUE)
<1> DEFINE b == StrayBytes(k)
           noise == ~Handshaken(b) /\ (k = "silent" \/ HandshakeRejected(b, TRUE))
<1> SUFFICES noise OBVIOUS
<1> HIDE DEF b
<1>1. CASE k \in {"silent", "closes"}
  <2>1. b = <<>> BY <1>1 DEF b, StrayBytes
  <2>2. b \in Seq(Nat) /\ Len(b) < 2 BY <2>1
  <2>3. Message(b).is = "short" BY <2>2, MessageOf
  <2> QED BY <2>3 DEF noise, Handshaken, HandshakeRejected
<1>2. CASE k = "huge"
  <2>1. b = <<3, 3>> BY <1>2 DEF b, StrayBytes
  <2>2. b \in Seq(Nat) /\ Len(b) = 2 /\ Length(b) = 15
    BY <2>1 DEF Length, Base
  <2>3. Len(b) >= 2 /\ Length(b) \notin 1..5 BY <2>2
  <2>4. Message(b).is = "refused" BY <2>2, <2>3, MessageOf
  <2> QED BY <2>4 DEF noise, Handshaken, HandshakeRejected
<1>3. CASE k = "empty"
  <2>1. b = <<0, 0>> BY <1>3 DEF b, StrayBytes
  <2>2. b \in Seq(Nat) /\ Len(b) = 2 /\ Length(b) = 0
    BY <2>1 DEF Length, Base
  <2>3. Len(b) >= 2 /\ Length(b) \notin 1..5 BY <2>2
  <2>4. Message(b).is = "refused" BY <2>2, <2>3, MessageOf
  <2> QED BY <2>4 DEF noise, Handshaken, HandshakeRejected
<1>4. CASE k = "foreign"
  <2>1. 2 \div 4 = 0 /\ 2 % 4 = 2 OBVIOUS
  <2>2. Len(<<9, 9>>) = 2 OBVIOUS
  <2>3. b = <<0, 2>> \o <<9, 9>> BY <1>4, <2>1, <2>2 DEF b, StrayBytes, Written, Base
  <2>4. <<9, 9>> \in Seq(Nat) OBVIOUS
  <2>5. b \in Seq(Nat) /\ Len(b) = 4 /\ b[1] = 0 /\ b[2] = 2 BY <2>2, <2>3, <2>4, Ahead
  <2>6. /\ Length(b) = 2 /\ Len(b) >= 2 /\ Length(b) \in 1..5
        /\ Len(b) >= 2 + Length(b) /\ 2 + Length(b) = 4
    BY <2>5 DEF Length, Base
  <2>7. Message(b).is = "message" /\ Message(b).body = SubSeq(b, 3, 4)
    BY <2>5, <2>6, MessageOf
  <2>8. Len(SubSeq(b, 3, 4)) = 2 BY <2>5
  <2>9. ~ParseHandshake(Message(b).body) BY <2>7, <2>8 DEF ParseHandshake
  <2> QED BY <2>7, <2>9 DEF noise, Handshaken, HandshakeRejected
<1>5. CASE k = "old"
  <2> DEFINE old == <<Magic, 0, 9>>
  <2>1. 3 \div 4 = 0 /\ 3 % 4 = 3 OBVIOUS
  <2>2. Len(old) = 3 /\ old \in Seq(Nat) /\ old[2] = 0 BY DEF Magic
  <2>3. b = <<Len(old) \div 4, Len(old) % 4>> \o old BY <1>5 DEF b, StrayBytes, Written, Base
  <2> HIDE DEF old
  <2>4. b = <<0, 3>> \o old BY <2>1, <2>2, <2>3
  <2>5. b \in Seq(Nat) /\ Len(b) = 5 /\ b[1] = 0 /\ b[2] = 3 /\ b[2 + 2] = old[2]
    <3>1. 0 \in Nat /\ 3 \in Nat /\ 2 \in 1..Len(old) /\ Len(old) + 2 = 5 BY <2>2
    <3>2. old \in Seq(Nat) BY <2>2
    <3>3. /\ <<0, 3>> \o old \in Seq(Nat) /\ Len(<<0, 3>> \o old) = Len(old) + 2
          /\ (<<0, 3>> \o old)[1] = 0 /\ (<<0, 3>> \o old)[2] = 3
          /\ \A i \in 1..Len(old) : (<<0, 3>> \o old)[i + 2] = old[i]
      BY <3>1, <3>2, Ahead
    <3> QED BY <2>4, <3>1, <3>3
  <2>6. /\ Length(b) = 3 /\ Len(b) >= 2 /\ Length(b) \in 1..5
        /\ Len(b) >= 2 + Length(b) /\ 2 + Length(b) = 5
    BY <2>5 DEF Length, Base
  <2>7. Message(b).is = "message" /\ Message(b).body = SubSeq(b, 3, 5)
    BY <2>5, <2>6, MessageOf
  <2>8. SubSeq(b, 3, 5)[2] = b[2 + 2] BY <2>5
  <2>9. ~ParseHandshake(Message(b).body) BY <2>2, <2>5, <2>7, <2>8 DEF ParseHandshake, Version
  <2> QED BY <2>7, <2>9 DEF noise, Handshaken, HandshakeRejected
<1> QED BY <1>1, <1>2, <1>3, <1>4, <1>5 DEF Noisy

\* The prefix of a message of three bytes.
LEMMA AheadOf ==
  ASSUME NEW t \in Seq(Nat)
  PROVE  LET w == <<0, 3>> \o t
         IN /\ w \in Seq(Nat) /\ Len(w) = Len(t) + 2 /\ w[1] = 0 /\ w[2] = 3
            /\ \A i \in 1..Len(t) : w[i + 2] = t[i]
<1>1. 0 \in Nat /\ 3 \in Nat OBVIOUS
<1> QED BY <1>1, Ahead

\* A message of three bytes at the front of a sequence is read whole, and what
\* follows it is left.
LEMMA ReadsFirst ==
  ASSUME NEW body \in Seq(Nat), Len(body) = 3, NEW t \in Seq(Nat)
  PROVE  LET b == Written(body) \o t
         IN /\ Written(body) \in Seq(Nat) /\ Written(body) \o <<>> = Written(body)
            /\ Message(b).is = "message" /\ Message(b).body = body
            /\ Message(b).rest = t
<1> DEFINE w == Written(body)
           b == w \o t
<1>1. 3 \div 4 = 0 /\ 3 % 4 = 3 OBVIOUS
<1>2. w = <<0, 3>> \o body BY <1>1 DEF Written, Base
<1>3. 0 \in Nat /\ 3 \in Nat OBVIOUS
<1>4. /\ w \in Seq(Nat) /\ Len(w) = 5 /\ w[1] = 0 /\ w[2] = 3
      /\ \A i \in 1..3 : w[i + 2] = body[i]
  <2>1. LET u == <<0, 3>> \o body
        IN /\ u \in Seq(Nat) /\ Len(u) = Len(body) + 2 /\ u[1] = 0 /\ u[2] = 3
           /\ \A i \in 1..Len(body) : u[i + 2] = body[i]
    BY AheadOf, Zenon
  <2> HIDE DEF w
  <2>2. /\ w \in Seq(Nat) /\ Len(w) = Len(body) + 2 /\ w[1] = 0 /\ w[2] = 3
        /\ \A i \in 1..Len(body) : w[i + 2] = body[i]
    BY <1>2, <2>1, Zenon
  <2> QED BY <2>2
<1> HIDE DEF w
<1>5. w \o <<>> = w BY <1>4, ConcatEmptySeq
<1>6. /\ b \in Seq(Nat) /\ Len(b) = 5 + Len(t)
      /\ \A i \in 1..(5 + Len(t)) : b[i] = IF i <= 5 THEN w[i] ELSE t[i - 5]
  <2>1. /\ w \o t \in Seq(Nat) /\ Len(w \o t) = Len(w) + Len(t)
        /\ \A i \in 1..Len(w) + Len(t) : (w \o t)[i] =
              IF i <= Len(w) THEN w[i] ELSE t[i - Len(w)]
    BY <1>4, ConcatProperties
  <2> QED BY <1>4, <2>1
<1>7. Len(t) \in Nat OBVIOUS
<1> HIDE DEF b
<1>8. \A i \in 1..5 : b[i] = w[i] BY <1>6, <1>7
<1>9. \A i \in 1..Len(t) : b[5 + i] = t[i] BY <1>6, <1>7
<1>10. Length(b) = 3 BY <1>4, <1>8 DEF Length, Base
<1>11. /\ Message(b).is = "message" /\ Message(b).body = SubSeq(b, 3, 5)
       /\ Message(b).rest = SubSeq(b, 6, Len(b))
  <2>1. Len(b) >= 2 /\ Length(b) \in 1..5 /\ Len(b) >= 2 + Length(b) BY <1>6, <1>7, <1>10
  <2>2. 2 + Length(b) = 5 /\ 2 + Length(b) + 1 = 6 BY <1>10
  <2> QED BY <1>6, <2>1, <2>2, MessageOf
<1>12. \A i \in 1..Len(b) : b[i] \in Nat BY <1>6, ElementOfSeq
<1>13. SubSeq(b, 3, 5) = body
  <2> DEFINE x == SubSeq(b, 3, 5)
  <2>1. \A i \in 3..5 : b[i] \in Nat BY <1>6, <1>7, <1>12
  <2>2. x \in Seq(Nat) /\ Len(x) = 3 /\ \A i \in 1..3 : x[i] = b[3 + i - 1]
    BY <2>1, SubSeqProperties
  <2> HIDE DEF x
  <2>3. \A i \in 1..3 : 3 + i - 1 \in 1..5 /\ 3 + i - 1 = i + 2 OBVIOUS
  <2>4. \A i \in 1..3 : x[i] = body[i] BY <1>4, <1>8, <2>2, <2>3
  <2>5. x = body BY <2>2, <2>4, SeqEqual
  <2> QED BY <2>5 DEF x
<1>14. SubSeq(b, 6, Len(b)) = t
  <2> DEFINE l == Len(b)
             y == SubSeq(b, 6, l)
  <2>1. l \in Int /\ \A i \in 6..l : b[i] \in Nat BY <1>6, <1>7, <1>12
  <2>2. /\ y \in Seq(Nat) /\ Len(y) = (IF 6 <= l THEN l - 6 + 1 ELSE 0)
        /\ \A i \in 1..(l - 6 + 1) : y[i] = b[6 + i - 1]
    BY <2>1, SubSeqProperties
  <2>3. l = 5 + Len(t) BY <1>6
  <2> HIDE DEF y, l
  <2>4. Len(y) = Len(t) /\ l - 6 + 1 = Len(t) BY <1>7, <2>2, <2>3
  <2>5. \A i \in 1..Len(t) : 6 + i - 1 = 5 + i BY <1>7
  <2>6. \A i \in 1..Len(t) : y[i] = t[i] BY <1>9, <2>2, <2>4, <2>5
  <2>7. y = t BY <2>2, <2>4, <2>6, SeqEqual
  <2> QED BY <2>7 DEF y, l
<1> QED BY <1>4, <1>5, <1>11, <1>13, <1>14 DEF w, b

\* What the other strangers say is a handshake, and a frame that follows it is
\* not sealed with the sender's password.
LEMMA Speaking ==
  ASSUME NEW k \in Speakers
  PROVE  LET m == Message(StrayBytes(k))
         IN /\ Handshaken(StrayBytes(k))
            /\ m.body[3] = IF k = "garbled" THEN NoKey ELSE 30
            /\ Message(m.rest).is = "message" => Message(m.rest).body[2] = 33
<1> DEFINE hello == <<Magic, Version, IF k = "garbled" THEN NoKey ELSE 30>>
           frame == <<0, 33, 30>>
           t == IF k = "seals" THEN Written(frame) ELSE <<>>
           m == Message(StrayBytes(k))
<1>1. /\ hello \in Seq(Nat) /\ Len(hello) = 3 /\ hello[1] = Magic /\ hello[2] = Version
      /\ hello[3] = IF k = "garbled" THEN NoKey ELSE 30
  BY DEF Magic, Version, NoKey
<1>2. frame \in Seq(Nat) /\ Len(frame) = 3 /\ frame[2] = 33 OBVIOUS
<1>3. k = "garbled" => hello = <<Magic, Version, NoKey>> OBVIOUS
<1>4. k # "garbled" => hello = StrayHello BY DEF StrayHello
<1>5. <<>> \in Seq(Nat) OBVIOUS
<1> HIDE DEF hello, frame
<1>6. Written(frame) \in Seq(Nat) /\ Written(frame) \o <<>> = Written(frame)
  BY <1>2, <1>5, ReadsFirst
<1>7. Written(hello) \o <<>> = Written(hello) BY <1>1, <1>5, ReadsFirst
<1>8. StrayBytes(k) = Written(hello) \o t
  <2>1. CASE k = "garbled" BY <1>3, <1>7, <2>1 DEF StrayBytes
  <2>2. CASE k \in {"speaks", "leaves"} BY <1>4, <1>7, <2>2 DEF StrayBytes
  <2>3. CASE k = "seals" BY <1>4, <2>3 DEF StrayBytes, frame
  <2> QED BY <2>1, <2>2, <2>3 DEF Speakers
<1>9. t \in Seq(Nat) BY <1>5, <1>6
<1> HIDE DEF t
<1>10. m.is = "message" /\ m.body = hello /\ m.rest = t BY <1>1, <1>8, <1>9, ReadsFirst
<1>11. Handshaken(StrayBytes(k)) BY <1>1, <1>10 DEF Handshaken, ParseHandshake
<1>12. Message(t).is = "message" => Message(t).body[2] = 33
  <2>1. CASE k = "seals"
    <3>1. t = Written(frame) \o <<>> BY <1>6, <2>1 DEF t
    <3> QED BY <1>2, <1>5, <3>1, ReadsFirst
  <2>2. CASE k # "seals"
    <3>1. t = <<>> BY <2>2 DEF t
    <3>2. Len(t) < 2 BY <3>1
    <3> QED BY <1>9, <3>2, MessageOf
  <2> QED BY <2>1, <2>2
<1> QED BY <1>1, <1>10, <1>11, <1>12

-----------------------------------------------------------------------------
(* What an end meets on its stream.                                        *)

LEMMA Counts ==
  ASSUME TypeOK, NEW e \in Ends
  PROVE  /\ Other(e) \in Ends /\ arrived[e] \in Seq(Nat) /\ flight[e] \in Seq(Nat)
         /\ pc[e] \in Places /\ index[e] \in Nat /\ got[e] \in Seq(Seq(Nat))
         /\ Len(got[e]) \in Nat /\ Heard(e) \in Nat /\ Sent(e) \in Nat
<1>1. /\ arrived[e] \in Seq(Nat) /\ flight[e] \in Seq(Nat) /\ pc[e] \in Places
      /\ index[e] \in Nat /\ got[e] \in Seq(Seq(Nat))
  BY DEF TypeOK
<1>2. Len(got[e]) \in Nat BY <1>1
<1>3. Heard(e) \in Nat BY <1>2 DEF Heard
<1>4. Sent(e) \in Nat BY <1>1 DEF Sent
<1> QED BY <1>1, <1>2, <1>3, <1>4, Others

LEMMA Hears ==
  ASSUME TypeOK, InTransit, NEW e \in Ends, pc[e] \notin Over
  PROVE  LET m == Message(arrived[e])
         IN /\ m.is \in {"short", "message"}
            /\ m.is = "short" /\ flight[e] = <<>> => Heard(e) = Sent(Other(e))
            /\ m.is = "message" =>
                 /\ Heard(e) < Sent(Other(e)) /\ m.body = Body(agree, Other(e), Heard(e))
                 /\ m.rest \in Seq(Nat)
                 /\ Window(agree, m.rest \o flight[e], Other(e), Heard(e) + 1, Sent(Other(e)))
<1> DEFINE o == Other(e)
           a == arrived[e]
           f == flight[e]
           c == Heard(e)
           n == Sent(o)
<1>1. /\ o \in Ends /\ a \in Seq(Nat) /\ f \in Seq(Nat) /\ c \in Nat /\ n \in Nat
      /\ agree \in BOOLEAN
  BY Counts DEF TypeOK
<1>2. Window(agree, a \o f, o, c, n) BY DEF InTransit, InTransitTo
<1> HIDE DEF o, a, f, c, n
<1>3. /\ Message(a).is \in {"short", "message"}
      /\ Message(a).is = "short" /\ f = <<>> => c = n
      /\ Message(a).is = "message" =>
           /\ c < n /\ Message(a).body = Body(agree, o, c)
           /\ Message(a).rest \in Seq(Nat)
           /\ Window(agree, Message(a).rest \o f, o, c + 1, n)
  BY <1>1, <1>2, WindowRead
<1> QED BY <1>3 DEF o, a, f, c, n

LEMMA FirstBody ==
  ASSUME NEW g \in BOOLEAN, NEW o \in Ends
  PROVE  ParseHandshake(Body(g, o, 0)) /\ Body(g, o, 0)[3] = Salt(o)
<1>1. Body(g, o, 0) = <<Magic, Version, Salt(o)>> BY DEF Body, Hello
<1> QED BY <1>1 DEF ParseHandshake

\* In the sender's slot the recipient is never rejected.
LEMMA TheRecipient ==
  ASSUME PortInv, pc["sender"] = "shaking", slot = Recipient
  PROVE  /\ ~HandshakeRejected(FromSlot, Eof("sender"))
         /\ Message(arrived["sender"]).is = "message" =>
              Handshaken(FromSlot) /\ DerivesKey(Message(FromSlot).body[3])
<1> DEFINE m == Message(arrived["sender"])
<1>1. "sender" \in Ends /\ "recipient" \in Ends /\ pc["sender"] \notin Over
  BY DEF Ends, Over
<1>2. Recipient \in opened
  BY DataPortAssumption DEF PortInv, Queued
<1>3. Heard("sender") = 0 /\ Sent("recipient") = 1 + index["recipient"]
  BY <1>2 DEF Heard, Sent, Greeted
<1>4. index["recipient"] \in Nat /\ agree \in BOOLEAN BY <1>1 DEF PortInv, TypeOK
<1>5. /\ m.is \in {"short", "message"}
      /\ m.is = "short" /\ flight["sender"] = <<>> => Heard("sender") = Sent("recipient")
      /\ m.is = "message" => m.body = Body(agree, "recipient", Heard("sender"))
  BY <1>1, Hears, Others DEF PortInv
<1>6. m.is = "message" => ParseHandshake(m.body) BY <1>1, <1>3, <1>4, <1>5, FirstBody
<1>a. ~Foreign("sender") BY DataPortAssumption DEF Foreign
<1>7. m.is = "short" => ~Eof("sender") BY <1>a, <1>3, <1>4, <1>5 DEF Eof
<1>8. FromSlot = arrived["sender"] BY <1>a DEF FromSlot, Incoming
<1>9. ~HandshakeRejected(arrived["sender"], Eof("sender"))
  BY <1>5, <1>6, <1>7 DEF HandshakeRejected
<1>10. m.is = "message" => Handshaken(arrived["sender"]) BY <1>6 DEF Handshaken
<1>11. m.is = "message" => DerivesKey(m.body[3])
  <2>1. m.is = "message" => m.body[3] = 20
    BY <1>1, <1>3, <1>4, <1>5, FirstBody DEF Salt
  <2> QED BY <2>1 DEF DerivesKey, NoKey
<1> QED BY <1>8, <1>9, <1>10, <1>11

\* A stranger in the slot is rejected, says nothing and stays, or has said a
\* hello.
LEMMA TheStranger ==
  ASSUME PortInv, pc["sender"] = "shaking", slot # Recipient
  PROVE  /\ slot \in Strays
         /\ \/ ~Handshaken(FromSlot) /\ kind[slot] = "silent"
            \/ ~Handshaken(FromSlot) /\ HandshakeRejected(FromSlot, Eof("sender"))
            \/ /\ Handshaken(FromSlot) /\ kind[slot] = "garbled"
               /\ Message(FromSlot).body[3] = NoKey
            \/ Handshaken(FromSlot) /\ Message(FromSlot).body[3] = 30
         /\ Handshaken(FromSlot) => kind[slot] \in Speakers
<1> DEFINE k == kind[slot]
<1>1. slot \in Strays BY DEF PortInv, TypeOK, Queued, Conns
<1>2. k \in Noisy \/ k \in Speakers
  BY <1>1, DataPortAssumption DEF PortInv, TypeOK, Noisy, Speakers
<1>3. Foreign("sender") BY <1>1 DEF Foreign
<1>4. FromSlot = StrayBytes(k) BY <1>3 DEF FromSlot, Incoming
<1>5. CASE k \in Noisy
  <2>1. k # "silent" => Eof("sender") = TRUE BY <1>3, <1>5 DEF Eof, PeerClosed, Noisy
  <2>2. ~Handshaken(FromSlot) BY <1>4, <1>5, Noise
  <2>3. k = "silent" \/ HandshakeRejected(FromSlot, TRUE) BY <1>4, <1>5, Noise
  <2> QED BY <1>1, <2>1, <2>2, <2>3
<1>6. CASE k \in Speakers BY <1>1, <1>4, <1>6, Speaking
<1> QED BY <1>2, <1>5, <1>6

-----------------------------------------------------------------------------
(* The steps.                                                              *)

LEMMA Becomes ==
  ASSUME TypeOK, NEW e \in Ends, NEW w \in Places, Become(e, w)
  PROVE  pc' \in [Ends -> Places] /\ pc'[e] = w /\ \A x \in Ends : x # e => pc'[x] = pc[x]
BY DEF TypeOK, Become

LEMMA Writes ==
  ASSUME TypeOK, NEW e \in Ends, NEW body, Written(body) \in Seq(Nat), Write(e, body)
  PROVE  /\ flight' \in [Ends -> Seq(Nat)]
         /\ flight'[Other(e)] = flight[Other(e)] \o Written(body)
         /\ flight'[e] = flight[e]
<1> DEFINE o == Other(e)
<1>1. o \in Ends /\ o # e BY Others
<1>2. flight \in [Ends -> Seq(Nat)] BY DEF TypeOK
<1>3. flight[o] \in Seq(Nat) BY <1>1, <1>2
<1>4. flight[o] \o Written(body) \in Seq(Nat) BY <1>3, ConcatProperties
<1>5. flight' = [flight EXCEPT ![o] = flight[o] \o Written(body)] BY DEF Write
<1> HIDE DEF o
<1>6. /\ flight' \in [Ends -> Seq(Nat)] /\ flight'[o] = flight[o] \o Written(body)
      /\ flight'[e] = flight[e]
  BY <1>1, <1>2, <1>4, <1>5
<1> QED BY <1>6 DEF o

\* An end whose place, counts and bytes stay as they are.
LEMMA StreamStays ==
  ASSUME InTransit, NEW e \in Ends, agree' = agree, pc'[e] = pc[e], got'[e] = got[e],
         arrived'[e] \o flight'[e] = arrived[e] \o flight[e],
         Sent(Other(e))' = Sent(Other(e)), slot' = slot \/ e = "recipient"
  PROVE  InTransitTo(e)'
<1>1. InTransitTo(e) BY DEF InTransit
<1>2. Heard(e)' = Heard(e) BY DEF Heard, Foreign
<1> QED BY <1>1, <1>2 DEF InTransitTo

\* An end that has the recipient's connection, and one that does not.
LEMMA WhoseWire ==
  ASSUME TypeOK, Queued, NEW e \in Ends, pc[e] = "wired"
  PROVE  IF Foreign(e) THEN e = "sender" /\ slot \in Strays /\ slot # Recipient
         ELSE Greeted(e) /\ (e = "sender" => slot = Recipient)
<1>1. e = "sender" \/ e = "recipient" BY DEF Ends
<1>2. CASE e = "recipient" BY <1>2 DEF Foreign, Greeted, Queued
<1>3. CASE e = "sender"
  <2>1. slot \in Strays \cup {Recipient} BY <1>3 DEF TypeOK, Queued, Conns
  <2> QED BY <1>3, <2>1, DataPortAssumption DEF Foreign, Greeted
<1> QED BY <1>1, <1>2, <1>3

LEMMA ForeignStays ==
  ASSUME NEW e \in Ends, slot' = slot
  PROVE  Foreign(e)' = Foreign(e) /\ PeerSalt(e)' = PeerSalt(e)
<1>1. Foreign(e)' = Foreign(e) BY DEF Foreign
<1> QED BY <1>1 DEF PeerSalt

LEMMA InitHolds == ASSUME Init PROVE PortInv
<1>1. TypeOK
  <2>1. <<>> \in Seq(Conns) /\ <<>> \in Seq(Nat) /\ <<>> \in Seq(Seq(Nat)) OBVIOUS
  <2>2. /\ agree \in BOOLEAN /\ kind \in [Strays -> StrayKinds] /\ pc \in [Ends -> Places]
        /\ opened \subseteq Conns /\ slot \in Conns \cup {None} /\ backlog \in Seq(Conns)
    BY <2>1 DEF Init, Places
  <2>3. flight \in [Ends -> Seq(Nat)] /\ arrived \in [Ends -> Seq(Nat)] BY <2>1 DEF Init
  <2>4. salt \in [Ends -> Nat] /\ index \in [Ends -> Nat] BY DEF Init
  <2>5. got \in [Ends -> Seq(Seq(Nat))] BY <2>1 DEF Init
  <2> QED BY <2>2, <2>3, <2>4, <2>5 DEF TypeOK
<1>2. /\ opened = {} /\ backlog = <<>> /\ slot = None /\ slot # Recipient
      /\ pc["sender"] = "listening" /\ pc["recipient"] = "connecting"
      /\ \A e \in Ends : /\ pc[e] \notin Over \cup {"wired"} /\ arrived[e] = <<>>
                          /\ flight[e] = <<>> /\ index[e] = 0 /\ got[e] = <<>>
  BY DataPortAssumption DEF Init, Ends, Over
<1>3. \A e \in Ends : Sent(e) = 0 /\ Heard(e) = 0 BY <1>2 DEF Sent, Greeted, Heard
<1>4. ASSUME NEW e \in Ends PROVE InTransitTo(e)
  <2>1. Other(e) \in Ends /\ Sent(Other(e)) = 0 /\ Heard(e) = 0 BY <1>3, Others
  <2>2. arrived[e] \o flight[e] = <<>>
    <3>1. <<>> \in Seq(Nat) OBVIOUS
    <3>2. <<>> \o <<>> = <<>> BY <3>1, ConcatEmptySeq
    <3> QED BY <1>2, <3>2
  <2>3. Window(agree, <<>>, Other(e), 0, 0)
    BY <1>1, <2>1, NothingUnderWay DEF TypeOK
  <2> QED BY <2>1, <2>2, <2>3 DEF InTransitTo
<1>5. Introduced BY <1>2 DEF Introduced, IntroducedAt
<1>6. Queued
  <2>1. Len(backlog) = 0 BY <1>2
  <2> QED BY <1>2, <2>1 DEF Queued
<1>7. FramesArriveWhole
  <2>1. \A e \in Ends : Len(got[e]) = 0 /\ index[Other(e)] = 0 BY <1>2, Others
  <2>2. \A e \in Ends : Len(got[e]) <= index[Other(e)] BY <2>1
  <2>3. \A e \in Ends : 1..Len(got[e]) = {} BY <2>1
  <2>4. got["sender"] = <<>> BY <1>2 DEF Ends
  <2> QED BY <1>2, <2>2, <2>3, <2>4 DEF FramesArriveWhole
<1> QED BY <1>1, <1>4, <1>5, <1>6, <1>7 DEF PortInv, InTransit

\* An end gives up or is done: nothing else of it changes, but that the
\* listener goes with the sender.
LEMMA Leaves ==
  ASSUME PortInv, NEW e \in Ends, NEW w \in Over, Become(e, w),
         UNCHANGED <<agree, kind, opened, slot, stream, salt, index, got>>,
         backlog' = backlog \/ (e = "sender" /\ backlog' = <<>>)
  PROVE  PortInv'
<1>1. TypeOK /\ InTransit /\ Introduced /\ Queued /\ FramesArriveWhole BY DEF PortInv
<1>2. w \in Places BY DEF Places
<1>3. pc' \in [Ends -> Places] /\ pc'[e] = w /\ \A x \in Ends : x # e => pc'[x] = pc[x]
  BY <1>1, <1>2, Becomes
<1>4. /\ agree' = agree /\ kind' = kind /\ opened' = opened /\ slot' = slot
      /\ flight' = flight /\ arrived' = arrived /\ salt' = salt /\ index' = index
      /\ got' = got
  BY DEF stream
<1>5. w \notin {"listening", "connecting", "shaking", "wired"} BY DEF Over
<1>6. "sender" \in Ends /\ "recipient" \in Ends BY DEF Ends
<1>7. TypeOK'
  <2>1. <<>> \in Seq(Conns) OBVIOUS
  <2>2. backlog' \in Seq(Conns) BY <1>1, <2>1 DEF TypeOK
  <2> QED BY <1>1, <1>3, <1>4, <2>2 DEF TypeOK
<1>8. ASSUME NEW x \in Ends PROVE InTransitTo(x)'
  <2>1. CASE x = e BY <1>3, <2>1 DEF InTransitTo
  <2>2. CASE x # e
    <3>1. Sent(Other(x))' = Sent(Other(x)) BY <1>4 DEF Sent, Greeted
    <3> QED BY <1>1, <1>3, <1>4, <2>2, <3>1, StreamStays
  <2> QED BY <2>1, <2>2
<1>9. Introduced' BY <1>1, <1>3, <1>4, <1>5, ForeignStays DEF Introduced, IntroducedAt
<1>10. Queued'
  <2>1. CASE backlog' = backlog
    BY <1>1, <1>3, <1>4, <1>5, <1>6, <2>1 DEF Queued
  <2>2. CASE e = "sender" /\ backlog' = <<>>
    <3>1. Len(backlog') = 0 BY <2>2
    <3> QED BY <1>1, <1>3, <1>4, <1>5, <1>6, <2>2, <3>1 DEF Queued
  <2> QED BY <2>1, <2>2
<1>11. FramesArriveWhole' BY <1>1, <1>3, <1>4, <1>5, <1>6 DEF FramesArriveWhole
<1> QED BY <1>7, <1>8, <1>9, <1>10, <1>11 DEF PortInv, InTransit

\* A connection is appended to the backlog.
LEMMA Enqueued ==
  ASSUME TypeOK, Queued, NEW c \in Conns,
         opened' = opened \cup {c}, backlog' = Append(backlog, c)
  PROVE  /\ opened' \subseteq Conns /\ backlog' \in Seq(Conns)
         /\ \A i \in 1..Len(backlog') : backlog'[i] \in opened'
         /\ \E i \in 1..Len(backlog') : backlog'[i] = c
         /\ (\E i \in 1..Len(backlog) : backlog[i] = Recipient) =>
              \E i \in 1..Len(backlog') : backlog'[i] = Recipient
<1>1. backlog \in Seq(Conns) /\ Len(backlog) \in Nat BY DEF TypeOK
<1>2. /\ backlog' \in Seq(Conns) /\ Len(backlog') = Len(backlog) + 1
      /\ backlog'[Len(backlog) + 1] = c
      /\ \A i \in 1..Len(backlog) : backlog'[i] = backlog[i]
  BY <1>1
<1>3. \A i \in 1..Len(backlog) : backlog[i] \in opened BY DEF Queued
<1>4. \A i \in 1..Len(backlog') : i \in 1..Len(backlog) \/ i = Len(backlog) + 1
  BY <1>1, <1>2
<1>5. \A i \in 1..Len(backlog) : i \in 1..Len(backlog') BY <1>1, <1>2
<1>6. Len(backlog) + 1 \in 1..Len(backlog') BY <1>1, <1>2
<1>7. opened' \subseteq Conns BY DEF TypeOK
<1>8. \A i \in 1..Len(backlog') : backlog'[i] \in opened' BY <1>2, <1>3, <1>4
<1> QED BY <1>2, <1>5, <1>6, <1>7, <1>8

LEMMA StrayConnectsKeeps ==
  ASSUME PortInv, NEW c \in Strays, StrayConnects(c)
  PROVE  PortInv'
<1>1. TypeOK /\ InTransit /\ Introduced /\ Queued /\ FramesArriveWhole BY DEF PortInv
<1>2. /\ agree' = agree /\ kind' = kind /\ pc' = pc /\ slot' = slot
      /\ flight' = flight /\ arrived' = arrived /\ salt' = salt /\ index' = index
      /\ got' = got /\ opened' = opened \cup {c} /\ backlog' = Append(backlog, c)
  BY DEF StrayConnects, stream
<1>3. c \in Conns /\ c # Recipient BY DataPortAssumption DEF Conns
<1>4. Recipient \in opened' <=> Recipient \in opened BY <1>2, <1>3
<1>5. /\ opened' \subseteq Conns /\ backlog' \in Seq(Conns)
      /\ \A i \in 1..Len(backlog') : backlog'[i] \in opened'
      /\ (\E i \in 1..Len(backlog) : backlog[i] = Recipient) =>
           \E i \in 1..Len(backlog') : backlog'[i] = Recipient
  BY <1>1, <1>2, <1>3, Enqueued
<1>6. TypeOK' BY <1>1, <1>2, <1>5 DEF TypeOK
<1>7. ASSUME NEW x \in Ends PROVE InTransitTo(x)'
  <2>1. Sent(Other(x))' = Sent(Other(x)) BY <1>2, <1>4 DEF Sent, Greeted
  <2> QED BY <1>1, <1>2, <2>1, StreamStays
<1>8. Introduced' BY <1>1, <1>2, ForeignStays DEF Introduced, IntroducedAt
<1>9. Queued' BY <1>1, <1>2, <1>4, <1>5 DEF Queued
<1>10. FramesArriveWhole' BY <1>1, <1>2 DEF FramesArriveWhole
<1> QED BY <1>6, <1>7, <1>8, <1>9, <1>10 DEF PortInv, InTransit

\* Its metadata is the first message on the stream to the peer.
LEMMA Greets ==
  ASSUME TypeOK, InTransit, NEW e \in Ends, Write(e, Hello(e)), agree' = agree,
         ~Greeted(e), index[e] = 0, index' = index, Greeted(e)',
         arrived' = arrived, got' = got, pc'[Other(e)] = pc[Other(e)],
         slot' = slot \/ e = "sender"
  PROVE  /\ flight' \in [Ends -> Seq(Nat)] /\ flight'[e] = flight[e]
         /\ InTransitTo(Other(e))'
<1> DEFINE o == Other(e)
           u == Written(Body(agree, e, 0))
<1>1. o \in Ends /\ o # e /\ Other(o) = e BY Others
<1>2. agree \in BOOLEAN /\ arrived[o] \in Seq(Nat) /\ flight[o] \in Seq(Nat)
      /\ Heard(o) \in Nat
  BY <1>1, Counts DEF TypeOK
<1>3. Hello(e) = Body(agree, e, 0) BY DEF Body
<1>4. u \in Seq(Nat) BY <1>2, Units
<1>5. /\ flight' \in [Ends -> Seq(Nat)] /\ flight'[e] = flight[e]
      /\ flight'[o] = flight[o] \o u
  BY <1>3, <1>4, Writes
<1>6. Sent(e) = 0 /\ Sent(e)' = 0 + 1 BY DEF Sent
<1>7. Heard(o)' = Heard(o) BY <1>1, Others DEF Heard, Foreign
<1>8. CASE pc[o] \in Over BY <1>5, <1>8 DEF InTransitTo
<1>9. CASE pc[o] \notin Over
  <2>1. Window(agree, arrived[o] \o flight[o], e, Heard(o), 0)
    BY <1>1, <1>6, <1>9 DEF InTransit, InTransitTo
  <2>2. 0 \in Nat OBVIOUS
  <2> HIDE DEF o
  <2>3. Window(agree, arrived[o] \o (flight[o] \o u), e, Heard(o), 0 + 1)
    BY <1>2, <2>1, <2>2, WindowWritten
  <2>4. InTransitTo(o)' BY <1>1, <1>5, <1>6, <1>7, <2>3 DEF InTransitTo
  <2> QED BY <1>5, <2>4 DEF o
<1> QED BY <1>8, <1>9

LEMMA ConnectKeeps == ASSUME PortInv, Connect PROVE PortInv'
<1> DEFINE e == "recipient"
<1>1. TypeOK /\ InTransit /\ Introduced /\ Queued /\ FramesArriveWhole BY DEF PortInv
<1>2. /\ agree' = agree /\ kind' = kind /\ slot' = slot /\ arrived' = arrived
      /\ salt' = salt /\ index' = index /\ got' = got
      /\ opened' = opened \cup {Recipient} /\ backlog' = Append(backlog, Recipient)
      /\ pc[e] = "connecting" /\ Become(e, "shaking") /\ Write(e, Hello(e))
  BY DEF Connect, Runs
<1>3. e \in Ends /\ "sender" \in Ends /\ "shaking" \in Places /\ Recipient \in Conns
  BY DEF Ends, Places, Conns
<1>4. pc' \in [Ends -> Places] /\ pc'[e] = "shaking" /\ \A x \in Ends : x # e => pc'[x] = pc[x]
  BY <1>1, <1>2, <1>3, Becomes
<1>5. pc[e] \notin Over \cup {"wired"} BY <1>2 DEF Over
<1>6. index[e] = 0 /\ got[e] = <<>> BY <1>1, <1>3, <1>5 DEF Introduced, IntroducedAt
<1>7. Recipient \notin opened BY <1>1, <1>2 DEF Queued
<1>8. ~Greeted(e) /\ Greeted(e)' BY <1>2, <1>7 DEF Greeted
<1>9. Other(e) = "sender" /\ Other("sender") = e BY Others
<1>10. /\ flight' \in [Ends -> Seq(Nat)] /\ flight'[e] = flight[e]
       /\ InTransitTo("sender")'
  <2>1. pc'[Other(e)] = pc[Other(e)] BY <1>3, <1>4, <1>9
  <2> QED BY <1>1, <1>2, <1>3, <1>6, <1>8, <1>9, <2>1, Greets
<1>11. /\ opened' \subseteq Conns /\ backlog' \in Seq(Conns)
       /\ \A i \in 1..Len(backlog') : backlog'[i] \in opened'
       /\ \E i \in 1..Len(backlog') : backlog'[i] = Recipient
  BY <1>1, <1>2, <1>3, Enqueued
<1>12. TypeOK' BY <1>1, <1>2, <1>4, <1>10, <1>11 DEF TypeOK
<1>13. InTransitTo(e)'
  <2>1. Sent("sender")' = Sent("sender") BY <1>2 DEF Sent, Greeted
  <2>2. pc[e] \notin Over /\ Heard(e)' = Heard(e) BY <1>2, <1>4 DEF Heard, Over
  <2>3. InTransitTo(e) BY <1>1, <1>3 DEF InTransit
  <2> QED BY <1>2, <1>9, <1>10, <2>1, <2>2, <2>3 DEF InTransitTo
<1>14. Introduced'
  BY <1>1, <1>2, <1>4, <1>6, ForeignStays DEF Introduced, IntroducedAt
<1>15. Queued'
  BY <1>1, <1>2, <1>3, <1>4, <1>11 DEF Queued
<1>16. FramesArriveWhole' BY <1>1, <1>2, <1>3, <1>4 DEF FramesArriveWhole
<1> QED BY <1>10, <1>12, <1>13, <1>14, <1>15, <1>16 DEF PortInv, InTransit, Ends

LEMMA AcceptKeeps == ASSUME PortInv, Accept PROVE PortInv'
<1> DEFINE e == "sender"
<1>1. TypeOK /\ InTransit /\ Introduced /\ Queued /\ FramesArriveWhole BY DEF PortInv
<1>2. /\ agree' = agree /\ kind' = kind /\ opened' = opened /\ arrived' = arrived
      /\ salt' = salt /\ index' = index /\ got' = got
      /\ backlog # <<>> /\ slot' = Head(backlog) /\ backlog' = Tail(backlog)
      /\ pc[e] = "listening" /\ Become(e, "shaking")
      /\ IF slot' = Recipient THEN Write(e, Hello(e)) ELSE flight' = flight
  BY DEF Accept, Runs
<1>3. e \in Ends /\ "recipient" \in Ends /\ "shaking" \in Places /\ Recipient \in Conns
  BY DEF Ends, Places, Conns
<1>4. pc' \in [Ends -> Places] /\ pc'[e] = "shaking" /\ \A x \in Ends : x # e => pc'[x] = pc[x]
  BY <1>1, <1>2, <1>3, Becomes
<1>5. pc[e] \notin Over \cup {"wired"} BY <1>2 DEF Over
<1>6. index[e] = 0 /\ got[e] = <<>> BY <1>1, <1>3, <1>5 DEF Introduced, IntroducedAt
<1>7. slot # Recipient BY <1>1, <1>2 DEF Queued
<1>8. Other(e) = "recipient" /\ Other("recipient") = e BY Others
<1>9. /\ backlog' \in Seq(Conns) /\ slot' \in Conns /\ slot' \in opened
      /\ \A i \in 1..Len(backlog') : backlog'[i] \in opened
      /\ (\E i \in 1..Len(backlog) : backlog[i] = Recipient) =>
           slot' = Recipient \/ \E i \in 1..Len(backlog') : backlog'[i] = Recipient
  <2>1. backlog \in Seq(Conns) /\ backlog # <<>> /\ Len(backlog) \in Nat \ {0}
    BY <1>1, <1>2 DEF TypeOK
  <2>2. \A i \in 1..Len(backlog) : backlog[i] \in opened BY <1>1 DEF Queued
  <2>3. /\ backlog' \in Seq(Conns) /\ Len(backlog') = Len(backlog) - 1
        /\ \A i \in 1..Len(backlog') : backlog'[i] = backlog[i + 1]
    BY <1>2, <2>1
  <2>4. slot' = backlog[1] /\ slot' \in Conns BY <1>2, <2>1
  <2>5. slot' \in opened BY <2>1, <2>2, <2>4
  <2>6. \A i \in 1..Len(backlog') : i + 1 \in 1..Len(backlog) BY <2>1, <2>3
  <2>7. \A i \in 1..Len(backlog') : backlog'[i] \in opened BY <2>2, <2>3, <2>6
  <2>8. ASSUME NEW i \in 1..Len(backlog), backlog[i] = Recipient, slot' # Recipient
        PROVE  \E j \in 1..Len(backlog') : backlog'[j] = Recipient
    <3>1. i # 1 BY <2>4, <2>8
    <3>2. i - 1 \in 1..Len(backlog') /\ (i - 1) + 1 = i BY <2>1, <2>3, <2>8, <3>1
    <3>3. backlog'[i - 1] = Recipient BY <2>3, <2>8, <3>2
    <3> QED BY <3>2, <3>3
  <2> QED BY <2>3, <2>4, <2>5, <2>7, <2>8
<1>10. slot' # None /\ slot' \in Conns \cup {None}
  BY <1>9, DataPortAssumption DEF Conns
<1>11. flight' \in [Ends -> Seq(Nat)] /\ flight'[e] = flight[e] /\ InTransitTo("recipient")'
  <2>1. CASE slot' = Recipient
    <3>1. Write(e, Hello(e)) BY <1>2, <2>1
    <3>2. ~Greeted(e) /\ Greeted(e)' BY <1>7, <2>1 DEF Greeted
    <3>3. pc'[Other(e)] = pc[Other(e)] BY <1>3, <1>4, <1>8
    <3> QED BY <1>1, <1>2, <1>3, <1>6, <1>8, <3>1, <3>2, <3>3, Greets
  <2>2. CASE slot' # Recipient
    <3>1. flight' = flight BY <1>2, <2>2
    <3>2. Sent(e)' = Sent(e) BY <1>7, <2>2 DEF Sent, Greeted
    <3>3. InTransitTo("recipient")'
      BY <1>1, <1>2, <1>3, <1>4, <1>8, <3>1, <3>2, StreamStays
    <3> QED BY <1>1, <3>1, <3>3 DEF TypeOK
  <2> QED BY <2>1, <2>2
<1>12. TypeOK' BY <1>1, <1>2, <1>4, <1>9, <1>10, <1>11 DEF TypeOK
<1>13. InTransitTo(e)'
  <2>1. Sent("recipient")' = Sent("recipient") BY <1>2 DEF Sent, Greeted
  <2>2. pc[e] \notin Over /\ Heard(e)' = Heard(e) BY <1>2, <1>4 DEF Heard, Over
  <2>3. InTransitTo(e) BY <1>1, <1>3 DEF InTransit
  <2> QED BY <1>2, <1>8, <1>11, <2>1, <2>2, <2>3 DEF InTransitTo
<1>14. Introduced'
  BY <1>1, <1>2, <1>4, <1>6 DEF Introduced, IntroducedAt, PeerSalt, Foreign
<1>15. Queued'
  BY <1>1, <1>2, <1>3, <1>4, <1>5, <1>7, <1>9, <1>10 DEF Queued
<1>16. FramesArriveWhole' BY <1>1, <1>2, <1>3, <1>4, <1>6 DEF FramesArriveWhole
<1> QED BY <1>11, <1>12, <1>13, <1>14, <1>15, <1>16 DEF PortInv, InTransit, Ends

\* A stranger is ignored, or a recipient that has given up.
LEMMA IgnoreKeeps == ASSUME PortInv, Ignore PROVE PortInv'
<1>1. TypeOK /\ InTransit /\ Introduced /\ Queued /\ FramesArriveWhole BY DEF PortInv
<1>2. /\ agree' = agree /\ kind' = kind /\ opened' = opened /\ backlog' = backlog
      /\ arrived' = arrived /\ flight' = flight /\ salt' = salt /\ index' = index
      /\ got' = got /\ slot' = None
      /\ pc["sender"] = "shaking" /\ Become("sender", "listening")
      /\ HandshakeRejected(FromSlot, Eof("sender")) \/ (slot = Recipient /\ PeerClosed("sender"))
  BY DEF Ignore, Runs, AfterNoise, stream
<1>3. "sender" \in Ends /\ "recipient" \in Ends /\ "listening" \in Places
  BY DEF Ends, Places
<1>4. /\ pc' \in [Ends -> Places] /\ pc'["sender"] = "listening"
      /\ \A x \in Ends : x # "sender" => pc'[x] = pc[x]
  BY <1>1, <1>2, <1>3, Becomes
<1>5. slot # Recipient \/ pc["recipient"] \in Over
  <2>1. CASE HandshakeRejected(FromSlot, Eof("sender")) BY <1>2, <2>1, TheRecipient
  <2>2. CASE slot = Recipient /\ PeerClosed("sender")
    <3>1. ~Foreign("sender") BY <2>2, DataPortAssumption DEF Foreign
    <3> QED BY <1>3, <2>2, <3>1, Others DEF PeerClosed
  <2> QED BY <1>2, <2>1, <2>2
<1>6. None # Recipient BY DataPortAssumption
<1>7. pc["sender"] \notin Over \cup {"wired"} BY <1>2 DEF Over
<1>8. index["sender"] = 0 /\ got["sender"] = <<>>
  BY <1>1, <1>3, <1>7 DEF Introduced, IntroducedAt
<1>9. TypeOK' BY <1>1, <1>2, <1>4 DEF TypeOK
<1>10. ASSUME NEW x \in Ends PROVE InTransitTo(x)'
  <2>1. Sent(Other(x))' = Sent(Other(x)) \/ (x = "recipient" /\ pc'[x] \in Over)
    <3>1. x = "sender" \/ x = "recipient" BY <1>10 DEF Ends
    <3>2. CASE x = "sender" BY <1>2, <3>2, Others DEF Sent, Greeted
    <3>3. CASE x = "recipient" BY <1>2, <1>3, <1>4, <1>5, <1>6, <3>3, Others DEF Sent, Greeted
    <3> QED BY <3>1, <3>2, <3>3
  <2>2. InTransitTo(x) BY <1>1 DEF InTransit
  <2>3. Heard(x)' = Heard(x) BY <1>2, <1>4 DEF Heard, Foreign
  <2>4. pc'[x] \notin Over => pc[x] \notin Over BY <1>4, <1>7
  <2> QED BY <1>2, <2>1, <2>2, <2>3, <2>4 DEF InTransitTo
<1>11. Introduced'
  BY <1>1, <1>2, <1>4, <1>8 DEF Introduced, IntroducedAt, PeerSalt, Foreign
<1>12. Queued' BY <1>1, <1>2, <1>3, <1>4, <1>5, <1>6, <1>7 DEF Queued
<1>13. FramesArriveWhole' BY <1>1, <1>2, <1>3, <1>4, <1>8 DEF FramesArriveWhole
<1> QED BY <1>9, <1>10, <1>11, <1>12, <1>13 DEF PortInv, InTransit

\* An end takes the peer's metadata and has its wire.
LEMMA ShakenKeeps ==
  ASSUME PortInv, NEW e \in Ends, pc[e] = "shaking", Handshaken(arrived[e]),
         Become(e, "wired"), UNCHANGED <<agree, kind, opened, slot, flight, index, got>>,
         salt' = [salt EXCEPT ![e] = Message(arrived[e]).body[3]],
         arrived' = [arrived EXCEPT ![e] = ReadAhead(arrived[e])],
         IF e = "sender" THEN slot = Recipient /\ backlog' = <<>> ELSE backlog' = backlog
  PROVE  PortInv'
<1> DEFINE m == Message(arrived[e])
           o == Other(e)
<1>1. TypeOK /\ InTransit /\ Introduced /\ Queued /\ FramesArriveWhole BY DEF PortInv
<1>2. "wired" \in Places /\ "sender" \in Ends /\ "recipient" \in Ends
      /\ pc[e] \notin Over \cup {"wired"} /\ pc[e] \notin Over
  BY DEF Places, Ends, Over
<1>3. pc' \in [Ends -> Places] /\ pc'[e] = "wired" /\ \A x \in Ends : x # e => pc'[x] = pc[x]
  BY <1>1, <1>2, Becomes
<1>4. Heard(e) = 0 /\ index[e] = 0 /\ got[e] = <<>>
  BY <1>1, <1>2 DEF Heard, Introduced, IntroducedAt
<1>5. /\ m.body = Body(agree, o, 0) /\ m.rest \in Seq(Nat)
      /\ Window(agree, m.rest \o flight[e], o, 0 + 1, Sent(o))
  BY <1>1, <1>2, <1>4, Hears DEF Handshaken
<1>6. o \in Ends /\ agree \in BOOLEAN BY <1>1, Others DEF TypeOK
<1>7. m.body[3] = Salt(o) BY <1>5, <1>6, FirstBody
<1>8. /\ salt' \in [Ends -> Nat] /\ salt'[e] = Salt(o)
      /\ \A x \in Ends : x # e => salt'[x] = salt[x]
  <2>1. Salt(o) \in Nat BY DEF Salt
  <2> QED BY <1>1, <1>7, <2>1 DEF TypeOK
<1>9. /\ arrived' \in [Ends -> Seq(Nat)] /\ arrived'[e] = m.rest
      /\ \A x \in Ends : x # e => arrived'[x] = arrived[x]
  BY <1>1, <1>5 DEF TypeOK, ReadAhead
<1>10. TypeOK'
  <2>1. <<>> \in Seq(Conns) OBVIOUS
  <2>2. backlog' \in Seq(Conns) BY <1>1, <2>1 DEF TypeOK
  <2> QED BY <1>1, <1>3, <1>8, <1>9, <2>2 DEF TypeOK
<1>11. \A x \in Ends : Sent(x)' = Sent(x) BY DEF Sent, Greeted
<1>12. ASSUME NEW x \in Ends PROVE InTransitTo(x)'
  <2>0. Sent(Other(x))' = Sent(Other(x)) BY <1>11, Others
  <2>1. CASE x = e
    <3>1. Heard(e)' = 0 + 1
      <4>1. Len(got'[e]) = 0 BY <1>4
      <4>2. slot' = slot OBVIOUS
      <4>3. ~Foreign(e)' BY <4>2, DataPortAssumption DEF Foreign
      <4> QED BY <1>3, <4>1, <4>3 DEF Heard
    <3> QED BY <1>5, <1>9, <2>0, <2>1, <3>1 DEF InTransitTo
  <2>2. CASE x # e BY <1>1, <1>3, <1>9, <2>0, <2>2, StreamStays
  <2> QED BY <2>1, <2>2
<1>13. Introduced'
  <2>1. ~Foreign(e)' /\ ~Foreign(e)
    <3>1. slot' = slot OBVIOUS
    <3> QED BY <3>1, DataPortAssumption DEF Foreign
  <2>2. PeerSalt(e)' = Salt(o) BY <2>1 DEF PeerSalt
  <2> QED BY <1>1, <1>3, <1>8, <2>2, ForeignStays DEF Introduced, IntroducedAt
<1>14. Queued'
  <2>a. kind' = kind /\ slot' = slot /\ opened' = opened OBVIOUS
  <2>1. CASE e = "sender"
    <3>1. slot = Recipient /\ backlog' = <<>> BY <2>1
    <3>2. Len(backlog') = 0 BY <3>1
    <3>3. pc'["sender"] = "wired" /\ pc'["recipient"] = pc["recipient"]
      BY <1>2, <1>3, <2>1
    <3> QED BY <1>1, <2>a, <3>1, <3>2, <3>3, DataPortAssumption DEF Queued
  <2>2. CASE e # "sender"
    <3>1. e = "recipient" /\ backlog' = backlog BY <2>2 DEF Ends
    <3>2. pc'["sender"] = pc["sender"] /\ pc'["recipient"] = "wired"
          /\ pc["recipient"] = "shaking"
      BY <1>2, <1>3, <3>1
    <3> QED BY <1>1, <2>a, <3>1, <3>2 DEF Queued, Over
  <2> QED BY <2>1, <2>2
<1>15. FramesArriveWhole' BY <1>1 DEF FramesArriveWhole
<1> QED BY <1>10, <1>12, <1>13, <1>14, <1>15 DEF PortInv, InTransit

\* A stranger that has said a hello gets the sender's wire.
LEMMA StrangerKeeps ==
  ASSUME PortInv, slot # Recipient, pc["sender"] = "shaking", Become("sender", "wired"),
         UNCHANGED <<agree, kind, opened, slot, stream, index, got>>,
         Handshaken(FromSlot),
         backlog' = <<>>, salt' = [salt EXCEPT !["sender"] = 30]
  PROVE  PortInv'
<1> DEFINE e == "sender"
<1>1. TypeOK /\ InTransit /\ Introduced /\ Queued /\ FramesArriveWhole BY DEF PortInv
<1>2. /\ agree' = agree /\ kind' = kind /\ opened' = opened /\ slot' = slot
      /\ flight' = flight /\ arrived' = arrived /\ index' = index /\ got' = got
  BY DEF stream
<1>3. /\ "wired" \in Places /\ e \in Ends /\ "recipient" \in Ends
      /\ pc[e] \notin Over \cup {"wired"} /\ slot \in Strays /\ kind[slot] \in Speakers
  BY <1>1, TheStranger DEF Places, Ends, Over
<1>4. pc' \in [Ends -> Places] /\ pc'[e] = "wired" /\ \A x \in Ends : x # e => pc'[x] = pc[x]
  BY <1>1, <1>3, Becomes
<1>5. /\ salt' \in [Ends -> Nat] /\ salt'[e] = 30
      /\ \A x \in Ends : x # e => salt'[x] = salt[x]
  <2>1. 30 \in Nat OBVIOUS
  <2> QED BY <1>1, <1>3, <2>1 DEF TypeOK
<1>6. Foreign(e) /\ Foreign(e)' BY <1>2, <1>3 DEF Foreign
<1>7. Len(backlog') = 0 /\ backlog' \in Seq(Conns)
  <2>1. <<>> \in Seq(Conns) /\ Len(<<>>) = 0 OBVIOUS
  <2> QED BY <2>1
<1>8. TypeOK' BY <1>1, <1>2, <1>4, <1>5, <1>7 DEF TypeOK
<1>9. ASSUME NEW x \in Ends PROVE InTransitTo(x)'
  <2>1. Sent(Other(x))' = Sent(Other(x)) BY <1>2 DEF Sent, Greeted
  <2>2. CASE x = e
    <3>1. Heard(e) = 0 /\ Heard(e)' = 0 /\ pc[e] \notin Over BY <1>3, <1>6 DEF Heard
    <3>2. InTransitTo(e) BY <1>1, <1>3 DEF InTransit
    <3> QED BY <1>2, <2>1, <2>2, <3>1, <3>2 DEF InTransitTo
  <2>3. CASE x # e BY <1>1, <1>2, <1>4, <2>1, <2>3, StreamStays
  <2> QED BY <2>2, <2>3
<1>10. Introduced'
  <2>1. PeerSalt(e)' = 30 BY <1>6 DEF PeerSalt
  <2> QED BY <1>1, <1>2, <1>3, <1>4, <1>5, <2>1, ForeignStays DEF Introduced, IntroducedAt
<1>11. Queued'
  <2>1. slot # None BY <1>3, DataPortAssumption
  <2> QED BY <1>1, <1>2, <1>3, <1>4, <1>7, <2>1 DEF Queued
<1>12. FramesArriveWhole' BY <1>1, <1>2 DEF FramesArriveWhole
<1> QED BY <1>8, <1>9, <1>10, <1>11, <1>12 DEF PortInv, InTransit

LEMMA SenderHandshakesKeeps == ASSUME PortInv, SenderHandshakes PROVE PortInv'
<1>1. /\ pc["sender"] = "shaking" /\ Handshaken(FromSlot)
      /\ DerivesKey(Message(FromSlot).body[3])
      /\ Become("sender", "wired") /\ backlog' = <<>>
      /\ salt' = [salt EXCEPT !["sender"] = Message(FromSlot).body[3]]
      /\ UNCHANGED <<agree, kind, opened, slot, flight, index, got>>
      /\ IF slot = Recipient
         THEN arrived' = [arrived EXCEPT !["sender"] = ReadAhead(FromSlot)]
         ELSE UNCHANGED arrived
  BY DEF SenderHandshakes, Runs
<1>2. CASE slot = Recipient
  <2>1. ~Foreign("sender") BY <1>2, DataPortAssumption DEF Foreign
  <2>2. FromSlot = arrived["sender"] BY <2>1 DEF FromSlot, Incoming
  <2>3. "sender" \in Ends BY DEF Ends
  <2> QED BY <1>1, <1>2, <2>2, <2>3, ShakenKeeps
<1>3. CASE slot # Recipient
  <2>1. Message(FromSlot).body[3] = 30
    <3>1. \/ Handshaken(FromSlot) /\ Message(FromSlot).body[3] = NoKey
          \/ Handshaken(FromSlot) /\ Message(FromSlot).body[3] = 30
      BY <1>1, <1>3, TheStranger
    <3> QED BY <1>1, <3>1 DEF DerivesKey
  <2>2. UNCHANGED <<agree, kind, opened, slot, stream, index, got>> BY <1>1, <1>3 DEF stream
  <2> QED BY <1>1, <1>3, <2>1, <2>2, StrangerKeeps
<1> QED BY <1>2, <1>3

LEMMA RecipientHandshakesKeeps == ASSUME PortInv, RecipientHandshakes PROVE PortInv'
<1>1. "recipient" \in Ends BY DEF Ends
<1>2. /\ pc["recipient"] = "shaking" /\ Handshaken(arrived["recipient"])
      /\ Become("recipient", "wired") /\ backlog' = backlog
      /\ UNCHANGED <<agree, kind, opened, slot, flight, index, got>>
      /\ salt' = [salt EXCEPT !["recipient"] = Message(arrived["recipient"]).body[3]]
      /\ arrived' = [arrived EXCEPT !["recipient"] = ReadAhead(arrived["recipient"])]
  BY DEF RecipientHandshakes, Runs
<1> QED BY <1>1, <1>2, ShakenKeeps

LEMMA SendKeepsOwn ==
  ASSUME PortInv, NEW e \in Ends, Send(e), ~Foreign(e)
  PROVE  PortInv'
<1> DEFINE o == Other(e)
           n == Sent(e)
           u == Written(Body(agree, e, n))
<1>1. TypeOK /\ InTransit /\ Introduced /\ Queued /\ FramesArriveWhole BY DEF PortInv
<1>2. /\ agree' = agree /\ kind' = kind /\ pc' = pc /\ opened' = opened
      /\ backlog' = backlog /\ slot' = slot /\ arrived' = arrived /\ salt' = salt
      /\ got' = got /\ pc[e] = "wired"
      /\ Write(e, Seal(e, index[e])) /\ index' = [index EXCEPT ![e] = @ + 1]
  BY DEF Send, Runs
<1>3. /\ o \in Ends /\ o # e /\ Other(o) = e /\ agree \in BOOLEAN
      /\ index[e] \in Nat /\ n \in Nat /\ Heard(o) \in Nat
      /\ arrived[o] \in Seq(Nat) /\ flight[o] \in Seq(Nat)
  BY <1>1, Counts, Others DEF TypeOK
<1>4. Greeted(e) BY <1>1, <1>2, WhoseWire
<1>5. n = 1 + index[e] /\ n # 0 /\ n - 1 = index[e]
  <2>1. n = 1 + index[e] BY <1>4 DEF Sent
  <2>2. index[e] \in Nat BY <1>3
  <2> HIDE DEF n
  <2> QED BY <2>1, <2>2
<1>6. Seal(e, index[e]) = Body(agree, e, n)
  <2>1. Seal(e, index[e]) = Sealed(agree, e, index[e]) BY <1>3, Keys
  <2>2. Body(agree, e, n) = Sealed(agree, e, n - 1) BY <1>5 DEF Body
  <2> QED BY <1>5, <2>1, <2>2
<1>7. u \in Seq(Nat) BY <1>3, Units
<1>8. /\ flight' \in [Ends -> Seq(Nat)] /\ flight'[e] = flight[e]
      /\ flight'[o] = flight[o] \o u
  BY <1>1, <1>2, <1>6, <1>7, Writes
<1>9. /\ index' \in [Ends -> Nat] /\ index'[e] = index[e] + 1
      /\ \A x \in Ends : x # e => index'[x] = index[x]
  BY <1>1, <1>2 DEF TypeOK
<1>10. Sent(e)' = n + 1 /\ Sent(o)' = Sent(o)
  <2>1. Sent(e)' = 1 + (index[e] + 1) BY <1>2, <1>4, <1>9 DEF Sent, Greeted
  <2>2. Sent(o)' = Sent(o) BY <1>2, <1>3, <1>9 DEF Sent, Greeted
  <2> QED BY <1>3, <1>5, <2>1, <2>2
<1>11. InTransitTo(o)'
  <2>1. CASE pc[o] \in Over BY <1>2, <2>1 DEF InTransitTo
  <2>2. CASE pc[o] \notin Over
    <3>1. Window(agree, arrived[o] \o flight[o], e, Heard(o), n)
      BY <1>1, <1>3, <2>2 DEF InTransit, InTransitTo
    <3>2. Heard(o)' = Heard(o) BY <1>2 DEF Heard, Foreign
    <3> HIDE DEF o, n
    <3>3. Window(agree, arrived[o] \o (flight[o] \o u), e, Heard(o), n + 1)
      BY <1>3, <3>1, WindowWritten
    <3>4. Window(agree', arrived'[o] \o flight'[o], Other(o), Heard(o)', Sent(Other(o))')
      BY <1>2, <1>3, <1>8, <1>10, <3>2, <3>3
    <3> QED BY <3>4 DEF InTransitTo
  <2> QED BY <2>1, <2>2
<1>12. InTransitTo(e)' BY <1>1, <1>2, <1>8, <1>10, StreamStays
<1>13. TypeOK' BY <1>1, <1>2, <1>8, <1>9 DEF TypeOK
<1>14. Introduced'
  <2>1. pc[e] \notin {"listening", "connecting", "shaking"} BY <1>2
  <2> QED BY <1>1, <1>2, <1>9, ForeignStays DEF Introduced, IntroducedAt
<1>15. Queued' BY <1>1, <1>2 DEF Queued
<1>16. FramesArriveWhole'
  <2>1. \A x \in Ends : Len(got[x]) <= index[Other(x)] BY <1>1 DEF FramesArriveWhole
  <2>2. ASSUME NEW x \in Ends PROVE Len(got'[x]) <= index'[Other(x)]
    <3>1. /\ Len(got[x]) \in Nat /\ Other(x) \in Ends /\ index[Other(x)] \in Nat
          /\ (index'[Other(x)] = index[Other(x)] \/ index'[Other(x)] = index[Other(x)] + 1)
      BY <1>1, <1>9, Counts
    <3>2. Len(got[x]) <= index[Other(x)] BY <2>1
    <3> QED BY <1>2, <3>1, <3>2
  <2> QED BY <1>1, <1>2, <2>2 DEF FramesArriveWhole
<1> QED BY <1>3, <1>11, <1>12, <1>13, <1>14, <1>15, <1>16 DEF PortInv, InTransit, Ends

\* To a stranger, whose bytes the recipient's stream does not carry.
LEMMA SendKeeps == ASSUME PortInv, NEW e \in Ends, Send(e) PROVE PortInv'
<1>1. CASE ~Foreign(e) BY <1>1, SendKeepsOwn
<1>2. CASE Foreign(e)
  <2>1. TypeOK /\ InTransit /\ Introduced /\ Queued /\ FramesArriveWhole BY DEF PortInv
  <2>2. /\ agree' = agree /\ kind' = kind /\ pc' = pc /\ opened' = opened
        /\ backlog' = backlog /\ slot' = slot /\ arrived' = arrived /\ salt' = salt
        /\ got' = got /\ pc[e] = "wired" /\ flight' = flight
        /\ index' = [index EXCEPT ![e] = @ + 1]
    BY <1>2 DEF Send, Runs
  <2>3. e = "sender" /\ slot # Recipient BY <1>2, <2>1, <2>2, WhoseWire
  <2>4. /\ index' \in [Ends -> Nat] /\ index'[e] = index[e] + 1
        /\ \A x \in Ends : x # e => index'[x] = index[x]
    BY <2>1, <2>2 DEF TypeOK
  <2>5. TypeOK' BY <2>1, <2>2, <2>4 DEF TypeOK
  <2>6. \A x \in Ends : Sent(x)' = Sent(x)
    <3>1. Sent("sender") = 0 /\ Sent("sender")' = 0 BY <2>2, <2>3 DEF Sent, Greeted
    <3>2. Sent("recipient")' = Sent("recipient")
      BY <2>2, <2>3, <2>4 DEF Sent, Greeted, Ends
    <3> QED BY <3>1, <3>2 DEF Ends
  <2>7. ASSUME NEW x \in Ends PROVE InTransitTo(x)'
    <3>1. Sent(Other(x))' = Sent(Other(x)) BY <2>6, Others
    <3> QED BY <2>1, <2>2, <3>1, StreamStays
  <2>8. Introduced'
    <3>1. pc[e] \notin {"listening", "connecting", "shaking"} BY <2>2
    <3> QED BY <2>1, <2>2, <2>4, ForeignStays DEF Introduced, IntroducedAt
  <2>9. Queued' BY <2>1, <2>2 DEF Queued
  <2>10. ASSUME NEW x \in Ends PROVE Len(got'[x]) <= index'[Other(x)]
    <3>1. /\ Len(got[x]) \in Nat /\ Other(x) \in Ends /\ index[Other(x)] \in Nat
          /\ (index'[Other(x)] = index[Other(x)] \/ index'[Other(x)] = index[Other(x)] + 1)
      BY <2>1, <2>4, Counts
    <3>2. Len(got[x]) <= index[Other(x)] BY <2>1 DEF FramesArriveWhole
    <3> QED BY <2>2, <3>1, <3>2
  <2>11. FramesArriveWhole' BY <2>1, <2>2, <2>10 DEF FramesArriveWhole
  <2> QED BY <2>5, <2>7, <2>8, <2>9, <2>11 DEF PortInv, InTransit
<1> QED BY <1>1, <1>2

\* What unsealing a frame of the peer returns.
LEMMA Unsealed ==
  ASSUME NEW g \in BOOLEAN, NEW o \in Ends, NEW i \in Nat
  PROVE  LET b == Sealed(g, o, i)
         IN Len(b) > 2 /\ b[2] = KeyOf(g, o) /\ SubSeq(b, 3, Len(b)) = Frame(o, i)
<1> DEFINE b == Sealed(g, o, i)
           f == Frame(o, i)
           l == Len(b)
<1>1. /\ b \in Seq(Nat) /\ Len(b) = Len(f) + 2 /\ b[2] = KeyOf(g, o)
      /\ \A j \in 1..Len(f) : b[j + 2] = f[j]
  BY Seals
<1>2. f \in Seq(Nat) /\ Len(f) \in {1, 2} BY FrameBytes
<1> HIDE DEF b, f
<1>3. \A j \in 1..l : b[j] \in Nat BY <1>1, ElementOfSeq
<1>4. l \in Int /\ 3 <= l /\ l - 3 + 1 = Len(f) /\ \A j \in 3..l : j \in 1..l
  <2>1. l = Len(f) + 2 BY <1>1
  <2> HIDE DEF l
  <2>2. CASE Len(f) = 1 BY <2>1, <2>2
  <2>3. CASE Len(f) = 2 BY <2>1, <2>3
  <2> QED BY <1>2, <2>2, <2>3
<1>5. /\ SubSeq(b, 3, l) \in Seq(Nat)
      /\ Len(SubSeq(b, 3, l)) = IF 3 <= l THEN l - 3 + 1 ELSE 0
      /\ \A j \in 1..l - 3 + 1 : SubSeq(b, 3, l)[j] = b[3 + j - 1]
  <2>1. 3 \in Int /\ \A j \in 3..l : b[j] \in Nat BY <1>3, <1>4
  <2> HIDE DEF l
  <2> QED BY <1>4, <2>1, SubSeqProperties
<1>6. \A j \in 1..Len(f) : j \in 1..l - 3 + 1 /\ 3 + j - 1 = j + 2 BY <1>2, <1>4
<1> DEFINE t == SubSeq(b, 3, l)
<1>7. t \in Seq(Nat) /\ Len(t) = Len(f) BY <1>4, <1>5
<1>8. \A j \in 1..Len(f) : t[j] = f[j] BY <1>1, <1>5, <1>6
<1> HIDE DEF t
<1>9. t = f BY <1>2, <1>7, <1>8, SeqEqual
<1>10. Len(b) > 2 BY <1>4
<1> QED BY <1>1, <1>9, <1>10 DEF b, f, t

\* The message an end with a wire meets is the next frame of its peer, which
\* opens exactly if the users agree on the password.
LEMMA NextFrame ==
  ASSUME PortInv, NEW e \in Ends, pc[e] = "wired", ~Foreign(e),
         Message(arrived[e]).is = "message"
  PROVE  LET m == Message(arrived[e])
             o == Other(e)
         IN /\ m.rest \in Seq(Nat) /\ Len(got[e]) < index[o]
            /\ Window(agree, m.rest \o flight[e], o, Heard(e) + 1, Sent(o))
            /\ Unseals(e, m.body) <=> agree
            /\ SubSeq(m.body, 3, Len(m.body)) = Frame(o, Len(got[e]))
<1> DEFINE m == Message(arrived[e])
           o == Other(e)
           i == Len(got[e])
<1>1. TypeOK /\ InTransit /\ Introduced BY DEF PortInv
<1>2. /\ o \in Ends /\ Other(o) = e /\ i \in Nat /\ agree \in BOOLEAN
      /\ index[o] \in Nat /\ pc[e] \notin Over
  BY <1>1, Counts, Others DEF TypeOK, Over
<1>3. Heard(e) = 1 + i BY DEF Heard
<1>4. /\ Heard(e) < Sent(o) /\ m.body = Body(agree, o, Heard(e)) /\ m.rest \in Seq(Nat)
      /\ Window(agree, m.rest \o flight[e], o, Heard(e) + 1, Sent(o))
  BY <1>1, <1>2, Hears
<1>5. i < index[o]
  <2>1. Sent(o) = 0 \/ Sent(o) = 1 + index[o] BY DEF Sent
  <2> HIDE DEF i, o
  <2> QED BY <1>2, <1>3, <1>4, <2>1
<1>6. m.body = Sealed(agree, o, i)
  <2>1. 1 + i # 0 /\ (1 + i) - 1 = i BY <1>2
  <2> HIDE DEF i
  <2> QED BY <1>3, <1>4, <2>1 DEF Body
<1>7. /\ Len(m.body) > 2 /\ m.body[2] = KeyOf(agree, o)
      /\ SubSeq(m.body, 3, Len(m.body)) = Frame(o, i)
  BY <1>2, <1>6, Unsealed
<1>8. salt[e] = Salt(o) BY <1>1 DEF Introduced, IntroducedAt, PeerSalt
<1>9. KeyOf(agree, o) = Key(Salt(o), e) <=> agree BY <1>2, Keys
<1>10. Unseals(e, m.body) <=> agree BY <1>7, <1>8, <1>9 DEF Unseals
<1> QED BY <1>4, <1>5, <1>7, <1>10

LEMMA RecvKeepsOwn ==
  ASSUME PortInv, NEW e \in Ends, Recv(e), ~Foreign(e)
  PROVE  PortInv'
<1> DEFINE m == Message(arrived[e])
           o == Other(e)
           i == Len(got[e])
           f == SubSeq(m.body, 3, Len(m.body))
<1>1. TypeOK /\ InTransit /\ Introduced /\ Queued /\ FramesArriveWhole BY DEF PortInv
<1>2. /\ agree' = agree /\ kind' = kind /\ opened' = opened /\ backlog' = backlog
      /\ slot' = slot /\ flight' = flight /\ salt' = salt /\ index' = index
      /\ pc[e] = "wired" /\ m.is = "message"
      /\ arrived' = [arrived EXCEPT ![e] = m.rest]
      /\ IF Unseals(e, m.body)
         THEN got' = [got EXCEPT ![e] = Append(@, f)] /\ pc' = pc
         ELSE Become(e, "failed") /\ got' = got
  BY DEF Recv, Runs, Incoming
<1>3. /\ m.rest \in Seq(Nat) /\ i < index[o]
      /\ Window(agree, m.rest \o flight[e], o, Heard(e) + 1, Sent(o))
      /\ Unseals(e, m.body) <=> agree
      /\ f = Frame(o, i)
  BY <1>2, NextFrame
<1>4. /\ o \in Ends /\ i \in Nat /\ index[o] \in Nat /\ got[e] \in Seq(Seq(Nat))
  BY <1>1, Counts
<1>5. /\ arrived' \in [Ends -> Seq(Nat)] /\ arrived'[e] = m.rest
      /\ \A x \in Ends : x # e => arrived'[x] = arrived[x]
  BY <1>1, <1>2, <1>3 DEF TypeOK
<1>6. \A x \in Ends : Sent(x)' = Sent(x) BY <1>2 DEF Sent, Greeted
<1>7. CASE agree
  <2>1. got' = [got EXCEPT ![e] = Append(got[e], f)] /\ pc' = pc BY <1>2, <1>3, <1>7
  <2>2. f \in Seq(Nat) BY <1>3, <1>4, FrameBytes
  <2> HIDE DEF f
  <2>3. /\ Append(got[e], f) \in Seq(Seq(Nat)) /\ Len(Append(got[e], f)) = i + 1
        /\ Append(got[e], f)[i + 1] = f
        /\ \A k \in 1..i : Append(got[e], f)[k] = got[e][k]
    BY <1>4, <2>2
  <2>4. /\ got' \in [Ends -> Seq(Seq(Nat))] /\ got'[e] = Append(got[e], f)
        /\ \A x \in Ends : x # e => got'[x] = got[x]
    BY <1>1, <2>1, <2>3 DEF TypeOK
  <2>5. TypeOK' BY <1>1, <1>2, <1>5, <2>1, <2>4 DEF TypeOK
  <2>6. ASSUME NEW x \in Ends PROVE InTransitTo(x)'
    <3>0. Sent(Other(x))' = Sent(Other(x)) BY <1>6, Others
    <3>1. CASE x = e
      <4>0. ~Foreign(e)' BY <1>2 DEF Foreign
      <4>1. Heard(e) = 1 + i /\ Heard(e)' = 1 + Len(got'[e])
        BY <1>2, <2>1, <4>0 DEF Heard
      <4>2. Len(got'[e]) = i + 1 BY <2>3, <2>4
      <4>3. Heard(e)' = Heard(e) + 1 BY <1>4, <4>1, <4>2
      <4> QED BY <1>2, <1>3, <1>5, <3>0, <3>1, <4>3 DEF InTransitTo
    <3>2. CASE x # e
      BY <1>1, <1>2, <1>5, <2>1, <2>4, <3>0, <3>2, StreamStays
    <3> QED BY <3>1, <3>2
  <2>7. Introduced'
    <3>1. pc[e] \notin {"listening", "connecting", "shaking"} BY <1>2
    <3> QED BY <1>1, <1>2, <2>1, <2>4, ForeignStays DEF Introduced, IntroducedAt
  <2>8. Queued' BY <1>1, <1>2, <2>1 DEF Queued
  <2>9. FramesArriveWhole'
    <3>1. ASSUME NEW x \in Ends
          PROVE  /\ Len(got'[x]) <= index'[Other(x)]
                 /\ \A k \in 1..Len(got'[x]) : got'[x][k] = Frame(Other(x), k - 1)
      <4>1. CASE x = e
        <5>1. Len(got'[e]) = i + 1 BY <2>3, <2>4
        <5>2. i + 1 <= index[o] BY <1>3, <1>4
        <5>3. ASSUME NEW k \in 1..(i + 1) PROVE got'[e][k] = Frame(o, k - 1)
          <6>1. CASE k = i + 1
            <7>1. k - 1 = i BY <1>4, <6>1
            <7> QED BY <1>3, <2>3, <2>4, <6>1, <7>1
          <6>2. CASE k # i + 1
            <7>1. k \in 1..i BY <1>4, <5>3, <6>2
            <7>2. got[e][k] = Frame(o, k - 1) BY <1>1, <7>1 DEF FramesArriveWhole
            <7> QED BY <2>3, <2>4, <7>1, <7>2
          <6> QED BY <6>1, <6>2
        <5> QED BY <1>2, <4>1, <5>1, <5>2, <5>3
      <4>2. CASE x # e BY <1>1, <1>2, <2>4, <4>2 DEF FramesArriveWhole
      <4> QED BY <4>1, <4>2
    <3>2. slot' \in Strays => got'["sender"] = <<>>
      <4>1. e = "sender" => slot \notin Strays BY DEF Foreign
      <4>2. e # "sender" => got'["sender"] = got["sender"] BY <2>4 DEF Ends
      <4> QED BY <1>1, <1>2, <4>1, <4>2 DEF FramesArriveWhole
    <3> QED BY <1>2, <1>7, <3>1, <3>2 DEF FramesArriveWhole
  <2> QED BY <2>5, <2>6, <2>7, <2>8, <2>9 DEF PortInv, InTransit
<1>8. CASE ~agree
  <2>1. Become(e, "failed") /\ got' = got BY <1>2, <1>3, <1>8
  <2>2. "failed" \in Places /\ "failed" \in Over /\ "sender" \in Ends
        /\ "recipient" \in Ends
    BY DEF Places, Over, Ends
  <2>3. pc' \in [Ends -> Places] /\ pc'[e] = "failed" /\ \A x \in Ends : x # e => pc'[x] = pc[x]
    BY <1>1, <2>1, <2>2, Becomes
  <2>4. TypeOK' BY <1>1, <1>2, <1>5, <2>1, <2>3 DEF TypeOK
  <2>5. ASSUME NEW x \in Ends PROVE InTransitTo(x)'
    <3>0. Sent(Other(x))' = Sent(Other(x)) BY <1>6, Others
    <3>1. CASE x = e BY <2>2, <2>3, <3>1 DEF InTransitTo
    <3>2. CASE x # e
      BY <1>1, <1>2, <1>5, <2>1, <2>3, <3>0, <3>2, StreamStays
    <3> QED BY <3>1, <3>2
  <2>6. Introduced'
    BY <1>1, <1>2, <2>1, <2>2, <2>3, ForeignStays DEF Introduced, IntroducedAt
  <2>7. Queued' BY <1>1, <1>2, <2>2, <2>3 DEF Queued
  <2>8. FramesArriveWhole'
    BY <1>1, <1>2, <2>1, <2>2, <2>3 DEF FramesArriveWhole
  <2> QED BY <2>4, <2>5, <2>6, <2>7, <2>8 DEF PortInv, InTransit
<1> QED BY <1>7, <1>8

\* What a stranger sends does not unseal.
LEMMA RecvKeeps == ASSUME PortInv, NEW e \in Ends, Recv(e) PROVE PortInv'
<1>1. CASE ~Foreign(e) BY <1>1, RecvKeepsOwn
<1>2. CASE Foreign(e)
  <2> DEFINE k == kind[slot]
             m == Message(Message(StrayBytes(k)).rest)
  <2>1. TypeOK /\ Introduced BY DEF PortInv
  <2>2. pc[e] = "wired" BY DEF Recv, Runs
  <2>3. e = "sender" /\ slot \in Strays BY <1>2 DEF Foreign
  <2>4. Incoming(e) = Message(StrayBytes(k)).rest BY <1>2, <2>2 DEF Incoming
  <2>5. m.is = "message" BY <2>4 DEF Recv
  <2>6. k \in Speakers BY <2>2, <2>3 DEF PortInv, Queued
  <2>7. salt[e] = 30 BY <1>2, <2>1, <2>2 DEF Introduced, IntroducedAt, PeerSalt
  <2>8. Key(salt[e], e) = 31 BY <2>3, <2>7 DEF Key, Password
  <2>9. ~Unseals(e, m.body)
    <3>1. CASE k \in Speakers
      <4>1. m.body[2] = 33 BY <2>5, <3>1, Speaking
      <4> QED BY <2>8, <4>1 DEF Unseals
    <3> QED BY <2>6, <3>1
  <2>10. /\ Become(e, "failed")
         /\ UNCHANGED <<agree, kind, opened, slot, stream, salt, index, got>>
    BY <1>2, <2>4, <2>9 DEF Recv, stream
  <2>11. backlog' = backlog \/ (e = "sender" /\ backlog' = <<>>) BY DEF Recv
  <2>12. "failed" \in Over BY DEF Over
  <2> QED BY <2>10, <2>11, <2>12, Leaves
<1> QED BY <1>1, <1>2

LEMMA DeliverKeeps == ASSUME PortInv, NEW e \in Ends, Deliver(e) PROVE PortInv'
<1>1. TypeOK /\ InTransit /\ Introduced /\ Queued /\ FramesArriveWhole BY DEF PortInv
<1>2. PICK n \in 1..Len(flight[e]) :
        /\ arrived' = [arrived EXCEPT ![e] = @ \o SubSeq(flight[e], 1, n)]
        /\ flight' = [flight EXCEPT ![e] = SubSeq(@, n + 1, Len(@))]
        /\ UNCHANGED <<agree, kind, pc, opened, backlog, slot, salt, index, got, faults>>
  BY DEF Deliver
<1> DEFINE a == arrived[e]
           f == flight[e]
           x == SubSeq(f, 1, n)
           y == SubSeq(f, n + 1, Len(f))
<1>3. a \in Seq(Nat) /\ f \in Seq(Nat) BY <1>1, Counts
<1>4. a \o x \in Seq(Nat) /\ y \in Seq(Nat) /\ (a \o x) \o y = a \o f
  BY <1>2, <1>3, WindowDelivered
<1>5. arrived' = [arrived EXCEPT ![e] = a \o x] /\ flight' = [flight EXCEPT ![e] = y]
  BY <1>2
<1> HIDE DEF x, y
<1>6. /\ arrived' \in [Ends -> Seq(Nat)] /\ flight' \in [Ends -> Seq(Nat)]
      /\ arrived'[e] = a \o x /\ flight'[e] = y
      /\ \A z \in Ends : z # e => arrived'[z] = arrived[z] /\ flight'[z] = flight[z]
  BY <1>1, <1>4, <1>5 DEF TypeOK
<1>7. \A z \in Ends : arrived'[z] \o flight'[z] = arrived[z] \o flight[z]
  BY <1>4, <1>6
<1>8. TypeOK' BY <1>1, <1>2, <1>6 DEF TypeOK
<1>9. ASSUME NEW z \in Ends PROVE InTransitTo(z)'
  <2>1. Sent(Other(z))' = Sent(Other(z)) BY <1>2 DEF Sent, Greeted
  <2> QED BY <1>1, <1>2, <1>7, <2>1, StreamStays
<1>10. Introduced' BY <1>1, <1>2, ForeignStays DEF Introduced, IntroducedAt
<1>11. Queued' BY <1>1, <1>2 DEF Queued
<1>12. FramesArriveWhole' BY <1>1, <1>2 DEF FramesArriveWhole
<1> QED BY <1>8, <1>9, <1>10, <1>11, <1>12 DEF PortInv, InTransit

\* Power is lost, or nothing happens at all.
LEMMA IdleKeeps ==
  ASSUME PortInv,
         UNCHANGED <<agree, kind, pc, opened, backlog, slot, stream, salt, index, got>>
  PROVE  PortInv'
<1>1. /\ agree' = agree /\ kind' = kind /\ pc' = pc /\ opened' = opened
      /\ backlog' = backlog /\ slot' = slot /\ flight' = flight /\ arrived' = arrived
      /\ salt' = salt /\ index' = index /\ got' = got
  BY DEF stream
<1>2. TypeOK /\ InTransit /\ Introduced /\ Queued /\ FramesArriveWhole BY DEF PortInv
<1>3. TypeOK' BY <1>1, <1>2 DEF TypeOK
<1>4. ASSUME NEW z \in Ends PROVE InTransitTo(z)'
  <2>1. Sent(Other(z))' = Sent(Other(z)) BY <1>1 DEF Sent, Greeted
  <2> QED BY <1>1, <1>2, <2>1, StreamStays
<1>5. Introduced' BY <1>1, <1>2, ForeignStays DEF Introduced, IntroducedAt
<1>6. Queued' BY <1>1, <1>2 DEF Queued
<1>7. FramesArriveWhole' BY <1>1, <1>2 DEF FramesArriveWhole
<1> QED BY <1>3, <1>4, <1>5, <1>6, <1>7 DEF PortInv, InTransit

LEMMA NextKeeps == ASSUME PortInv, [Next]_vars PROVE PortInv'
<1>1. "sender" \in Ends /\ "recipient" \in Ends BY DEF Ends
<1>2. "done" \in Over /\ "failed" \in Over BY DEF Over
<1>3. CASE Accept BY <1>3, AcceptKeeps
<1>4. CASE SenderHandshakes BY <1>4, SenderHandshakesKeeps
<1>5. CASE Ignore BY <1>5, IgnoreKeeps
<1>6. CASE AcceptTimesOut \/ PortBreaks \/ KeyFails
  <2>1. /\ Become("sender", "failed") /\ backlog' = <<>>
        /\ UNCHANGED <<agree, kind, opened, slot, stream, salt, index, got>>
    BY <1>6 DEF AcceptTimesOut, PortBreaks, KeyFails
  <2> QED BY <1>1, <1>2, <2>1, Leaves
<1>7. CASE Connect BY <1>7, ConnectKeeps
<1>8. CASE ConnectFails \/ RecipientGivesUp
  <2>1. /\ Become("recipient", "failed")
        /\ UNCHANGED <<agree, kind, opened, slot, stream, salt, index, got>>
    BY <1>8 DEF ConnectFails, RecipientGivesUp
  <2>2. backlog' = backlog BY <1>8 DEF ConnectFails, RecipientGivesUp
  <2>3. backlog' = backlog \/ ("recipient" = "sender" /\ backlog' = <<>>) BY <2>2
  <2> QED BY <1>1, <1>2, <2>1, <2>3, Leaves
<1>9. CASE RecipientHandshakes BY <1>9, RecipientHandshakesKeeps
<1>10. ASSUME NEW e \in Ends, WireSteps(e) \/ Deliver(e) \/ Vanish(e) PROVE PortInv'
  <2>1. CASE Send(e) BY <2>1, SendKeeps
  <2>2. CASE Recv(e) BY <2>2, RecvKeeps
  <2>3. CASE RecvFails(e) \/ SendFails(e)
    <3>1. /\ Become(e, "failed")
          /\ UNCHANGED <<agree, kind, opened, slot, stream, salt, index, got>>
      BY <2>3 DEF RecvFails, SendFails
    <3>2. backlog' = backlog BY <2>3 DEF RecvFails, SendFails
    <3>3. backlog' = backlog \/ (e = "sender" /\ backlog' = <<>>) BY <3>2
    <3> QED BY <1>2, <3>1, <3>3, Leaves
  <2>4. CASE Finish(e)
    <3>1. /\ Become(e, "done")
          /\ UNCHANGED <<agree, kind, opened, slot, stream, salt, index, got>>
      BY <2>4 DEF Finish
    <3>2. backlog' = backlog BY <2>4 DEF Finish
    <3>3. backlog' = backlog \/ (e = "sender" /\ backlog' = <<>>) BY <3>2
    <3> QED BY <1>2, <3>1, <3>3, Leaves
  <2>5. CASE Deliver(e) BY <2>5, DeliverKeeps
  <2>6. CASE Vanish(e) BY <2>6, IdleKeeps DEF Vanish
  <2> QED BY <1>10, <2>1, <2>2, <2>3, <2>4, <2>5, <2>6 DEF WireSteps
<1>11. ASSUME NEW c \in Strays, StrayConnects(c) PROVE PortInv' BY <1>11, StrayConnectsKeeps
<1>12. CASE UNCHANGED vars BY <1>12, IdleKeeps DEF vars
<1> QED BY <1>3, <1>4, <1>5, <1>6, <1>7, <1>8, <1>9, <1>10, <1>11, <1>12
        DEF Next, SenderSteps, RecipientSteps

\* A listening sender fails by its deadline, while it waits: then the recipient
\* has not come or has gone, its hello is not whole, or the slot is held by a
\* connection that says nothing; by a hello no key comes of, which is not the
\* recipient's; or with its socket.
LEMMA DeadlineForCause ==
  ASSUME PortInv, Next, Listening, pc'["sender"] = "failed"
  PROVE  ~HelloIsHere \/ HeldByStranger \/ broken'
<1>1. TypeOK /\ Queued BY DEF PortInv
<1>2. /\ "sender" \in Ends /\ "recipient" \in Ends /\ "sender" # "recipient"
      /\ pc["sender"] \in {"listening", "shaking"} /\ pc["sender"] \notin Over
  BY DEF Ends, Listening, Over
<1>3. \A e, w : e # "sender" /\ Become(e, w) => pc'["sender"] = pc["sender"]
  BY <1>1, <1>2 DEF Become, TypeOK
<1>4. \A w : Become("sender", w) => pc'["sender"] = w
  BY <1>1, <1>2 DEF Become, TypeOK
<1>5. AcceptTimesOut \/ KeyFails \/ PortBreaks
  <2>1. ~Accept BY <1>4 DEF Accept
  <2>2. ~SenderHandshakes BY <1>4 DEF SenderHandshakes
  <2>3. ~Ignore BY <1>4 DEF Ignore, AfterNoise
  <2>4. ~(Connect \/ ConnectFails \/ RecipientHandshakes \/ RecipientGivesUp)
    BY <1>2, <1>3 DEF Connect, ConnectFails, RecipientHandshakes, RecipientGivesUp
  <2>5. ASSUME NEW e \in Ends PROVE ~WireSteps(e)
    <3>1. ~Send(e) /\ ~SendFails(e) BY <1>2, <1>3 DEF Send, SendFails, Runs
    <3>2. ~Recv(e) BY <1>2, <1>3 DEF Recv, Runs
    <3>3. ~RecvFails(e) BY <1>2, <1>3 DEF RecvFails, Runs
    <3>4. ~Finish(e) BY <1>2, <1>3 DEF Finish, Runs
    <3> QED BY <3>1, <3>2, <3>3, <3>4 DEF WireSteps
  <2>6. \A e \in Ends : ~Deliver(e) /\ ~Vanish(e) BY <1>2 DEF Deliver, Vanish
  <2>7. \A c \in Strays : ~StrayConnects(c) BY <1>2 DEF StrayConnects
  <2> QED BY <2>1, <2>2, <2>3, <2>4, <2>5, <2>6, <2>7 DEF Next, SenderSteps, RecipientSteps
<1>6. CASE PortBreaks BY <1>6 DEF PortBreaks
<1>7. CASE KeyFails
  <2>1. /\ pc["sender"] = "shaking" /\ Handshaken(FromSlot)
        /\ ~DerivesKey(Message(FromSlot).body[3])
    BY <1>7 DEF KeyFails, Runs
  <2>2. slot # Recipient
    <3>1. CASE slot = Recipient
      <4>1. ~Foreign("sender") BY <3>1, DataPortAssumption DEF Foreign
      <4>2. FromSlot = arrived["sender"] BY <4>1 DEF FromSlot, Incoming
      <4>3. Message(arrived["sender"]).is = "message" BY <2>1, <4>2 DEF Handshaken
      <4> QED BY <2>1, <3>1, <4>3, TheRecipient
    <3> QED BY <3>1
  <2>3. /\ slot \in Strays
        /\ kind[slot] = "garbled" \/ Message(FromSlot).body[3] = 30
    BY <2>1, <2>2, TheStranger
  <2> QED BY <2>1, <2>3 DEF HeldByStranger, DerivesKey, NoKey
<1>8. CASE AcceptTimesOut
  <2>1. CASE AwaitsConnection
    <3>1. pc["sender"] = "listening" /\ backlog = <<>> BY <2>1 DEF AwaitsConnection
    <3>2. Len(backlog) = 0 BY <3>1
    <3>3. ~Contains(backlog, Recipient) BY <3>2 DEF Contains
    <3> QED BY <1>1, <3>1, <3>3 DEF HelloIsHere, Queued
  <2>2. CASE /\ pc["sender"] = "shaking"
             /\ ~Handshaken(FromSlot) /\ ~HandshakeRejected(FromSlot, Eof("sender"))
    <3>1. CASE slot = Recipient BY <2>2, <3>1, TheRecipient DEF HelloIsHere
    <3>2. CASE slot # Recipient BY <2>2, <3>2, TheStranger DEF HeldByStranger
    <3> QED BY <3>1, <3>2
  <2> QED BY <1>8, <2>1, <2>2 DEF AcceptTimesOut, AcceptAwaits
<1> QED BY <1>5, <1>6, <1>7, <1>8

-----------------------------------------------------------------------------
(* The theorems.                                                           *)

\* The inductive invariant: the bytes of a direction, under way and in the
\* reader, are what its writer has written and its reader not yet read; an end
\* with a wire has the salt of whoever said the hello; the recipient's connection
\* is queued, in the slot, given up, or the port is closed (sync_tcp.rs).
THEOREM PortInvariant == Spec => []PortInv
<1>1. Init => PortInv BY InitHolds
<1>2. PortInv /\ [Next]_vars => PortInv' BY NextKeeps
<1> QED BY <1>1, <1>2, PTL DEF Spec

\* What an end has received is what the other sent, whole and in order, and
\* nothing when the passwords differ or a stranger has the wire, for every number
\* of frames and every way the network cuts the stream (read_message,
\* TcpWire::recv).
THEOREM FramesAreWhole == Spec => []FramesArriveWhole
<1>1. PortInv => FramesArriveWhole BY DEF PortInv
<1> QED BY <1>1, PortInvariant, PTL

\* The sender gives up on its data port only while the recipient's hello is not
\* here, a stranger that is silent or says a useless hello holds the slot, or the
\* socket has failed, whatever and however many others connect
\* (accept_data_within).
THEOREM NoiseIsHarmless == Spec => AcceptFailsForCause
<1>1. PortInv /\ [Next]_vars =>
        [Listening /\ pc'["sender"] = "failed" =>
           ~HelloIsHere \/ HeldByStranger \/ broken']_vars
  BY DeadlineForCause
<1> QED BY <1>1, PortInvariant, PTL DEF Spec, AcceptFailsForCause
=============================================================================
