---------------------------- MODULE PeerLoopProofs ----------------------------
(***************************************************************************)
(* PeerLoop, for every style of owner, number of frames and capacity of    *)
(* the three queues: no frame is lost, repeated or overtaken, and a loop   *)
(* that ends by its grace period has written every accepted frame.         *)
(***************************************************************************)
EXTENDS PeerLoop, WellFoundedInduction, SequenceTheorems, TLAPS

(* Induction on a set of numbers, which is what the recursion of           *)
(* FramesUpTo needs.                                                       *)

\* A nonempty set of naturals has a least member.
LEMMA LeastMember ==
  ASSUME NEW S \in SUBSET Nat, S # {}
  PROVE  \E x \in S : \A y \in S : x <= y
<1>1. PICK x \in S : \A y \in S : <<y, x>> \notin OpToRel(<, Nat)
  BY NatLessThanWellFounded, WFMin
<1>2. \A y \in S : ~(y < x)
  BY <1>1 DEF OpToRel
<1> QED BY <1>2

LEMMA UpFromZero ==
  ASSUME NEW n \in Nat, NEW S, 0 \in S,
         \A i \in 0..n : i # n /\ i \in S => i + 1 \in S
  PROVE  \A i \in 0..n : i \in S
<1> DEFINE T == {i \in 0..n : i \notin S}
<1> SUFFICES ASSUME T # {} PROVE FALSE
  OBVIOUS
<1>1. PICK x \in T : \A y \in T : x <= y
  <2>1. T \in SUBSET Nat OBVIOUS
  <2> HIDE DEF T
  <2> QED BY <2>1, LeastMember
<1>2. x \in 0..n /\ x \notin S /\ x # 0 OBVIOUS
<1>3. x - 1 \in 0..n /\ x - 1 # n BY <1>2
<1>4. x - 1 \in S BY <1>1, <1>3
<1>5. (x - 1) + 1 \in S BY <1>3, <1>4
<1> QED BY <1>2, <1>5

LEMMA GreatestMember ==
  ASSUME NEW n \in Nat, NEW S \in SUBSET (0..n), S # {}
  PROVE  Max(S) \in S
<1> DEFINE T == {n - x : x \in S}
<1>1. PICK t \in T : \A y \in T : t <= y
  <2>1. T \in SUBSET Nat
    <3>1. \A x \in 0..n : n - x \in Nat OBVIOUS
    <3> QED BY <3>1
  <2>2. T # {} OBVIOUS
  <2> HIDE DEF T
  <2> QED BY <2>1, <2>2, LeastMember
<1>2. PICK x \in S : t = n - x OBVIOUS
<1>3. \A y \in S : x >= y
  <2> TAKE y \in S
  <2>1. t <= n - y BY <1>1
  <2> QED BY <2>1, <1>2
<1> QED BY <1>3 DEF Max

-----------------------------------------------------------------------------
(* The frames in a queue.                                                  *)

Commands == {"data", "close", "ice", "answer"} \X Nat

Grow(q, i, before) ==
  IF i = 0 THEN <<>>
  ELSE IF q[i][1] = "data" THEN Append(before, q[i][2]) ELSE before

\* The recursion of FramesUpTo has a solution, by induction on its domain.
LEMMA FramesStep ==
  ASSUME NEW q \in Seq(Commands)
  PROVE  FramesUpTo(q) = [i \in 0..Len(q) |-> Grow(q, i, FramesUpTo(q)[i - 1])]
<1> DEFINE Solves(f, n) == f = [i \in 0..n |-> Grow(q, i, f[i - 1])]
           S == {n \in Nat : \E f : Solves(f, n)}
<1>0. Len(q) \in Nat OBVIOUS
<1>1. 0 \in S
  <2> DEFINE e == [i \in 0..0 |-> <<>>]
  <2>1. Solves(e, 0) BY DEF Grow
  <2> QED BY <2>1
<1>2. ASSUME NEW k \in 0..Len(q), k # Len(q), k \in S PROVE k + 1 \in S
  <2>1. PICK g : Solves(g, k) BY <1>2
  <2> DEFINE h == [i \in 0..(k + 1) |-> Grow(q, i, g[i - 1])]
  <2>2. \A i \in 0..k : g[i] = Grow(q, i, g[i - 1]) BY <2>1
  <2>3. \A i \in 0..k : h[i] = g[i] BY <2>2, <1>0
  <2>4. \A i \in 0..(k + 1) : Grow(q, i, h[i - 1]) = Grow(q, i, g[i - 1])
    <3> TAKE i \in 0..(k + 1)
    <3>1. CASE i = 0 BY <3>1 DEF Grow
    <3>2. CASE i # 0
      <4>1. i - 1 \in 0..k BY <3>2, <1>0
      <4> HIDE DEF h
      <4> QED BY <4>1, <2>3
    <3> QED BY <3>1, <3>2
  <2>5. Solves(h, k + 1) BY <2>4
  <2> HIDE DEF h, Solves
  <2> QED BY <2>5, <1>0
<1>3. Len(q) \in S
  <2> HIDE DEF S
  <2>1. \A i \in 0..Len(q) : i \in S BY <1>0, <1>1, <1>2, UpFromZero
  <2> QED BY <2>1, <1>0
<1>4. PICK g : Solves(g, Len(q)) BY <1>3
<1>5. FramesUpTo(q) = CHOOSE f : Solves(f, Len(q))
  BY DEF FramesUpTo, Grow
<1>6. Solves(FramesUpTo(q), Len(q))
  <2> HIDE DEF Solves
  <2> QED BY <1>4, <1>5
<1> QED BY <1>6

LEMMA FramesRecursion ==
  ASSUME NEW q \in Seq(Commands)
  PROVE  /\ FramesUpTo(q)[0] = <<>>
         /\ \A i \in 1..Len(q) :
              FramesUpTo(q)[i] =
                IF q[i][1] = "data" THEN Append(FramesUpTo(q)[i - 1], q[i][2])
                                    ELSE FramesUpTo(q)[i - 1]
<1> DEFINE F == FramesUpTo(q)
<1>1. F = [i \in 0..Len(q) |-> Grow(q, i, F[i - 1])] BY FramesStep
<1>2. Len(q) \in Nat OBVIOUS
<1> HIDE DEF F
<1>3. \A i \in 0..Len(q) : F[i] = Grow(q, i, F[i - 1]) BY <1>1
<1>4. F[0] = <<>> BY <1>2, <1>3 DEF Grow
<1>5. \A i \in 1..Len(q) : F[i] = IF q[i][1] = "data" THEN Append(F[i - 1], q[i][2])
                                                      ELSE F[i - 1]
  <2> TAKE i \in 1..Len(q)
  <2>1. i \in 0..Len(q) /\ i # 0 BY <1>2
  <2> QED BY <2>1, <1>3 DEF Grow
<1> QED BY <1>4, <1>5 DEF F

LEMMA FramesTyped ==
  ASSUME NEW q \in Seq(Commands)
  PROVE  \A i \in 0..Len(q) : FramesUpTo(q)[i] \in Seq(Nat)
<1> DEFINE S == {i \in 0..Len(q) : FramesUpTo(q)[i] \in Seq(Nat)}
<1>1. Len(q) \in Nat OBVIOUS
<1>2. 0 \in S
  <2>1. FramesUpTo(q)[0] = <<>> BY FramesRecursion
  <2>2. FramesUpTo(q)[0] \in Seq(Nat) BY <2>1
  <2> QED BY <2>2, <1>1
<1>3. ASSUME NEW i \in 0..Len(q), i # Len(q), i \in S PROVE i + 1 \in S
  <2>1. i + 1 \in 1..Len(q) /\ (i + 1) - 1 = i BY <1>1, <1>3
  <2>2. q[i + 1][2] \in Nat BY <2>1 DEF Commands
  <2>3. FramesUpTo(q)[i + 1] \in {FramesUpTo(q)[i], Append(FramesUpTo(q)[i], q[i + 1][2])}
    BY <2>1, FramesRecursion
  <2>4. FramesUpTo(q)[i] \in Seq(Nat) BY <1>3
  <2>5. FramesUpTo(q)[i + 1] \in Seq(Nat)
    <3> DEFINE a == FramesUpTo(q)[i]
               x == q[i + 1][2]
    <3> HIDE DEF a, x
    <3>1. Append(a, x) \in Seq(Nat) BY <2>2, <2>4, AppendProperties DEF a, x
    <3> QED BY <2>3, <2>4, <3>1 DEF a, x
  <2> QED BY <2>1, <2>5, <1>1
<1> HIDE DEF S
<1>4. \A i \in 0..Len(q) : i \in S BY <1>1, <1>2, <1>3, UpFromZero
<1> QED BY <1>4 DEF S

\* Concatenation as an operator the provers do not look into.
Then(s, t) == s \o t

LEMMA ThenAssociates ==
  ASSUME NEW x \in Seq(Nat), NEW y \in Seq(Nat), NEW z \in Seq(Nat)
  PROVE  Then(Then(x, y), z) = Then(x, Then(y, z))
<1>1. (x \o y) \o z = x \o (y \o z) OBVIOUS
<1> QED BY <1>1 DEF Then

LEMMA AppendToThen ==
  ASSUME NEW s \in Seq(Nat), NEW t \in Seq(Nat), NEW n \in Nat
  PROVE  Append(s \o t, n) = s \o Append(t, n)
<1> DEFINE one == <<n>>
<1>1. one \in Seq(Nat) /\ Then(s, t) \in Seq(Nat) BY DEF Then
<1>2. Append(Then(s, t), n) = Then(Then(s, t), one) /\ Append(t, n) = Then(t, one)
  BY <1>1, AppendIsConcat DEF Then
<1> HIDE DEF one
<1>3. Then(Then(s, t), one) = Then(s, Then(t, one)) BY <1>1, ThenAssociates
<1>4. Append(Then(s, t), n) = Then(s, Append(t, n)) BY <1>2, <1>3
<1> QED BY <1>4 DEF Then

\* The frames of two queues in a row, by induction on the first and then on the
\* second.
LEMMA FramesConcat ==
  ASSUME NEW p \in Seq(Commands), NEW q \in Seq(Commands)
  PROVE  FramesIn(p \o q) = FramesIn(p) \o FramesIn(q)
<1> DEFINE u == p \o q
           A == {i \in 0..Len(p) : FramesUpTo(u)[i] = FramesUpTo(p)[i]}
           B == {j \in 0..Len(q) :
                   FramesUpTo(u)[Len(p) + j] = FramesUpTo(p)[Len(p)] \o FramesUpTo(q)[j]}
<1>1. /\ u \in Seq(Commands) /\ Len(p) \in Nat /\ Len(q) \in Nat
      /\ Len(u) = Len(p) + Len(q)
      /\ \A i \in 1..Len(p) : u[i] = p[i]
      /\ \A j \in 1..Len(q) : u[Len(p) + j] = q[j]
  <2> HIDE DEF Commands
  <2> QED OBVIOUS
<1> HIDE DEF u
<1>2. 0 \in A BY <1>1, FramesRecursion
<1>3. ASSUME NEW i \in 0..Len(p), i # Len(p), i \in A PROVE i + 1 \in A
  <2>1. i + 1 \in 1..Len(p) /\ i + 1 \in 1..Len(u) /\ (i + 1) - 1 = i
    BY <1>1, <1>3
  <2>2. u[i + 1] = p[i + 1] BY <2>1, <1>1
  <2>3. FramesUpTo(u)[i] = FramesUpTo(p)[i] BY <1>3
  <2>4. FramesUpTo(u)[i + 1] =
          IF u[i + 1][1] = "data" THEN Append(FramesUpTo(u)[i], u[i + 1][2])
                                  ELSE FramesUpTo(u)[i]
    <3>1. \A k \in 1..Len(u) :
            FramesUpTo(u)[k] = IF u[k][1] = "data" THEN Append(FramesUpTo(u)[k - 1], u[k][2])
                                                   ELSE FramesUpTo(u)[k - 1]
      BY <1>1, FramesRecursion
    <3> QED BY <3>1, <2>1
  <2>5. FramesUpTo(p)[i + 1] =
          IF p[i + 1][1] = "data" THEN Append(FramesUpTo(p)[i], p[i + 1][2])
                                  ELSE FramesUpTo(p)[i]
    BY <2>1, FramesRecursion
  <2>6. FramesUpTo(u)[i + 1] = FramesUpTo(p)[i + 1] BY <2>2, <2>3, <2>4, <2>5
  <2> QED BY <2>1, <2>6, <1>1
<1>4. \A i \in 0..Len(p) : i \in A
  <2> HIDE DEF A
  <2> QED BY <1>1, <1>2, <1>3, UpFromZero
<1>5. FramesUpTo(u)[Len(p)] = FramesUpTo(p)[Len(p)] BY <1>1, <1>4
<1>6. FramesUpTo(p)[Len(p)] \in Seq(Nat) BY <1>1, FramesTyped
<1>7. 0 \in B
  <2>1. FramesUpTo(q)[0] = <<>> BY FramesRecursion
  <2>2. Len(p) + 0 = Len(p) BY <1>1
  <2>3. FramesUpTo(p)[Len(p)] \o <<>> = FramesUpTo(p)[Len(p)] BY <1>6
  <2>4. FramesUpTo(u)[Len(p) + 0] = FramesUpTo(p)[Len(p)] \o FramesUpTo(q)[0]
    BY <2>1, <2>2, <2>3, <1>5
  <2>5. 0 \in 0..Len(q) BY <1>1
  <2> QED BY <2>4, <2>5
<1>8. ASSUME NEW j \in 0..Len(q), j # Len(q), j \in B PROVE j + 1 \in B
  <2>1. /\ j + 1 \in 1..Len(q) /\ Len(p) + (j + 1) \in 1..Len(u) /\ (j + 1) - 1 = j
        /\ (Len(p) + (j + 1)) - 1 = Len(p) + j
    BY <1>1, <1>8
  <2>2. u[Len(p) + (j + 1)] = q[j + 1] /\ q[j + 1][2] \in Nat
    BY <2>1, <1>1 DEF Commands
  <2>3. FramesUpTo(u)[Len(p) + j] = FramesUpTo(p)[Len(p)] \o FramesUpTo(q)[j]
    BY <1>8
  <2>4. FramesUpTo(u)[Len(p) + (j + 1)] =
          IF q[j + 1][1] = "data" THEN Append(FramesUpTo(u)[Len(p) + j], q[j + 1][2])
                                  ELSE FramesUpTo(u)[Len(p) + j]
    <3> DEFINE i == Len(p) + (j + 1)
    <3>1. FramesUpTo(u)[i] =
            IF u[i][1] = "data" THEN Append(FramesUpTo(u)[i - 1], u[i][2])
                                ELSE FramesUpTo(u)[i - 1]
      BY <2>1, <1>1, FramesRecursion
    <3> QED BY <3>1, <2>1, <2>2
  <2>5. FramesUpTo(q)[j + 1] =
          IF q[j + 1][1] = "data" THEN Append(FramesUpTo(q)[j], q[j + 1][2])
                                  ELSE FramesUpTo(q)[j]
    BY <2>1, FramesRecursion
  <2>6. FramesUpTo(q)[j] \in Seq(Nat) BY FramesTyped
  <2>7. \A x \in Nat : Append(FramesUpTo(p)[Len(p)] \o FramesUpTo(q)[j], x) =
                         FramesUpTo(p)[Len(p)] \o Append(FramesUpTo(q)[j], x)
    <3> DEFINE a == FramesUpTo(p)[Len(p)]
               b == FramesUpTo(q)[j]
    <3>1. a \in Seq(Nat) /\ b \in Seq(Nat) BY <1>6, <2>6
    <3> HIDE DEF a, b
    <3>2. \A x \in Nat : Append(a \o b, x) = a \o Append(b, x)
      BY <3>1, AppendToThen
    <3> QED BY <3>2 DEF a, b
  <2>8. FramesUpTo(u)[Len(p) + (j + 1)] = FramesUpTo(p)[Len(p)] \o FramesUpTo(q)[j + 1]
    BY <2>2, <2>3, <2>4, <2>5, <2>7
  <2>9. j + 1 \in 0..Len(q) BY <2>1, <1>1
  <2> QED BY <2>8, <2>9
<1>9. \A j \in 0..Len(q) : j \in B
  <2> HIDE DEF B
  <2> QED BY <1>1, <1>7, <1>8, UpFromZero
<1>10. FramesUpTo(u)[Len(p) + Len(q)] = FramesUpTo(p)[Len(p)] \o FramesUpTo(q)[Len(q)]
  <2>1. Len(q) \in 0..Len(q) BY <1>1
  <2>2. Len(q) \in B BY <2>1, <1>9
  <2> QED BY <2>2
<1> QED BY <1>1, <1>10 DEF FramesIn, u

LEMMA Regroup ==
  ASSUME NEW w \in Seq(Nat), NEW l \in Seq(Nat), NEW t \in Seq(Nat), NEW f \in Seq(Nat)
  PROVE  Then(Then(w, Then(l, t)), f) = Then(Then(w, l), Then(t, f))
<1>1. Then(w, l) \in Seq(Nat) BY DEF Then
<1>2. Then(Then(w, l), t) = Then(w, Then(l, t)) BY ThenAssociates
<1>3. Then(Then(Then(w, l), t), f) = Then(Then(w, l), Then(t, f))
  BY <1>1, ThenAssociates
<1> QED BY <1>2, <1>3

LEMMA SplitQueue ==
  ASSUME NEW S, NEW q \in Seq(S), NEW k \in 0..Len(q)
  PROVE  /\ SubSeq(q, 1, k) \in Seq(S) /\ SubSeq(q, k + 1, Len(q)) \in Seq(S)
         /\ Len(SubSeq(q, 1, k)) = k
         /\ q = SubSeq(q, 1, k) \o SubSeq(q, k + 1, Len(q))
         /\ Len(SubSeq(q, k + 1, Len(q))) = Len(q) - k
         /\ \A i \in 1..(Len(q) - k) : SubSeq(q, k + 1, Len(q))[i] = q[k + i]
<1>1. Len(q) \in Nat /\ \A i \in 1..Len(q) : q[i] \in S OBVIOUS
<1>2. SubSeq(q, 1, k) \in Seq(S) /\ Len(SubSeq(q, 1, k)) = k
  BY <1>1, SubSeqProperties
<1>3. /\ SubSeq(q, k + 1, Len(q)) \in Seq(S) /\ Len(SubSeq(q, k + 1, Len(q))) = Len(q) - k
      /\ \A i \in 1..(Len(q) - k) : SubSeq(q, k + 1, Len(q))[i] = q[k + i]
  BY <1>1, SubSeqProperties
<1>4. SubSeq(q, 1, k) \o SubSeq(q, k + 1, Len(q)) = SubSeq(q, 1, Len(q))
  <2>1. 1 \in 1..(Len(q) + 1) /\ k \in (1 - 1)..Len(q) /\ Len(q) \in k..Len(q)
    BY <1>1
  <2> QED BY <2>1, ConcatAdjacentSubSeq
<1> QED BY <1>2, <1>3, <1>4, SubSeqFull

\* What the actions do to a queue.
LEMMA FramesOfQueue ==
  ASSUME NEW q \in Seq(Commands)
  PROVE  /\ FramesIn(q) \in Seq(Nat) /\ FramesIn(<<>>) = <<>>
         /\ \A c \in Commands :
              FramesIn(<<c>>) = IF c[1] = "data" THEN <<c[2]>> ELSE <<>>
         /\ \A c \in Commands : FramesIn(Append(q, c)) = FramesIn(q) \o FramesIn(<<c>>)
         /\ q # <<>> => FramesIn(q) = FramesIn(<<Head(q)>>) \o FramesIn(Tail(q))
         /\ \A k \in 0..Len(q) :
              FramesIn(q) = FramesIn(SubSeq(q, 1, k)) \o FramesIn(SubSeq(q, k + 1, Len(q)))
<1>1. FramesIn(q) \in Seq(Nat)
  <2>1. Len(q) \in 0..Len(q) OBVIOUS
  <2> QED BY <2>1, FramesTyped DEF FramesIn
<1>2. FramesIn(<<>>) = <<>>
  <2>1. <<>> \in Seq(Commands) /\ Len(<<>>) = 0 OBVIOUS
  <2> QED BY <2>1, FramesRecursion DEF FramesIn
<1>3. ASSUME NEW c \in Commands
      PROVE  FramesIn(<<c>>) = IF c[1] = "data" THEN <<c[2]>> ELSE <<>>
  <2> DEFINE s == <<c>>
  <2>1. s \in Seq(Commands) /\ Len(s) = 1 /\ s[1] = c
    <3> HIDE DEF Commands
    <3> QED OBVIOUS
  <2>2. Append(<<>>, c[2]) = <<c[2]>> OBVIOUS
  <2> HIDE DEF s
  <2>3. 1 \in 1..Len(s) /\ 1 - 1 = 0 BY <2>1
  <2>4. FramesUpTo(s)[1] = IF c[1] = "data" THEN Append(<<>>, c[2]) ELSE <<>>
    BY <2>1, <2>3, FramesRecursion
  <2>5. FramesIn(s) = IF c[1] = "data" THEN <<c[2]>> ELSE <<>>
    BY <2>1, <2>2, <2>4 DEF FramesIn
  <2> QED BY <2>5 DEF s
<1>4. ASSUME NEW c \in Commands PROVE FramesIn(Append(q, c)) = FramesIn(q) \o FramesIn(<<c>>)
  <2> HIDE DEF Commands
  <2>1. Append(q, c) = q \o <<c>> /\ <<c>> \in Seq(Commands) OBVIOUS
  <2> QED BY <2>1, FramesConcat
<1>5. ASSUME q # <<>> PROVE FramesIn(q) = FramesIn(<<Head(q)>>) \o FramesIn(Tail(q))
  <2> HIDE DEF Commands
  <2>1. /\ <<Head(q)>> \in Seq(Commands) /\ Tail(q) \in Seq(Commands)
        /\ q = <<Head(q)>> \o Tail(q)
    BY <1>5
  <2> QED BY <2>1, FramesConcat
<1>6. ASSUME NEW k \in 0..Len(q)
      PROVE  FramesIn(q) = FramesIn(SubSeq(q, 1, k)) \o FramesIn(SubSeq(q, k + 1, Len(q)))
  <2> HIDE DEF Commands
  <2>1. /\ SubSeq(q, 1, k) \in Seq(Commands) /\ SubSeq(q, k + 1, Len(q)) \in Seq(Commands)
        /\ q = SubSeq(q, 1, k) \o SubSeq(q, k + 1, Len(q))
    BY SplitQueue
  <2> QED BY <2>1, FramesConcat
<1> QED BY <1>1, <1>2, <1>3, <1>4, <1>5, <1>6

-----------------------------------------------------------------------------
(* The invariant.                                                          *)

PeerTypeOK ==
  /\ next \in 1..(Frames + 1) /\ acked \in 0..Len(written)
  /\ Len(written) - acked <= SctpBuffer
  /\ cmds \in Seq(Commands) /\ pending \in Seq(Nat) /\ written \in Seq(Nat)

\* Who has asked for the end sends no more, so that a closing loop has all the
\* queue ever held.
CloseIsLast ==
  /\ owner \in {"waiting", "gone"} \/ \A i \in 1..Len(cmds) : cmds[i] # Close
  /\ closing => cmds = <<>> /\ owner \in {"waiting", "gone"}
  /\ loop = "flushed" => closing /\ pending = <<>>

PeerInv == PeerTypeOK /\ FramesKeepTheirOrder /\ CloseIsLast

LEMMA PeerConstants ==
  /\ Frames \in Nat /\ Capacity \in Nat \ {0} /\ MaxDrain \in Nat \ {0}
  /\ SctpBuffer \in Nat \ {0} /\ MaxPending \in Nat \ {0}
BY PeerAssumption

LEMMA CommandsTyped ==
  /\ Close \in Commands /\ Ice \in Commands /\ Answer \in Commands
  /\ \A n \in Nat : Data(n) \in Commands
  /\ FramesIn(<<Close>>) = <<>> /\ FramesIn(<<Ice>>) = <<>> /\ FramesIn(<<Answer>>) = <<>>
  /\ \A n \in Nat : FramesIn(<<Data(n)>>) = <<n>>
  /\ Ice # Close /\ Answer # Close /\ \A n \in Nat : Data(n) # Close
<1>1. /\ Close \in Commands /\ Ice \in Commands /\ Answer \in Commands
      /\ \A n \in Nat : Data(n) \in Commands
  BY DEF Commands, Close, Ice, Answer, Data
<1>2. /\ Close[1] = "close" /\ Ice[1] = "ice" /\ Answer[1] = "answer"
      /\ \A n : Data(n)[1] = "data" /\ Data(n)[2] = n
  BY DEF Close, Ice, Answer, Data
<1>3. <<>> \in Seq(Commands) OBVIOUS
<1>4. \A c \in Commands : FramesIn(<<c>>) = IF c[1] = "data" THEN <<c[2]>> ELSE <<>>
  BY <1>3, FramesOfQueue
<1> QED BY <1>1, <1>2, <1>4

LEMMA PeerInitial == Init => PeerInv
<1> SUFFICES ASSUME Init PROVE PeerInv
  OBVIOUS
<1>1. /\ next = 1 /\ cmds = <<>> /\ pending = <<>> /\ written = <<>> /\ acked = 0
      /\ ~closing /\ loop = "running"
  BY DEF Init
<1>2. FramesIn(cmds) = <<>>
  <2>1. <<>> \in Seq(Commands) OBVIOUS
  <2> QED BY <2>1, <1>1, FramesOfQueue
<1>3. Accepted = <<>> BY <1>1 DEF Accepted
<1>4. PeerTypeOK BY <1>1, PeerConstants DEF PeerTypeOK
<1>5. FramesKeepTheirOrder BY <1>1, <1>2, <1>3 DEF FramesKeepTheirOrder
<1>6. CloseIsLast BY <1>1 DEF CloseIsLast
<1> QED BY <1>4, <1>5, <1>6 DEF PeerInv

-----------------------------------------------------------------------------
(* The owner's steps.                                                      *)

\* A command other than a frame is queued, or none.
LEMMA QueueSignal ==
  ASSUME PeerInv,
         NEW c \in {Close, Ice, Answer}, cmds' \in {cmds, Append(cmds, c)},
         UNCHANGED <<next, acked, pending, written, closing, loop>>,
         cmds' # cmds => Running /\ owner \notin {"waiting", "gone"},
         cmds' # cmds /\ c = Close => owner' \in {"waiting", "gone"},
         owner \in {"waiting", "gone"} => owner' \in {"waiting", "gone"}
  PROVE  PeerInv'
<1>1. /\ cmds \in Seq(Commands) /\ c \in Commands /\ FramesIn(<<c>>) = <<>>
      /\ FramesIn(cmds) \in Seq(Nat)
  BY CommandsTyped, FramesOfQueue DEF PeerInv, PeerTypeOK
<1>2. cmds' \in Seq(Commands) BY <1>1, AppendProperties
<1>3. FramesIn(cmds') = FramesIn(cmds)
  <2>1. FramesIn(Append(cmds, c)) = FramesIn(cmds) \o <<>>
    BY <1>1, FramesOfQueue
  <2> QED BY <1>1, <2>1, ConcatEmptySeq
<1>4. PeerTypeOK' BY <1>2 DEF PeerInv, PeerTypeOK
<1>5. FramesKeepTheirOrder' BY <1>3 DEF PeerInv, FramesKeepTheirOrder, Accepted
<1>6. CloseIsLast'
  <2>1. CASE cmds' = cmds BY <2>1 DEF PeerInv, CloseIsLast
  <2>2. CASE cmds' # cmds
    <3>1. Running /\ owner \notin {"waiting", "gone"} /\ cmds' = Append(cmds, c)
      BY <2>2
    <3>2. ~closing /\ \A i \in 1..Len(cmds) : cmds[i] # Close
      BY <3>1 DEF PeerInv, CloseIsLast
    <3>3. loop' # "flushed" BY <3>1 DEF Running
    <3>4. c # Close => \A i \in 1..Len(cmds') : cmds'[i] # Close
      <4>1. /\ Len(cmds') = Len(cmds) + 1 /\ cmds'[Len(cmds) + 1] = c /\ Len(cmds) \in Nat
            /\ \A i \in 1..Len(cmds) : cmds'[i] = cmds[i]
        BY <3>1, <1>1, AppendProperties, LenProperties
      <4>2. \A i \in 1..Len(cmds') : i \in 1..Len(cmds) \/ i = Len(cmds) + 1
        BY <4>1
      <4> QED BY <4>1, <4>2, <3>2
    <3> QED BY <3>2, <3>3, <3>4, <2>2 DEF CloseIsLast
  <2> QED BY <2>1, <2>2
<1> QED BY <1>4, <1>5, <1>6 DEF PeerInv

LEMMA SendFrameStep ==
  ASSUME PeerInv, SendFrame
  PROVE  PeerInv'
<1>1. /\ owner = "sending" /\ owner' = owner /\ next <= Frames /\ Running
      /\ cmds' = Append(cmds, Data(next)) /\ next' = next + 1
      /\ UNCHANGED <<acked, pending, written, closing, loop>>
  BY DEF SendFrame, HasRoom, loopVars
<1>2. /\ next \in Nat \ {0} /\ cmds \in Seq(Commands) /\ Data(next) \in Commands
      /\ FramesIn(<<Data(next)>>) = <<next>> /\ FramesIn(cmds) \in Seq(Nat)
      /\ pending \in Seq(Nat) /\ written \in Seq(Nat) /\ Data(next) # Close
      /\ Frames \in Nat
  <2>1. /\ cmds \in Seq(Commands) /\ pending \in Seq(Nat) /\ written \in Seq(Nat)
        /\ next \in 1..(Frames + 1)
    BY DEF PeerInv, PeerTypeOK
  <2>2. next \in Nat \ {0} BY <2>1
  <2> QED BY <2>1, <2>2, CommandsTyped, FramesOfQueue, PeerConstants
<1>3. PeerTypeOK'
  <2>1. cmds' \in Seq(Commands) BY <1>1, <1>2, AppendProperties
  <2>2. next' \in 1..(Frames + 1) BY <1>1, <1>2
  <2> QED BY <1>1, <2>1, <2>2 DEF PeerInv, PeerTypeOK
<1>4. FramesKeepTheirOrder'
  <2> DEFINE f == FramesIn(cmds)
             x == <<next>>
             w == written \o pending
  <2>1. FramesIn(cmds') = f \o x BY <1>1, <1>2, FramesOfQueue
  <2>2. Accepted' = Accepted \o x /\ Accepted \in Seq(Nat)
    <3>1. Accepted' = [i \in 1..next |-> i] /\ Accepted = [i \in 1..(next - 1) |-> i]
      BY <1>1, <1>2 DEF Accepted
    <3>2. Accepted \in Seq(Nat) /\ Len(Accepted) = next - 1 BY <3>1, <1>2
    <3>3. Accepted' \in Seq(Nat) /\ Len(Accepted') = next BY <3>1, <1>2
    <3>4. /\ Accepted \o x \in Seq(Nat) /\ Len(Accepted \o x) = next
          /\ \A i \in 1..(next - 1) : (Accepted \o x)[i] = Accepted[i]
          /\ (Accepted \o x)[next] = next
      BY <3>2, <1>2
    <3>5. \A i \in 1..next : Accepted'[i] = (Accepted \o x)[i]
      BY <3>1, <3>4, <1>2
    <3> QED BY <3>2, <3>3, <3>4, <3>5, SeqEqual
  <2>3. w \o f = Accepted
    BY DEF PeerInv, FramesKeepTheirOrder
  <2>4. x \in Seq(Nat) /\ w \in Seq(Nat) /\ f \in Seq(Nat)
    BY <1>2, ConcatProperties
  <2>5. w' = w BY <1>1
  <2> HIDE DEF f, x, w
  <2>6. w \o (f \o x) = (w \o f) \o x
    BY <2>4, ConcatAssociative
  <2>7. w' \o FramesIn(cmds') = Accepted' BY <2>1, <2>2, <2>3, <2>5, <2>6
  <2> QED BY <2>7 DEF FramesKeepTheirOrder, w
<1>5. CloseIsLast'
  <2>1. ~closing /\ \A i \in 1..Len(cmds) : cmds[i] # Close
    BY <1>1 DEF PeerInv, CloseIsLast
  <2>2. /\ Len(cmds') = Len(cmds) + 1 /\ cmds'[Len(cmds) + 1] = Data(next)
        /\ Len(cmds) \in Nat /\ \A i \in 1..Len(cmds) : cmds'[i] = cmds[i]
    BY <1>1, <1>2, AppendProperties, LenProperties
  <2>3. \A i \in 1..Len(cmds') : i \in 1..Len(cmds) \/ i = Len(cmds) + 1
    BY <2>2
  <2>4. loop' # "flushed" BY <1>1 DEF Running
  <2> QED BY <1>1, <1>2, <2>1, <2>2, <2>3, <2>4 DEF CloseIsLast
<1> QED BY <1>3, <1>4, <1>5 DEF PeerInv

LEMMA OwnerStep ==
  ASSUME PeerInv, Owner
  PROVE  PeerInv'
<1> USE DEF ownerVars, loopVars
<1>1. CASE GetAnswer
  <2>1. /\ owner = "dialing" /\ cmds' \in {cmds, Append(cmds, Answer)}
        /\ cmds' # cmds => Running
        /\ UNCHANGED <<next, acked, pending, written, closing, loop>>
    BY <1>1 DEF GetAnswer, TryOrDrop, HasRoom
  <2> QED BY <2>1, QueueSignal, CommandsTyped
<1>2. CASE GetCandidate
  <2>1. /\ owner = "dialing" /\ cmds' \in {cmds, Append(cmds, Ice)}
        /\ cmds' # cmds => Running
        /\ UNCHANGED <<next, acked, pending, written, closing, loop>>
    BY <1>2 DEF GetCandidate, TryOrDrop, HasRoom
  <2> QED BY <2>1, QueueSignal, CommandsTyped
<1>3. CASE DialTimesOut \/ HearOpen
  BY <1>3, QueueSignal DEF DialTimesOut, HearOpen
<1>4. CASE SendFrame BY <1>4, SendFrameStep
<1>5. CASE FailSending \/ HearEnd
  <2>1. /\ owner \notin {"waiting", "gone"} /\ cmds' \in {cmds, Append(cmds, Close)}
        /\ cmds' # cmds => Running /\ owner' \in {"waiting", "gone"}
        /\ UNCHANGED <<next, acked, pending, written, closing, loop>>
    BY <1>5 DEF FailSending, HearEnd, Abandon, TryClose, HasRoom
  <2> QED BY <2>1, QueueSignal
<1>6. CASE Finish
  <2>1. /\ owner \notin {"waiting", "gone"} /\ cmds' \in {cmds, Append(cmds, Close)}
        /\ cmds' # cmds => Running /\ owner' \in {"waiting", "gone"}
        /\ UNCHANGED <<next, acked, pending, written, closing, loop>>
    BY <1>6 DEF Finish, TryClose, HasRoom
  <2> QED BY <2>1, QueueSignal
<1>7. CASE FlushClose
  <2>1. /\ owner \notin {"waiting", "gone"} /\ cmds' \in {cmds, Append(cmds, Close)}
        /\ cmds' # cmds => Running /\ owner' \in {"waiting", "gone"}
        /\ UNCHANGED <<next, acked, pending, written, closing, loop>>
    BY <1>7 DEF FlushClose
  <2> QED BY <2>1, QueueSignal
<1>8. CASE WaitClosed
  <2>1. /\ owner = "waiting" /\ owner' = "gone"
        /\ UNCHANGED <<cmds, next, acked, pending, written, closing, loop>>
    BY <1>8 DEF WaitClosed
  <2>2. cmds' \in {cmds, Append(cmds, Close)} BY <2>1
  <2>3. cmds' = cmds BY <2>1
  <2>4. Close \in {Close, Ice, Answer} OBVIOUS
  <2> HIDE DEF Close
  <2> QED BY <2>1, <2>2, <2>3, <2>4, QueueSignal
<1> QED BY <1>1, <1>2, <1>3, <1>4, <1>5, <1>6, <1>7, <1>8 DEF Owner

-----------------------------------------------------------------------------
(* The loop's turns.                                                       *)

LEMMA LeastOfThree ==
  ASSUME NEW a \in Int, NEW b \in Int, NEW c \in Int
  PROVE  /\ Min({a, b, c}) \in {a, b, c}
         /\ Min({a, b, c}) <= a /\ Min({a, b, c}) <= b /\ Min({a, b, c}) <= c
<1>1. \E m \in {a, b, c} : \A y \in {a, b, c} : m <= y
  OBVIOUS
<1> QED BY <1>1 DEF Min

\* What every turn does first: frames go from the front of pending to SCTP.
LEMMA TurnMoves ==
  ASSUME PeerInv, written' = written \o SubSeq(pending, 1, Drained), acked' = acked
  PROVE  /\ written' \in Seq(Nat) /\ Left \in Seq(Nat)
         /\ written' \o Left = written \o pending
         /\ acked' \in 0..Len(written') /\ Len(written') - acked' <= SctpBuffer
<1>1. /\ pending \in Seq(Nat) /\ written \in Seq(Nat) /\ Len(pending) \in Nat
      /\ Len(written) \in Nat /\ acked \in 0..Len(written)
      /\ Len(written) - acked <= SctpBuffer
      /\ SctpBuffer \in Nat /\ MaxDrain \in Nat
  BY PeerConstants DEF PeerInv, PeerTypeOK
<1>2. /\ Drained \in 0..Len(pending)
      /\ Len(written) - acked + Drained <= SctpBuffer
  <2> DEFINE a == Len(pending)
             c == SctpBuffer - (Len(written) - acked)
             d == Min({a, MaxDrain, c})
  <2>1. a \in Nat /\ c \in Nat BY <1>1
  <2>2. d \in {a, MaxDrain, c} /\ d <= a /\ d <= c
    <3>1. a \in Int /\ MaxDrain \in Int /\ c \in Int BY <1>1, <2>1
    <3> HIDE DEF a, c
    <3> QED BY <3>1, LeastOfThree
  <2>3. Drained = IF open THEN d ELSE 0 BY DEF Drained
  <2> HIDE DEF d
  <2> QED BY <2>1, <2>2, <2>3, <1>1
<1> HIDE DEF Drained
<1> DEFINE front == SubSeq(pending, 1, Drained)
<1>3. /\ front \in Seq(Nat) /\ Left \in Seq(Nat) /\ Len(front) = Drained
      /\ pending = front \o Left
  BY <1>1, <1>2, SplitQueue DEF Left
<1> HIDE DEF front
<1>4. written' = written \o front BY DEF front
<1>5. /\ written' \in Seq(Nat) /\ Len(written') = Len(written) + Drained
  BY <1>1, <1>3, <1>4, ConcatProperties
<1>6. written' \o Left = written \o pending
  <2> DEFINE l == Left
  <2>1. l \in Seq(Nat) /\ pending = front \o l BY <1>3
  <2> HIDE DEF l
  <2>2. (written \o front) \o l = written \o (front \o l)
    <3>1. written \in Seq(Nat) /\ front \in Seq(Nat) /\ l \in Seq(Nat)
      BY <1>1, <1>3, <2>1
    <3> QED BY <3>1
  <2>3. written' \o l = written \o pending BY <2>1, <2>2, <1>4
  <2> QED BY <2>3 DEF l
<1>7. acked' \in 0..Len(written') /\ Len(written') - acked' <= SctpBuffer
  BY <1>1, <1>2, <1>5
<1> QED BY <1>3, <1>5, <1>6, <1>7

\* A turn that takes nothing of the queue.
LEMMA PlainTurn ==
  ASSUME PeerInv, written' = written \o SubSeq(pending, 1, Drained), pending' = Left,
         UNCHANGED <<next, acked, cmds, owner, closing>>,
         loop' = "flushed" => closing /\ Left = <<>>
  PROVE  PeerInv'
<1>1. /\ written' \in Seq(Nat) /\ Left \in Seq(Nat)
      /\ written' \o Left = written \o pending
      /\ acked' \in 0..Len(written') /\ Len(written') - acked' <= SctpBuffer
  BY TurnMoves
<1>2. PeerTypeOK' BY <1>1 DEF PeerInv, PeerTypeOK
<1>3. FramesKeepTheirOrder'
  BY <1>1 DEF PeerInv, FramesKeepTheirOrder, Accepted
<1>4. CloseIsLast' BY DEF PeerInv, CloseIsLast
<1> QED BY <1>2, <1>3, <1>4 DEF PeerInv

\* A turn that takes commands: the frames among them are pending, those behind
\* them stay in the queue.
LEMMA TakingTurn ==
  ASSUME PeerInv, written' = written \o SubSeq(pending, 1, Drained),
         UNCHANGED <<next, acked, owner>>, loop' = "running",
         NEW taken \in Seq(Nat), cmds' \in Seq(Commands),
         pending' = Left \o taken, taken \o FramesIn(cmds') = FramesIn(cmds),
         owner \in {"waiting", "gone"} \/ \A i \in 1..Len(cmds') : cmds'[i] # Close,
         closing' => cmds' = <<>> /\ owner \in {"waiting", "gone"}
  PROVE  PeerInv'
<1>1. /\ written' \in Seq(Nat) /\ Left \in Seq(Nat)
      /\ written' \o Left = written \o pending
      /\ acked' \in 0..Len(written') /\ Len(written') - acked' <= SctpBuffer
  BY TurnMoves
<1>2. /\ FramesIn(cmds') \in Seq(Nat) BY FramesOfQueue
<1>3. PeerTypeOK'
  <2>1. pending' \in Seq(Nat) BY <1>1, ConcatProperties
  <2> QED BY <1>1, <2>1 DEF PeerInv, PeerTypeOK
<1>4. FramesKeepTheirOrder'
  <2> DEFINE f == FramesIn(cmds')
             w == written'
             l == Left
  <2>1. w \in Seq(Nat) /\ l \in Seq(Nat) /\ f \in Seq(Nat) /\ pending' = l \o taken
        /\ taken \o f = FramesIn(cmds) /\ w \o l = written \o pending
    BY <1>1, <1>2
  <2>2. (written \o pending) \o FramesIn(cmds) = Accepted /\ Accepted' = Accepted
    BY DEF PeerInv, FramesKeepTheirOrder, Accepted
  <2> HIDE DEF f, w, l
  <2>3. Then(Then(w, Then(l, taken)), f) = Then(Then(w, l), Then(taken, f))
    BY <2>1, Regroup
  <2>4. /\ Then(l, taken) = pending' /\ Then(taken, f) = FramesIn(cmds)
        /\ Then(w, l) = Then(written, pending)
        /\ Then(Then(written, pending), FramesIn(cmds)) = Accepted'
    BY <2>1, <2>2 DEF Then
  <2>5. Then(Then(w, pending'), f) = Accepted' BY <2>3, <2>4
  <2> QED BY <2>5 DEF FramesKeepTheirOrder, f, w, Then
<1>5. CloseIsLast' BY DEF CloseIsLast
<1> QED BY <1>3, <1>4, <1>5 DEF PeerInv

LEMMA TakeCloseStep ==
  ASSUME PeerInv, TurnBegins, ~closing, TakeClose, UNCHANGED <<next, acked, owner, loop>>
  PROVE  PeerInv'
<1> DEFINE t == FramesIn(cmds)
<1>1. cmds \in Seq(Commands) /\ t \in Seq(Nat)
  BY FramesOfQueue DEF PeerInv, PeerTypeOK
<1>2. /\ written' = written \o SubSeq(pending, 1, Drained) /\ loop' = "running"
      /\ pending' = Left \o t /\ cmds' = <<>>
  BY DEF TurnBegins, TakeClose, Running
<1>3. t \o FramesIn(cmds') = t
  <2>1. FramesIn(<<>>) = <<>> BY <1>1, FramesOfQueue
  <2> QED BY <1>1, <1>2, <2>1, ConcatEmptySeq
<1>4. owner \in {"waiting", "gone"}
  <2>1. CASE cmds = <<>> BY <2>1 DEF TakeClose, Held
  <2>2. CASE cmds # <<>>
    <3>1. 1 \in 1..Len(cmds) /\ cmds[1] = Head(cmds) BY <1>1, <2>2
    <3>2. Head(cmds) = Close BY <2>2 DEF TakeClose
    <3> QED BY <3>1, <3>2 DEF PeerInv, CloseIsLast
  <2> QED BY <2>1, <2>2
<1>5. cmds' \in Seq(Commands) BY <1>2
<1> HIDE DEF t
<1> QED BY <1>1, <1>2, <1>3, <1>4, <1>5, TakingTurn DEF t

LEMMA TakeSignalStep ==
  ASSUME PeerInv, TurnBegins, ~closing, cmds # <<>>, TakeSignal,
         UNCHANGED <<next, acked, owner, loop>>
  PROVE  PeerInv'
<1> DEFINE t == <<>>
<1>1. cmds \in Seq(Commands) /\ t \in Seq(Nat)
  BY DEF PeerInv, PeerTypeOK
<1>2. /\ written' = written \o SubSeq(pending, 1, Drained) /\ loop' = "running"
      /\ pending' = Left /\ cmds' = Tail(cmds) /\ closing' = closing
  BY DEF TurnBegins, TakeSignal, Running
<1>3. /\ cmds' \in Seq(Commands)
      /\ Len(cmds') = Len(cmds) - 1 /\ Len(cmds) \in Nat
      /\ \A i \in 1..Len(cmds') : cmds'[i] = cmds[i + 1]
  BY <1>1, <1>2, HeadTailProperties, LenProperties
<1>4. t \o FramesIn(cmds') = FramesIn(cmds)
  <2>1. FramesIn(<<Head(cmds)>>) = <<>> BY CommandsTyped DEF TakeSignal
  <2>2. FramesIn(cmds) = FramesIn(<<Head(cmds)>>) \o FramesIn(Tail(cmds))
    BY <1>1, FramesOfQueue
  <2> QED BY <1>2, <2>1, <2>2
<1>5. owner \in {"waiting", "gone"} \/ \A i \in 1..Len(cmds') : cmds'[i] # Close
  <2>1. \A i \in 1..Len(cmds') : i + 1 \in 1..Len(cmds) BY <1>3
  <2> QED BY <1>3, <2>1 DEF PeerInv, CloseIsLast
<1>6. pending' = Left \o t
  <2>1. Left \in Seq(Nat) BY <1>2, TurnMoves
  <2> QED BY <1>2, <2>1, ConcatEmptySeq
<1> HIDE DEF t
<1> QED BY <1>1, <1>2, <1>3, <1>4, <1>5, <1>6, TakingTurn

LEMMA BatchInQueue ==
  ASSUME NEW rest \in Seq(Commands), NEW p
  PROVE  Batch(rest, p) \in 0..Len(rest)
<1> DEFINE S == {j \in 0..Len(rest) :
                   \A i \in 0..(j - 1) :
                     /\ Len(p) + Len(FramesIn(SubSeq(rest, 1, i))) < MaxPending
                     /\ rest[i + 1] # Close}
<1>1. Len(rest) \in Nat OBVIOUS
<1>2. 0 \in S BY <1>1
<1>3. S \in SUBSET (0..Len(rest)) /\ S # {} BY <1>2
<1>4. Batch(rest, p) = Max(S) BY DEF Batch
<1> HIDE DEF S
<1> QED BY <1>1, <1>3, <1>4, GreatestMember

LEMMA TakeDataStep ==
  ASSUME PeerInv, TurnBegins, ~closing, cmds # <<>>, TakeData,
         UNCHANGED <<next, acked, owner, loop>>
  PROVE  PeerInv'
<1> DEFINE h == Head(cmds)[2]
           rest == Tail(cmds)
           p == Append(Left, h)
           j == Batch(rest, p)
           k == IF ClosesAt(rest, p, j) THEN Len(rest) ELSE j
           front == FramesIn(SubSeq(rest, 1, k))
           back == FramesIn(SubSeq(rest, k + 1, Len(rest)))
           t == <<h>> \o front
<1>1. /\ cmds \in Seq(Commands) /\ Head(cmds) \in Commands /\ rest \in Seq(Commands)
      /\ Len(rest) = Len(cmds) - 1 /\ Len(cmds) \in Nat /\ Len(rest) \in Nat
      /\ \A i \in 1..Len(rest) : rest[i] = cmds[i + 1]
  <2>1. cmds \in Seq(Commands) BY DEF PeerInv, PeerTypeOK
  <2> QED BY <2>1, HeadTailProperties, LenProperties
<1>2. h \in Nat /\ FramesIn(<<Head(cmds)>>) = <<h>>
  <2>1. \A c \in Commands : FramesIn(<<c>>) = IF c[1] = "data" THEN <<c[2]>> ELSE <<>>
    BY <1>1, FramesOfQueue
  <2>2. Head(cmds)[1] = "data" BY DEF TakeData
  <2> QED BY <1>1, <2>1, <2>2 DEF Commands
<1>3. /\ written' = written \o SubSeq(pending, 1, Drained) /\ loop' = "running"
      /\ pending' = p \o front /\ cmds' = SubSeq(rest, k + 1, Len(rest))
      /\ closing' = ClosesAt(rest, p, j)
  BY DEF TurnBegins, TakeData, Running
<1>4. j \in 0..Len(rest) /\ k \in 0..Len(rest)
  <2>1. j \in 0..Len(rest)
    <3> HIDE DEF p, rest
    <3> QED BY <1>1, BatchInQueue
  <2> QED BY <2>1, <1>1
<1>5. Left \in Seq(Nat) BY <1>3, TurnMoves
<1> HIDE DEF h, rest, p, j, k
<1>6. /\ cmds' \in Seq(Commands) /\ front \in Seq(Nat) /\ back \in Seq(Nat)
      /\ FramesIn(rest) = front \o back
  <2>1. SubSeq(rest, 1, k) \in Seq(Commands) /\ SubSeq(rest, k + 1, Len(rest)) \in Seq(Commands)
    BY <1>1, <1>4, SplitQueue
  <2> QED BY <1>1, <1>3, <1>4, <2>1, FramesOfQueue
<1> HIDE DEF front, back
<1>7. t \in Seq(Nat)
  <2>1. <<h>> \in Seq(Nat) BY <1>2
  <2> QED BY <2>1, <1>6, ConcatProperties
<1>8. pending' = Left \o t
  <2> DEFINE x == <<h>>
             l == Left
  <2>1. x \in Seq(Nat) /\ l \in Seq(Nat) BY <1>2, <1>5
  <2>2. p = Then(l, x) BY <1>2, <1>5, AppendIsConcat DEF p, Then
  <2> HIDE DEF x, l
  <2>3. Then(Then(l, x), front) = Then(l, Then(x, front))
    BY <2>1, <1>6, ThenAssociates
  <2> QED BY <1>3, <2>2, <2>3 DEF Then, x, l
<1>9. t \o FramesIn(cmds') = FramesIn(cmds)
  <2> DEFINE x == <<h>>
  <2>1. x \in Seq(Nat) BY <1>2
  <2>2. FramesIn(cmds) = Then(x, Then(front, back))
    <3>1. FramesIn(cmds) = FramesIn(<<Head(cmds)>>) \o FramesIn(rest)
      BY <1>1, FramesOfQueue DEF rest
    <3> QED BY <3>1, <1>2, <1>6 DEF Then
  <2>3. FramesIn(cmds') = back BY <1>3 DEF back
  <2> HIDE DEF x
  <2>4. Then(Then(x, front), back) = Then(x, Then(front, back))
    BY <2>1, <1>6, ThenAssociates
  <2> QED BY <2>2, <2>3, <2>4 DEF Then, x
<1> HIDE DEF t
<1>10. owner \in {"waiting", "gone"} \/ \A i \in 1..Len(cmds') : cmds'[i] # Close
  <2>1. \A i \in 1..Len(cmds') : k + i \in 1..Len(rest) /\ cmds'[i] = rest[k + i]
    <3>1. /\ Len(cmds') = Len(rest) - k
          /\ \A i \in 1..(Len(rest) - k) : cmds'[i] = rest[k + i]
      BY <1>1, <1>3, <1>4, SplitQueue
    <3>2. \A i \in 1..(Len(rest) - k) : k + i \in 1..Len(rest) BY <1>1, <1>4
    <3> QED BY <3>1, <3>2
  <2>2. \A i \in 1..Len(rest) : i + 1 \in 1..Len(cmds) BY <1>1
  <2> QED BY <1>1, <2>1, <2>2 DEF PeerInv, CloseIsLast
<1>11. closing' => cmds' = <<>> /\ owner \in {"waiting", "gone"}
  <2> SUFFICES ASSUME closing' PROVE cmds' = <<>> /\ owner \in {"waiting", "gone"}
    OBVIOUS
  <2>1. ClosesAt(rest, p, j) BY <1>3
  <2>2. j < Len(rest) /\ rest[j + 1] = Close /\ k = Len(rest)
    BY <2>1 DEF ClosesAt, k
  <2>3. cmds' = <<>> BY <1>1, <1>3, <2>2, SubSeqEmpty
  <2>4. j + 1 \in 1..Len(rest) /\ (j + 1) + 1 \in 1..Len(cmds)
    BY <1>1, <1>4, <2>2
  <2>5. cmds[(j + 1) + 1] = Close BY <1>1, <2>2, <2>4
  <2> QED BY <2>3, <2>4, <2>5 DEF PeerInv, CloseIsLast
<1> QED BY <1>3, <1>6, <1>7, <1>8, <1>9, <1>10, <1>11, TakingTurn

LEMMA LoopStep ==
  ASSUME PeerInv, Loop
  PROVE  PeerInv'
<1>1. CASE Return
  BY <1>1, PlainTurn DEF Return, Flushed, ownerVars
<1>2. CASE TakeCommand
  <2>1. TurnBegins /\ ~closing /\ UNCHANGED <<next, acked, owner, loop>>
    BY <1>2 DEF TakeCommand, ownerVars
  <2>2. CASE TakeClose BY <2>1, <2>2, TakeCloseStep
  <2>3. CASE cmds # <<>> /\ TakeData BY <2>1, <2>3, TakeDataStep
  <2>4. CASE cmds # <<>> /\ TakeSignal BY <2>1, <2>4, TakeSignalStep
  <2> QED BY <1>2, <2>2, <2>3, <2>4 DEF TakeCommand
<1>3. CASE Idle \/ ReportOpen \/ ReportLost \/ ReportClose \/ FailSilently
  <2>1. /\ written' = written \o SubSeq(pending, 1, Drained) /\ pending' = Left
        /\ UNCHANGED <<next, acked, cmds, owner, closing>> /\ loop' # "flushed"
    BY <1>3 DEF Idle, ReportOpen, ReportLost, ReportClose, FailSilently, TurnBegins,
                Running, ownerVars
  <2> QED BY <2>1, PlainTurn
<1>4. CASE Tick
  BY <1>4 DEF Tick, ownerVars, PeerInv, PeerTypeOK, FramesKeepTheirOrder, Accepted, CloseIsLast
<1> QED BY <1>1, <1>2, <1>3, <1>4 DEF Loop

-----------------------------------------------------------------------------
(* The specification.                                                      *)

LEMMA PeerStep == PeerInv /\ [Next]_vars => PeerInv'
<1> SUFFICES ASSUME PeerInv, [Next]_vars PROVE PeerInv'
  OBVIOUS
<1>1. CASE Owner BY <1>1, OwnerStep
<1>2. CASE Loop BY <1>2, LoopStep
<1>3. CASE Network
  <2>1. /\ UNCHANGED <<owner, next, cmds, pending, written, closing, loop>>
        /\ acked' \in {acked} \union (acked + 1)..Len(written)
    BY <1>3 DEF Network, LinkComesUp, LinkBreaks, PeerAcks, ownerVars, loopVars
  <2>2. acked' \in 0..Len(written') /\ Len(written') - acked' <= SctpBuffer
    <3>1. acked \in 0..Len(written) /\ Len(written) - acked <= SctpBuffer
          /\ Len(written) \in Nat /\ SctpBuffer \in Nat
      BY PeerConstants DEF PeerInv, PeerTypeOK
    <3> QED BY <2>1, <3>1
  <2> QED BY <2>1, <2>2
          DEF PeerInv, PeerTypeOK, FramesKeepTheirOrder, Accepted, CloseIsLast
<1>4. CASE UNCHANGED vars
  BY <1>4 DEF vars, ownerVars, loopVars, PeerInv, PeerTypeOK, FramesKeepTheirOrder,
              Accepted, CloseIsLast
<1> QED BY <1>1, <1>2, <1>3, <1>4 DEF Next

\* In every reachable state the queues are sequences of their types, hold the
\* accepted frames in order, and nothing is queued behind the end of an owner.
THEOREM PeerInvariant == Spec => []PeerInv
<1>1. Spec => Init /\ [][Next]_vars BY DEF Spec
<1> QED BY <1>1, PeerInitial, PeerStep, PTL

\* Whatever the batches, a Close in the queue and a full SCTP buffer do, the
\* frames written, pending and queued are those send_frame() accepted, each
\* once and in order: event_loop.rs moves frames between the three queues and
\* drops none while it runs.
THEOREM FramesAreKept == Spec => []FramesKeepTheirOrder
<1>1. PeerInv => FramesKeepTheirOrder BY DEF PeerInv
<1> QED BY <1>1, PeerInvariant, PTL

\* A loop that returns at the end of the grace period has handed every
\* accepted frame to SCTP, the frames still queued when the Close came included.
THEOREM FlushedIsWritten == Spec => []FlushedMeansWritten
<1>1. PeerInv => FlushedMeansWritten
  <2> SUFFICES ASSUME PeerInv, loop = "flushed" PROVE written = Accepted
    BY DEF FlushedMeansWritten
  <2>1. cmds = <<>> /\ pending = <<>> /\ written \in Seq(Nat)
    BY DEF PeerInv, CloseIsLast, PeerTypeOK
  <2>2. FramesIn(<<>>) = <<>>
    <3>1. <<>> \in Seq(Commands) OBVIOUS
    <3> QED BY <3>1, FramesOfQueue
  <2>3. (written \o <<>>) \o <<>> = Accepted
    BY <2>1, <2>2 DEF PeerInv, FramesKeepTheirOrder
  <2> QED BY <2>1, <2>3, ConcatEmptySeq
<1> QED BY <1>1, PeerInvariant, PTL
=============================================================================
