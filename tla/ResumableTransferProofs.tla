----------------------- MODULE ResumableTransferProofs -----------------------
(***************************************************************************)
(* ResumableTransfer, for every window, batch and set of scenes: the       *)
(* recipient meets no gap on a channel and assembles exactly the payload;  *)
(* and where the relay keeps up with the recipient, its buffer, the resume *)
(* point and the sender's cursors stay in step.                            *)
(***************************************************************************)
EXTENDS ResumableTransfer, TLAPS

(* Pairs, differences of cursors and sequences.                            *)

LEMMA MaxPair ==
  ASSUME NEW a \in Int, NEW b \in Int
  PROVE  Max({a, b}) = IF a >= b THEN a ELSE b
<1> DEFINE m == IF a >= b THEN a ELSE b
<1>1. /\ m \in {a, b} /\ \A y \in {a, b} : m >= y
      /\ \A x \in {a, b} : (\A y \in {a, b} : x >= y) => x = m
  OBVIOUS
<1> HIDE DEF m
<1>2. Max({a, b}) \in {a, b} /\ \A y \in {a, b} : Max({a, b}) >= y
  BY <1>1 DEF Max
<1>3. Max({a, b}) = m BY <1>1, <1>2
<1> QED BY <1>3 DEF m

LEMMA MinPair ==
  ASSUME NEW a \in Int, NEW b \in Int
  PROVE  Min({a, b}) = IF a <= b THEN a ELSE b
<1> DEFINE m == IF a <= b THEN a ELSE b
<1>1. /\ m \in {a, b} /\ \A y \in {a, b} : m <= y
      /\ \A x \in {a, b} : (\A y \in {a, b} : x <= y) => x = m
  OBVIOUS
<1> HIDE DEF m
<1>2. Min({a, b}) \in {a, b} /\ \A y \in {a, b} : Min({a, b}) <= y
  BY <1>1 DEF Min
<1>3. Min({a, b}) = m BY <1>1, <1>2
<1> QED BY <1>3 DEF m

\* A u64 difference of two cursors is below the window only where it is the
\* true one.
LEMMA TrueDifference ==
  ASSUME NEW x \in Int, NEW w \in Nat, NEW t \in Nat, NEW v \in Nat,
         -t <= x, x <= t, w > 2 * (t + v)
  PROVE  /\ x % w < v => x >= 0 /\ x < v
         /\ x >= 0 => x % w = x
OBVIOUS

LEMMA SequencesOfSubset ==
  ASSUME NEW S, NEW T, NEW q \in Seq(S), S \subseteq T
  PROVE  q \in Seq(T)
OBVIOUS

LEMMA SequenceOps ==
  ASSUME NEW S, NEW q \in Seq(S)
  PROVE  /\ <<>> \in Seq(S)
         /\ q # <<>> => Head(q) \in S /\ Tail(q) \in Seq(S)
         /\ \A x \in S : Append(q, x) \in Seq(S) /\ <<x>> \in Seq(S)
         /\ \A p \in Seq(S) : q \o p \in Seq(S)
         /\ \A k \in 0..Len(q) : SubSeq(q, 1, k) \in Seq(S)
OBVIOUS

LEMMA ConcatElements ==
  ASSUME NEW S, NEW p \in Seq(S), NEW q \in Seq(S)
  PROVE  /\ Len(p) \in Nat /\ Len(q) \in Nat /\ Len(p \o q) = Len(p) + Len(q)
         /\ \A i \in 1..Len(p) : (p \o q)[i] = p[i]
         /\ \A i \in 1..Len(q) : (p \o q)[Len(p) + i] = q[i]
OBVIOUS

-----------------------------------------------------------------------------
(* Types.                                                                  *)

Frame == [type : {"metadata", "chunk", "end"}, n : Nat]
Message == [type : {"join", "ack", "request", "complete", "bye"}, n : Nat]

\* The frames and messages of a transfer of t chunks.
FrameOf(t) ==
  {f \in Frame : /\ f.n <= t
                 /\ f.type = "chunk" => f.n < t
                 /\ f.type = "end" => f.n = t}
MessageOf(t) == {m \in Message : m.n <= t /\ (m.type = "ack" => m.n < t)}

CursorsOK ==
  /\ base \in 0..Total /\ next \in 0..Total /\ expected \in 0..Total
  /\ cached \in 0..(Total - 1) /\ checkpoint \in 0..(Total - 1)

QueuesOK ==
  /\ sAcks \in Seq(0..(Total - 1)) /\ sRequests \in Seq(0..Total)
  /\ wire \in Seq(FrameOf(Total)) /\ up \in Seq(MessageOf(Total))
  /\ buf \in Seq(Nat)

TransferTypeOK ==
  /\ CursorsOK /\ QueuesOK
  /\ adapter \in BOOLEAN /\ endSent \in BOOLEAN
  /\ acked \in Int /\ acked >= -1 /\ deaths \in Nat
  /\ scene \in Scenes

-----------------------------------------------------------------------------
(* The order of the frames.                                                *)

\* Where a recipient stands at least that has taken the frame, and the frames
\* it can take at once from there (-1: no adapter yet).
Reach(f) == IF f.type = "chunk" THEN f.n + 1 ELSE f.n
Fits(f, lo) == f.type = "metadata" \/ f.n <= lo

Chain(w, lo) ==
  \A i \in 1..Len(w) : Fits(w[i], IF i = 1 THEN lo ELSE Reach(w[i - 1]))
Front(w, lo) == IF Len(w) = 0 THEN lo ELSE Reach(w[Len(w)])

LEMMA ReachIsNat == ASSUME NEW f \in Frame PROVE Reach(f) \in Nat
BY DEF Frame, Reach

LEMMA ChainTail ==
  ASSUME NEW w \in Seq(Frame), w # <<>>, NEW lo \in Int, Chain(w, lo),
         NEW hi \in Int, Reach(Head(w)) <= hi
  PROVE  /\ Chain(Tail(w), hi)
         /\ \A n \in Int : n <= Front(w, lo) => n <= Front(Tail(w), hi)
<1>1. /\ Len(w) \in Nat \ {0} /\ Len(Tail(w)) = Len(w) - 1 /\ Head(w) = w[1]
      /\ \A i \in 1..Len(Tail(w)) : Tail(w)[i] = w[i + 1]
      /\ \A i \in 1..Len(w) : w[i] \in Frame
  OBVIOUS
<1>2. \A i \in 1..Len(w) : Reach(w[i]) \in Nat /\ w[i].n \in Nat
  BY <1>1, ReachIsNat DEF Frame
<1>3. Chain(Tail(w), hi)
  BY <1>1, <1>2 DEF Chain, Fits
<1>4. \A n \in Int : n <= Front(w, lo) => n <= Front(Tail(w), hi)
  BY <1>1, <1>2 DEF Front
<1> QED BY <1>3, <1>4

LEMMA ChainPrefix ==
  ASSUME NEW w \in Seq(Frame), NEW lo, Chain(w, lo), NEW k \in 0..Len(w)
  PROVE  Chain(SubSeq(w, 1, k), lo)
<1>1. /\ Len(SubSeq(w, 1, k)) = k
      /\ \A i \in 1..k : SubSeq(w, 1, k)[i] = w[i]
  OBVIOUS
<1> QED BY <1>1 DEF Chain

LEMMA ChainConcat ==
  ASSUME NEW w \in Seq(Frame), NEW v \in Seq(Frame), NEW lo \in Int,
         Chain(w, lo), Chain(v, Front(w, lo))
  PROVE  /\ Chain(w \o v, lo)
         /\ Front(w \o v, lo) = Front(v, Front(w, lo))
<1>1. /\ Len(w) \in Nat /\ Len(v) \in Nat /\ Len(w \o v) = Len(w) + Len(v)
      /\ \A i \in 1..Len(w) : (w \o v)[i] = w[i]
      /\ \A i \in 1..Len(v) : (w \o v)[Len(w) + i] = v[i]
  OBVIOUS
<1> DEFINE u == w \o v
<1>2. ASSUME NEW i \in 1..Len(u)
      PROVE  Fits(u[i], IF i = 1 THEN lo ELSE Reach(u[i - 1]))
  <2>1. CASE i <= Len(w)
    BY <1>1, <2>1 DEF Chain
  <2>2. CASE i > Len(w)
    <3> DEFINE j == i - Len(w)
    <3>1. j \in 1..Len(v) /\ i = Len(w) + j BY <1>1, <2>2
    <3>2. Fits(v[j], IF j = 1 THEN Front(w, lo) ELSE Reach(v[j - 1]))
      BY <3>1 DEF Chain
    <3>3. u[i] = v[j] BY <1>1, <3>1
    <3>4. CASE j = 1
      BY <1>1, <3>1, <3>2, <3>3, <3>4 DEF Front
    <3>5. CASE j # 1
      <4>1. j - 1 \in 1..Len(v) /\ i - 1 = Len(w) + (j - 1) /\ i # 1
        BY <3>1, <3>5, <1>1
      <4>2. u[i - 1] = v[j - 1] BY <4>1, <1>1
      <4> QED BY <4>1, <4>2, <3>2, <3>3, <3>5
    <3> QED BY <3>4, <3>5
  <2> QED BY <2>1, <2>2, <1>1
<1>3. Chain(u, lo)
  <2> HIDE DEF u
  <2> QED BY <1>2 DEF Chain
<1>4. Front(u, lo) = Front(v, Front(w, lo))
  BY <1>1 DEF Front
<1> QED BY <1>3, <1>4

-----------------------------------------------------------------------------
(* What pump() emits.                                                      *)

NotMetadata == {f \in Frame : f.type # "metadata"}
ChunksBelow(k) == {f \in Frame : f.type = "chunk" => f.n < k}

LEMMA TotalIsPositive ==
  ASSUME scene \in Scenes
  PROVE  /\ Total \in Nat \ {0} /\ Window \in Nat \ {0} /\ WordSize \in Nat
         /\ WordSize > 2 * (Total + Window)
BY TransferAssumption DEF Total

\* The window only ever opens, also for an acknowledgement of chunks that this
\* attempt has not sent, where the u64 difference wraps.
LEMMA PumpOpens ==
  ASSUME scene \in Scenes, NEW n \in 0..Total, NEW b \in 0..Total
  PROVE  /\ PumpTo(n, b) \in n..Total
         /\ n = b /\ b < Total => PumpTo(n, b) > b
<1> DEFINE x == n - b
<1>1. /\ Total \in Nat \ {0} /\ Window \in Nat \ {0} /\ WordSize \in Nat
      /\ WordSize > 2 * (Total + Window)
  BY TotalIsPositive
<1>2. x \in Int /\ -Total <= x /\ x <= Total BY <1>1
<1>3. /\ x % WordSize < Window => x >= 0 /\ x < Window
      /\ x >= 0 => x % WordSize = x
  <2> HIDE DEF x
  <2> QED BY <1>1, <1>2, TrueDifference
<1>4. Min({Total, b + Window}) =
        IF Total <= b + Window THEN Total ELSE b + Window
  BY <1>1, MinPair
<1> QED BY <1>1, <1>3, <1>4 DEF PumpTo, InFlight

LEMMA FrameFields ==
  ASSUME scene \in Scenes
  PROVE  /\ \A k \in Nat :
              /\ Chunk(k) \in Frame /\ Chunk(k).type = "chunk" /\ Chunk(k).n = k
              /\ Reach(Chunk(k)) = k + 1
              /\ Metadata(k) \in Frame /\ Metadata(k).type = "metadata"
              /\ Metadata(k).n = k /\ Reach(Metadata(k)) = k
         /\ End \in Frame /\ End.type = "end" /\ End.n = Total
         /\ Reach(End) = Total
BY TotalIsPositive DEF Chunk, Metadata, End, Frame, Reach

\* A burst goes on from n in order and ends at m, or at the end.
LEMMA BurstInOrder ==
  ASSUME scene \in Scenes, NEW n \in 0..Total, NEW m \in n..Total,
         NEW ended \in BOOLEAN, NEW lo \in Int, n <= lo
  PROVE  /\ Burst(n, m, ended) \in Seq(FrameOf(Total))
         /\ Burst(n, m, ended) \in Seq(NotMetadata)
         /\ Burst(n, m, ended) \in Seq(ChunksBelow(m))
         /\ Chain(Burst(n, m, ended), lo)
         /\ m <= Front(Burst(n, m, ended), lo)
<1>1. Total \in Nat \ {0} BY TotalIsPositive
<1> DEFINE chunks == [i \in 1..(m - n) |-> Chunk(n + i - 1)]
           tail == IF m >= Total /\ ~ended THEN <<End>> ELSE <<>>
           q == chunks \o tail
           ends == m >= Total /\ ~ended
<1>2. /\ chunks \in Seq(Frame) /\ Len(chunks) = m - n
      /\ \A i \in 1..(m - n) : chunks[i] = Chunk(n + i - 1)
  <2>1. \A i \in 1..(m - n) : Chunk(n + i - 1) \in Frame
    BY <1>1, FrameFields
  <2> HIDE DEF Frame
  <2> QED BY <2>1, <1>1
<1>3. /\ tail \in Seq(Frame)
      /\ ends => Len(tail) = 1 /\ tail[1] = End /\ m = Total
      /\ ~ends => Len(tail) = 0
  <2>1. End \in Frame BY FrameFields
  <2> HIDE DEF Frame
  <2> QED BY <2>1, <1>1
<1>4. /\ q \in Seq(Frame) /\ Len(q) = (m - n) + Len(tail)
      /\ \A i \in 1..(m - n) : q[i] = Chunk(n + i - 1)
      /\ ends => q[m - n + 1] = End
  <2> HIDE DEF chunks, tail
  <2> QED BY <1>1, <1>2, <1>3
<1>5. \A i \in 1..Len(q) :
        \/ i <= m - n /\ q[i] = Chunk(n + i - 1)
        \/ i = m - n + 1 /\ q[i] = End /\ m = Total
  <2> HIDE DEF q
  <2> QED BY <1>1, <1>3, <1>4
<1> HIDE DEF q
<1>e. /\ \A k \in Nat : /\ Chunk(k) \in Frame /\ Chunk(k).type = "chunk"
                         /\ Chunk(k).n = k /\ Reach(Chunk(k)) = k + 1
      /\ End \in Frame /\ End.type = "end" /\ End.n = Total /\ Reach(End) = Total
  BY FrameFields
<1>f. \A i \in 1..Len(q) :
        /\ q[i] \in Frame /\ q[i].n = n + i - 1 /\ q[i].n \in n..m
        /\ \/ i <= m - n /\ q[i].type = "chunk" /\ q[i].n < m /\ Reach(q[i]) = n + i
           \/ i = m - n + 1 /\ q[i].type = "end" /\ m = Total /\ Reach(q[i]) = m
  <2> TAKE i \in 1..Len(q)
  <2>0. i \in Nat \ {0} BY <1>4
  <2>1. CASE i <= m - n /\ q[i] = Chunk(n + i - 1)
    <3>1. n + i - 1 \in Nat BY <1>1, <2>0
    <3>2. /\ q[i] \in Frame /\ q[i].type = "chunk"
          /\ q[i].n = n + i - 1 /\ Reach(q[i]) = (n + i - 1) + 1
      BY <2>1, <3>1, <1>e
    <3> QED BY <1>1, <2>0, <2>1, <3>1, <3>2
  <2>2. CASE i = m - n + 1 /\ q[i] = End /\ m = Total
    BY <1>1, <2>0, <2>2, <1>e
  <2> QED BY <1>5, <2>1, <2>2
<1>6. \A i \in 1..Len(q) : q[i] \in FrameOf(Total) \cap NotMetadata \cap ChunksBelow(m)
  BY <1>1, <1>f DEF FrameOf, NotMetadata, ChunksBelow
<1>7. /\ q \in Seq(FrameOf(Total)) /\ q \in Seq(NotMetadata)
      /\ q \in Seq(ChunksBelow(m))
  <2> HIDE DEF Frame, FrameOf, NotMetadata, ChunksBelow
  <2> QED BY <1>4, <1>6
<1>8. Chain(q, lo)
  <2>1. ASSUME NEW i \in 1..Len(q)
        PROVE  Fits(q[i], IF i = 1 THEN lo ELSE Reach(q[i - 1]))
    <3>1. q[i].n = n + i - 1 BY <1>f
    <3>2. CASE i = 1 BY <3>1, <3>2 DEF Fits
    <3>3. CASE i # 1
      <4>1. i - 1 \in 1..Len(q) /\ i - 1 <= m - n
        BY <1>1, <1>3, <1>4, <3>3
      <4>2. Reach(q[i - 1]) = n + i - 1
        BY <1>1, <1>f, <4>1
      <4> QED BY <3>1, <3>3, <4>2 DEF Fits
    <3> QED BY <3>2, <3>3
  <2> QED BY <2>1 DEF Chain
<1>9. m <= Front(q, lo)
  <2>1. CASE Len(q) = 0 BY <2>1, <1>1, <1>3, <1>4 DEF Front
  <2>2. CASE Len(q) # 0
    <3>1. Len(q) \in 1..Len(q) BY <1>1, <1>3, <1>4, <2>2
    <3>2. Reach(q[Len(q)]) = m
      BY <1>1, <1>3, <1>4, <1>f, <3>1
    <3> QED BY <1>1, <2>2, <3>2 DEF Front
  <2> QED BY <2>1, <2>2
<1> QED BY <1>7, <1>8, <1>9 DEF q, Burst

LEMMA FramesAreFrames ==
  FrameOf(Total) \subseteq Frame /\ Seq(FrameOf(Total)) \subseteq Seq(Frame)
<1>1. FrameOf(Total) \subseteq Frame BY DEF FrameOf
<1> HIDE DEF Frame
<1> QED BY <1>1

\* What the engine sends fits what it has sent, also after a rewind, which it
\* announces.
LEMMA StreamInOrder ==
  ASSUME scene \in Scenes, wire \in Seq(FrameOf(Total)),
         NEW n \in 0..Total, NEW b \in 0..Total, NEW ended \in BOOLEAN,
         NEW head \in {<<>>, <<Metadata(n)>>}, Stream(head, n, b, ended)
  PROVE  /\ base' = b /\ next' \in n..Total /\ endSent' \in BOOLEAN
         /\ wire' \in Seq(FrameOf(Total))
         /\ link # "up" => wire' = wire
         /\ \A lo \in Int :
              link = "up" /\ Chain(wire, lo) /\ (head # <<>> \/ n <= Front(wire, lo))
                => Chain(wire', lo) /\ next' <= Front(wire', lo)
         /\ head = <<>> /\ wire \in Seq(ChunksBelow(n))
              => wire' \in Seq(ChunksBelow(next'))
         /\ head = <<>> =>
              \A i \in 1..Len(wire') : wire'[i].type = "metadata" =>
                i \in 1..Len(wire) /\ wire'[i] = wire[i]
<1>1. Total \in Nat \ {0} BY TotalIsPositive
<1> DEFINE m == PumpTo(n, b)
           v == Burst(n, m, ended)
<1>2. m \in n..Total BY PumpOpens
<1>3. /\ base' = b /\ next' = m /\ endSent' = (ended \/ m >= Total)
      /\ wire' = IF link = "up" THEN wire \o head \o v ELSE wire
  BY DEF Stream
<1> HIDE DEF m
<1>4. /\ v \in Seq(FrameOf(Total)) /\ v \in Seq(NotMetadata)
      /\ v \in Seq(ChunksBelow(m))
      /\ \A lo \in Int : n <= lo => Chain(v, lo) /\ m <= Front(v, lo)
  <2>1. n \in Int /\ n <= n BY <1>1
  <2>2. \A lo \in Int : n <= lo =>
          /\ v \in Seq(FrameOf(Total)) /\ v \in Seq(NotMetadata)
          /\ v \in Seq(ChunksBelow(m)) /\ Chain(v, lo) /\ m <= Front(v, lo)
    BY <1>2, BurstInOrder
  <2> HIDE DEF v
  <2> QED BY <2>1, <2>2
<1> HIDE DEF v
<1>5. FrameOf(Total) \subseteq Frame /\ wire \in Seq(Frame) /\ v \in Seq(Frame)
  BY <1>4, FramesAreFrames
<1>6. Metadata(n) \in FrameOf(Total) /\ Metadata(n).type = "metadata"
  BY <1>1 DEF Metadata, FrameOf, Frame
<1>7. head \in Seq(FrameOf(Total)) /\ head \in Seq(Frame)
  <2> HIDE DEF FrameOf, Frame, Metadata
  <2>1. /\ <<>> \in Seq(FrameOf(Total))
        /\ <<Metadata(n)>> \in Seq(FrameOf(Total))
    BY <1>6
  <2>2. head \in Seq(FrameOf(Total)) BY <2>1
  <2> QED BY <2>2, FramesAreFrames
<1>8. wire' \in Seq(FrameOf(Total))
  <2> HIDE DEF FrameOf
  <2> QED BY <1>3, <1>4, <1>7
<1>9. ASSUME NEW lo \in Int, link = "up", Chain(wire, lo),
             head # <<>> \/ n <= Front(wire, lo)
      PROVE  Chain(wire', lo) /\ next' <= Front(wire', lo)
  <2>1. Front(wire, lo) \in Int
    BY <1>5, ReachIsNat DEF Front
  <2>2. /\ Chain(wire \o head, lo) /\ n <= Front(wire \o head, lo)
        /\ Front(wire \o head, lo) \in Int /\ wire \o head \in Seq(Frame)
    <3>1. CASE head = <<>>
      <4>1. wire \o head = wire BY <3>1, <1>5
      <4> QED BY <4>1, <3>1, <2>1, <1>5, <1>9
    <3>2. CASE head = <<Metadata(n)>>
      <4>1. Len(head) = 1 /\ head[1] = Metadata(n) BY <3>2
      <4>2. Chain(head, Front(wire, lo))
        BY <4>1, <1>6 DEF Chain, Fits
      <4>3. Front(head, Front(wire, lo)) = n
        BY <4>1 DEF Front, Reach, Metadata
      <4>4. /\ Chain(wire \o head, lo)
            /\ Front(wire \o head, lo) = Front(head, Front(wire, lo))
        BY <1>5, <1>7, <1>9, <4>2, ChainConcat
      <4>5. wire \o head \in Seq(Frame) BY <1>5, <1>7
      <4> QED BY <4>3, <4>4, <4>5, <1>1
    <3> QED BY <3>1, <3>2
  <2>3. /\ Chain(v, Front(wire \o head, lo))
        /\ m <= Front(v, Front(wire \o head, lo))
    BY <2>2, <1>4
  <2>4. /\ Chain((wire \o head) \o v, lo)
        /\ Front((wire \o head) \o v, lo) = Front(v, Front(wire \o head, lo))
    BY <2>2, <2>3, <1>5, ChainConcat
  <2> QED BY <1>3, <1>9, <2>3, <2>4
<1>10. ASSUME head = <<>>, wire \in Seq(ChunksBelow(n))
       PROVE  wire' \in Seq(ChunksBelow(next'))
  <2>1. ChunksBelow(n) \subseteq ChunksBelow(m)
    BY <1>1, <1>2 DEF ChunksBelow, Frame
  <2>2. wire \in Seq(ChunksBelow(m))
    <3> HIDE DEF ChunksBelow
    <3> QED BY <2>1, <1>10
  <2>3. wire \o head = wire BY <1>10, <1>5
  <2>4. wire' = wire \/ wire' = wire \o v
    BY <1>3, <2>3
  <2>5. wire' \in Seq(ChunksBelow(m))
    <3> HIDE DEF ChunksBelow
    <3>1. wire \o v \in Seq(ChunksBelow(m)) BY <1>4, <2>2
    <3> QED BY <3>1, <2>2, <2>4
  <2> QED BY <1>3, <2>5
<1>11. ASSUME head = <<>>, NEW i \in 1..Len(wire'), wire'[i].type = "metadata"
       PROVE  i \in 1..Len(wire) /\ wire'[i] = wire[i]
  <2>1. wire \o head = wire BY <1>11, <1>5
  <2>2. CASE wire' = wire BY <1>11, <2>2
  <2>3. CASE wire' = wire \o v
    <3>1. /\ Len(wire) \in Nat /\ Len(v) \in Nat
          /\ Len(wire \o v) = Len(wire) + Len(v)
          /\ \A j \in 1..Len(wire) : (wire \o v)[j] = wire[j]
          /\ \A j \in 1..Len(v) : (wire \o v)[Len(wire) + j] = v[j]
      BY <1>5
    <3>2. \A j \in 1..Len(v) : v[j].type # "metadata"
      BY <1>4 DEF NotMetadata
    <3>3. i \in 1..(Len(wire) + Len(v)) BY <1>11, <2>3, <3>1
    <3>4. CASE i <= Len(wire) BY <3>1, <3>3, <3>4, <2>3
    <3>5. CASE i > Len(wire)
      <4>1. i - Len(wire) \in 1..Len(v) /\ i = Len(wire) + (i - Len(wire))
        BY <3>1, <3>3, <3>5
      <4>2. wire'[i] = v[i - Len(wire)] BY <4>1, <3>1, <2>3
      <4> QED BY <4>1, <4>2, <3>2, <1>11
    <3> QED BY <3>1, <3>3, <3>4, <3>5
  <2> QED BY <2>1, <2>2, <2>3, <1>3
<1>12. endSent' \in BOOLEAN BY <1>3
<1> QED BY <1>2, <1>3, <1>8, <1>9, <1>10, <1>11, <1>12

-----------------------------------------------------------------------------
(* Types are kept.                                                         *)

LEMMA SignalsAreMessages ==
  ASSUME scene \in Scenes
  PROVE  /\ \A n \in 0..Total : Signal("request", n) \in MessageOf(Total)
         /\ \A n \in 0..(Total - 1) : Signal("ack", n) \in MessageOf(Total)
         /\ Signal("join", 0) \in MessageOf(Total)
         /\ Signal("complete", 0) \in MessageOf(Total)
         /\ Signal("bye", 0) \in MessageOf(Total)
BY TotalIsPositive DEF Signal, MessageOf, Message

LEMMA TransferTypesInitial == Init => TransferTypeOK
<1> SUFFICES ASSUME Init PROVE TransferTypeOK
  OBVIOUS
<1> USE DEF Init
<1>1. scene \in Scenes /\ Total \in Nat \ {0} BY TotalIsPositive
<1>2. CursorsOK BY <1>1 DEF CursorsOK
<1>3. up \in Seq(MessageOf(Total))
  <2>1. Signal("join", 0) \in MessageOf(Total) BY <1>1, SignalsAreMessages
  <2> HIDE DEF MessageOf, Signal
  <2> QED BY <2>1
<1>4. QueuesOK BY <1>1, <1>3 DEF QueuesOK
<1>5. acked \in Int /\ acked >= -1 /\ deaths \in Nat OBVIOUS
<1>6. adapter \in BOOLEAN /\ endSent \in BOOLEAN OBVIOUS
<1> QED BY <1>1, <1>2, <1>4, <1>5, <1>6 DEF TransferTypeOK

\* What the channel and the queues of a well-typed state are made of.
LEMMA TypeFacts ==
  ASSUME TransferTypeOK
  PROVE  /\ scene \in Scenes /\ Total \in Nat \ {0} /\ Window \in Nat \ {0}
         /\ Batch \in Nat \ {0}
         /\ \A x \in MessageOf(Total) : Append(up, x) \in Seq(MessageOf(Total))
         /\ up # <<>> => /\ Head(up) \in MessageOf(Total)
                         /\ Tail(up) \in Seq(MessageOf(Total))
         /\ wire # <<>> => /\ Head(wire) \in FrameOf(Total)
                           /\ Tail(wire) \in Seq(FrameOf(Total))
         /\ sAcks # <<>> => /\ Head(sAcks) \in 0..(Total - 1)
                            /\ Tail(sAcks) \in Seq(0..(Total - 1))
         /\ sRequests # <<>> => /\ Head(sRequests) \in 0..Total
                                /\ Tail(sRequests) \in Seq(0..Total)
<1>1. scene \in Scenes /\ QueuesOK BY DEF TransferTypeOK
<1>2. /\ Total \in Nat \ {0} /\ Window \in Nat \ {0} BY <1>1, TotalIsPositive
<1>3. Batch \in Nat \ {0} BY TransferAssumption
<1> HIDE DEF MessageOf, FrameOf
<1>4. /\ \A x \in MessageOf(Total) : Append(up, x) \in Seq(MessageOf(Total))
      /\ up # <<>> => /\ Head(up) \in MessageOf(Total)
                      /\ Tail(up) \in Seq(MessageOf(Total))
  BY <1>1 DEF QueuesOK
<1>5. wire # <<>> => /\ Head(wire) \in FrameOf(Total)
                     /\ Tail(wire) \in Seq(FrameOf(Total))
  BY <1>1 DEF QueuesOK
<1>6. sAcks # <<>> => /\ Head(sAcks) \in 0..(Total - 1)
                      /\ Tail(sAcks) \in Seq(0..(Total - 1))
  <2> DEFINE S == 0..(Total - 1)
  <2>1. sAcks \in Seq(S) BY <1>1 DEF QueuesOK
  <2> HIDE DEF S
  <2>2. sAcks # <<>> => Head(sAcks) \in S /\ Tail(sAcks) \in Seq(S) BY <2>1
  <2> QED BY <2>2 DEF S
<1>7. sRequests # <<>> => /\ Head(sRequests) \in 0..Total
                          /\ Tail(sRequests) \in Seq(0..Total)
  <2> DEFINE S == 0..Total
  <2>1. sRequests \in Seq(S) BY <1>1 DEF QueuesOK
  <2> HIDE DEF S
  <2>2. sRequests # <<>> => Head(sRequests) \in S /\ Tail(sRequests) \in Seq(S)
    BY <2>1
  <2> QED BY <2>2 DEF S
<1> QED BY <1>1, <1>2, <1>3, <1>4, <1>5, <1>6, <1>7

LEMMA TransferTypesStep == TransferTypeOK /\ [Next]_vars => TransferTypeOK'
<1> SUFFICES ASSUME TransferTypeOK, [Next]_vars PROVE TransferTypeOK'
  OBVIOUS
<1> USE DEF senderVars, engineVars, eventVars, recipientVars, channelVars,
            relayVars, boundVars
<1>s. scene' = scene /\ Total' = Total
  BY DEF Next, vars, Total
<1>t. /\ scene \in Scenes /\ Total \in Nat \ {0} /\ Window \in Nat \ {0}
      /\ Batch \in Nat \ {0} /\ CursorsOK /\ QueuesOK
      /\ adapter \in BOOLEAN /\ endSent \in BOOLEAN
      /\ acked \in Int /\ acked >= -1 /\ deaths \in Nat
  BY TypeFacts DEF TransferTypeOK
<1>p. \A k \in 0..Total : PumpTo(k, k) \in k..Total
  BY <1>t, PumpOpens
<1>u. /\ \A x \in MessageOf(Total) : Append(up, x) \in Seq(MessageOf(Total))
      /\ up # <<>> => Head(up) \in MessageOf(Total) /\ Tail(up) \in Seq(MessageOf(Total))
      /\ wire # <<>> => Head(wire) \in FrameOf(Total) /\ Tail(wire) \in Seq(FrameOf(Total))
  BY TypeFacts
<1>m. /\ \A n \in 0..Total : Signal("request", n) \in MessageOf(Total)
      /\ \A n \in 0..(Total - 1) : Signal("ack", n) \in MessageOf(Total)
      /\ Signal("join", 0) \in MessageOf(Total)
      /\ Signal("complete", 0) \in MessageOf(Total)
      /\ Signal("bye", 0) \in MessageOf(Total)
  BY <1>t, SignalsAreMessages
\* Every action keeps the scene and the kinds of the small fields.
<1>b. ASSUME CursorsOK', QueuesOK', adapter' \in BOOLEAN, endSent' \in BOOLEAN,
             acked' \in Int, acked' >= -1, deaths' \in Nat
      PROVE  TransferTypeOK'
  BY <1>b, <1>s, <1>t DEF TransferTypeOK
<1>1. CASE SenderAck
  <2> DEFINE through == Head(sAcks)
             b == Max({base, through + 1})
  <2>1. /\ through \in 0..(Total - 1) /\ Tail(sAcks) \in Seq(0..(Total - 1))
    BY <1>1, TypeFacts DEF SenderAck
  <2>2. b \in 0..Total
    BY <2>1, <1>t, MaxPair DEF CursorsOK
  <2>3. Stream(<<>>, next, b, endSent) /\ sAcks' = Tail(sAcks)
    BY <1>1 DEF SenderAck
  <2> HIDE DEF b, through
  <2>4. /\ base' = b /\ next' \in next..Total /\ endSent' \in BOOLEAN
        /\ wire' \in Seq(FrameOf(Total))
    BY <2>2, <2>3, <1>t, StreamInOrder DEF CursorsOK, QueuesOK
  <2>5. CursorsOK'
    BY <1>1, <1>s, <1>t, <2>2, <2>4 DEF SenderAck, CursorsOK
  <2>6. QueuesOK'
    BY <1>1, <1>s, <1>t, <2>1, <2>3, <2>4 DEF SenderAck, QueuesOK
  <2> QED BY <1>1, <1>b, <1>t, <2>4, <2>5, <2>6 DEF SenderAck
<1>2. CASE SenderRequest
  <2> DEFINE from == Head(sRequests)
  <2>1. from \in 0..Total /\ Tail(sRequests) \in Seq(0..Total)
    BY <1>2, TypeFacts DEF SenderRequest
  <2>2. /\ Stream(<<Metadata(from)>>, from, from, FALSE)
        /\ sRequests' = Tail(sRequests)
    BY <1>2 DEF SenderRequest, Announce
  <2> HIDE DEF from
  <2>3. /\ base' = from /\ next' \in from..Total /\ endSent' \in BOOLEAN
        /\ wire' \in Seq(FrameOf(Total))
    BY <2>1, <2>2, <1>t, StreamInOrder DEF QueuesOK
  <2>4. CursorsOK'
    BY <1>2, <1>s, <1>t, <2>1, <2>3 DEF SenderRequest, CursorsOK
  <2>5. QueuesOK'
    BY <1>2, <1>s, <1>t, <2>1, <2>2, <2>3 DEF SenderRequest, QueuesOK
  <2> QED BY <1>2, <1>b, <1>t, <2>3, <2>4, <2>5 DEF SenderRequest
<1>3. CASE \/ SenderToldComplete \/ SenderSeesPeerGone \/ SenderFlushBreaks
           \/ SenderSeesClose \/ SenderSeesError \/ RecipientSeesBreak
           \/ SenderAbandons \/ RecipientAbandons
  <2>1. UNCHANGED <<engineVars, cached, sAcks, sRequests, buf, adapter, expected,
                    acked, wire, up, checkpoint, deaths>>
        \/ UNCHANGED <<base, next, endSent, cached, sAcks, sRequests, buf, adapter,
                       expected, acked, wire, up, checkpoint, deaths>>
    BY <1>3 DEF SenderToldComplete, SenderSeesPeerGone, SenderFlushBreaks,
       SenderSeesClose, SenderSeesError, RecipientSeesBreak, SenderAbandons,
       RecipientAbandons
  <2> QED BY <2>1, <1>s, <1>t, <1>b DEF CursorsOK, QueuesOK
<1>4. CASE SenderRejoins \/ SenderWaitsInVain
  <2>1. JoinAsSender BY <1>4 DEF SenderRejoins, SenderWaitsInVain
  <2> QED
    BY <2>1, <1>s, <1>t, <1>b DEF JoinAsSender, OffsetOfJoin, CursorsOK, QueuesOK
<1>5. CASE RecipientRejoins \/ RecipientWaitsInVain \/ RecipientStarts
  <2>1. /\ up' = Append(up, Signal("join", 0))
        /\ UNCHANGED <<engineVars, cached, sAcks, sRequests, buf, adapter, expected,
                       acked, wire, checkpoint, deaths>>
    BY <1>5 DEF RecipientRejoins, RecipientWaitsInVain, RecipientStarts,
       JoinAsRecipient
  <2> QED BY <2>1, <1>s, <1>t, <1>u, <1>m, <1>b DEF CursorsOK, QueuesOK
<1>6. CASE Connect
  <2> DEFINE m == PumpTo(cached, cached)
             v == Burst(cached, m, FALSE)
  <2>1. cached \in 0..Total /\ m \in cached..Total BY <1>p, <1>t DEF CursorsOK
  <2>2. /\ base' = cached /\ next' = m /\ endSent' = (m >= Total)
        /\ wire' = <<Metadata(cached)>> \o v /\ adapter' = FALSE
        /\ UNCHANGED <<cached, sAcks, sRequests, buf, expected, acked, up,
                       checkpoint, deaths>>
    BY <1>6 DEF Connect, Announce
  <2> HIDE DEF m
  <2>3. v \in Seq(FrameOf(Total))
    <3>1. cached \in Int /\ cached <= cached BY <2>1, <1>t
    <3> QED BY <2>1, <3>1, <1>t, BurstInOrder
  <2>4. Metadata(cached) \in FrameOf(Total)
    BY <2>1, <1>t DEF Metadata, FrameOf, Frame
  <2> HIDE DEF v
  <2>5. wire' \in Seq(FrameOf(Total))
    <3> HIDE DEF FrameOf, Metadata
    <3>1. <<Metadata(cached)>> \in Seq(FrameOf(Total)) BY <2>4
    <3> QED BY <2>2, <2>3, <3>1
  <2>6. CursorsOK' BY <1>s, <1>t, <2>1, <2>2 DEF CursorsOK
  <2>7. QueuesOK' BY <1>s, <1>t, <2>2, <2>5 DEF QueuesOK
  <2>8. adapter' \in BOOLEAN /\ endSent' \in BOOLEAN
    <3>1. (m >= Total) \in BOOLEAN OBVIOUS
    <3> QED BY <2>2, <3>1
  <2> QED BY <1>b, <1>t, <2>2, <2>6, <2>7, <2>8
<1>7. CASE RecipientMetadata
  <2> DEFINE from == Head(wire).n
  <2>1. Head(wire) \in FrameOf(Total) /\ wire' \in Seq(FrameOf(Total))
    BY <1>7, <1>u DEF RecipientMetadata, Receiving, Took
  <2>2. from \in 0..Total BY <2>1, <1>t DEF FrameOf, Frame
  <2>3. /\ buf' = SubSeq(buf, 1, Min({from, Len(buf)}))
        /\ expected' = from /\ acked' = from - 1 /\ adapter' = TRUE
        /\ UNCHANGED <<engineVars, cached, sAcks, sRequests, up, checkpoint, deaths>>
    BY <1>7 DEF RecipientMetadata, Keep
  <2> HIDE DEF from
  <2>4. buf' \in Seq(Nat)
    <3>1. buf \in Seq(Nat) /\ Len(buf) \in Nat BY <1>t DEF QueuesOK
    <3>2. Min({from, Len(buf)}) \in 0..Len(buf) BY <3>1, <2>2, <1>t, MinPair
    <3>3. \A k \in 0..Len(buf) : SubSeq(buf, 1, k) \in Seq(Nat)
      BY <3>1, SequenceOps
    <3> QED BY <3>2, <3>3, <2>3
  <2>5. CursorsOK' BY <1>s, <1>t, <2>2, <2>3 DEF CursorsOK
  <2>6. QueuesOK' BY <1>s, <1>t, <2>1, <2>3, <2>4 DEF QueuesOK
  <2>7. /\ adapter' \in BOOLEAN /\ endSent' \in BOOLEAN /\ acked' \in Int
        /\ acked' >= -1 /\ deaths' \in Nat
    BY <2>2, <2>3, <1>t
  <2> QED BY <1>b, <2>5, <2>6, <2>7
<1>8. CASE RecipientChunk
  <2> DEFINE i == Head(wire).n
  <2>1. Head(wire) \in FrameOf(Total) /\ wire' \in Seq(FrameOf(Total))
    BY <1>8, <1>u DEF RecipientChunk, Receiving, Took
  <2>2. i \in 0..(Total - 1)
    BY <1>8, <2>1, <1>t DEF FrameOf, Frame, RecipientChunk
  <2>3. /\ UNCHANGED <<engineVars, cached, sAcks, sRequests, adapter, checkpoint,
                       deaths>>
        /\ \/ expected' = i + 1 /\ buf' = Append(buf, i)
           \/ UNCHANGED <<expected, buf>>
        /\ acked' = i \/ UNCHANGED acked
        /\ \/ up' = up
           \/ up' = Append(up, Signal("ack", (i + 1) - 1))
           \/ up' = Append(up, Signal("request", expected))
    BY <1>8 DEF RecipientChunk, AckThrough
  <2> HIDE DEF i
  <2>4. up' \in Seq(MessageOf(Total))
    <3>1. (i + 1) - 1 = i BY <2>2, <1>t
    <3>2. /\ Signal("ack", (i + 1) - 1) \in MessageOf(Total)
          /\ Signal("request", expected) \in MessageOf(Total)
      BY <3>1, <2>2, <1>m, <1>t DEF CursorsOK
    <3> QED BY <2>3, <3>2, <1>u, <1>t DEF QueuesOK
  <2>5. buf' \in Seq(Nat)
    <3>1. i \in Nat /\ buf \in Seq(Nat) BY <2>2, <1>t DEF QueuesOK
    <3>2. Append(buf, i) \in Seq(Nat) BY <3>1
    <3> QED BY <3>1, <3>2, <2>3
  <2>6. CursorsOK' BY <1>s, <1>t, <2>2, <2>3 DEF CursorsOK
  <2>7. QueuesOK' BY <1>s, <1>t, <2>1, <2>3, <2>4, <2>5 DEF QueuesOK
  <2>8. /\ adapter' \in BOOLEAN /\ endSent' \in BOOLEAN /\ acked' \in Int
        /\ acked' >= -1 /\ deaths' \in Nat
    BY <2>2, <2>3, <1>t
  <2> QED BY <1>b, <2>6, <2>7, <2>8
<1>9. CASE RecipientEnd
  <2>1. /\ wire' \in Seq(FrameOf(Total))
        /\ up' = up \/ up' = Append(up, Signal("request", expected))
        /\ UNCHANGED <<engineVars, cached, sAcks, sRequests, buf, adapter, expected,
                       acked, checkpoint, deaths>>
    BY <1>9, <1>u DEF RecipientEnd, Receiving, Took
  <2>2. up' \in Seq(MessageOf(Total))
    BY <2>1, <1>u, <1>m, <1>t DEF CursorsOK, QueuesOK
  <2> QED BY <2>1, <2>2, <1>s, <1>t, <1>b DEF CursorsOK, QueuesOK
<1>10. CASE RecipientTicks
  <2>1. /\ UNCHANGED <<engineVars, cached, sAcks, sRequests, buf, adapter, expected,
                       wire, checkpoint, deaths>>
        /\ \/ /\ expected - 1 > acked /\ acked' = expected - 1
              /\ up' = Append(up, Signal("ack", expected - 1))
           \/ acked' = acked /\ up' = Append(up, Signal("request", expected))
    BY <1>10 DEF RecipientTicks, AckThrough
  <2>2. up' \in Seq(MessageOf(Total)) /\ acked' \in Int /\ acked' >= -1
    <3>1. Signal("request", expected) \in MessageOf(Total)
      BY <1>m, <1>t DEF CursorsOK
    <3>2. ASSUME expected - 1 > acked
          PROVE  Signal("ack", expected - 1) \in MessageOf(Total)
      BY <3>2, <1>m, <1>t DEF CursorsOK
    <3> QED BY <2>1, <3>1, <3>2, <1>u, <1>t DEF CursorsOK
  <2> QED BY <2>1, <2>2, <1>s, <1>t, <1>b DEF CursorsOK, QueuesOK
<1>11. CASE RecipientReports
  <2>1. /\ up' = up \o <<Signal("complete", 0), Signal("bye", 0)>>
        /\ UNCHANGED <<engineVars, cached, sAcks, sRequests, buf, adapter, expected,
                       acked, wire, checkpoint, deaths>>
    BY <1>11 DEF RecipientReports
  <2>2. up' \in Seq(MessageOf(Total))
    <3> HIDE DEF MessageOf, Signal
    <3>1. <<Signal("complete", 0), Signal("bye", 0)>> \in Seq(MessageOf(Total))
      BY <1>m
    <3> QED BY <2>1, <3>1, <1>t DEF QueuesOK
  <2> QED BY <2>1, <2>2, <1>s, <1>t, <1>b DEF CursorsOK, QueuesOK
<1>12. CASE RelayHandles
  <2> DEFINE msg == Head(up)
  <2>1. /\ msg \in MessageOf(Total) /\ up' \in Seq(MessageOf(Total))
    BY <1>12, <1>u DEF RelayHandles
  <2>2. /\ msg.n \in 0..Total /\ (msg.type = "ack" => msg.n \in 0..(Total - 1))
    BY <2>1, <1>t DEF MessageOf, Message
  <2>3. /\ UNCHANGED <<engineVars, cached, buf, adapter, expected, acked, wire, deaths>>
        /\ \/ /\ msg.type = "ack" /\ checkpoint' = Max({checkpoint, msg.n})
              /\ sAcks' = Append(sAcks, msg.n) /\ sRequests' = sRequests
           \/ /\ sRequests' = Append(sRequests, msg.n)
              /\ UNCHANGED <<sAcks, checkpoint>>
           \/ /\ checkpoint' \in {checkpoint, 0}
              /\ UNCHANGED <<sAcks, sRequests>>
    BY <1>12 DEF RelayHandles
  <2> HIDE DEF msg
  <2>4. checkpoint' \in 0..(Total - 1)
    BY <2>2, <2>3, <1>t, MaxPair DEF CursorsOK
  <2>5. sAcks' \in Seq(0..(Total - 1)) /\ sRequests' \in Seq(0..Total)
    <3>1. /\ \A x \in 0..(Total - 1) : Append(sAcks, x) \in Seq(0..(Total - 1))
          /\ \A x \in 0..Total : Append(sRequests, x) \in Seq(0..Total)
      BY <1>t DEF QueuesOK
    <3> QED BY <2>2, <2>3, <3>1, <1>t DEF QueuesOK
  <2> QED BY <2>1, <2>3, <2>4, <2>5, <1>s, <1>t, <1>b DEF CursorsOK, QueuesOK
<1>13. CASE ChannelLost
  <2>1. PICK k \in 0..Len(wire) : wire' = SubSeq(wire, 1, k)
    BY <1>13 DEF ChannelLost
  <2>2. wire' \in Seq(FrameOf(Total))
    <3> HIDE DEF FrameOf
    <3> QED BY <2>1, <1>t DEF QueuesOK
  <2>3. UNCHANGED <<engineVars, cached, sAcks, sRequests, buf, adapter, expected,
                    acked, up, checkpoint, deaths>>
    BY <1>13 DEF ChannelLost
  <2> QED BY <2>2, <2>3, <1>s, <1>t, <1>b DEF CursorsOK, QueuesOK
<1>14. CASE RecipientDies
  <2>1. /\ buf' = <<>> /\ adapter' = FALSE /\ expected' = 0 /\ acked' = -1
        /\ wire' = <<>> /\ up' = Append(up, Signal("bye", 0)) /\ deaths' = deaths + 1
        /\ UNCHANGED <<engineVars, cached, sAcks, sRequests, checkpoint>>
    BY <1>14 DEF RecipientDies
  <2>2. CursorsOK' BY <2>1, <1>s, <1>t DEF CursorsOK
  <2>3. QueuesOK' BY <2>1, <1>s, <1>t, <1>u, <1>m DEF QueuesOK
  <2>4. adapter' \in BOOLEAN /\ endSent' \in BOOLEAN BY <2>1, <1>t
  <2>5. acked' \in Int /\ acked' >= -1 /\ deaths' \in Nat BY <2>1, <1>t
  <2> QED BY <2>2, <2>3, <2>4, <2>5, <1>b
<1>15. CASE UNCHANGED vars
  BY <1>15, <1>s, <1>t, <1>b DEF vars, transferVars, CursorsOK, QueuesOK
<1> QED
  BY <1>1, <1>2, <1>3, <1>4, <1>5, <1>6, <1>7, <1>8, <1>9, <1>10, <1>11, <1>12,
     <1>13, <1>14, <1>15 DEF Next, Step

-----------------------------------------------------------------------------
(* No gap on a channel.                                                    *)

Seen == IF adapter THEN expected ELSE -1

\* Every frame on a channel fits the one before it, the first fits the
\* recipient, and what the sender sends next fits the last.
Ordered ==
  /\ link = "up" => /\ sst = "sending" /\ rst = "receiving"
                    /\ next <= Front(wire, Seen)
  /\ rst = "receiving" => Chain(wire, Seen)

LEMMA ArrivesInOrder ==
  ASSUME TransferTypeOK, Ordered, rst = "receiving", wire # <<>>
  PROVE  LET f == Head(wire)
         IN  /\ f \in Frame /\ f.n \in 0..Total
             /\ \/ f.type = "metadata"
                \/ f.type = "chunk" /\ adapter /\ f.n <= expected
                \/ f.type = "end" /\ adapter /\ expected = Total
<1> DEFINE f == Head(wire)
<1>1. /\ Total \in Nat \ {0} /\ expected \in 0..Total /\ f \in FrameOf(Total)
  BY TypeFacts DEF TransferTypeOK, CursorsOK
<1>2. wire \in Seq(Frame)
  BY FramesAreFrames DEF TransferTypeOK, QueuesOK
<1>3. f = wire[1] /\ 1 \in 1..Len(wire)
  <2> HIDE DEF Frame
  <2> QED BY <1>2
<1> HIDE DEF f
<1>4. Fits(f, Seen) BY <1>3 DEF Ordered, Chain
<1>5. f \in Frame /\ f.n \in 0..Total /\ (f.type = "end" => f.n = Total)
      /\ f.type \in {"metadata", "chunk", "end"}
  BY <1>1 DEF FrameOf, Frame
<1>6. CASE f.type = "metadata" BY <1>5, <1>6 DEF f
<1>7. CASE f.type # "metadata"
  <2>1. f.n <= Seen BY <1>4, <1>7 DEF Fits
  <2>2. adapter /\ f.n <= expected BY <2>1, <1>1, <1>5 DEF Seen
  <2> QED BY <2>2, <1>1, <1>5, <1>7 DEF f
<1> QED BY <1>6, <1>7

LEMMA OrderedInitial == Init => Ordered
BY DEF Init, Ordered

LEMMA OrderedStep ==
  TransferTypeOK /\ Ordered /\ [Next]_vars => Ordered'
<1> SUFFICES ASSUME TransferTypeOK, Ordered, [Next]_vars PROVE Ordered'
  OBVIOUS
<1> USE DEF senderVars, engineVars, eventVars, recipientVars, channelVars,
            relayVars, boundVars
<1>t. /\ scene \in Scenes /\ Total \in Nat \ {0} /\ CursorsOK
      /\ adapter \in BOOLEAN /\ endSent \in BOOLEAN
      /\ wire \in Seq(FrameOf(Total)) /\ wire \in Seq(Frame)
  BY TypeFacts, FramesAreFrames DEF TransferTypeOK, QueuesOK
<1>i. Seen \in Int BY <1>t DEF Seen, CursorsOK
\* What a step must keep that leaves wire and the recipient's place alone.
<1>q. ASSUME UNCHANGED <<next, adapter, expected, wire>>,
             link' = "up" => link = "up" /\ sst' = sst /\ rst' = rst,
             rst' = "receiving" => rst = "receiving"
      PROVE  Ordered'
  <2>1. Seen' = Seen BY <1>q DEF Seen
  <2> QED BY <1>q, <2>1 DEF Ordered
<1>1. CASE SenderAck
  <2> DEFINE b == Max({base, Head(sAcks) + 1})
  <2>1. Head(sAcks) \in 0..(Total - 1) BY <1>1, TypeFacts DEF SenderAck
  <2>2. b \in 0..Total BY <2>1, <1>t, MaxPair DEF CursorsOK
  <2>3. /\ Stream(<<>>, next, b, endSent)
        /\ link' = "up" => link = "up" /\ sst' = sst
        /\ UNCHANGED <<rst, adapter, expected>> /\ Seen' = Seen
    BY <1>1 DEF SenderAck, Leave, Seen
  <2> HIDE DEF b
  <2>4. next \in 0..Total BY <1>t DEF CursorsOK
  <2>5. /\ link # "up" => wire' = wire
        /\ link = "up" /\ Chain(wire, Seen) /\ next <= Front(wire, Seen)
             => Chain(wire', Seen) /\ next' <= Front(wire', Seen)
    BY <2>2, <2>3, <2>4, <1>t, <1>i, StreamInOrder
  <2> QED BY <2>3, <2>5 DEF Ordered
<1>2. CASE SenderRequest
  <2> DEFINE from == Head(sRequests)
  <2>1. from \in 0..Total BY <1>2, TypeFacts DEF SenderRequest
  <2>2. /\ Stream(<<Metadata(from)>>, from, from, FALSE)
        /\ UNCHANGED <<sst, link, rst, adapter, expected>> /\ Seen' = Seen
    BY <1>2 DEF SenderRequest, Announce, Seen
  <2> HIDE DEF from
  <2>3. <<Metadata(from)>> # <<>> /\ FALSE \in BOOLEAN OBVIOUS
  <2>4. /\ link # "up" => wire' = wire
        /\ link = "up" /\ Chain(wire, Seen)
             => Chain(wire', Seen) /\ next' <= Front(wire', Seen)
    BY <2>1, <2>2, <2>3, <1>t, <1>i, StreamInOrder
  <2> QED BY <2>2, <2>4 DEF Ordered
<1>3. CASE SenderToldComplete \/ SenderSeesPeerGone \/ SenderFlushBreaks
  BY <1>3, <1>q
  DEF SenderToldComplete, SenderSeesPeerGone, SenderFlushBreaks, Leave
<1>4. CASE SenderSeesClose \/ SenderSeesError \/ RecipientSeesBreak
  BY <1>4, <1>q DEF SenderSeesClose, SenderSeesError, RecipientSeesBreak
<1>5. CASE SenderAbandons \/ RecipientAbandons
  BY <1>5, <1>q DEF SenderAbandons, RecipientAbandons, Ordered
<1>6. CASE SenderRejoins \/ SenderWaitsInVain
  BY <1>6, <1>q DEF SenderRejoins, SenderWaitsInVain, JoinAsSender, Ordered
<1>7. CASE RecipientRejoins \/ RecipientWaitsInVain \/ RecipientStarts
  BY <1>7, <1>q
  DEF RecipientRejoins, RecipientWaitsInVain, RecipientStarts, JoinAsRecipient,
      Ordered
<1>8. CASE Connect
  <2> DEFINE m == PumpTo(cached, cached)
             v == Burst(cached, m, FALSE)
             h == <<Metadata(cached)>>
  <2>1. cached \in 0..Total BY <1>t DEF CursorsOK
  <2>2. m \in cached..Total BY <2>1, <1>t, PumpOpens
  <2>3. /\ next' = m /\ wire' = h \o v /\ adapter' = FALSE
        /\ sst' = "sending" /\ rst' = "receiving"
    BY <1>8 DEF Connect, Announce
  <2> HIDE DEF m
  <2>4. /\ v \in Seq(FrameOf(Total)) /\ Chain(v, cached) /\ m <= Front(v, cached)
    <3>1. cached \in Int /\ cached <= cached /\ FALSE \in BOOLEAN BY <2>1, <1>t
    <3> QED BY <2>1, <2>2, <3>1, <1>t, BurstInOrder
  <2> HIDE DEF v
  <2>5. /\ h \in Seq(Frame) /\ Chain(h, -1) /\ Front(h, -1) = cached
    <3>1. Metadata(cached) \in Frame /\ Metadata(cached).type = "metadata"
          /\ Reach(Metadata(cached)) = cached
      BY <2>1, <1>t DEF Metadata, Frame, Reach
    <3> HIDE DEF Frame, Metadata
    <3>2. Len(h) = 1 /\ h[1] = Metadata(cached) /\ h \in Seq(Frame) BY <3>1
    <3> QED BY <3>1, <3>2 DEF Chain, Fits, Front
  <2> HIDE DEF h
  <2>6. v \in Seq(Frame) BY <2>4, FramesAreFrames
  <2>7. -1 \in Int OBVIOUS
  <2>8. Chain(h \o v, -1) /\ Front(h \o v, -1) = Front(v, cached)
    BY <2>4, <2>5, <2>6, <2>7, ChainConcat
  <2>9. Seen' = -1 BY <2>3 DEF Seen
  <2> QED BY <2>3, <2>4, <2>8, <2>9 DEF Ordered
\* What a step must do that takes the first frame off the channel.
<1>w. ASSUME rst = "receiving", wire # <<>>, wire' = Tail(wire),
             UNCHANGED <<sst, rst, link, next>>, Seen' \in Int,
             Reach(Head(wire)) <= Seen'
      PROVE  Ordered'
  <2>1. Chain(wire, Seen) BY <1>w DEF Ordered
  <2>2. /\ Chain(Tail(wire), Seen')
        /\ \A n \in Int : n <= Front(wire, Seen) => n <= Front(Tail(wire), Seen')
    BY <1>w, <1>t, <1>i, <2>1, ChainTail
  <2>3. next \in Int BY <1>t DEF CursorsOK
  <2> QED BY <1>w, <2>2, <2>3 DEF Ordered
<1>9. CASE RecipientMetadata
  <2>1. /\ rst = "receiving" /\ wire # <<>> /\ wire' = Tail(wire)
        /\ Head(wire).type = "metadata"
        /\ UNCHANGED <<sst, rst, link, next>>
        /\ adapter' = TRUE /\ expected' = Head(wire).n
    BY <1>9 DEF RecipientMetadata, Receiving, Took
  <2>2. Head(wire).n \in 0..Total
    BY <2>1, ArrivesInOrder
  <2>3. Reach(Head(wire)) = Head(wire).n BY <2>1 DEF Reach
  <2>4. Seen' = Head(wire).n BY <2>1 DEF Seen
  <2> QED BY <2>1, <2>2, <2>3, <2>4, <1>t, <1>w
<1>10. CASE RecipientChunk
  <2> DEFINE i == Head(wire).n
  <2>1. /\ rst = "receiving" /\ wire # <<>> /\ wire' = Tail(wire)
        /\ Head(wire).type = "chunk" /\ adapter
        /\ UNCHANGED <<sst, rst, link, next, adapter>>
        /\ \/ i = expected /\ expected' = i + 1
           \/ i < expected /\ expected' = expected
           \/ i > expected
    BY <1>10 DEF RecipientChunk, Receiving, Took
  <2>2. i \in 0..Total /\ i <= expected /\ expected \in 0..Total
    BY <2>1, <1>t, ArrivesInOrder DEF CursorsOK
  <2>3. Reach(Head(wire)) = i + 1 BY <2>1 DEF Reach
  <2>4. Seen' = expected' BY <2>1 DEF Seen
  <2> HIDE DEF i
  <2>5. expected' \in Int /\ i + 1 <= expected' BY <2>1, <2>2, <1>t
  <2> QED BY <2>1, <2>3, <2>4, <2>5, <1>w
<1>11. CASE RecipientEnd
  <2>1. /\ rst = "receiving" /\ wire # <<>> /\ Head(wire).type = "end"
        /\ \/ expected = Total /\ rst' \in {"assembled", "retry"}
              /\ link' = IF link = "up" THEN "closed" ELSE link
           \/ expected # Total
    BY <1>11 DEF RecipientEnd, Receiving
  <2>2. expected = Total BY <2>1, ArrivesInOrder
  <2> QED BY <2>1, <2>2 DEF Ordered
<1>12. CASE RecipientTicks \/ RelayHandles
  BY <1>12, <1>q DEF RecipientTicks, RelayHandles
<1>13. CASE RecipientReports
  BY <1>13, <1>q DEF RecipientReports, Ordered
<1>14. CASE ChannelLost
  <2>1. PICK k \in 0..Len(wire) : wire' = SubSeq(wire, 1, k)
    BY <1>14 DEF ChannelLost
  <2>2. /\ link = "up" /\ link' = "lost"
        /\ UNCHANGED <<rst, adapter, expected>> /\ Seen' = Seen
    BY <1>14 DEF ChannelLost, Seen
  <2>3. Chain(wire, Seen) BY <2>2 DEF Ordered
  <2>4. Chain(wire', Seen) BY <2>1, <2>3, <1>t, ChainPrefix
  <2> QED BY <2>2, <2>4 DEF Ordered
<1>15. CASE RecipientDies
  BY <1>15 DEF RecipientDies, Ordered
<1>16. CASE UNCHANGED vars
  BY <1>16, <1>q DEF vars, transferVars
<1> QED
  BY <1>1, <1>2, <1>3, <1>4, <1>5, <1>6, <1>7, <1>8, <1>9, <1>10, <1>11, <1>12,
     <1>13, <1>14, <1>15, <1>16 DEF Next, Step

\* The frames of a channel are in order and fit where the recipient stands.
THEOREM ChannelIsOrdered == Spec => [](TransferTypeOK /\ Ordered)
<1>1. Init => TransferTypeOK /\ Ordered
  BY TransferTypesInitial, OrderedInitial
<1>2. TransferTypeOK /\ Ordered /\ [Next]_vars => (TransferTypeOK /\ Ordered)'
  BY TransferTypesStep, OrderedStep
<1> QED BY <1>1, <1>2, PTL DEF Spec

\* The recipient meets no gap on one channel, whatever was lost, acknowledged
\* late, asked for again or resumed (SenderEngine, ReceiverEngine).
THEOREM NoGapOnAChannel == Spec => []InOrderArrival
<1>1. ASSUME TransferTypeOK, Ordered PROVE InOrderArrival
  BY <1>1, ArrivesInOrder DEF InOrderArrival
<1> QED BY <1>1, ChannelIsOrdered, PTL

\* What assembled the payload holds all of it and nothing else.
THEOREM AssembledIsIntact == Spec => []IntactOnSuccess
<1> USE DEF senderVars, engineVars, eventVars, recipientVars, channelVars,
            relayVars, boundVars
<1>1. Init => IntactOnSuccess
  BY DEF Init, IntactOnSuccess
<1>2. ASSUME IntactOnSuccess, [Next]_vars PROVE IntactOnSuccess'
  <2>s. Total' = Total BY <1>2 DEF Next, vars, Total
  <2>1. CASE RecipientEnd
    BY <1>2, <2>1, <2>s DEF RecipientEnd, Receiving, Verified, Intact, IntactOnSuccess
  <2>2. CASE RecipientReports
    BY <1>2, <2>2, <2>s DEF RecipientReports, Intact, IntactOnSuccess
  <2>3. ASSUME Next, ~RecipientEnd, ~RecipientReports
        PROVE  \/ rst' \notin {"assembled", "done"}
               \/ UNCHANGED <<rst, buf>>
    BY <2>3 DEF Next, Step, SenderAck, SenderRequest, SenderToldComplete,
       SenderSeesPeerGone, SenderFlushBreaks, SenderSeesClose, SenderSeesError,
       SenderRejoins, SenderWaitsInVain, JoinAsSender, RecipientRejoins,
       RecipientWaitsInVain, JoinAsRecipient, Connect, RecipientMetadata,
       RecipientChunk, Receiving, RecipientTicks, RecipientSeesBreak,
       RelayHandles, ChannelLost, RecipientDies, RecipientStarts,
       SenderAbandons, RecipientAbandons
  <2>4. CASE UNCHANGED vars
    BY <1>2, <2>4, <2>s DEF vars, transferVars, Intact, IntactOnSuccess
  <2>5. CASE Next /\ ~RecipientEnd /\ ~RecipientReports
    BY <1>2, <2>3, <2>5, <2>s DEF Intact, IntactOnSuccess
  <2> QED BY <1>2, <2>1, <2>2, <2>4, <2>5
<1> QED BY <1>1, <1>2, PTL DEF Spec

-----------------------------------------------------------------------------
(* In step: with a relay that keeps up, no ticks and no deaths.            *)

Without(kind) == {m \in Message : m.type # kind}
AcksBelow(k) == {m \in Message : m.type = "ack" => m.n < k}

\* Nobody asks for a resend, and only a recipient that has ended says bye.
NoGap ==
  /\ sRequests = <<>> /\ up \in Seq(Without("request"))
  /\ rst # "dead"
  /\ RecipientRuns => up \in Seq(Without("bye"))

\* The buffer and what is to come on the channel: one metadata frame, the
\* first, which announces the relay's checkpoint.
Aligned ==
  /\ \A i \in 1..Len(buf) : buf[i] = i - 1
  /\ rst = "receiving" =>
       /\ sst \notin {"first", "waiting"}
       /\ adapter => expected = Len(buf)
       /\ ~adapter => up \in Seq(Without("ack"))
       /\ \A i \in 1..Len(wire) : wire[i].type = "metadata" =>
            i = 1 /\ ~adapter /\ wire[i].n = checkpoint

\* What was acknowledged is held, and what was cached was acknowledged.
Held ==
  RecipientRuns =>
    /\ checkpoint <= Len(buf)
    /\ up \in Seq(AcksBelow(Len(buf)))
    /\ sAcks \in Seq(0..checkpoint)
    /\ sst \in {"first", "waiting"} =>
         cached = checkpoint /\ up \in Seq(Without("ack"))

\* What a sending sender hears of, it has sent.
Sent ==
  sst = "sending" =>
    /\ base <= next
    /\ sAcks \in Seq(0..(next - 1)) /\ up \in Seq(AcksBelow(next))
    /\ rst = "receiving" => wire \in Seq(ChunksBelow(next))

InStep == NoGap /\ Aligned /\ Held /\ Sent
TransferInv == TransferTypeOK /\ Ordered /\ (Steady => InStep)

LEMMA InStepInitial == Init => InStep
<1> SUFFICES ASSUME Init PROVE InStep
  OBVIOUS
<1>1. /\ up = <<Signal("join", 0)>> /\ buf = <<>> /\ sAcks = <<>> /\ sRequests = <<>>
      /\ rst = "first" /\ sst = "first" /\ cached = 0 /\ checkpoint = 0
  BY DEF Init
<1>2. /\ Signal("join", 0) \in Without("request")
      /\ Signal("join", 0) \in Without("bye") /\ Signal("join", 0) \in Without("ack")
      /\ Signal("join", 0) \in AcksBelow(0)
  BY DEF Signal, Without, Message, AcksBelow
<1>3. /\ up \in Seq(Without("request")) /\ up \in Seq(Without("bye"))
      /\ up \in Seq(Without("ack")) /\ up \in Seq(AcksBelow(0))
  <2> HIDE DEF Signal, Without, AcksBelow
  <2> QED BY <1>1, <1>2
<1>4. Len(buf) = 0 /\ sAcks \in Seq(0..checkpoint) BY <1>1
<1> QED BY <1>1, <1>3, <1>4 DEF InStep, NoGap, Aligned, Held, Sent

LEMMA MessageKinds ==
  ASSUME NEW m \in Message, NEW j, NEW k \in Int
  PROVE  /\ m.type # j => m \in Without(j)
         /\ m \in Without(j) => m.type # j
         /\ m.type # "ack" => m \in AcksBelow(k)
         /\ m.type = "ack" /\ m.n < k => m \in AcksBelow(k)
         /\ m \in AcksBelow(k) /\ m.type = "ack" => m.n < k
BY DEF Without, AcksBelow

LEMMA BoundsGrow ==
  ASSUME NEW k \in Int, NEW l \in Int, k <= l
  PROVE  /\ 0..(k - 1) \subseteq 0..(l - 1) /\ 0..k \subseteq 0..l
         /\ AcksBelow(k) \subseteq AcksBelow(l)
         /\ Without("ack") \subseteq AcksBelow(k)
         /\ ChunksBelow(k) \subseteq ChunksBelow(l)
<1>1. 0..(k - 1) \subseteq 0..(l - 1) /\ 0..k \subseteq 0..l OBVIOUS
<1>2. AcksBelow(k) \subseteq AcksBelow(l) BY DEF AcksBelow, Message
<1>3. Without("ack") \subseteq AcksBelow(k) BY DEF Without, AcksBelow
<1>4. ChunksBelow(k) \subseteq ChunksBelow(l) BY DEF ChunksBelow, Frame
<1> QED BY <1>1, <1>2, <1>3, <1>4

\* Steps that only move the loops on towards a retry or an end.
LEMMA QuietStep ==
  ASSUME InStep,
         UNCHANGED <<base, next, cached, sAcks, sRequests, buf, adapter, expected,
                     wire, up, checkpoint>>,
         sst' \in {sst, "done", "retry", "failed"},
         rst' \in {rst, "retry", "failed"}, RecipientRuns' => RecipientRuns
  PROVE  InStep'
<1>1. NoGap' BY DEF InStep, NoGap
<1>2. Aligned' BY DEF InStep, Aligned
<1>3. Held' BY DEF InStep, Held
<1>4. Sent' BY DEF InStep, Sent
<1> QED BY <1>1, <1>2, <1>3, <1>4 DEF InStep

\* The sender's acknowledgement, cumulative and of what it sent.
LEMMA SenderAckInStep ==
  ASSUME TransferTypeOK, InStep, SenderAck
  PROVE  InStep'
<1> USE DEF senderVars, engineVars, eventVars, recipientVars, channelVars,
            relayVars, boundVars
<1> DEFINE through == Head(sAcks)
           b == Max({base, through + 1})
<1>t. /\ scene \in Scenes /\ Total \in Nat \ {0} /\ base \in 0..Total
      /\ next \in 0..Total /\ endSent \in BOOLEAN /\ wire \in Seq(FrameOf(Total))
      /\ checkpoint \in Nat
  BY TypeFacts DEF TransferTypeOK, CursorsOK, QueuesOK
<1>1. /\ sst = "sending" /\ sAcks # <<>> /\ sAcks' = Tail(sAcks)
      /\ Stream(<<>>, next, b, endSent) /\ sst' \in {"sending", "done"}
      /\ UNCHANGED <<sRequests, rst, buf, adapter, expected, cached, up, checkpoint>>
  BY DEF SenderAck, Leave
<1>2. /\ base <= next /\ sAcks \in Seq(0..(next - 1)) /\ up \in Seq(AcksBelow(next))
      /\ rst = "receiving" => wire \in Seq(ChunksBelow(next))
  BY <1>1 DEF InStep, Sent
<1>3. through \in 0..(next - 1) /\ Tail(sAcks) \in Seq(0..(next - 1))
  <2> DEFINE S == 0..(next - 1)
  <2>1. sAcks \in Seq(S) BY <1>2
  <2> HIDE DEF S
  <2>2. Head(sAcks) \in S /\ Tail(sAcks) \in Seq(S) BY <1>1, <2>1
  <2> QED BY <2>2 DEF S
<1>4. b \in 0..Total /\ b <= next
  <2> HIDE DEF through
  <2>1. through + 1 \in Int /\ base \in Int /\ through + 1 <= next /\ through + 1 >= 0
    BY <1>3, <1>t
  <2>2. b = IF base >= through + 1 THEN base ELSE through + 1
    BY <2>1, MaxPair
  <2> HIDE DEF b
  <2> QED BY <2>1, <2>2, <1>2, <1>t
<1> HIDE DEF b, through
<1>5. /\ base' = b /\ next' \in next..Total
      /\ wire \in Seq(ChunksBelow(next)) => wire' \in Seq(ChunksBelow(next'))
      /\ \A i \in 1..Len(wire') : wire'[i].type = "metadata" =>
           i \in 1..Len(wire) /\ wire'[i] = wire[i]
  <2> DEFINE h == <<>>
  <2>1. h \in {<<>>, <<Metadata(next)>>} /\ h = <<>> OBVIOUS
  <2>2. Stream(h, next, b, endSent) BY <1>1
  <2> HIDE DEF h
  <2>3. base' = b /\ next' \in next..Total
    BY <2>1, <2>2, <1>4, <1>t, StreamInOrder
  <2>4. wire \in Seq(ChunksBelow(next)) => wire' \in Seq(ChunksBelow(next'))
    BY <2>1, <2>2, <1>4, <1>t, StreamInOrder
  <2>5. \A i \in 1..Len(wire') : wire'[i].type = "metadata" =>
           i \in 1..Len(wire) /\ wire'[i] = wire[i]
    BY <2>1, <2>2, <1>4, <1>t, StreamInOrder
  <2> QED BY <2>3, <2>4, <2>5
<1>6. NoGap' BY <1>1 DEF InStep, NoGap, RecipientRuns
<1>7. Aligned' BY <1>1, <1>5 DEF InStep, Aligned
<1>8. Held'
  <2>1. RecipientRuns => sAcks \in Seq(0..checkpoint)
    BY DEF InStep, Held
  <2>2. RecipientRuns => sAcks' \in Seq(0..checkpoint)
    <3> DEFINE S == 0..checkpoint
    <3> HIDE DEF S
    <3>1. sAcks \in Seq(S) => Tail(sAcks) \in Seq(S) BY <1>1
    <3> QED BY <3>1, <2>1, <1>1 DEF S
  <2> QED BY <1>1, <2>2 DEF InStep, Held, RecipientRuns
<1>9. Sent'
  <2>0. next \in Int /\ next' \in Int /\ next <= next' BY <1>5, <1>t
  <2>1. 0..(next - 1) \subseteq 0..(next' - 1) /\ AcksBelow(next) \subseteq AcksBelow(next')
    BY <2>0, BoundsGrow
  <2>2. sAcks' \in Seq(0..(next' - 1))
    BY <1>1, <1>3, <2>1, SequencesOfSubset
  <2>3. up' \in Seq(AcksBelow(next'))
    BY <1>1, <1>2, <2>1, SequencesOfSubset
  <2>4. base' <= next' BY <1>4, <1>5, <1>t
  <2> QED BY <1>1, <1>2, <1>5, <2>2, <2>3, <2>4 DEF Sent
<1> QED BY <1>6, <1>7, <1>8, <1>9 DEF InStep

\* The re-join of a sender: the relay has heard all of the old attempt.
LEMMA JoinAsSenderInStep ==
  ASSUME TransferTypeOK, Steady, InStep, JoinAsSender
  PROVE  InStep'
<1> USE DEF senderVars, engineVars, eventVars, recipientVars, channelVars,
            relayVars, boundVars
<1>1. /\ rst # "receiving" /\ \A i \in 1..Len(up) : up[i].type # "ack"
      /\ cached' = checkpoint /\ sst' = "waiting"
      /\ UNCHANGED <<sAcks, sRequests, rst, buf, adapter, expected, wire, up, checkpoint>>
  BY DEF JoinAsSender, OffsetOfJoin, Settled, Steady
<1>2. up \in Seq(Without("ack"))
  <2>1. up \in Seq(MessageOf(Total)) BY DEF TransferTypeOK, QueuesOK
  <2>2. \A i \in 1..Len(up) : up[i] \in Without("ack")
    BY <1>1, <2>1 DEF Without, MessageOf
  <2> HIDE DEF Without, MessageOf
  <2> QED BY <2>1, <2>2
<1>3. NoGap' BY <1>1 DEF InStep, NoGap, RecipientRuns
<1>4. Aligned' BY <1>1 DEF InStep, Aligned
<1>5. Held' BY <1>1, <1>2 DEF InStep, Held, RecipientRuns
<1>6. Sent' BY <1>1 DEF Sent
<1> QED BY <1>3, <1>4, <1>5, <1>6 DEF InStep

\* The re-join of a recipient.
LEMMA JoinAsRecipientInStep ==
  ASSUME TransferTypeOK, InStep,
         RecipientRejoins \/ RecipientWaitsInVain \/ RecipientStarts
  PROVE  InStep'
<1> USE DEF senderVars, engineVars, eventVars, recipientVars, channelVars,
            relayVars, boundVars
<1>1. rst # "dead" BY DEF InStep, NoGap
<1>2. /\ rst \in {"retry", "waiting"} /\ rst' = "waiting"
      /\ up' = Append(up, Signal("join", 0))
      /\ UNCHANGED <<sst, base, next, cached, sAcks, sRequests, buf, adapter, expected,
                     wire, checkpoint>>
  BY <1>1 DEF RecipientRejoins, RecipientWaitsInVain, RecipientStarts, JoinAsRecipient
<1>3. /\ Signal("join", 0) \in Message /\ Signal("join", 0).type = "join"
  BY DEF Signal, Message
<1>4. \A S : up \in Seq(S) /\ Signal("join", 0) \in S => up' \in Seq(S)
  BY <1>2, SequenceOps
<1>5. /\ Signal("join", 0) \in Without("request") /\ Signal("join", 0) \in Without("bye")
      /\ Signal("join", 0) \in Without("ack")
      /\ \A k : Signal("join", 0) \in AcksBelow(k)
  BY <1>3 DEF Without, AcksBelow
<1>6. RecipientRuns /\ RecipientRuns'
  BY <1>2 DEF RecipientRuns
<1>7. NoGap' BY <1>2, <1>4, <1>5, <1>6 DEF InStep, NoGap
<1>8. Aligned' BY <1>2 DEF InStep, Aligned
<1>9. Held' BY <1>2, <1>4, <1>5, <1>6 DEF InStep, Held
<1>10. Sent' BY <1>2, <1>4, <1>5 DEF InStep, Sent
<1> QED BY <1>7, <1>8, <1>9, <1>10 DEF InStep

\* A new channel starts at the relay's checkpoint.
LEMMA ConnectInStep ==
  ASSUME TransferTypeOK, InStep, Connect
  PROVE  InStep'
<1> USE DEF senderVars, engineVars, eventVars, recipientVars, channelVars,
            relayVars, boundVars
<1> DEFINE m == PumpTo(cached, cached)
           v == Burst(cached, m, FALSE)
           h == <<Metadata(cached)>>
<1>t. /\ scene \in Scenes /\ Total \in Nat \ {0} /\ cached \in 0..(Total - 1)
      /\ checkpoint \in 0..(Total - 1)
  BY TypeFacts DEF TransferTypeOK, CursorsOK
<1>1. /\ sst \in {"first", "waiting"} /\ rst \in {"first", "waiting"}
      /\ base' = cached /\ next' = m /\ wire' = h \o v /\ adapter' = FALSE
      /\ sst' = "sending" /\ rst' = "receiving"
      /\ UNCHANGED <<cached, sAcks, sRequests, buf, expected, up, checkpoint>>
  BY DEF Connect, Announce
<1>2. RecipientRuns /\ RecipientRuns' BY <1>1 DEF RecipientRuns
<1>3. /\ cached = checkpoint /\ up \in Seq(Without("ack"))
      /\ sAcks \in Seq(0..checkpoint) /\ checkpoint <= Len(buf)
      /\ up \in Seq(AcksBelow(Len(buf)))
  BY <1>1, <1>2 DEF InStep, Held
<1>4. m \in cached..Total /\ m > cached
  BY <1>t, PumpOpens
<1> HIDE DEF m
<1>5. v \in Seq(NotMetadata) /\ v \in Seq(ChunksBelow(m))
  <2>1. cached \in 0..Total /\ cached \in Int /\ cached <= cached /\ FALSE \in BOOLEAN
    BY <1>t
  <2> QED BY <2>1, <1>4, <1>t, BurstInOrder
<1> HIDE DEF v
<1>6. /\ Metadata(cached) \in ChunksBelow(m) /\ Metadata(cached).n = cached
  BY <1>t DEF Metadata, ChunksBelow, Frame
<1>7. wire' \in Seq(ChunksBelow(m))
  <2> HIDE DEF Metadata, ChunksBelow
  <2>1. h \in Seq(ChunksBelow(m)) BY <1>6
  <2> HIDE DEF h
  <2> QED BY <1>1, <1>5, <2>1
<1>8. \A i \in 1..Len(wire') : wire'[i].type = "metadata" =>
        i = 1 /\ wire'[i] = Metadata(cached)
  <2> HIDE DEF Metadata
  <2>1. Len(h) = 1 /\ h[1] = Metadata(cached) /\ h \in Seq({Metadata(cached)}) OBVIOUS
  <2>2. \A j \in 1..Len(v) : v[j].type # "metadata" BY <1>5 DEF NotMetadata
  <2>3. Len(v) \in Nat BY <1>5
  <2> HIDE DEF h
  <2>4. /\ Len(h \o v) = 1 + Len(v) /\ (h \o v)[1] = Metadata(cached)
        /\ \A j \in 1..Len(v) : (h \o v)[1 + j] = v[j]
    <3> HIDE DEF ChunksBelow
    <3>1. h \in Seq(ChunksBelow(m)) /\ v \in Seq(ChunksBelow(m))
      BY <2>1, <1>5, <1>6, SequencesOfSubset
    <3>2. /\ Len(h \o v) = Len(h) + Len(v)
          /\ \A j \in 1..Len(h) : (h \o v)[j] = h[j]
          /\ \A j \in 1..Len(v) : (h \o v)[Len(h) + j] = v[j]
      BY <3>1, ConcatElements
    <3> QED BY <2>1, <2>3, <3>2
  <2>5. ASSUME NEW i \in 1..Len(wire'), wire'[i].type = "metadata", i # 1
        PROVE  FALSE
    <3>1. i - 1 \in 1..Len(v) /\ i = 1 + (i - 1) BY <2>3, <2>4, <2>5, <1>1
    <3>2. wire'[i] = v[i - 1] BY <3>1, <2>4, <1>1
    <3> QED BY <3>1, <3>2, <2>2, <2>5
  <2> QED BY <2>4, <2>5, <1>1
<1>9. NoGap' BY <1>1, <1>2 DEF InStep, NoGap
<1>10. Aligned' BY <1>1, <1>3, <1>6, <1>8 DEF InStep, Aligned
<1>11. Held' BY <1>1, <1>3 DEF Held
<1>12. Sent'
  <2>1. 0..checkpoint \subseteq 0..(m - 1) BY <1>3, <1>4, <1>t
  <2>2. sAcks' \in Seq(0..(m - 1)) BY <1>1, <1>3, <2>1, SequencesOfSubset
  <2>3. Without("ack") \subseteq AcksBelow(m) BY DEF Without, AcksBelow
  <2>4. up' \in Seq(AcksBelow(m)) BY <1>1, <1>3, <2>3, SequencesOfSubset
  <2>5. base' <= next' BY <1>1, <1>4, <1>t
  <2> QED BY <1>1, <1>7, <2>2, <2>4, <2>5 DEF Sent
<1> QED BY <1>9, <1>10, <1>11, <1>12 DEF InStep

\* Only the first frame of a channel announces where it starts.
LEMMA RestOfChannel ==
  ASSUME TransferTypeOK, InStep, rst = "receiving", wire # <<>>
  PROVE  /\ \A i \in 1..Len(Tail(wire)) : Tail(wire)[i].type # "metadata"
         /\ Head(wire).type = "metadata" => ~adapter /\ Head(wire).n = checkpoint
         /\ sst = "sending" => /\ Head(wire) \in ChunksBelow(next)
                               /\ Tail(wire) \in Seq(ChunksBelow(next))
<1>1. wire \in Seq(Frame) BY FramesAreFrames DEF TransferTypeOK, QueuesOK
<1>2. /\ Len(wire) \in Nat \ {0} /\ Head(wire) = wire[1]
      /\ Len(Tail(wire)) = Len(wire) - 1
      /\ \A i \in 1..Len(Tail(wire)) : Tail(wire)[i] = wire[i + 1]
  <2> HIDE DEF Frame
  <2> QED BY <1>1
<1>3. \A i \in 1..Len(wire) : wire[i].type = "metadata" =>
        i = 1 /\ ~adapter /\ wire[i].n = checkpoint
  BY DEF InStep, Aligned
<1>4. \A i \in 1..Len(Tail(wire)) : Tail(wire)[i].type # "metadata"
  <2> TAKE i \in 1..Len(Tail(wire))
  <2>1. i + 1 \in 1..Len(wire) /\ i + 1 # 1 BY <1>2
  <2> QED BY <1>2, <1>3, <2>1
<1>5. 1 \in 1..Len(wire) BY <1>2
<1>6. sst = "sending" => wire \in Seq(ChunksBelow(next)) BY DEF InStep, Sent
<1>7. sst = "sending" => /\ Head(wire) \in ChunksBelow(next)
                         /\ Tail(wire) \in Seq(ChunksBelow(next))
  BY <1>6, SequenceOps
<1> QED BY <1>2, <1>3, <1>4, <1>5, <1>7

\* The metadata truncates the buffer to the checkpoint, which it holds.
LEMMA RecipientMetadataInStep ==
  ASSUME TransferTypeOK, InStep, RecipientMetadata
  PROVE  InStep'
<1> USE DEF senderVars, engineVars, eventVars, recipientVars, channelVars,
            relayVars, boundVars
<1>1. /\ rst = "receiving" /\ wire # <<>> /\ wire' = Tail(wire)
      /\ Head(wire).type = "metadata"
      /\ buf' = SubSeq(buf, 1, Keep(Head(wire).n))
      /\ expected' = Head(wire).n /\ adapter' = TRUE
      /\ UNCHANGED <<sst, base, next, cached, sAcks, sRequests, rst, up, checkpoint>>
  BY DEF RecipientMetadata, Receiving, Took
<1>2. RecipientRuns /\ RecipientRuns' BY <1>1 DEF RecipientRuns
<1>3. /\ ~adapter /\ Head(wire).n = checkpoint
      /\ \A i \in 1..Len(wire') : wire'[i].type # "metadata"
      /\ sst = "sending" => wire' \in Seq(ChunksBelow(next))
  BY <1>1, RestOfChannel
<1>4. /\ checkpoint <= Len(buf) /\ checkpoint \in Nat /\ Len(buf) \in Nat
      /\ buf \in Seq(Nat) /\ \A i \in 1..Len(buf) : buf[i] = i - 1
  BY <1>2, TypeFacts DEF InStep, Held, Aligned, TransferTypeOK, CursorsOK, QueuesOK
<1>5. Keep(Head(wire).n) = checkpoint
  BY <1>3, <1>4, MinPair DEF Keep
<1>6. /\ Len(buf') = checkpoint
      /\ \A i \in 1..checkpoint : buf'[i] = buf[i]
  BY <1>1, <1>4, <1>5
<1>7. /\ up \in Seq(Without("ack")) /\ up \in Seq(AcksBelow(checkpoint))
  <2>1. up \in Seq(Without("ack")) BY <1>1, <1>3 DEF InStep, Aligned
  <2>2. Without("ack") \subseteq AcksBelow(checkpoint)
    BY DEF Without, AcksBelow
  <2> QED BY <2>1, <2>2, SequencesOfSubset
<1>8. NoGap' BY <1>1, <1>2 DEF InStep, NoGap
<1>9. Aligned'
  <2>1. sst \notin {"first", "waiting"} BY <1>1 DEF InStep, Aligned
  <2>2. \A i \in 1..Len(buf') : buf'[i] = i - 1 BY <1>4, <1>6
  <2>3. expected' = Len(buf') BY <1>1, <1>3, <1>6
  <2> QED BY <1>1, <1>3, <2>1, <2>2, <2>3 DEF Aligned
<1>10. Held'
  <2>1. sAcks \in Seq(0..checkpoint) /\ sst \notin {"first", "waiting"}
    BY <1>1, <1>2 DEF InStep, Held, Aligned
  <2>2. up' \in Seq(AcksBelow(Len(buf'))) BY <1>1, <1>6, <1>7
  <2>3. sAcks' \in Seq(0..checkpoint') BY <1>1, <2>1
  <2>4. checkpoint' <= Len(buf')
    <3>1. checkpoint' = checkpoint BY <1>1
    <3> QED BY <3>1, <1>4, <1>6
  <2> QED BY <1>1, <2>1, <2>2, <2>3, <2>4 DEF Held
<1>11. Sent' BY <1>1, <1>3 DEF InStep, Sent
<1> QED BY <1>8, <1>9, <1>10, <1>11 DEF InStep

\* A chunk is the next one or one the buffer holds, and one the sender sent.
LEMMA RecipientChunkInStep ==
  ASSUME TransferTypeOK, Ordered, InStep, RecipientChunk
  PROVE  InStep'
<1> USE DEF senderVars, engineVars, eventVars, recipientVars, channelVars,
            relayVars, boundVars
<1> DEFINE i == Head(wire).n
           a == Signal("ack", i)
<1>1. /\ rst = "receiving" /\ wire # <<>> /\ wire' = Tail(wire)
      /\ Head(wire).type = "chunk" /\ adapter
      /\ \/ /\ i = expected /\ buf' = Append(buf, i) /\ expected' = i + 1
            /\ up' \in {up, Append(up, Signal("ack", AckThrough(i + 1)))}
         \/ i < expected /\ UNCHANGED <<buf, expected, up>>
         \/ i > expected
      /\ UNCHANGED <<sst, base, next, cached, sAcks, sRequests, rst, adapter, checkpoint>>
  BY DEF RecipientChunk, Receiving, Took
<1>2. RecipientRuns /\ RecipientRuns' BY <1>1 DEF RecipientRuns
<1>3. Head(wire) \in Frame /\ i \in Nat /\ i <= expected /\ expected \in Nat
  BY <1>1, ArrivesInOrder, TypeFacts DEF TransferTypeOK, CursorsOK
<1>4. /\ \A j \in 1..Len(wire') : wire'[j].type # "metadata"
      /\ sst = "sending" => wire' \in Seq(ChunksBelow(next)) /\ i < next
  BY <1>1, RestOfChannel DEF ChunksBelow
<1>5. /\ expected = Len(buf) /\ buf \in Seq(Nat) /\ Len(buf) \in Nat
      /\ \A j \in 1..Len(buf) : buf[j] = j - 1
      /\ sst \notin {"first", "waiting"}
  BY <1>1 DEF InStep, Aligned, TransferTypeOK, QueuesOK
<1>6. /\ checkpoint <= Len(buf) /\ up \in Seq(AcksBelow(Len(buf)))
      /\ sAcks \in Seq(0..checkpoint) /\ checkpoint \in Nat
  BY <1>2, TypeFacts DEF InStep, Held, TransferTypeOK, CursorsOK
<1>7. /\ up \in Seq(Without("request")) /\ up \in Seq(Without("bye"))
      /\ sRequests = <<>> /\ rst # "dead"
  BY <1>2 DEF InStep, NoGap
<1>8. sst = "sending" => /\ base <= next /\ sAcks \in Seq(0..(next - 1))
                         /\ up \in Seq(AcksBelow(next))
  BY DEF InStep, Sent
<1> HIDE DEF i
\* The chunk the engine waits for.
<1>9. ASSUME i = expected, buf' = Append(buf, i), expected' = i + 1,
             up' \in {up, Append(up, Signal("ack", AckThrough(i + 1)))}
      PROVE  InStep'
  <2>1. /\ Len(buf') = Len(buf) + 1 /\ expected' = Len(buf')
        /\ \A j \in 1..Len(buf') : buf'[j] = j - 1
    <3>1. /\ Len(buf') = Len(buf) + 1 /\ buf'[Len(buf) + 1] = i
          /\ \A j \in 1..Len(buf) : buf'[j] = buf[j]
      BY <1>3, <1>5, <1>9
    <3>2. \A j \in 1..Len(buf') : j \in 1..Len(buf) \/ j = Len(buf) + 1
      BY <3>1, <1>5
    <3> QED BY <3>1, <3>2, <1>3, <1>5, <1>9
  <2>2. AckThrough(i + 1) = i BY <1>3 DEF AckThrough
  <2>3. a \in Message /\ a.type = "ack" /\ a.n = i
    BY <1>3 DEF Signal, Message
  <2>4. /\ a \in Without("request") /\ a \in Without("bye")
        /\ a \in AcksBelow(Len(buf')) /\ (sst = "sending" => a \in AcksBelow(next))
    BY <2>1, <2>3, <1>3, <1>4, <1>5, <1>9 DEF Without, AcksBelow
  <2>5. up' \in {up, Append(up, a)} BY <1>9, <2>2
  <2> HIDE DEF a
  <2>6. \A S : up \in Seq(S) /\ a \in S => up' \in Seq(S)
    BY <2>5, SequenceOps
  <2>7. up \in Seq(AcksBelow(Len(buf')))
    <3>1. AcksBelow(Len(buf)) \subseteq AcksBelow(Len(buf'))
      BY <2>1, <1>5, BoundsGrow
    <3> QED BY <3>1, <1>6, SequencesOfSubset
  <2>8. NoGap' BY <1>1, <1>7, <2>4, <2>6 DEF NoGap
  <2>9. Aligned' BY <1>1, <1>4, <1>5, <2>1 DEF Aligned
  <2>10. Held'
    <3>1. checkpoint <= Len(buf') BY <2>1, <1>5, <1>6
    <3> QED BY <1>1, <1>5, <1>6, <2>4, <2>6, <2>7, <3>1 DEF Held
  <2>11. Sent' BY <1>1, <1>4, <1>8, <2>4, <2>6 DEF Sent
  <2> QED BY <2>8, <2>9, <2>10, <2>11 DEF InStep
\* One it has.
<1>10. ASSUME UNCHANGED <<buf, expected, up>> PROVE InStep'
  <2>1. NoGap' BY <1>1, <1>7, <1>10 DEF NoGap
  <2>2. Aligned' BY <1>1, <1>4, <1>5, <1>10 DEF Aligned
  <2>3. Held' BY <1>1, <1>5, <1>6, <1>10 DEF Held
  <2>4. Sent' BY <1>1, <1>4, <1>8, <1>10 DEF Sent
  <2> QED BY <2>1, <2>2, <2>3, <2>4 DEF InStep
<1> QED BY <1>1, <1>3, <1>9, <1>10 DEF i

\* `end` comes when the recipient has everything.
LEMMA RecipientEndInStep ==
  ASSUME TransferTypeOK, Ordered, InStep, RecipientEnd
  PROVE  InStep'
<1> USE DEF senderVars, engineVars, eventVars, recipientVars, channelVars,
            relayVars, boundVars
<1>1. /\ rst = "receiving" /\ wire # <<>> /\ wire' = Tail(wire)
      /\ Head(wire).type = "end"
      /\ \/ expected = Total /\ rst' \in {"assembled", "retry"} /\ up' = up
         \/ expected # Total
      /\ UNCHANGED <<sst, base, next, cached, sAcks, sRequests, buf, adapter, expected,
                     checkpoint>>
  BY DEF RecipientEnd, Receiving, Took
<1>2. expected = Total BY <1>1, ArrivesInOrder
<1>3. rst' \in {"assembled", "retry"} /\ up' = up BY <1>1, <1>2
<1>4. RecipientRuns /\ RecipientRuns' BY <1>1, <1>3 DEF RecipientRuns
<1>5. NoGap' BY <1>1, <1>3, <1>4 DEF InStep, NoGap
<1>6. Aligned' BY <1>1, <1>3 DEF InStep, Aligned
<1>7. Held' BY <1>1, <1>3, <1>4 DEF InStep, Held
<1>8. Sent' BY <1>1, <1>3 DEF InStep, Sent
<1> QED BY <1>5, <1>6, <1>7, <1>8 DEF InStep

\* The recipient that has the payload says so and is gone.
LEMMA RecipientReportsInStep ==
  ASSUME TransferTypeOK, InStep, RecipientReports
  PROVE  InStep'
<1> USE DEF senderVars, engineVars, eventVars, recipientVars, channelVars,
            relayVars, boundVars
<1> DEFINE c == Signal("complete", 0)
           d == Signal("bye", 0)
<1>1. /\ rst' = "done" /\ up' = up \o <<c, d>>
      /\ UNCHANGED <<sst, base, next, cached, sAcks, sRequests, buf, adapter, expected,
                     wire, checkpoint>>
  BY DEF RecipientReports
<1>2. /\ c \in Without("request") /\ d \in Without("request")
      /\ c \in AcksBelow(next) /\ d \in AcksBelow(next)
  BY DEF Signal, Without, AcksBelow, Message
<1> HIDE DEF c, d
<1>3. \A S : up \in Seq(S) /\ c \in S /\ d \in S => up' \in Seq(S)
  <2> TAKE S
  <2> HAVE up \in Seq(S) /\ c \in S /\ d \in S
  <2>1. <<c, d>> \in Seq(S) OBVIOUS
  <2> QED BY <2>1, <1>1, SequenceOps
<1>4. ~RecipientRuns' BY <1>1 DEF RecipientRuns
<1>5. NoGap' BY <1>1, <1>2, <1>3, <1>4 DEF InStep, NoGap
<1>6. Aligned' BY <1>1 DEF InStep, Aligned
<1>7. Held' BY <1>4 DEF Held
<1>8. Sent' BY <1>1, <1>2, <1>3 DEF InStep, Sent
<1> QED BY <1>5, <1>6, <1>7, <1>8 DEF InStep

\* A lost channel keeps a prefix of its frames.
LEMMA ChannelLostInStep ==
  ASSUME TransferTypeOK, InStep, ChannelLost
  PROVE  InStep'
<1> USE DEF senderVars, engineVars, eventVars, recipientVars, channelVars,
            relayVars, boundVars
<1>1. UNCHANGED <<sst, base, next, cached, sAcks, sRequests, rst, buf, adapter, expected,
                  up, checkpoint>>
  BY DEF ChannelLost
<1>2. PICK k \in 0..Len(wire) : wire' = SubSeq(wire, 1, k)
  BY DEF ChannelLost
<1>3. wire \in Seq(Frame) /\ Len(wire) \in Nat
  BY FramesAreFrames DEF TransferTypeOK, QueuesOK
<1>4. /\ Len(wire') = k /\ \A i \in 1..k : wire'[i] = wire[i]
      /\ \A S : wire \in Seq(S) => wire' \in Seq(S)
  <2> HIDE DEF Frame
  <2>1. Len(wire') = k /\ \A i \in 1..k : wire'[i] = wire[i] BY <1>2, <1>3
  <2>2. \A S : wire \in Seq(S) => wire' \in Seq(S) BY <1>2, SequenceOps
  <2> QED BY <2>1, <2>2
<1>5. \A i \in 1..Len(wire') : i \in 1..Len(wire) /\ wire'[i] = wire[i]
  BY <1>2, <1>3, <1>4
<1>6. NoGap' BY <1>1 DEF InStep, NoGap, RecipientRuns
<1>7. Aligned' BY <1>1, <1>5 DEF InStep, Aligned
<1>8. Held' BY <1>1 DEF InStep, Held, RecipientRuns
<1>9. Sent' BY <1>1, <1>4 DEF InStep, Sent
<1> QED BY <1>6, <1>7, <1>8, <1>9 DEF InStep

\* The relay hands on what the recipient said, and remembers what it
\* acknowledged.
LEMMA RelayHandlesInStep ==
  ASSUME TransferTypeOK, InStep, RelayHandles
  PROVE  InStep'
<1> USE DEF senderVars, engineVars, eventVars, recipientVars, channelVars,
            relayVars, boundVars
<1> DEFINE m == Head(up)
<1>1. /\ up # <<>> /\ up' = Tail(up)
      /\ \/ /\ m.type = "ack"
            /\ checkpoint' = Max({checkpoint, m.n}) /\ sAcks' = Append(sAcks, m.n)
            /\ sRequests' = sRequests
         \/ m.type = "request"
         \/ m.type \in {"complete", "join"} /\ UNCHANGED <<sAcks, sRequests, checkpoint>>
         \/ m.type = "bye" /\ checkpoint' = 0 /\ UNCHANGED <<sAcks, sRequests>>
      /\ UNCHANGED <<sst, base, next, cached, rst, buf, adapter, expected, wire>>
  BY DEF RelayHandles
<1>2. /\ m \in MessageOf(Total) /\ m \in Message /\ m.n \in Nat
      /\ checkpoint \in Nat /\ Total \in Nat /\ next \in Nat
  BY <1>1, TypeFacts DEF TransferTypeOK, CursorsOK, MessageOf, Message
<1>3. \A S : up \in Seq(S) => m \in S /\ up' \in Seq(S)
  BY <1>1, SequenceOps
<1> HIDE DEF m
<1>4. /\ m.type # "request" /\ (RecipientRuns => m.type # "bye")
      /\ up' \in Seq(Without("request")) /\ (RecipientRuns => up' \in Seq(Without("bye")))
      /\ sRequests = <<>> /\ rst # "dead"
  BY <1>3 DEF InStep, NoGap, Without
<1>5. RecipientRuns' <=> RecipientRuns BY <1>1 DEF RecipientRuns
<1>6. up \in Seq(Without("ack")) => m.type # "ack" /\ up' \in Seq(Without("ack"))
  BY <1>3 DEF Without
<1>7. NoGap' BY <1>1, <1>4, <1>5 DEF NoGap
<1>8. RecipientRuns =>
        /\ checkpoint <= Len(buf) /\ up' \in Seq(AcksBelow(Len(buf)))
        /\ m.type = "ack" => m.n < Len(buf)
        /\ sAcks \in Seq(0..checkpoint)
        /\ sst \in {"first", "waiting"} =>
             cached = checkpoint /\ m.type # "ack" /\ up' \in Seq(Without("ack"))
  BY <1>3, <1>6 DEF InStep, Held, AcksBelow
<1>9. Aligned'
  <2>1. CASE rst # "receiving" BY <1>1, <2>1 DEF InStep, Aligned
  <2>2. CASE rst = "receiving"
    <3>1. RecipientRuns BY <2>2 DEF RecipientRuns
    <3>2. ~adapter => /\ m.type # "ack" /\ checkpoint' = checkpoint
                      /\ up' \in Seq(Without("ack"))
      BY <1>1, <1>4, <1>6, <2>2, <3>1 DEF InStep, Aligned
    <3> QED BY <1>1, <2>2, <3>2 DEF InStep, Aligned
  <2> QED BY <2>1, <2>2
<1>10. Held'
  <2> SUFFICES ASSUME RecipientRuns PROVE Held'
    BY <1>5 DEF Held
  <2>1. CASE m.type = "ack"
    <3>1. checkpoint' = IF checkpoint >= m.n THEN checkpoint ELSE m.n
      BY <1>1, <1>2, <2>1, MaxPair
    <3>2. sAcks' = Append(sAcks, m.n) BY <1>1, <2>1
    <3>3. checkpoint' \in Int /\ checkpoint <= checkpoint' /\ m.n \in 0..checkpoint'
      BY <3>1, <1>2
    <3>4. 0..checkpoint \subseteq 0..checkpoint'
      BY <1>2, <3>3
    <3>5. sAcks' \in Seq(0..checkpoint')
      <4> DEFINE S == 0..checkpoint'
      <4>1. sAcks \in Seq(S) BY <1>8, <3>4, SequencesOfSubset
      <4>2. m.n \in S BY <3>3
      <4> HIDE DEF S
      <4>3. sAcks' \in Seq(S) BY <4>1, <4>2, <3>2
      <4> QED BY <4>3 DEF S
    <3>6. checkpoint' <= Len(buf) BY <1>2, <1>8, <2>1, <3>1
    <3> QED BY <1>1, <1>8, <2>1, <3>5, <3>6 DEF Held
  <2>2. CASE m.type \in {"complete", "join"}
    BY <1>1, <1>8, <2>2 DEF Held
  <2> QED BY <1>1, <1>4, <2>1, <2>2
<1>11. Sent'
  <2> SUFFICES ASSUME sst = "sending" PROVE Sent'
    BY <1>1 DEF Sent
  <2>1. /\ base <= next /\ sAcks \in Seq(0..(next - 1)) /\ up' \in Seq(AcksBelow(next))
        /\ m.type = "ack" => m.n \in 0..(next - 1)
        /\ rst = "receiving" => wire \in Seq(ChunksBelow(next))
    BY <1>2, <1>3 DEF InStep, Sent, AcksBelow
  <2>2. sAcks' \in Seq(0..(next - 1))
    <3> DEFINE S == 0..(next - 1)
    <3> HIDE DEF S
    <3>1. sAcks \in Seq(S) /\ (m.type = "ack" => m.n \in S) BY <2>1 DEF S
    <3>2. sAcks' \in Seq(S) BY <1>1, <1>4, <3>1
    <3> QED BY <3>2 DEF S
  <2> QED BY <1>1, <2>1, <2>2 DEF Sent
<1> QED BY <1>7, <1>9, <1>10, <1>11 DEF InStep

LEMMA InStepStep ==
  ASSUME TransferTypeOK, Ordered, Steady, InStep, [Next]_vars
  PROVE  InStep'
<1> USE DEF senderVars, engineVars, eventVars, recipientVars, channelVars,
            relayVars, boundVars
<1>1. CASE SenderAck BY <1>1, SenderAckInStep
<1>2. CASE SenderRequest
  BY <1>2 DEF SenderRequest, InStep, NoGap
<1>3. CASE SenderToldComplete \/ SenderSeesPeerGone \/ SenderFlushBreaks
  BY <1>3, QuietStep
  DEF SenderToldComplete, SenderSeesPeerGone, SenderFlushBreaks, Leave, RecipientRuns
<1>4. CASE \/ SenderSeesClose \/ SenderSeesError \/ RecipientSeesBreak
           \/ SenderAbandons \/ RecipientAbandons
  BY <1>4, QuietStep
  DEF SenderSeesClose, SenderSeesError, RecipientSeesBreak, SenderAbandons,
      RecipientAbandons, RecipientRuns
<1>5. CASE SenderRejoins \/ SenderWaitsInVain
  BY <1>5, JoinAsSenderInStep DEF SenderRejoins, SenderWaitsInVain
<1>6. CASE RecipientRejoins \/ RecipientWaitsInVain \/ RecipientStarts
  BY <1>6, JoinAsRecipientInStep
<1>7. CASE Connect BY <1>7, ConnectInStep
<1>8. CASE RecipientMetadata BY <1>8, RecipientMetadataInStep
<1>9. CASE RecipientChunk BY <1>9, RecipientChunkInStep
<1>10. CASE RecipientEnd BY <1>10, RecipientEndInStep
<1>11. CASE RecipientTicks BY <1>11 DEF RecipientTicks, Steady
<1>12. CASE RecipientReports BY <1>12, RecipientReportsInStep
<1>13. CASE RelayHandles BY <1>13, RelayHandlesInStep
<1>14. CASE ChannelLost BY <1>14, ChannelLostInStep
<1>15. CASE RecipientDies
  <2>1. deaths < 0 /\ deaths \in Nat
    BY <1>15 DEF RecipientDies, Steady, TransferTypeOK
  <2> QED BY <2>1
<1>16. CASE UNCHANGED vars
  <2>1. UNCHANGED <<sst, base, next, cached, sAcks, sRequests, rst, buf, adapter,
                    expected, wire, up, checkpoint>>
    BY <1>16 DEF vars, transferVars
  <2>2. RecipientRuns' <=> RecipientRuns BY <2>1 DEF RecipientRuns
  <2> QED BY <2>1, <2>2, QuietStep
<1> QED
  BY <1>1, <1>2, <1>3, <1>4, <1>5, <1>6, <1>7, <1>8, <1>9, <1>10, <1>11, <1>12,
     <1>13, <1>14, <1>15, <1>16 DEF Next, Step

\* The whole inductive invariant of the transfer.
THEOREM TransferInvariant == Spec => []TransferInv
<1>1. Init => TransferInv
  BY TransferTypesInitial, OrderedInitial, InStepInitial DEF TransferInv
<1>2. TransferInv /\ [Next]_vars => TransferInv'
  <2> SUFFICES ASSUME TransferInv, [Next]_vars PROVE TransferInv'
    OBVIOUS
  <2>1. TransferTypeOK' /\ Ordered'
    BY TransferTypesStep, OrderedStep DEF TransferInv
  <2>2. Steady' <=> Steady
    BY DEF Next, vars, Steady, Settle, Ticks
  <2>3. Steady => InStep'
    BY InStepStep DEF TransferInv
  <2> QED BY <2>1, <2>2, <2>3 DEF TransferInv
<1> QED BY <1>1, <1>2, PTL DEF Spec

\* A resumed attempt neither skips nor doubles a chunk: the committed buffer is
\* a prefix of the payload and the engine expects the chunk after it.
THEOREM BufferStaysAligned == Spec => []BufferAligned
<1>1. TransferInv => BufferAligned
  BY DEF TransferInv, InStep, Aligned, BufferAligned
<1> QED BY <1>1, TransferInvariant, PTL

\* What the relay would resume at, and what the sender cached of it, is held by
\* the recipient.
THEOREM ResumePointIsHeld == Spec => []ResumePointHeld
<1>1. TransferInv => ResumePointHeld
  <2> SUFFICES ASSUME TransferInv, Steady, RecipientRuns
               PROVE  /\ checkpoint <= Len(buf)
                      /\ sst = "waiting" => cached <= Len(buf)
    BY DEF ResumePointHeld
  <2> QED BY DEF TransferInv, InStep, Held
<1> QED BY <1>1, TransferInvariant, PTL

\* The u64 difference of the sender's cursors never wraps, where nothing makes
\* it rewind.
THEOREM CursorsNeverWrap == Spec => []WindowArithmetic
<1>1. TransferInv => WindowArithmetic
  BY DEF TransferInv, InStep, Sent, WindowArithmetic
<1> QED BY <1>1, TransferInvariant, PTL
=============================================================================
