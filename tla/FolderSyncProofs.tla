--------------------------- MODULE FolderSyncProofs ---------------------------
(***************************************************************************)
(* FolderSync, for every set of names, file size, batch size and number of *)
(* edits and troubles: a success of `share` is one of `get`, a success of  *)
(* `get` is an exact mirror, a repeat sends nothing, and the destination   *)
(* only ever changes the way FolderMirror allows.                          *)
(***************************************************************************)
EXTENDS FolderSync, WellFoundedInduction, FiniteSetTheorems, TLAPS

-----------------------------------------------------------------------------
(* Constants, lists and batches.                                           *)

\* A nonempty set of naturals has a least member.
LEMMA LeastMember ==
  ASSUME NEW S \in SUBSET Nat, S # {}
  PROVE  \E x \in S : \A y \in S : x <= y
<1>1. PICK x \in S : \A y \in S : <<y, x>> \notin OpToRel(<, Nat)
  BY NatLessThanWellFounded, WFMin
<1>2. \A y \in S : ~(y < x)
  BY <1>1 DEF OpToRel
<1> QED BY <1>2

\* What the proofs use of FolderAssumption.
LEMMA FolderConstants ==
  /\ Chunks \in Nat \ {0} /\ BatchSize \in Nat \ {0} /\ Versions \in Nat \ {0}
  /\ IsFiniteSet(Path) /\ Rank \in [Path -> Nat] /\ Nobody \notin Path
  /\ \A p, q \in Path : Rank[p] = Rank[q] => p = q
  /\ \A p \in Path : Part[p] # p
  /\ \A p \in Path : Part[p] \in Path => Rank[p] < Rank[Part[p]]
  /\ Absent \notin Content /\ Folder \notin Content /\ Absent # Folder
  /\ Absent \notin Version
  /\ \A p \in Path : Part[p] \in Suffixed /\ Part[p] \in Name /\ p \in Name
BY FolderAssumption DEF Suffixed, Name

\* Contents are sequences of versions, whole ones of Chunks versions.
LEMMA ContentsAre ==
  /\ \A s : s \in Content <=> s \in Seq(Version) /\ Len(s) <= Chunks
  /\ \A s : s \in Whole <=> s \in Seq(Version) /\ Len(s) = Chunks
  /\ Whole \subseteq Content
  /\ \A v \in Version : Copy(v) \in Whole
<1>1. Chunks \in Nat BY FolderConstants
<1>2. ASSUME NEW s \in Content PROVE s \in Seq(Version) /\ Len(s) <= Chunks
  <2>1. PICK k \in 0..Chunks : s \in [1..k -> Version] BY <1>2 DEF Content
  <2> QED BY <1>1, <2>1
<1>3. ASSUME NEW s \in Seq(Version), Len(s) <= Chunks PROVE s \in Content
  <2>1. Len(s) \in 0..Chunks BY <1>1, <1>3
  <2>2. s \in [1..Len(s) -> Version] OBVIOUS
  <2> QED BY <2>1, <2>2 DEF Content
<1>4. \A s : s \in Whole <=> s \in Seq(Version) /\ Len(s) = Chunks
  BY <1>1 DEF Whole
<1>5. \A v \in Version : Copy(v) \in Whole BY DEF Copy, Whole
<1> QED BY <1>1, <1>2, <1>3, <1>4, <1>5

\* The file the sender takes next is one of those that are left.
LEMMA FirstIsLeast ==
  ASSUME NEW paths \in SUBSET Path, paths # {}
  PROVE  First(paths) \in paths /\ \A q \in paths : Rank[First(paths)] <= Rank[q]
<1> DEFINE R == {Rank[p] : p \in paths}
<1>1. R \in SUBSET Nat /\ R # {} BY FolderConstants
<1>2. PICK r \in R : \A y \in R : r <= y
  <2> HIDE DEF R
  <2> QED BY <1>1, LeastMember
<1>3. PICK p \in paths : r = Rank[p] OBVIOUS
<1>4. \A q \in paths : Rank[p] <= Rank[q] BY <1>2, <1>3
<1> QED BY <1>4 DEF First

\* The batch of a position is one of the batches there are.
LEMMA DivBound ==
  ASSUME NEW x \in Nat, NEW y \in Nat, NEW b \in Nat \ {0}, x < y
  PROVE  /\ x \div b \in Nat /\ (y + b - 1) \div b \in Nat
         /\ (x \div b) + 1 <= (y + b - 1) \div b
<1> DEFINE u == x \div b
           v == (y + b - 1) \div b
<1>1. u \in Int /\ b * u <= x /\ x < b * u + b OBVIOUS
<1>2. v \in Int /\ b * v <= y + b - 1 /\ y + b - 1 < b * v + b OBVIOUS
<1> HIDE DEF u, v
<1>3. u >= 0
  <2> SUFFICES ASSUME u <= 0 - 1 PROVE FALSE BY <1>1
  <2>1. b * u <= 0 - b BY <1>1
  <2> QED BY <2>1, <1>1
<1>4. u < v
  <2> SUFFICES ASSUME v <= u PROVE FALSE BY <1>1, <1>2
  <2>1. b * v <= b * u BY <1>1, <1>2
  <2> QED BY <2>1, <1>1, <1>2
<1> QED BY <1>1, <1>2, <1>3, <1>4 DEF u, v

\* The frames of a greeting: the hello, then the list in batches. Named(all, c) are
\* the names in its first c frames.
Hello == [t |-> "hello"]
Named(all, c) == UNION {DOMAIN all[i].files : i \in 2..c}

InBatch(list, i) ==
  {q \in DOMAIN list : (Position(q, DOMAIN list) - 1) \div BatchSize = i - 1}
Batch(kind, list, n, i) ==
  [t |-> kind, more |-> i < n, files |-> [p \in InBatch(list, i) |-> list[p]]]

\* Positions in a list are 1, 2, ... up to its length.
LEMMA PositionBound ==
  ASSUME NEW names \in SUBSET Path, NEW p \in names
  PROVE  /\ Cardinality(names) \in Nat
         /\ Position(p, names) \in 1..Cardinality(names)
<1> DEFINE below == {q \in names : Rank[q] <= Rank[p]}
<1>1. IsFiniteSet(names) BY FolderConstants, FS_Subset
<1>2. IsFiniteSet(below) /\ Cardinality(below) <= Cardinality(names)
  BY <1>1, FS_Subset
<1>3. p \in below BY FolderConstants
<1>4. Cardinality(below) # 0 BY <1>2, <1>3, FS_EmptySet
<1>5. Cardinality(names) \in Nat /\ Cardinality(below) \in Nat
  BY <1>1, <1>2, FS_CardinalityType
<1> QED BY <1>2, <1>4, <1>5 DEF Position

\* manifest_batches() and ack_batches(): at least one frame, `more` on all but the
\* last, and every entry of the list in some frame and unchanged.
LEMMA BatchesShape ==
  ASSUME NEW kind, NEW list, DOMAIN list \subseteq Path,
         NEW all, all = Batches(kind, list)
  PROVE  /\ Len(all) \in Nat \ {0} /\ \E S : all \in Seq(S)
         /\ \A i \in 1..Len(all) :
              /\ all[i].t = kind /\ all[i].more = (i < Len(all))
              /\ DOMAIN all[i].files \subseteq DOMAIN list
              /\ \A p \in DOMAIN all[i].files : all[i].files[p] = list[p]
         /\ \A p \in DOMAIN list : \E i \in 1..Len(all) : p \in DOMAIN all[i].files
<1> DEFINE names == DOMAIN list
           n == (Cardinality(names) + BatchSize - 1) \div BatchSize
<1>1. CASE names = {}
  <2> DEFINE b == [t |-> kind, more |-> FALSE, files |-> list]
  <2>1. all = <<b>>
    BY <1>1 DEF Batches
  <2>2. b.t = kind /\ b.more = FALSE /\ b.files = list OBVIOUS
  <2> HIDE DEF b
  <2>3. Len(all) = 1 /\ all[1] = b /\ all \in Seq({b})
    BY <2>1
  <2>4. \A i \in 1..Len(all) : /\ all[i].t = kind /\ all[i].more = (i < Len(all))
                               /\ all[i].files = list
    <3> TAKE i \in 1..Len(all)
    <3>1. i = 1 /\ (i < Len(all)) = FALSE BY <2>3
    <3>2. all[i] = b BY <2>3, <3>1
    <3>3. all[i].t = kind /\ all[i].more = FALSE /\ all[i].files = list BY <2>2, <3>2
    <3> QED BY <3>1, <3>3
  <2>5. \E S : all \in Seq(S) BY <2>3
  <2> QED BY <1>1, <2>3, <2>4, <2>5
<1>2. CASE names # {}
  <2>0. all = [i \in 1..n |-> Batch(kind, list, n, i)]
    BY <1>2 DEF Batches, NoBatchWhenEmpty, Batch, InBatch
  <2>1. \A p \in names : /\ Cardinality(names) \in Nat
                         /\ Position(p, names) \in 1..Cardinality(names)
    BY PositionBound
  <2>2. \A p \in names :
          /\ (Position(p, names) - 1) \div BatchSize \in Nat
          /\ ((Position(p, names) - 1) \div BatchSize) + 1 <= n
          /\ n \in Nat
    <3> TAKE p \in names
    <3>1. Position(p, names) - 1 \in Nat /\ Position(p, names) - 1 < Cardinality(names)
      BY <2>1
    <3>2. BatchSize \in Nat \ {0} /\ Cardinality(names) \in Nat BY <2>1, FolderConstants
    <3> HIDE DEF names
    <3> QED BY <3>1, <3>2, DivBound
  <2>3. n \in Nat \ {0} BY <1>2, <2>2
  <2> HIDE DEF n
  <2>4. /\ Len(all) = n /\ all \in Seq({Batch(kind, list, n, i) : i \in 1..n})
        /\ \A i \in 1..n : all[i] = Batch(kind, list, n, i)
    BY <2>0, <2>3
  <2>5. \A i : /\ Batch(kind, list, n, i).t = kind
               /\ Batch(kind, list, n, i).more = (i < n)
               /\ Batch(kind, list, n, i).files = [p \in InBatch(list, i) |-> list[p]]
    BY DEF Batch
  <2>6. \A i \in 1..n :
          /\ all[i].t = kind /\ all[i].more = (i < n)
          /\ DOMAIN all[i].files = InBatch(list, i)
          /\ \A p \in InBatch(list, i) : all[i].files[p] = list[p]
    <3> TAKE i \in 1..n
    <3> DEFINE x == Batch(kind, list, n, i)
    <3>1. x.t = kind /\ x.more = (i < n) /\ x.files = [p \in InBatch(list, i) |-> list[p]]
      BY <2>5
    <3>2. all[i] = x BY <2>4
    <3> HIDE DEF x
    <3>3. all[i].files = [p \in InBatch(list, i) |-> list[p]] BY <3>1, <3>2
    <3> QED BY <3>1, <3>2, <3>3
  <2>7. \A p \in names : \E i \in 1..n : p \in InBatch(list, i)
    <3> TAKE p \in names
    <3> DEFINE k == (Position(p, names) - 1) \div BatchSize
    <3>1. k \in Nat /\ k + 1 <= n BY <2>2
    <3> HIDE DEF k
    <3>2. k + 1 \in 1..n /\ (k + 1) - 1 = k BY <3>1, <2>3
    <3>3. p \in InBatch(list, k + 1) BY <3>2 DEF InBatch, k
    <3> QED BY <3>2, <3>3
  <2>8. \A i : InBatch(list, i) \subseteq DOMAIN list BY DEF InBatch
  <2>9. \E S : all \in Seq(S) BY <2>4
  <2> HIDE DEF names
  <2>10. \A p \in names : \E i \in 1..Len(all) : p \in DOMAIN all[i].files
    BY <2>4, <2>6, <2>7
  <2> QED BY <2>3, <2>4, <2>6, <2>8, <2>9, <2>10 DEF names
<1> QED BY <1>1, <1>2

\* What a run reads of a hello and the list that follows it.
IsScript(all, kind, list) ==
  /\ Len(all) \in Nat /\ Len(all) >= 2 /\ \E S : all \in Seq(S)
  /\ Len(all) = 1 + Len(Batches(kind, list))
  /\ all[1] = Hello
  /\ \A i \in 1..Len(Batches(kind, list)) : all[1 + i] = Batches(kind, list)[i]
  /\ \A i \in 2..Len(all) :
       /\ all[i].t = kind /\ all[i].more = (i < Len(all))
       /\ DOMAIN all[i].files \subseteq DOMAIN list
       /\ \A p \in DOMAIN all[i].files : all[i].files[p] = list[p]
  /\ Named(all, 0) = {} /\ Named(all, 1) = {}
  /\ Named(all, Len(all)) = DOMAIN list
  /\ \A c \in 1..(Len(all) - 1) :
       Named(all, c + 1) = Named(all, c) \cup DOMAIN all[c + 1].files

\* A hello and the batches after it are such a script.
LEMMA ScriptShape ==
  ASSUME NEW kind, NEW list, DOMAIN list \subseteq Path,
         NEW all, all = <<Hello>> \o Batches(kind, list)
  PROVE  IsScript(all, kind, list)
<1> DEFINE b == Batches(kind, list)
<1>1. /\ Len(b) \in Nat \ {0} /\ \E S : b \in Seq(S)
      /\ \A i \in 1..Len(b) :
           /\ b[i].t = kind /\ b[i].more = (i < Len(b))
           /\ DOMAIN b[i].files \subseteq DOMAIN list
           /\ \A p \in DOMAIN b[i].files : b[i].files[p] = list[p]
      /\ \A p \in DOMAIN list : \E i \in 1..Len(b) : p \in DOMAIN b[i].files
  BY BatchesShape
<1> HIDE DEF b
<1>2. PICK S : b \in Seq(S) BY <1>1
<1>3. all = <<Hello>> \o b BY DEF b
<1>4. /\ all \in Seq(S \cup {Hello}) /\ Len(all) = 1 + Len(b) /\ all[1] = Hello
      /\ \A i \in 1..Len(b) : all[1 + i] = b[i]
  <2> DEFINE T == S \cup {Hello}
             h == <<Hello>>
  <2>1. b \in Seq(T) BY <1>2
  <2>2. h \in Seq(T) /\ Len(h) = 1 /\ h[1] = Hello OBVIOUS
  <2> HIDE DEF T, h
  <2>3. h \in Seq(T) BY <2>2
  <2>4. /\ h \o b \in Seq(T) /\ Len(h \o b) = Len(h) + Len(b)
        /\ \A i \in 1..Len(h) : (h \o b)[i] = h[i]
        /\ \A i \in 1..Len(b) : (h \o b)[Len(h) + i] = b[i]
    BY <2>1, <2>3
  <2>5. (h \o b)[1] = h[1]
    <3>1. 1 \in 1..Len(h) BY <2>2
    <3> QED BY <2>4, <3>1
  <2> QED BY <1>3, <2>2, <2>4, <2>5 DEF T, h
<1>5. \A i \in 2..Len(all) : i - 1 \in 1..Len(b) /\ all[i] = b[i - 1]
                             /\ (i < Len(all)) = (i - 1 < Len(b))
  <2> TAKE i \in 2..Len(all)
  <2>1. i - 1 \in 1..Len(b) /\ 1 + (i - 1) = i BY <1>1, <1>4
  <2>2. all[1 + (i - 1)] = b[i - 1] BY <1>4, <2>1
  <2> QED BY <2>1, <2>2, <1>1, <1>4
<1>6. \A i \in 2..Len(all) :
        /\ all[i].t = kind /\ all[i].more = (i < Len(all))
        /\ DOMAIN all[i].files \subseteq DOMAIN list
        /\ \A p \in DOMAIN all[i].files : all[i].files[p] = list[p]
  BY <1>1, <1>5
<1>7. Named(all, 0) = {} /\ Named(all, 1) = {} BY DEF Named
<1>8. Named(all, Len(all)) = DOMAIN list
  <2>1. ASSUME NEW p \in DOMAIN list PROVE p \in Named(all, Len(all))
    <3>1. PICK i \in 1..Len(b) : p \in DOMAIN b[i].files BY <1>1
    <3>2. i + 1 \in 2..Len(all) /\ all[i + 1] = b[i]
      <4>1. i + 1 \in 2..Len(all) /\ 1 + i = i + 1 BY <1>1, <1>4
      <4> QED BY <4>1, <1>4
    <3> QED BY <3>1, <3>2 DEF Named
  <2> QED BY <2>1, <1>6 DEF Named
<1>9. ASSUME NEW c \in 1..(Len(all) - 1)
      PROVE  Named(all, c + 1) = Named(all, c) \cup DOMAIN all[c + 1].files
  <2>1. 2..(c + 1) = (2..c) \cup {c + 1} BY <1>1, <1>4
  <2> QED BY <2>1 DEF Named
<1>10. Len(all) \in Nat /\ Len(all) >= 2 /\ \E T : all \in Seq(T) BY <1>1, <1>4
<1> QED BY <1>4, <1>6, <1>7, <1>8, <1>9, <1>10 DEF b, IsScript

-----------------------------------------------------------------------------
(* The channel.                                                            *)

\* Queues of frames, of any frames.
IsQueue(q) == q \in Seq({q[i] : i \in 1..Len(q)})

\* Every sequence is a queue.
LEMMA SeqIsQueue ==
  ASSUME NEW S, NEW q \in Seq(S)
  PROVE  IsQueue(q)
<1>1. q \in Seq({q[i] : i \in 1..Len(q)}) OBVIOUS
<1> QED BY <1>1 DEF IsQueue

\* What reading a frame leaves.
LEMMA QueueHead ==
  ASSUME NEW q, IsQueue(q), q # <<>>
  PROVE  /\ Len(q) \in Nat \ {0} /\ Head(q) = q[1] /\ IsQueue(Tail(q))
         /\ Len(Tail(q)) = Len(q) - 1
         /\ \A i \in 1..(Len(q) - 1) : Tail(q)[i] = q[i + 1]
<1> DEFINE S == {q[i] : i \in 1..Len(q)}
<1>1. q \in Seq(S) BY DEF IsQueue
<1> HIDE DEF S
<1>2. /\ Tail(q) \in Seq(S) /\ Len(q) \in Nat \ {0} /\ Head(q) = q[1]
      /\ Len(Tail(q)) = Len(q) - 1
      /\ \A i \in 1..(Len(q) - 1) : Tail(q)[i] = q[i + 1]
  BY <1>1
<1> QED BY <1>2, SeqIsQueue

\* What is left of a direction when the channel is lost.
LEMMA QueuePrefix ==
  ASSUME NEW q, IsQueue(q), NEW r \in Prefixes(q)
  PROVE  /\ IsQueue(r) /\ Len(r) \in 0..Len(q) /\ Len(q) \in Nat
         /\ \A i \in 1..Len(r) : r[i] = q[i]
<1> DEFINE S == {q[i] : i \in 1..Len(q)}
<1>1. q \in Seq(S) BY DEF IsQueue
<1> HIDE DEF S
<1>2. PICK k \in 0..Len(q) : r = SubSeq(q, 1, k) BY DEF Prefixes
<1>3. Len(q) \in Nat BY <1>1
<1>4. r \in Seq(S) /\ Len(r) = k /\ \A i \in 1..k : r[i] = q[i]
  BY <1>1, <1>2, <1>3
<1>5. IsQueue(r) BY <1>4, SeqIsQueue
<1> QED BY <1>2, <1>3, <1>4, <1>5

\* What posting frames adds: all of them, or nothing once the channel is down.
LEMMA QueuePost ==
  ASSUME NEW q, IsQueue(q), NEW f, IsQueue(f), NEW r, r = Post(q, f)
  PROVE  /\ IsQueue(r) /\ Len(q) \in Nat /\ Len(f) \in Nat /\ Len(r) \in Nat
         /\ up => Len(r) = Len(q) + Len(f)
         /\ ~up => r = q
         /\ Len(r) >= Len(q) /\ Len(r) <= Len(q) + Len(f)
         /\ \A i \in 1..Len(q) : r[i] = q[i]
         /\ \A i \in 1..Len(f) : up => r[Len(q) + i] = f[i]
<1> DEFINE S == {q[i] : i \in 1..Len(q)} \cup {f[i] : i \in 1..Len(f)}
<1>1. q \in Seq(S) /\ f \in Seq(S) BY DEF IsQueue
<1> HIDE DEF S
<1>2. /\ q \o f \in Seq(S) /\ Len(q \o f) = Len(q) + Len(f)
      /\ Len(q) \in Nat /\ Len(f) \in Nat
      /\ \A i \in 1..Len(q) : (q \o f)[i] = q[i]
      /\ \A i \in 1..Len(f) : (q \o f)[Len(q) + i] = f[i]
  BY <1>1
<1>3. CASE up
  <2>1. r = q \o f BY <1>3 DEF Post
  <2>2. IsQueue(q \o f) BY <1>2, SeqIsQueue
  <2> DEFINE x == q \o f
  <2>3. /\ IsQueue(x) /\ r = x /\ Len(x) = Len(q) + Len(f)
        /\ \A i \in 1..Len(q) : x[i] = q[i]
        /\ \A i \in 1..Len(f) : x[Len(q) + i] = f[i]
    BY <1>2, <2>1, <2>2
  <2> HIDE DEF x
  <2> QED BY <1>2, <1>3, <2>3
<1>4. CASE ~up
  <2>1. r = q BY <1>4 DEF Post
  <2> QED BY <1>2, <1>4, <2>1
<1> QED BY <1>3, <1>4

\* Queues of no frame and of one.
LEMMA QueueOne ==
  /\ IsQueue(<<>>) /\ Len(<<>>) = 0
  /\ \A x : IsQueue(<<x>>) /\ Len(<<x>>) = 1 /\ <<x>>[1] = x
  /\ \A q : IsQueue(q) /\ Len(q) = 0 => q = <<>>
  /\ \A q : IsQueue(q) /\ Len(q) = 1 => q = <<q[1]>>
  /\ \A q : IsQueue(q) /\ q # <<>> => 1 \in 1..Len(q)
<1>1. IsQueue(<<>>) /\ Len(<<>>) = 0 BY DEF IsQueue
<1>2. ASSUME NEW x PROVE IsQueue(<<x>>) /\ Len(<<x>>) = 1 /\ <<x>>[1] = x
  <2>1. <<x>> \in Seq({x}) OBVIOUS
  <2>2. IsQueue(<<x>>) BY <2>1, SeqIsQueue
  <2> QED BY <2>2
<1>3. ASSUME NEW q, IsQueue(q)
      PROVE  /\ Len(q) = 0 => q = <<>>
             /\ Len(q) = 1 => q = <<q[1]>>
             /\ q # <<>> => 1 \in 1..Len(q)
  <2> DEFINE S == {q[i] : i \in 1..Len(q)}
  <2>1. q \in Seq(S) BY <1>3 DEF IsQueue
  <2> HIDE DEF S
  <2>2. Len(q) = 0 => q = <<>> BY <2>1
  <2>3. q # <<>> => 1 \in 1..Len(q) BY <2>1
  <2>4. Len(q) = 1 => q = <<q[1]>> BY <2>1
  <2> QED BY <2>2, <2>3, <2>4
<1> QED BY <1>1, <1>2, <1>3

-----------------------------------------------------------------------------
(* The inductive invariant.                                                *)

FolderTypeOK ==
  /\ src \in [Path -> Version \cup {Absent}]
  /\ dest \in [Name -> Content \cup {Absent, Folder}]
  /\ consent \in {"never", "careful", "always"}
  /\ DOMAIN manifest \subseteq Path /\ \A p \in DOMAIN manifest : manifest[p] \in Whole
  /\ sent \in Content /\ plan \subseteq DOMAIN manifest
  /\ sst \in {"stream", "verify"} => opened \in Version
  /\ sst \in {"open", "stream", "verify"} => plan # {}
  /\ IsQueue(toR) /\ IsQueue(toS)

\* A summary in the channel is the one of a recipient that is done.
SummaryIsTrue ==
  \A i \in 1..Len(toS) : toS[i].t = "done" => rst = "done" /\ toS[i].deleted = rDeleted

\* The queue holds a run of the frames of a script, from the one after the c-th.
Window(queue, all, c) ==
  /\ c + Len(queue) <= Len(all)
  /\ \A i \in 1..Len(queue) : queue[i] = all[c + i]

ToRecipient == <<Hello>> \o Batches("manifest", manifest)
ToSender == <<Hello>> \o Batches("ack", local)

\* Nothing has travelled yet.
Untouched ==
  /\ plan = {} /\ arrived = {} /\ undeleted = {} /\ current = Nobody
  /\ sWritten = 0 /\ rWritten = 0

\* The recipient has not read the hello.
Before ==
  /\ rst = "hello" /\ dest = before /\ declared = {} /\ ~acked /\ toS = <<>>
  /\ ~gotHello /\ DOMAIN acks = {}

\* Its list is that of the folder as it is, the part files discarded.
Scanned ==
  /\ DOMAIN local = Files(dest, Path) /\ \A p \in DOMAIN local : local[p] = dest[p]
  /\ DOMAIN local \cap Suffixed = {}
  /\ \A n \in Name \ Suffixed : dest[n] = before[n]

\* The sender has read d frames of the answer.
Answering(d) ==
  /\ Window(toS, ToSender, d)
  /\ d + Len(toS) <= (IF acked THEN Len(ToSender) ELSE 1)
  /\ up => d + Len(toS) = (IF acked THEN Len(ToSender) ELSE 1)
  /\ gotHello <=> d >= 1
  /\ DOMAIN acks = Named(ToSender, d)
  /\ \A p \in DOMAIN acks : acks[p] = local[p]

\* The recipient has read c frames of the list.
Listing(c) ==
  /\ rst = "loop" /\ Scanned
  /\ declared = Named(ToRecipient, c)
  /\ acked <=> c = Len(ToRecipient)
  /\ \E d \in 0..(Len(ToSender) - 1) : Answering(d)

\* The lists are under way, the recipient c frames into the sender's.
Comparing ==
  /\ Untouched /\ ~gotAck
  /\ \E c \in 0..Len(ToRecipient) :
       /\ Window(toR, ToRecipient, c)
       /\ IF c = 0 THEN Before ELSE Listing(c)

\* The sender has not said hello.
Starting ==
  /\ Untouched /\ ~gotAck /\ Before /\ toR = <<>>

\* What the comparison has settled, for the rest of the run.
Settled ==
  /\ rst \in {"loop", "done"} /\ declared = DOMAIN manifest
  /\ DOMAIN local \subseteq Path /\ DOMAIN local \cap Suffixed = {}
  /\ stale = DOMAIN local \ DOMAIN manifest
  /\ \A p \in Path \ Suffixed : IsFile(before[p]) => p \in DOMAIN local
  /\ \A p \in DOMAIN manifest \ plan :
       /\ p \in DOMAIN travelled /\ travelled[p] \in Content /\ dest[p] = travelled[p]
       /\ p \in arrived \/ dest[p] = manifest[p]
       /\ p \in Suffixed => \A q \in plan : Rank[p] < Rank[q]

\* The files that the sender does not have, before and after the prune.
Others == Path \ (DOMAIN manifest \cup Suffixed)
NotPruned == undeleted = {} /\ \A p \in Others : IsFile(before[p]) => dest[p] = before[p]
Pruned ==
  \A p \in Others : IsFile(before[p]) =>
     dest[p] = IF (consent = "always" \/ (consent = "careful" /\ declared # {}))
                  /\ p \notin undeleted
               THEN Absent ELSE before[p]

\* Both loops are between two files.
Idle == rst = "loop" /\ toR = <<>> /\ toS = <<>> /\ current = Nobody /\ rWritten = sWritten

Opening == Settled /\ NotPruned /\ Idle /\ plan # {}
Finishing == Settled /\ NotPruned /\ Idle /\ plan = {}

\* The frames of a file: begin, its chunks, end; and how many of them the recipient
\* has read.
FrameOf(p, s, n) ==
  IF n = 0 THEN [t |-> "begin", path |-> p]
  ELSE IF n <= Len(s) THEN [t |-> "chunk", v |-> s[n]]
  ELSE [t |-> "end", hash |-> s]
Heard == IF current = Nobody THEN 0 ELSE Len(got) + 1

\* A file is under way: what is in the channel is what comes next of it, and the
\* part file holds what came before.
Carrying ==
  /\ Settled /\ NotPruned /\ rst = "loop" /\ plan # {}
  /\ \A i \in 1..Len(toR) : toR[i] = FrameOf(First(plan), sent, Heard + i - 1)
  /\ current # Nobody =>
       /\ current = First(plan) /\ dest[Part[current]] = got
       /\ Len(got) \in 0..Len(sent) /\ got = SubSeq(sent, 1, Len(got))

\* The sender is reading the file, or waits for the verdict on it.
Streaming ==
  /\ Carrying /\ toS = <<>> /\ rWritten = sWritten
  /\ Heard + Len(toR) <= Len(sent) + 1
  /\ up => Heard + Len(toR) = Len(sent) + 1

Verifying ==
  /\ Carrying /\ Heard + Len(toR) <= Len(sent) + 2
  /\ First(plan) \in DOMAIN travelled /\ travelled[First(plan)] = sent
  /\ \/ toS = <<>> /\ (toR # <<>> \/ current # Nobody => rWritten = sWritten)
     \/ /\ toR = <<>> /\ current = Nobody
        /\ \/ /\ toS = <<[t |-> "ok", path |-> First(plan)]>>
              /\ rWritten = sWritten + 1
              /\ dest[First(plan)] = sent /\ First(plan) \in arrived
           \/ /\ toS = <<[t |-> "fail", path |-> First(plan)]>>
              /\ rWritten = sWritten

\* The last file has been answered: the prune and the two summaries.
Summing ==
  /\ Settled /\ plan = {} /\ current = Nobody /\ rWritten = sWritten
  /\ \/ rst = "loop" /\ toS = <<>>
        /\ \/ toR = <<>>
           \/ /\ NotPruned /\ stale # {}
              /\ Len(toR) \in 1..2 /\ toR[1] = [t |-> "delete", paths |-> stale]
              /\ Len(toR) = 2 => toR[2] = [t |-> "done"]
           \/ Pruned /\ toR = <<[t |-> "done"]>>
     \/ /\ rst = "done" /\ toR = <<>> /\ Pruned
        /\ toS = <<>> \/ toS = <<[t |-> "done", deleted |-> rDeleted]>>

\* The sender has given up on a file.
Aborting ==
  /\ Settled /\ rst = "loop" /\ toS = <<>> /\ current = Nobody
  /\ toR = <<>> \/ toR = <<[t |-> "abort"]>>

\* A run is in one of eight phases; the phase says where both loops are and which
\* frames are under way between them.
InPhase(ph) ==
  CASE ph = "start" -> Starting [] ph = "compare" -> Comparing
    [] ph = "open" -> Opening [] ph = "stream" -> Streaming
    [] ph = "verify" -> Verifying [] ph = "finish" -> Finishing
    [] ph = "summary" -> Summing [] OTHER -> Aborting

Phases == {"start", "compare", "open", "stream", "verify", "finish", "summary", "abort"}
At(ph) == sst = ph \/ sst = "failed" \/ (sst = "done" /\ ph = "summary")

InStep == rst # "failed" => \E ph \in Phases : At(ph) /\ InPhase(ph)

\* The inductive invariant: types, true summaries and, unless the recipient has
\* failed, a phase.
FolderInv == FolderTypeOK /\ SummaryIsTrue /\ SendersSuccessIsShared /\ InStep

phaseVars == <<dest, rst, local, declared, acked, current, got, rWritten, rDeleted,
               toR, toS, up, before, undeleted, travelled, arrived, consent,
               manifest, gotHello, gotAck, acks, plan, stale, sent, sWritten>>

\* A phase is about these variables only.
LEMMA PhaseSame ==
  ASSUME UNCHANGED phaseVars, NEW ph
  PROVE  InPhase(ph)' <=> InPhase(ph)
<1>1. /\ ToRecipient' = ToRecipient /\ ToSender' = ToSender /\ Others' = Others
  BY DEF phaseVars, ToRecipient, ToSender, Others, Batches, NoBatchWhenEmpty
<1>2. /\ Untouched' <=> Untouched
      /\ Before' <=> Before
      /\ Scanned' <=> Scanned
      /\ Settled' <=> Settled
  BY DEF phaseVars, Untouched, Before, Scanned, Settled
<1>3. /\ NotPruned' <=> NotPruned
      /\ Pruned' <=> Pruned
      /\ Idle' <=> Idle
  BY <1>1 DEF phaseVars, NotPruned, Pruned, Idle
<1>4. \A d : Answering(d)' <=> Answering(d)
  BY <1>1 DEF phaseVars, Answering, Window, Named
<1>5. \A c : Listing(c)' <=> Listing(c)
  BY <1>1, <1>2, <1>4 DEF phaseVars, Listing, Named
<1>6. Comparing' <=> Comparing
  BY <1>1, <1>2, <1>5 DEF phaseVars, Comparing, Window
<1>7. Carrying' <=> Carrying
  BY <1>2, <1>3 DEF phaseVars, Carrying, Heard
<1>8. /\ Starting' <=> Starting
      /\ Opening' <=> Opening
      /\ Finishing' <=> Finishing
      /\ Aborting' <=> Aborting
  BY <1>2, <1>3 DEF phaseVars, Starting, Opening, Finishing, Aborting
<1>9. /\ Streaming' <=> Streaming
      /\ Verifying' <=> Verifying
  BY <1>7 DEF phaseVars, Streaming, Verifying, Heard
<1>10. Summing' <=> Summing
  BY <1>2, <1>3 DEF phaseVars, Summing
<1> QED BY <1>6, <1>8, <1>9, <1>10 DEF InPhase

-----------------------------------------------------------------------------
(* Steps of the environment, and failures.                                 *)

\* Steps that the run's own state does not see, or that stop the sender.
LEMMA OutsideStep ==
  ASSUME FolderInv, UNCHANGED phaseVars, UNCHANGED <<sDeleted, opened>>,
         sst' = sst \/ sst' = "failed",
         src' \in [Path -> Version \cup {Absent}]
  PROVE  FolderInv'
<1>1. FolderTypeOK'
  BY DEF FolderInv, FolderTypeOK, phaseVars, IsQueue
<1>2. SummaryIsTrue' BY DEF FolderInv, SummaryIsTrue, phaseVars
<1>3. SendersSuccessIsShared' BY DEF FolderInv, SendersSuccessIsShared, phaseVars
<1>4. InStep'
  <2> SUFFICES ASSUME rst' # "failed" PROVE \E ph \in Phases : At(ph)' /\ InPhase(ph)'
    BY DEF InStep
  <2>1. rst # "failed" BY DEF phaseVars
  <2>2. PICK ph \in Phases : At(ph) /\ InPhase(ph) BY <2>1 DEF FolderInv, InStep
  <2>3. InPhase(ph)' BY <2>2, PhaseSame
  <2>4. At(ph)' BY <2>2 DEF At
  <2> QED BY <2>3, <2>4
<1> QED BY <1>1, <1>2, <1>3, <1>4 DEF FolderInv

\* Steps that end the recipient in error.
LEMMA RecipientFailsStep ==
  ASSUME FolderInv, RecipientRuns, rst' = "failed",
         dest' \in [Name -> Content \cup {Absent, Folder}],
         IsQueue(toR'), IsQueue(toS'),
         \A i \in 1..Len(toS') : toS'[i].t = "done" => i \in 1..Len(toS) /\ toS'[i] = toS[i],
         UNCHANGED <<src, sst, manifest, plan, sent, opened, consent>>
  PROVE  FolderInv'
<1>1. rst # "done" /\ rst # "failed" BY DEF RecipientRuns, Over
<1>2. FolderTypeOK' BY DEF FolderInv, FolderTypeOK
<1>3. SummaryIsTrue' BY <1>1 DEF FolderInv, SummaryIsTrue
<1>4. SendersSuccessIsShared' BY <1>1 DEF FolderInv, SendersSuccessIsShared
<1>5. InStep' BY DEF InStep
<1> QED BY <1>2, <1>3, <1>4, <1>5 DEF FolderInv

\* Removing the part file leaves a folder.
LEMMA CleanUpTyped ==
  ASSUME FolderInv, CleanUp
  PROVE  dest' \in [Name -> Content \cup {Absent, Folder}]
<1>1. dest \in [Name -> Content \cup {Absent, Folder}] BY DEF FolderInv, FolderTypeOK
<1> QED BY <1>1 DEF CleanUp, Put

\* Before the first run.
LEMMA FolderInitial == Init => FolderInv
<1> SUFFICES ASSUME Init PROVE FolderInv
  OBVIOUS
<1>1. FolderTypeOK
  <2>1. src \in [Path -> Version \cup {Absent}]
    BY FolderConstants DEF Init, Version
  <2>2. dest \in [Name -> Content \cup {Absent, Folder}]
    <3>1. dest \in [Name -> {Absent, Folder} \cup Whole] BY FolderAssumption DEF Init
    <3> QED BY <3>1, ContentsAre
  <2>3. sent \in Content
    <3>1. sent \in Seq(Version) /\ Len(sent) <= Chunks BY FolderConstants DEF Init
    <3> QED BY <3>1, ContentsAre
  <2>4. DOMAIN manifest = {} BY DEF Init
  <2> QED BY <2>1, <2>2, <2>3, <2>4, QueueOne DEF FolderTypeOK, Init
<1>2. SummaryIsTrue BY QueueOne DEF Init, SummaryIsTrue
<1>3. SendersSuccessIsShared BY DEF Init, SendersSuccessIsShared
<1>4. InStep BY DEF Init, InStep
<1> QED BY <1>1, <1>2, <1>3, <1>4 DEF FolderInv

\* A new pair of processes is in the first phase.
LEMMA StartStep ==
  ASSUME FolderInv, StartRun
  PROVE  FolderInv'
<1> USE DEF StartRun
<1>1. FolderTypeOK'
  <2>1. DOMAIN manifest' \subseteq Path /\ \A p \in DOMAIN manifest' : manifest'[p] \in Whole
    <3>1. \A p \in Path : src[p] # Absent => src[p] \in Version
      BY DEF FolderInv, FolderTypeOK
    <3> QED BY <3>1, ContentsAre
  <2>2. sent' \in Content
    <3>1. <<>> \in Seq(Version) /\ Len(<<>>) <= Chunks BY FolderConstants
    <3> QED BY <3>1, ContentsAre
  <2> QED BY <2>1, <2>2, QueueOne DEF FolderInv, FolderTypeOK
<1>2. SummaryIsTrue' BY QueueOne DEF SummaryIsTrue
<1>3. SendersSuccessIsShared' BY DEF SendersSuccessIsShared
<1>4. InStep'
  <2>1. Starting' BY DEF Starting, Untouched, Before
  <2>2. InPhase("start")' BY <2>1 DEF InPhase
  <2>3. At("start")' /\ "start" \in Phases BY DEF At, Phases
  <2> QED BY <2>2, <2>3 DEF InStep
<1> QED BY <1>1, <1>2, <1>3, <1>4 DEF FolderInv

\* Edits of the source, and the ways in which the sender ends without a success.
LEMMA EnvironmentStep ==
  ASSUME FolderInv,
         SourceChanges \/ SenderDies \/ SenderFaults \/ SenderCannotFinish \/ SenderEndsInError
  PROVE  FolderInv'
<1>0. src \in [Path -> Version \cup {Absent}] BY DEF FolderInv, FolderTypeOK
<1>1. CASE SourceChanges
  <2>1. src' \in [Path -> Version \cup {Absent}]
    <3>1. Versions \in Version BY FolderConstants DEF Version
    <3> QED BY <1>0, <1>1, <3>1 DEF SourceChanges
  <2>2. UNCHANGED phaseVars /\ UNCHANGED <<sDeleted, opened>> /\ sst' = sst
    BY <1>1 DEF SourceChanges, phaseVars, senderVars, listVars, fileVars, sumVars,
                recipientVars, partVars, tallyVars, runVars
  <2> QED BY <2>1, <2>2, OutsideStep
<1>2. CASE SenderDies \/ SenderFaults \/ SenderCannotFinish \/ SenderEndsInError
  <2>1. UNCHANGED phaseVars /\ UNCHANGED <<sDeleted, opened, src>> /\ sst' = "failed"
    BY <1>2 DEF SenderDies, SenderFaults, SenderCannotFinish, SenderEndsInError, phaseVars,
                listVars, fileVars, sumVars, recipientVars, partVars, tallyVars, runVars, cronVars
  <2> QED BY <1>0, <2>1, OutsideStep
<1> QED BY <1>1, <1>2

\* The ways in which the recipient ends without a success.
LEMMA RecipientFails ==
  ASSUME FolderInv,
         RecipientRefuses \/ RecipientEndsInError \/ RecipientFaults \/ RecipientDies
  PROVE  FolderInv'
<1>0. /\ dest \in [Name -> Content \cup {Absent, Folder}] /\ IsQueue(toR) /\ IsQueue(toS)
  BY DEF FolderInv, FolderTypeOK
<1> USE DEF senderVars, listVars, fileVars, sumVars, cronVars
<1>1. CASE RecipientRefuses
  <2> DEFINE frame == [t |-> "abort"]
  <2>1. /\ RecipientRuns /\ rst' = "failed" /\ CleanUp /\ toR # <<>> /\ toR' = Tail(toR)
        /\ toS' = Post(toS, <<frame>>)
        /\ UNCHANGED <<src, sst, manifest, plan, sent, opened, consent>>
    BY <1>1 DEF RecipientRefuses, RecipientReads, RecipientGivesUp, RecipientRuns, Over
  <2>2. dest' \in [Name -> Content \cup {Absent, Folder}] BY <2>1, CleanUpTyped
  <2>3. IsQueue(toR') BY <1>0, <2>1, QueueHead
  <2>4. frame.t # "done" OBVIOUS
  <2> HIDE DEF frame
  <2>5. /\ IsQueue(<<frame>>) /\ Len(<<frame>>) = 1 /\ <<frame>>[1] = frame
    BY QueueOne
  <2> DEFINE f == <<frame>>
  <2>6. IsQueue(f) /\ Len(f) = 1 /\ f[1] = frame BY <2>5
  <2>7. toS' = Post(toS, f) BY <2>1
  <2> HIDE DEF f
  <2>8. /\ IsQueue(toS') /\ Len(toS) \in Nat /\ Len(toS') \in Nat
        /\ Len(toS') <= Len(toS) + 1
        /\ \A i \in 1..Len(toS) : toS'[i] = toS[i]
        /\ Len(toS') = Len(toS) + 1 => toS'[Len(toS) + 1] = frame
    <3>1. 1 \in 1..Len(f) BY <2>6
    <3>2. ~up => Len(toS') = Len(toS)
      BY <1>0, <2>6, <2>7, QueuePost
    <3>3. Len(toS) \in Nat BY <1>0, <2>6, <2>7, QueuePost
    <3> QED BY <1>0, <2>6, <2>7, <3>1, <3>2, <3>3, QueuePost
  <2>9. \A i \in 1..Len(toS') :
          toS'[i].t = "done" => i \in 1..Len(toS) /\ toS'[i] = toS[i]
    <3> TAKE i \in 1..Len(toS')
    <3>1. CASE i \in 1..Len(toS) BY <2>8, <3>1
    <3>2. CASE i \notin 1..Len(toS)
      <4>1. i = Len(toS) + 1 /\ Len(toS') = Len(toS) + 1 BY <2>8, <3>2
      <4> QED BY <2>4, <2>8, <4>1
    <3> QED BY <3>1, <3>2
  <2> QED BY <2>1, <2>2, <2>3, <2>8, <2>9, RecipientFailsStep
<1>2. CASE RecipientEndsInError \/ RecipientFaults
  <2>1. /\ RecipientRuns /\ rst' = "failed" /\ CleanUp
        /\ UNCHANGED <<src, sst, manifest, plan, sent, opened, consent, toR, toS>>
    BY <1>2 DEF RecipientEndsInError, RecipientFaults, RecipientGivesUp
  <2>2. dest' \in [Name -> Content \cup {Absent, Folder}] BY <2>1, CleanUpTyped
  <2> QED BY <1>0, <2>1, <2>2, RecipientFailsStep
<1>3. CASE RecipientDies
  <2>1. /\ RecipientRuns /\ rst' = "failed" /\ dest' = dest
        /\ UNCHANGED <<src, sst, manifest, plan, sent, opened, consent, toR, toS>>
    BY <1>3 DEF RecipientDies
  <2> QED BY <1>0, <2>1, RecipientFailsStep
<1> QED BY <1>1, <1>2, <1>3

-----------------------------------------------------------------------------
(* A lost channel.                                                         *)

\* A sender at work tells the phase.
LEMMA SenderPhase ==
  ASSUME FolderInv, rst # "failed", sst \in Phases, sst # "abort"
  PROVE  InPhase(sst)
<1>1. PICK ph \in Phases : At(ph) /\ InPhase(ph) BY DEF FolderInv, InStep
<1>2. sst # "failed" /\ sst # "done" BY DEF Phases
<1>3. ph = sst BY <1>1, <1>2 DEF At
<1> QED BY <1>1, <1>3

\* What the recipient hears first is the sender's list in batches.
LEMMA Scripts ==
  ASSUME FolderTypeOK
  PROVE  IsScript(ToRecipient, "manifest", manifest)
BY ScriptShape DEF FolderTypeOK, ToRecipient

\* And what the sender hears first is the recipient's.
LEMMA Answers ==
  ASSUME DOMAIN local \subseteq Path
  PROVE  IsScript(ToSender, "ack", local) /\ IsQueue(Batches("ack", local))
<1>1. IsQueue(Batches("ack", local))
  <2>1. \E S : Batches("ack", local) \in Seq(S) BY BatchesShape
  <2> QED BY <2>1, SeqIsQueue
<1> QED BY <1>1, ScriptShape DEF ToSender

\* While a file is carried.
LEMMA HeardIsCount ==
  ASSUME FolderTypeOK, Carrying
  PROVE  /\ Heard \in Nat /\ Len(sent) \in Nat /\ sent \in Seq(Version)
         /\ First(plan) \in plan /\ First(plan) \in Path
         /\ current # Nobody => /\ got \in Seq(Version) /\ Len(got) \in Nat
                               /\ Len(got) <= Len(sent) /\ got \in Content
<1>1. sent \in Seq(Version) /\ Len(sent) <= Chunks BY ContentsAre DEF FolderTypeOK
<1>2. plan \in SUBSET Path /\ plan # {} BY DEF FolderTypeOK, Carrying
<1>3. First(plan) \in plan BY <1>2, FirstIsLeast
<1>4. ASSUME current # Nobody
      PROVE  /\ got \in Seq(Version) /\ Len(got) \in Nat
             /\ Len(got) <= Len(sent) /\ got \in Content
  <2>1. Len(got) \in 0..Len(sent) /\ got = SubSeq(sent, 1, Len(got))
    BY <1>4 DEF Carrying
  <2>2. PICK k \in 0..Len(sent) : k = Len(got) /\ got = SubSeq(sent, 1, k) BY <2>1
  <2>3. k \in Nat /\ got \in Seq(Version) /\ Len(got) = k /\ k <= Len(sent) /\ k <= Chunks
    <3>1. Len(sent) \in Nat /\ Chunks \in Nat BY <1>1, FolderConstants
    <3> QED BY <1>1, <2>2, <3>1
  <2>4. got \in Content BY <2>3, ContentsAre
  <2> QED BY <2>2, <2>3, <2>4
<1> QED BY <1>1, <1>2, <1>3, <1>4 DEF Heard

\* A lost channel leaves a shorter run of the same frames in each direction.
LEMMA LossStep ==
  ASSUME FolderInv, ChannelLost
  PROVE  FolderInv'
<1> DEFINE rest == <<dest, rst, local, declared, acked, current, got, rWritten, rDeleted,
                     before, undeleted, travelled, arrived, consent, manifest, gotHello,
                     gotAck, acks, plan, stale, sent, sWritten>>
<1>0. /\ UNCHANGED rest /\ UNCHANGED <<sst, opened, src, sDeleted>>
      /\ up' = FALSE /\ toR' \in Prefixes(toR) /\ toS' \in Prefixes(toS)
  BY DEF ChannelLost, senderVars, listVars, fileVars, sumVars, recipientVars, partVars,
         tallyVars, runVars, cronVars
<1>1. /\ IsQueue(toR) /\ IsQueue(toS) /\ IsQueue(toR') /\ IsQueue(toS')
      /\ Len(toR') \in 0..Len(toR) /\ Len(toS') \in 0..Len(toS)
      /\ Len(toR) \in Nat /\ Len(toS) \in Nat
      /\ \A i \in 1..Len(toR') : toR'[i] = toR[i]
      /\ \A i \in 1..Len(toS') : toS'[i] = toS[i]
  BY <1>0, QueuePrefix DEF FolderInv, FolderTypeOK
<1>2. /\ toR = <<>> => toR' = <<>>
      /\ toS = <<>> => toS' = <<>>
      /\ \A x : toR = <<x>> => toR' \in {<<>>, <<x>>}
      /\ \A x : toS = <<x>> => toS' \in {<<>>, <<x>>}
  <2>1. ASSUME NEW q, NEW r, IsQueue(r), Len(r) \in 0..Len(q), \A i \in 1..Len(r) : r[i] = q[i]
        PROVE  /\ q = <<>> => r = <<>>
               /\ \A x : q = <<x>> => r \in {<<>>, <<x>>}
    <3>1. ASSUME q = <<>> PROVE r = <<>>
      <4>1. Len(r) = 0 BY <2>1, <3>1
      <4> QED BY <2>1, <4>1, QueueOne
    <3>2. ASSUME NEW x, q = <<x>> PROVE r \in {<<>>, <<x>>}
      <4>1. q[1] = x /\ (Len(r) = 0 \/ Len(r) = 1) BY <2>1, <3>2, QueueOne
      <4>2. CASE Len(r) = 0 BY <2>1, <4>2, QueueOne
      <4>3. CASE Len(r) = 1
        <5>1. r = <<r[1]>> BY <2>1, <4>3, QueueOne
        <5>2. r[1] = q[1] BY <2>1, <4>3
        <5> QED BY <4>1, <5>1, <5>2
      <4> QED BY <4>1, <4>2, <4>3
    <3> QED BY <3>1, <3>2
  <2> QED BY <1>1, <2>1
<1>3. FolderTypeOK'
  BY <1>0, <1>1 DEF FolderInv, FolderTypeOK
<1>4. SummaryIsTrue' BY <1>0, <1>1 DEF FolderInv, SummaryIsTrue
<1>5. SendersSuccessIsShared' BY <1>0 DEF FolderInv, SendersSuccessIsShared
<1>6. InStep'
  <2> SUFFICES ASSUME rst' # "failed" PROVE \E ph \in Phases : At(ph)' /\ InPhase(ph)'
    BY DEF InStep
  <2>1. PICK ph \in Phases : At(ph) /\ InPhase(ph) BY <1>0 DEF FolderInv, InStep
  <2>2. At(ph)' BY <1>0, <2>1 DEF At
  <2>3. /\ ToRecipient' = ToRecipient /\ ToSender' = ToSender /\ Others' = Others
    BY <1>0 DEF ToRecipient, ToSender, Others, Batches, NoBatchWhenEmpty
  <2>4. /\ Untouched' <=> Untouched
        /\ Scanned' <=> Scanned
        /\ Settled' <=> Settled
        /\ NotPruned' <=> NotPruned
        /\ Pruned' <=> Pruned
    BY <1>0, <2>3 DEF Untouched, Scanned, Settled, NotPruned, Pruned
  <2>5. /\ Before => Before'
        /\ Idle => Idle'
    BY <1>0, <1>2 DEF Before, Idle
  <2>6. Starting => Starting' BY <1>0, <1>2, <2>4, <2>5 DEF Starting
  <2>7. Opening => Opening' BY <1>0, <2>4, <2>5 DEF Opening
  <2>8. Finishing => Finishing' BY <1>0, <2>4, <2>5 DEF Finishing
  <2>9. ASSUME Comparing PROVE Comparing'
    <3>1. Untouched /\ ~gotAck BY <2>9 DEF Comparing
    <3>2. PICK c \in 0..Len(ToRecipient) :
            /\ Window(toR, ToRecipient, c)
            /\ IF c = 0 THEN Before ELSE Listing(c)
      BY <2>9 DEF Comparing
    <3>3. Len(ToRecipient) \in Nat BY Scripts DEF FolderInv, IsScript
    <3>4. Window(toR, ToRecipient, c)'
      BY <1>1, <2>3, <3>2, <3>3 DEF Window
    <3>5. Listing(c) => Listing(c)'
      <4> SUFFICES ASSUME Listing(c) PROVE Listing(c)'
        OBVIOUS
      <4>1. PICK d \in 0..(Len(ToSender) - 1) : Answering(d) BY DEF Listing
      <4>2. Len(ToSender) \in Nat
        <5>1. DOMAIN local \subseteq Path BY DEF Listing, Scanned, Files
        <5> QED BY <5>1, Answers DEF IsScript
      <4>3. Answering(d)'
        BY <1>0, <1>1, <2>3, <4>1, <4>2 DEF Answering, Window, Named
      <4>4. d \in 0..(Len(ToSender)' - 1) BY <2>3
      <4> QED BY <1>0, <2>3, <2>4, <4>3, <4>4 DEF Listing, Named
    <3> QED BY <1>0, <2>3, <2>4, <2>5, <3>1, <3>2, <3>4, <3>5 DEF Comparing
  <2>10. Heard' = Heard BY <1>0 DEF Heard
  <2>11. Carrying => Carrying'
    BY <1>0, <1>1, <2>4, <2>10 DEF Carrying
  <2>12. ASSUME Streaming PROVE Streaming'
    <3>1. Streaming BY <2>12
    <3>2. Heard \in Nat /\ Len(sent) \in Nat BY <3>1, HeardIsCount DEF FolderInv, Streaming
    <3> QED BY <1>0, <1>1, <1>2, <2>10, <2>11, <3>1, <3>2 DEF Streaming
  <2>13. ASSUME Verifying PROVE Verifying'
    <3>1. Heard \in Nat /\ Len(sent) \in Nat
      BY <2>13, HeardIsCount DEF FolderInv, Verifying
    <3>2. toS' = <<>> \/ toS' = toS
      <4>1. toS = <<>> \/ \E x : toS = <<x>> BY <2>13 DEF Verifying
      <4> QED BY <1>2, <4>1
    <3>3. Carrying' /\ Heard' + Len(toR') <= Len(sent') + 2
      BY <1>0, <1>1, <2>10, <2>11, <2>13, <3>1 DEF Verifying
    <3>4. toR' # <<>> => toR # <<>> BY <1>2
    <3> QED BY <1>0, <1>2, <2>13, <3>2, <3>3, <3>4 DEF Verifying
  <2>14. ASSUME Summing PROVE Summing'
    <3>1. Settled' /\ plan' = {} /\ current' = Nobody /\ rWritten' = sWritten'
      BY <1>0, <2>4, <2>14 DEF Summing
    <3>2. CASE rst = "done"
      <4>1. rst = "done" /\ toR = <<>> /\ Pruned BY <2>14, <3>2 DEF Summing
      <4>2. toS' = <<>> \/ toS' = toS
        <5>1. toS = <<>> \/ \E x : toS = <<x>> BY <2>14, <3>2 DEF Summing
        <5> QED BY <1>2, <5>1
      <4>3. toS = <<>> \/ toS = <<[t |-> "done", deleted |-> rDeleted]>>
        BY <2>14, <3>2 DEF Summing
      <4> QED BY <1>0, <1>2, <2>4, <3>1, <4>1, <4>2, <4>3 DEF Summing
    <3>3. CASE rst # "done"
      <4>1. rst = "loop" /\ toS = <<>> BY <2>14, <3>3 DEF Summing
      <4>2. CASE toR' = <<>> BY <1>0, <1>2, <3>1, <4>1, <4>2 DEF Summing
      <4>3. CASE toR' # <<>>
        <5>1. 1 \in 1..Len(toR') /\ toR'[1] = toR[1] /\ toR # <<>>
          BY <1>1, <1>2, <4>3, QueueOne
        <5>2. \/ /\ NotPruned /\ stale # {}
                 /\ Len(toR) \in 1..2 /\ toR[1] = [t |-> "delete", paths |-> stale]
                 /\ Len(toR) = 2 => toR[2] = [t |-> "done"]
              \/ Pruned /\ toR = <<[t |-> "done"]>>
          BY <2>14, <3>3, <5>1 DEF Summing
        <5>3. CASE NotPruned /\ stale # {} /\ Len(toR) \in 1..2
                    /\ toR[1] = [t |-> "delete", paths |-> stale]
                    /\ (Len(toR) = 2 => toR[2] = [t |-> "done"])
          <6>1. Len(toR') \in 1..2 /\ (Len(toR') = 2 => Len(toR) = 2 /\ toR'[2] = toR[2])
            <7>1. Len(toR') \in Nat \ {0} BY <1>1, <5>1
            <7>2. Len(toR') <= Len(toR) /\ (Len(toR) = 1 \/ Len(toR) = 2) BY <1>1, <5>3
            <7>3. Len(toR') = 2 => Len(toR) = 2 /\ 2 \in 1..Len(toR') BY <7>1, <7>2
            <7>4. Len(toR') = 2 => toR'[2] = toR[2] BY <1>1, <7>3
            <7>5. \A m, n \in Nat : m # 0 /\ m <= n /\ (n = 1 \/ n = 2) => m \in 1..2
              OBVIOUS
            <7>6. Len(toR') \in 1..2 BY <1>1, <7>1, <7>2, <7>5
            <7> QED BY <7>3, <7>4, <7>6
          <6> QED BY <1>0, <2>4, <3>1, <4>1, <1>2, <5>1, <5>3, <6>1 DEF Summing
        <5>4. CASE Pruned /\ toR = <<[t |-> "done"]>>
          <6>1. toR' = toR BY <1>2, <4>3, <5>4
          <6> QED BY <1>0, <2>4, <3>1, <4>1, <1>2, <5>4, <6>1 DEF Summing
        <5> QED BY <5>2, <5>3, <5>4
      <4> QED BY <4>2, <4>3
    <3> QED BY <3>2, <3>3
  <2>15. Aborting => Aborting'
    BY <1>0, <1>2, <2>4 DEF Aborting
  <2>16. InPhase(ph)'
    BY <2>1, <2>6, <2>7, <2>8, <2>9, <2>12, <2>13, <2>14, <2>15 DEF InPhase, Phases
  <2> QED BY <2>2, <2>16
<1> QED BY <1>3, <1>4, <1>5, <1>6 DEF FolderInv

-----------------------------------------------------------------------------
(* Steps of the sender.                                                    *)

\* A step of the sender that is no success reads at most a frame.
LEMMA SenderMove ==
  ASSUME FolderInv, FolderTypeOK', InStep', sst' # "done",
         UNCHANGED <<rst, rDeleted>>,
         toS' = toS \/ (toS # <<>> /\ toS' = Tail(toS))
  PROVE  FolderInv'
<1>1. IsQueue(toS) /\ SummaryIsTrue BY DEF FolderInv, FolderTypeOK
<1>2. SummaryIsTrue'
  <2>1. CASE toS' = toS BY <1>1, <2>1 DEF SummaryIsTrue
  <2>2. CASE toS # <<>> /\ toS' = Tail(toS)
    <3>1. Len(toS) \in Nat \ {0} /\ Len(toS') = Len(toS) - 1
          /\ \A i \in 1..(Len(toS) - 1) : toS'[i] = toS[i + 1]
      BY <1>1, <2>2, QueueHead
    <3>2. \A i \in 1..Len(toS') : i + 1 \in 1..Len(toS) /\ toS'[i] = toS[i + 1]
      BY <3>1
    <3> QED BY <1>1, <3>2 DEF SummaryIsTrue
  <2> QED BY <2>1, <2>2
<1>3. SendersSuccessIsShared' BY DEF SendersSuccessIsShared
<1> QED BY <1>2, <1>3 DEF FolderInv

\* A phase after the step is all that InStep asks.
LEMMA InStepAt ==
  ASSUME NEW ph \in Phases, At(ph)', InPhase(ph)'
  PROVE  InStep'
BY DEF InStep

\* The hello and the whole list go out.
LEMMA GreetsStep ==
  ASSUME FolderInv, SenderGreets
  PROVE  FolderInv'
<1>1. /\ sst = "start" /\ sst' = "compare" /\ toR' = Post(toR, ToRecipient)
      /\ UNCHANGED <<src, manifest, gotHello, gotAck, acks, plan, stale, opened, sent, sWritten>>
      /\ UNCHANGED <<dest, rst, local, declared, acked, current, got, rWritten, rDeleted>>
      /\ UNCHANGED <<toS, up, before, undeleted, travelled, arrived, consent>>
  BY DEF SenderGreets, ToRecipient, Hello, listVars, fileVars, sumVars, recipientVars,
         partVars, tallyVars, runVars, cronVars
<1>2. FolderTypeOK BY DEF FolderInv
<1>3. IsScript(ToRecipient, "manifest", manifest) BY <1>2, Scripts
<1>4. IsQueue(ToRecipient) /\ Len(ToRecipient) \in Nat
  <2>1. \E S : ToRecipient \in Seq(S) BY <1>3 DEF IsScript
  <2> QED BY <1>3, <2>1, SeqIsQueue DEF IsScript
<1>5. /\ IsQueue(toR') /\ Len(toR) \in Nat /\ Len(toR') \in Nat
      /\ up => Len(toR') = Len(toR) + Len(ToRecipient)
      /\ ~up => toR' = toR
      /\ \A i \in 1..Len(ToRecipient) : up => toR'[Len(toR) + i] = ToRecipient[i]
  <2>1. IsQueue(toR) BY <1>2 DEF FolderTypeOK
  <2> QED BY <1>1, <1>4, <2>1, QueuePost
<1>6. FolderTypeOK' BY <1>1, <1>2, <1>5 DEF FolderTypeOK
<1>7. InStep'
  <2> SUFFICES ASSUME rst' # "failed" PROVE InStep'
    BY DEF InStep
  <2>1. Starting
    <3>1. InPhase(sst) BY <1>1, SenderPhase DEF Phases
    <3> QED BY <1>1, <3>1 DEF InPhase
  <2>2. ToRecipient' = ToRecipient
    BY <1>1 DEF ToRecipient, Batches, NoBatchWhenEmpty
  <2>3. Window(toR', ToRecipient, 0)
    <3>1. toR = <<>> /\ Len(toR) = 0 BY <2>1, QueueOne DEF Starting
    <3>2. CASE up
      <4>1. Len(toR') = Len(ToRecipient)
            /\ \A i \in 1..Len(ToRecipient) : toR'[0 + i] = ToRecipient[0 + i]
        BY <1>4, <1>5, <3>1, <3>2
      <4>2. \A i \in 1..Len(ToRecipient) : toR'[i] = ToRecipient[0 + i]
        BY <1>4, <4>1
      <4> QED BY <1>4, <4>1, <4>2 DEF Window
    <3>3. CASE ~up
      <4>1. Len(toR') = 0 BY <1>5, <3>1, <3>3
      <4> QED BY <1>4, <4>1 DEF Window
    <3> QED BY <3>2, <3>3
  <2>4. Untouched' /\ Before' /\ ~gotAck'
    BY <1>1, <2>1 DEF Starting, Untouched, Before
  <2>5. Comparing'
    <3>1. 0 \in 0..Len(ToRecipient) BY <1>4
    <3> QED BY <2>2, <2>3, <2>4, <3>1 DEF Comparing, Window
  <2>6. InPhase("compare")' /\ At("compare")' /\ "compare" \in Phases
    BY <1>1, <2>5 DEF InPhase, At, Phases
  <2> QED BY <2>6, InStepAt
<1> QED BY <1>1, <1>6, <1>7, SenderMove

\* A frame that the sender reads while it compares is the next of the answer.
LEMMA NextAnswer ==
  ASSUME FolderInv, rst # "failed", sst = "compare", toS # <<>>
  PROVE  \E c \in 1..Len(ToRecipient), d \in 0..(Len(ToSender) - 1) :
           /\ Untouched /\ ~gotAck
           /\ Window(toR, ToRecipient, c)
           /\ rst = "loop" /\ Scanned /\ declared = Named(ToRecipient, c)
           /\ acked <=> c = Len(ToRecipient)
           /\ Answering(d)
           /\ Head(toS) = ToSender[d + 1]
           /\ IsScript(ToSender, "ack", local) /\ IsScript(ToRecipient, "manifest", manifest)
<1>1. Comparing
  <2>1. InPhase(sst) BY SenderPhase DEF Phases
  <2> QED BY <2>1 DEF InPhase
<1>2. PICK c \in 0..Len(ToRecipient) :
        /\ Window(toR, ToRecipient, c)
        /\ IF c = 0 THEN Before ELSE Listing(c)
  BY <1>1 DEF Comparing
<1>3. c # 0 BY <1>2 DEF Before
<1>4. Listing(c) BY <1>2, <1>3
<1>5. IsScript(ToRecipient, "manifest", manifest) BY Scripts DEF FolderInv
<1>6. c \in 1..Len(ToRecipient) BY <1>2, <1>3, <1>5 DEF IsScript
<1>7. PICK d \in 0..(Len(ToSender) - 1) : Answering(d) BY <1>4 DEF Listing
<1>8. IsScript(ToSender, "ack", local)
  <2>1. DOMAIN local \subseteq Path BY <1>4 DEF Listing, Scanned, Files
  <2> QED BY <2>1, Answers
<1>9. Head(toS) = ToSender[d + 1]
  <2>1. 1 \in 1..Len(toS) /\ Head(toS) = toS[1]
    BY QueueHead, QueueOne DEF FolderInv, FolderTypeOK
  <2> QED BY <1>7, <2>1 DEF Answering, Window
<1> QED BY <1>1, <1>2, <1>4, <1>5, <1>6, <1>7, <1>8, <1>9 DEF Comparing, Listing

\* What the comparison writes has its types.
LEMMA ComparedTypes ==
  ASSUME FolderTypeOK, sst = "compare", Compare, IsQueue(toS'),
         UNCHANGED <<src, dest, consent, manifest, sent, opened, toR>>
  PROVE  FolderTypeOK' /\ sst' \in {"compare", "open", "finish"}
<1>1. CASE gotHello' /\ gotAck'
  <2>1. plan' \subseteq DOMAIN manifest /\ sst' = NextFile(plan')
    BY <1>1 DEF Compare
  <2>2. sst' \in {"open", "finish"} /\ (sst' = "open" => plan' # {})
    BY <2>1 DEF NextFile
  <2> QED BY <2>1, <2>2 DEF FolderTypeOK
<1>2. CASE ~(gotHello' /\ gotAck')
  <2>1. UNCHANGED <<plan, sst>> BY <1>2 DEF Compare
  <2> QED BY <2>1 DEF FolderTypeOK
<1> QED BY <1>1, <1>2

\* The first frame of the answer.
LEMMA HearsHelloStep ==
  ASSUME FolderInv, SenderHearsHello
  PROVE  FolderInv'
<1>1. /\ sst = "compare" /\ toS # <<>> /\ Head(toS).t = "hello" /\ toS' = Tail(toS)
      /\ gotHello' = TRUE /\ Compare
      /\ UNCHANGED <<src, manifest, gotAck, acks, opened, sent, sWritten, consent>>
      /\ UNCHANGED <<dest, rst, local, declared, acked, current, got, rWritten, rDeleted>>
      /\ UNCHANGED <<toR, up, before, undeleted, arrived>>
  BY DEF SenderHearsHello, SenderReads, sumVars, recipientVars,
         partVars, tallyVars, runVars, cronVars
<1>2. /\ IsQueue(toS) /\ IsQueue(toS') /\ Len(toS) \in Nat \ {0}
      /\ Len(toS') = Len(toS) - 1
      /\ \A i \in 1..(Len(toS) - 1) : toS'[i] = toS[i + 1]
  BY <1>1, QueueHead DEF FolderInv, FolderTypeOK
<1>3. FolderTypeOK' /\ sst' \in {"compare", "open", "finish"}
  BY <1>1, <1>2, ComparedTypes DEF FolderInv
<1>4. InStep'
  <2> SUFFICES ASSUME rst' # "failed" PROVE InStep'
    BY DEF InStep
  <2>1. PICK c \in 1..Len(ToRecipient), d \in 0..(Len(ToSender) - 1) :
           /\ Untouched /\ ~gotAck
           /\ Window(toR, ToRecipient, c)
           /\ rst = "loop" /\ Scanned /\ declared = Named(ToRecipient, c)
           /\ acked <=> c = Len(ToRecipient)
           /\ Answering(d)
           /\ Head(toS) = ToSender[d + 1]
           /\ IsScript(ToSender, "ack", local) /\ IsScript(ToRecipient, "manifest", manifest)
    BY <1>1, NextAnswer
  <2>2. Len(ToSender) \in Nat /\ Len(ToSender) >= 2 /\ Len(ToRecipient) \in Nat
    BY <2>1 DEF IsScript
  <2>3. d = 0
    <3> SUFFICES ASSUME d # 0 PROVE FALSE
      OBVIOUS
    <3>1. d + 1 \in 2..Len(ToSender) BY <2>2
    <3>2. ToSender[d + 1].t = "ack" BY <2>1, <3>1 DEF IsScript
    <3> QED BY <1>1, <2>1, <3>2
  <2>4. UNCHANGED <<plan, stale, travelled, sst>> BY <1>1, <2>1 DEF Compare
  <2>5. ToRecipient' = ToRecipient /\ ToSender' = ToSender
    BY <1>1 DEF ToRecipient, ToSender, Batches, NoBatchWhenEmpty
  <2>6. Untouched' /\ ~gotAck' /\ Scanned'
    BY <1>1, <2>1, <2>4 DEF Untouched, Scanned
  <2>7. Answering(1)'
    <3>1. /\ 0 + Len(toS) <= Len(ToSender)
          /\ \A i \in 1..Len(toS) : toS[i] = ToSender[0 + i]
          /\ 0 + Len(toS) <= (IF acked THEN Len(ToSender) ELSE 1)
          /\ up => 0 + Len(toS) = (IF acked THEN Len(ToSender) ELSE 1)
          /\ DOMAIN acks = Named(ToSender, 0)
          /\ \A p \in DOMAIN acks : acks[p] = local[p]
      BY <2>1, <2>3 DEF Answering, Window
    <3>2. \A i \in 1..Len(toS') : toS'[i] = ToSender[1 + i]
      <4> TAKE i \in 1..Len(toS')
      <4>1. i + 1 \in 1..Len(toS) /\ toS'[i] = toS[i + 1] BY <1>2
      <4>2. 0 + (i + 1) = 1 + i /\ toS[i + 1] = ToSender[0 + (i + 1)]
        BY <1>2, <3>1, <4>1
      <4> QED BY <4>1, <4>2
    <3>3. 1 + Len(toS') = 0 + Len(toS) BY <1>2
    <3>4. Window(toS', ToSender, 1) BY <3>1, <3>2, <3>3 DEF Window
    <3>5. DOMAIN acks = Named(ToSender, 1) BY <2>1, <3>1 DEF IsScript
    <3>6. Window(toS, ToSender, 1)' /\ (DOMAIN acks = Named(ToSender, 1))'
      BY <1>1, <2>5, <3>4, <3>5 DEF Window, Named
    <3> QED BY <1>1, <2>5, <3>1, <3>3, <3>6 DEF Answering
  <2>8. Listing(c)'
    <3>1. 1 \in 0..(Len(ToSender) - 1) BY <2>2
    <3> QED BY <1>1, <2>1, <2>5, <2>6, <2>7, <3>1 DEF Listing, Named
  <2>9. Comparing'
    <3>1. c \in 0..Len(ToRecipient) /\ c # 0 BY <2>2
    <3> QED BY <1>1, <2>1, <2>5, <2>6, <2>8, <3>1 DEF Comparing, Window
  <2>10. InPhase("compare")' /\ At("compare")' /\ "compare" \in Phases
    BY <1>1, <2>4, <2>9 DEF InPhase, At, Phases
  <2> QED BY <2>10, InStepAt
<1> QED BY <1>1, <1>3, <1>4, SenderMove

\* A further frame of the answer; the last one settles what is equal.
LEMMA HearsListStep ==
  ASSUME FolderInv, SenderHearsList
  PROVE  FolderInv'
<1>1. /\ sst = "compare" /\ toS # <<>> /\ Head(toS).t = "ack" /\ toS' = Tail(toS)
      /\ acks' = Merge(acks, Head(toS).files) /\ gotAck' = ~Head(toS).more
      /\ gotHello' = gotHello /\ Compare
      /\ UNCHANGED <<src, manifest, opened, sent, sWritten, consent>>
      /\ UNCHANGED <<dest, rst, local, declared, acked, current, got, rWritten, rDeleted>>
      /\ UNCHANGED <<toR, up, before, undeleted, arrived>>
  BY DEF SenderHearsList, SenderReads, Collect, sumVars, recipientVars,
         partVars, tallyVars, runVars, cronVars
<1>2. /\ IsQueue(toS) /\ IsQueue(toS') /\ Len(toS) \in Nat \ {0}
      /\ Len(toS') = Len(toS) - 1
      /\ \A i \in 1..(Len(toS) - 1) : toS'[i] = toS[i + 1]
  BY <1>1, QueueHead DEF FolderInv, FolderTypeOK
<1>3. FolderTypeOK' /\ sst' \in {"compare", "open", "finish"}
  BY <1>1, <1>2, ComparedTypes DEF FolderInv
<1>4. InStep'
  <2> SUFFICES ASSUME rst' # "failed" PROVE InStep'
    BY DEF InStep
  <2>1. PICK c \in 1..Len(ToRecipient), d \in 0..(Len(ToSender) - 1) :
           /\ Untouched /\ ~gotAck
           /\ Window(toR, ToRecipient, c)
           /\ rst = "loop" /\ Scanned /\ declared = Named(ToRecipient, c)
           /\ acked <=> c = Len(ToRecipient)
           /\ Answering(d)
           /\ Head(toS) = ToSender[d + 1]
           /\ IsScript(ToSender, "ack", local) /\ IsScript(ToRecipient, "manifest", manifest)
    BY <1>1, NextAnswer
  <2>2. Len(ToSender) \in Nat /\ Len(ToSender) >= 2 /\ Len(ToRecipient) \in Nat
    BY <2>1 DEF IsScript
  <2>3. d # 0
    <3> SUFFICES ASSUME d = 0 PROVE FALSE
      OBVIOUS
    <3>1. ToSender[d + 1] = Hello BY <2>1 DEF IsScript
    <3> QED BY <1>1, <2>1, <3>1 DEF Hello
  <2>4. d \in 1..(Len(ToSender) - 1) /\ d + 1 \in 2..Len(ToSender) BY <2>2, <2>3
  <2>5. /\ d + Len(toS) <= Len(ToSender)
        /\ \A i \in 1..Len(toS) : toS[i] = ToSender[d + i]
        /\ d + Len(toS) <= (IF acked THEN Len(ToSender) ELSE 1)
        /\ up => d + Len(toS) = (IF acked THEN Len(ToSender) ELSE 1)
        /\ gotHello <=> d >= 1
        /\ DOMAIN acks = Named(ToSender, d)
        /\ \A p \in DOMAIN acks : acks[p] = local[p]
    BY <2>1 DEF Answering, Window
  <2>6. gotHello BY <2>4, <2>5
  <2>7. /\ Head(toS).more = (d + 1 < Len(ToSender))
        /\ \A p \in DOMAIN Head(toS).files : Head(toS).files[p] = local[p]
        /\ Named(ToSender, d + 1) = Named(ToSender, d) \cup DOMAIN Head(toS).files
    <3> DEFINE m == d + 1
    <3>1. m \in 2..Len(ToSender) /\ d \in 1..(Len(ToSender) - 1) BY <2>4
    <3>2. Head(toS) = ToSender[m] BY <2>1
    <3>3. Named(ToSender, d + 1) = Named(ToSender, d) \cup DOMAIN ToSender[d + 1].files
      BY <2>1, <3>1 DEF IsScript
    <3>4. m = d + 1 OBVIOUS
    <3> HIDE DEF m
    <3>5. ToSender[m].more = (m < Len(ToSender))
      BY <2>1, <3>1 DEF IsScript
    <3>6. \A p \in DOMAIN ToSender[m].files : ToSender[m].files[p] = local[p]
      BY <2>1, <3>1 DEF IsScript
    <3> QED BY <3>2, <3>3, <3>4, <3>5, <3>6
  <2>8. DOMAIN acks' = Named(ToSender, d + 1) /\ \A p \in DOMAIN acks' : acks'[p] = local[p]
    BY <1>1, <2>5, <2>7 DEF Merge
  <2>9. ToRecipient' = ToRecipient /\ ToSender' = ToSender
    BY <1>1 DEF ToRecipient, ToSender, Batches, NoBatchWhenEmpty
  <2>10. d + 1 + Len(toS') = d + Len(toS) BY <1>2, <2>4
  <2>11. CASE d + 1 < Len(ToSender)
    <3>1. ~gotAck' /\ UNCHANGED <<plan, stale, travelled, sst>>
      BY <1>1, <2>7, <2>11 DEF Compare
    <3>2. Untouched' /\ Scanned' BY <1>1, <2>1, <3>1 DEF Untouched, Scanned
    <3>3. Answering(d + 1)'
      <4>1. \A i \in 1..Len(toS') : toS'[i] = ToSender[d + 1 + i]
        <5> TAKE i \in 1..Len(toS')
        <5>1. i + 1 \in 1..Len(toS) /\ toS'[i] = toS[i + 1] BY <1>2
        <5>2. d + (i + 1) = d + 1 + i /\ toS[i + 1] = ToSender[d + (i + 1)]
          BY <1>2, <2>4, <2>5, <5>1
        <5> QED BY <5>1, <5>2
      <4>2. Window(toS, ToSender, d + 1)'
        BY <2>5, <2>9, <2>10, <4>1 DEF Window
      <4>3. d + 1 >= 1 BY <2>4
      <4> QED BY <1>1, <2>5, <2>6, <2>8, <2>9, <2>10, <4>2, <4>3 DEF Answering, Named
    <3>4. Listing(c)'
      <4>1. d + 1 \in 0..(Len(ToSender) - 1) BY <2>2, <2>4, <2>11
      <4> QED BY <1>1, <2>1, <2>9, <3>2, <3>3, <4>1 DEF Listing, Named
    <3>5. Comparing'
      <4>1. c \in 0..Len(ToRecipient) /\ c # 0 BY <2>2
      <4> QED BY <1>1, <2>1, <2>9, <3>1, <3>2, <3>4, <4>1 DEF Comparing, Window
    <3>6. InPhase("compare")' /\ At("compare")' /\ "compare" \in Phases
      BY <1>1, <3>1, <3>5 DEF InPhase, At, Phases
    <3> QED BY <3>6, InStepAt
  <2>12. CASE ~(d + 1 < Len(ToSender))
    <3>1. d + 1 = Len(ToSender) BY <2>2, <2>4, <2>12
    <3>2. gotAck' /\ gotHello' BY <1>1, <2>6, <2>7, <2>12
    <3>3. /\ plan' = {p \in DOMAIN manifest : Differs(p, acks')}
          /\ stale' = DOMAIN acks' \ DOMAIN manifest
          /\ travelled' = [p \in DOMAIN manifest \ plan' |-> manifest[p]]
          /\ sst' = NextFile(plan')
      BY <1>1, <3>2 DEF Compare
    <3>4. DOMAIN acks' = DOMAIN local BY <2>1, <2>8, <3>1 DEF IsScript
    <3>5. acked
      <4> SUFFICES ASSUME ~acked PROVE FALSE
        OBVIOUS
      <4>1. d + Len(toS) <= 1 BY <2>5
      <4> QED BY <1>2, <2>4, <4>1
    <3>6. toS' = <<>>
      <4>1. d + Len(toS) <= Len(ToSender) BY <2>5
      <4>2. Len(toS') = 0 BY <1>2, <2>4, <3>1, <4>1
      <4> QED BY <1>2, <4>2, QueueOne
    <3>7. c = Len(ToRecipient) BY <2>1, <3>5
    <3>8. toR = <<>>
      <4>1. c + Len(toR) <= Len(ToRecipient) BY <2>1 DEF Window
      <4>2. IsQueue(toR) BY DEF FolderInv, FolderTypeOK
      <4>3. toR # <<>> => Len(toR) \in Nat \ {0} BY <4>2, QueueHead
      <4> QED BY <2>2, <3>7, <4>1, <4>3
    <3>9. declared = DOMAIN manifest BY <2>1, <3>7 DEF IsScript
    <3>10. /\ plan = {} /\ arrived = {} /\ undeleted = {} /\ current = Nobody
           /\ sWritten = 0 /\ rWritten = 0
      BY <2>1 DEF Untouched
    <3>11. /\ DOMAIN local = Files(dest, Path) /\ \A p \in DOMAIN local : local[p] = dest[p]
           /\ DOMAIN local \cap Suffixed = {}
           /\ \A n \in Name \ Suffixed : dest[n] = before[n]
      BY <2>1 DEF Scanned
    <3>12. \A p \in Path : p \in Name BY FolderConstants
    <3>13. \A p \in Path \ Suffixed : IsFile(before[p]) => p \in DOMAIN local
      BY <3>11, <3>12 DEF Files
    <3>14. \A p \in DOMAIN manifest \ plan' :
              /\ p \in DOMAIN travelled' /\ travelled'[p] = manifest[p]
              /\ p \in DOMAIN local /\ local[p] = manifest[p]
      <4> TAKE p \in DOMAIN manifest \ plan'
      <4>1. p \in DOMAIN acks' /\ acks'[p] = manifest[p] BY <3>3 DEF Differs
      <4>2. acks'[p] = local[p] BY <2>8, <4>1
      <4> QED BY <3>3, <3>4, <4>1, <4>2
    <3>15. \A p \in DOMAIN manifest : manifest[p] \in Content
      BY ContentsAre DEF FolderInv, FolderTypeOK
    <3>16. Settled'
      <4>1. \A p \in DOMAIN manifest \ plan' :
              /\ p \in DOMAIN travelled' /\ travelled'[p] \in Content /\ dest[p] = travelled'[p]
              /\ p \in arrived \/ dest[p] = manifest[p]
              /\ p \notin Suffixed
        BY <3>11, <3>14, <3>15
      <4>2. DOMAIN local \subseteq Path BY <3>11 DEF Files
      <4>3. stale' = DOMAIN local \ DOMAIN manifest BY <3>3, <3>4
      <4> QED BY <1>1, <2>1, <3>9, <3>11, <3>13, <4>1, <4>2, <4>3 DEF Settled
    <3>17. NotPruned'
      <4>1. \A p \in Path \ Suffixed : dest[p] = before[p] BY <3>11, <3>12
      <4> QED BY <1>1, <3>10, <4>1 DEF NotPruned, Others
    <3>18. Idle' BY <1>1, <2>1, <3>6, <3>8, <3>10 DEF Idle
    <3>19. CASE plan' = {}
      <4>1. sst' = "finish" BY <3>3, <3>19 DEF NextFile
      <4>2. Finishing' BY <3>16, <3>17, <3>18, <3>19 DEF Finishing
      <4>3. InPhase("finish")' /\ At("finish")' /\ "finish" \in Phases
        BY <4>1, <4>2 DEF InPhase, At, Phases
      <4> QED BY <4>3, InStepAt
    <3>20. CASE plan' # {}
      <4>1. sst' = "open" BY <3>3, <3>20 DEF NextFile
      <4>2. Opening' BY <3>16, <3>17, <3>18, <3>20 DEF Opening
      <4>3. InPhase("open")' /\ At("open")' /\ "open" \in Phases
        BY <4>1, <4>2 DEF InPhase, At, Phases
      <4> QED BY <4>3, InStepAt
    <3> QED BY <3>19, <3>20
  <2> QED BY <2>11, <2>12
<1> QED BY <1>1, <1>3, <1>4, SenderMove

\* What the sender posts while it holds a file.
LEMMA PostOne ==
  ASSUME FolderTypeOK, NEW x, toR' = Post(toR, <<x>>)
  PROVE  /\ IsQueue(toR') /\ Len(toR) \in Nat /\ Len(toR') \in Nat
         /\ \/ up /\ Len(toR') = Len(toR) + 1 /\ toR'[Len(toR) + 1] = x
            \/ ~up /\ toR' = toR /\ Len(toR') = Len(toR)
         /\ \A i \in 1..Len(toR) : toR'[i] = toR[i]
         /\ toR = <<>> => toR' = <<>> \/ toR' = <<x>>
<1> DEFINE f == <<x>>
<1>1. IsQueue(f) /\ Len(f) = 1 /\ f[1] = x BY QueueOne
<1>2. toR' = Post(toR, f) OBVIOUS
<1>3. IsQueue(toR) BY DEF FolderTypeOK
<1>4. toR = <<>> => toR' = <<>> \/ toR' = <<x>>
  <2>1. CASE ~up BY <1>2, <2>1 DEF Post
  <2>2. CASE up
    <3>1. toR' = toR \o <<x>> BY <2>2, <1>2 DEF Post
    <3> SUFFICES ASSUME toR = <<>> PROVE toR' = <<x>>
      OBVIOUS
    <3>2. <<x>> \in Seq({x}) OBVIOUS
    <3>3. <<>> \o <<x>> = <<x>> BY <3>2
    <3> QED BY <3>1, <3>3
  <2> QED BY <2>1, <2>2
<1> HIDE DEF f
<1>5. 1 \in 1..Len(f) BY <1>1
<1>6. /\ IsQueue(toR') /\ Len(toR) \in Nat /\ Len(toR') \in Nat
  BY <1>1, <1>2, <1>3, QueuePost
<1>13. IsQueue(f) BY <1>1
<1>11. up => Len(toR') = Len(toR) + Len(f)
  BY <1>2, <1>3, <1>13, QueuePost
<1>12. ~up => toR' = toR
  BY <1>2 DEF Post
<1>10. \A i \in 1..Len(f) : up => toR'[Len(toR) + i] = f[i]
  BY <1>1, <1>2, <1>3, QueuePost
<1>9. \A i \in 1..Len(toR) : toR'[i] = toR[i]
  BY <1>1, <1>2, <1>3, QueuePost
<1>7. up => toR'[Len(toR) + 1] = x BY <1>1, <1>5, <1>10
<1>8. \/ up /\ Len(toR') = Len(toR) + 1 /\ toR'[Len(toR) + 1] = x
      \/ ~up /\ toR' = toR /\ Len(toR') = Len(toR)
  BY <1>1, <1>6, <1>7, <1>11, <1>12
<1> QED BY <1>4, <1>6, <1>8, <1>9

\* The first file left is opened: its begin frame goes out, or the run ends.
LEMMA OpensStep ==
  ASSUME FolderInv, SenderOpens
  PROVE  FolderInv'
<1> DEFINE p == First(plan)
           b == [t |-> "begin", path |-> p]
<1>0. FolderTypeOK BY DEF FolderInv
<1>1. /\ sst = "open"
      /\ UNCHANGED <<src, manifest, gotHello, gotAck, acks, plan, stale, sWritten, sDeleted, consent>>
      /\ UNCHANGED <<dest, rst, local, declared, acked, current, got, rWritten, rDeleted>>
      /\ UNCHANGED <<toS, up, before, undeleted, travelled, arrived>>
  BY DEF SenderOpens, listVars, sumVars, recipientVars,
         partVars, tallyVars, runVars, cronVars
<1>2. CASE src[p] = Absent
  <2>1. sst' = "failed" /\ UNCHANGED <<opened, sent, toR>> BY <1>2 DEF SenderOpens
  <2>2. UNCHANGED phaseVars BY <1>1, <2>1 DEF phaseVars
  <2>3. src' \in [Path -> Version \cup {Absent}] BY <1>0, <1>1 DEF FolderTypeOK
  <2> QED BY <1>1, <2>1, <2>2, <2>3, OutsideStep
<1>3. CASE src[p] # Absent
  <2>1. sst' = "stream" /\ opened' = src[p] /\ sent' = <<>> /\ toR' = Post(toR, <<b>>)
    BY <1>3 DEF SenderOpens
  <2>2. p \in plan /\ p \in Path
    <3>1. plan # {} /\ plan \in SUBSET Path BY <1>0, <1>1 DEF FolderTypeOK
    <3> QED BY <3>1, FirstIsLeast
  <2>3. opened' \in Version BY <1>0, <1>3, <2>1, <2>2 DEF FolderTypeOK
  <2>4. b.t = "begin" /\ b.path = First(plan) OBVIOUS
  <2> HIDE DEF p
  <2>5. b = [t |-> "begin", path |-> First(plan)] BY DEF p
  <2> HIDE DEF b
  <2>6. /\ IsQueue(toR') /\ Len(toR) \in Nat /\ Len(toR') \in Nat
        /\ \/ up /\ Len(toR') = Len(toR) + 1 /\ toR'[Len(toR) + 1] = b
           \/ ~up /\ toR' = toR /\ Len(toR') = Len(toR)
    BY <1>0, <2>1, PostOne
  <2>7. sent' \in Content /\ Len(sent') = 0
    <3>1. sent' \in Seq(Version) /\ Len(sent') = 0 /\ 0 <= Chunks BY <2>1, FolderConstants
    <3> QED BY <3>1, ContentsAre
  <2>8. FolderTypeOK' BY <1>0, <1>1, <2>1, <2>2, <2>3, <2>6, <2>7 DEF FolderTypeOK
  <2>9. InStep'
    <3> SUFFICES ASSUME rst' # "failed" PROVE InStep'
      BY DEF InStep
    <3>1. Opening
      <4>1. InPhase(sst) BY <1>1, SenderPhase DEF Phases
      <4> QED BY <1>1, <4>1 DEF InPhase
    <3>2. Settled' BY <1>1, <3>1 DEF Opening, Settled
    <3>3. NotPruned' BY <1>1, <3>1 DEF Opening, NotPruned, Others
    <3>4. toR = <<>> /\ toS = <<>> /\ current = Nobody /\ rWritten = sWritten /\ rst = "loop"
      BY <3>1 DEF Opening, Idle
    <3>5. Len(toR) = 0 BY <3>4
    <3>6. Heard' = 0 BY <1>1, <3>4 DEF Heard
    <3>7. FrameOf(First(plan'), sent', 0) = b BY <1>1, <2>5 DEF FrameOf
    <3>8. Carrying'
      <4>1. \A i \in 1..Len(toR') : toR'[i] = FrameOf(First(plan'), sent', Heard' + i - 1)
        <5> TAKE i \in 1..Len(toR')
        <5>0. ~(~up /\ toR' = toR /\ Len(toR') = Len(toR)) BY <3>5
        <5>1. i = 1 /\ up
          <6>1. Len(toR') = 1 BY <2>6, <3>5, <5>0
          <6> QED BY <2>6, <5>0, <6>1
        <5>2. toR'[1] = b BY <2>6, <3>5, <5>1
        <5>3. Heard' + i - 1 = 0 BY <3>6, <5>1
        <5> QED BY <3>7, <5>1, <5>2, <5>3
      <4> QED BY <1>1, <2>2, <3>2, <3>3, <3>4, <4>1 DEF Carrying
    <3>9. Streaming'
      <4>1. Len(toR') <= 1 /\ (up => Len(toR') = 1) BY <2>6, <3>5
      <4>2. /\ Heard' + Len(toR') <= Len(sent') + 1
            /\ up' => Heard' + Len(toR') = Len(sent') + 1
        BY <1>1, <2>6, <2>7, <3>6, <4>1
      <4> QED BY <1>1, <3>4, <3>8, <4>2 DEF Streaming
    <3>10. InPhase("stream")' /\ At("stream")' /\ "stream" \in Phases
      BY <2>1, <3>9 DEF InPhase, At, Phases
    <3> QED BY <3>10, InStepAt
  <2> QED BY <1>1, <2>1, <2>8, <2>9, SenderMove
<1> QED BY <1>2, <1>3

\* The frames already posted stay the file's while it is read on.
LEMMA CarryOn ==
  ASSUME FolderTypeOK, Streaming, NEW x, toR' = Post(toR, <<x>>),
         Settled', NotPruned',
         UNCHANGED <<plan, dest, current, got, rst, up>>,
         Len(sent') \in Nat, Len(sent') >= Len(sent),
         \A i \in 1..Len(sent) : sent'[i] = sent[i], sent' \in Seq(Version),
         x = FrameOf(First(plan), sent', Len(sent) + 1)
  PROVE  /\ Carrying' /\ Heard' = Heard /\ Heard \in Nat /\ Len(sent) \in Nat
         /\ IsQueue(toR') /\ Len(toR) \in Nat
         /\ \/ up /\ Len(toR') = Len(toR) + 1 /\ Heard + Len(toR) = Len(sent) + 1
            \/ ~up /\ Len(toR') = Len(toR) /\ Heard + Len(toR) <= Len(sent) + 1
<1>1. Carrying BY DEF Streaming
<1>2. /\ Heard \in Nat /\ Len(sent) \in Nat /\ sent \in Seq(Version)
      /\ current # Nobody => /\ got \in Seq(Version) /\ Len(got) \in Nat
                             /\ Len(got) <= Len(sent)
  BY <1>1, HeardIsCount
<1>3. Heard' = Heard BY DEF Heard
<1>4. /\ IsQueue(toR') /\ Len(toR) \in Nat /\ Len(toR') \in Nat
      /\ \/ up /\ Len(toR') = Len(toR) + 1 /\ toR'[Len(toR) + 1] = x
         \/ ~up /\ toR' = toR /\ Len(toR') = Len(toR)
  BY PostOne
<1>5. \A i \in 1..Len(toR) : toR'[i] = toR[i] BY PostOne
<1>6. \/ up /\ Len(toR') = Len(toR) + 1 /\ Heard + Len(toR) = Len(sent) + 1
      \/ ~up /\ Len(toR') = Len(toR) /\ Heard + Len(toR) <= Len(sent) + 1
  BY <1>4 DEF Streaming
<1>7. \A n \in 0..Len(sent) : FrameOf(First(plan), sent', n) = FrameOf(First(plan), sent, n)
  <2> TAKE n \in 0..Len(sent)
  <2>1. CASE n = 0 BY <2>1 DEF FrameOf
  <2>2. CASE n # 0
    <3>1. n \in 1..Len(sent) /\ n <= Len(sent) /\ n <= Len(sent') BY <1>2, <2>2
    <3>2. sent'[n] = sent[n] BY <3>1
    <3> QED BY <2>2, <3>1, <3>2 DEF FrameOf
  <2> QED BY <2>1, <2>2
<1>8. \A i \in 1..Len(toR') : toR'[i] = FrameOf(First(plan), sent', Heard + i - 1)
  <2> TAKE i \in 1..Len(toR')
  <2>1. CASE i \in 1..Len(toR)
    <3>1. toR[i] = FrameOf(First(plan), sent, Heard + i - 1) BY <1>1, <2>1 DEF Carrying
    <3>2. Heard + i - 1 \in 0..Len(sent) BY <1>2, <1>4, <1>6, <2>1
    <3>3. FrameOf(First(plan), sent', Heard + i - 1) = FrameOf(First(plan), sent, Heard + i - 1)
      BY <1>7, <3>2
    <3> QED BY <1>5, <2>1, <3>1, <3>3
  <2>2. CASE i \notin 1..Len(toR)
    <3>1. i = Len(toR) + 1 /\ up BY <1>4, <1>6, <2>2
    <3>2. Heard + i - 1 = Len(sent) + 1 BY <1>2, <1>4, <1>6, <3>1
    <3>3. toR'[i] = x
      <4>1. toR'[Len(toR) + 1] = x BY <1>4, <3>1
      <4> QED BY <3>1, <4>1
    <3>4. FrameOf(First(plan), sent', Heard + i - 1) = x BY <3>2
    <3> QED BY <3>3, <3>4
  <2> QED BY <2>1, <2>2
<1>9. current' # Nobody =>
        /\ current' = First(plan') /\ dest'[Part[current']] = got'
        /\ Len(got') \in 0..Len(sent') /\ got' = SubSeq(sent', 1, Len(got'))
  <2> SUFFICES ASSUME current # Nobody
               PROVE  /\ current = First(plan) /\ dest[Part[current]] = got
                      /\ Len(got) \in 0..Len(sent') /\ got = SubSeq(sent', 1, Len(got))
    OBVIOUS
  <2>1. /\ current = First(plan) /\ dest[Part[current]] = got
        /\ Len(got) \in 0..Len(sent) /\ got = SubSeq(sent, 1, Len(got))
    BY <1>1 DEF Carrying
  <2>2. PICK k \in 0..Len(sent) : k = Len(got) BY <2>1
  <2>3. got = SubSeq(sent, 1, k) BY <2>1, <2>2
  <2>4. SubSeq(sent, 1, k) = SubSeq(sent', 1, k)
    <3>1. k \in Nat /\ k <= Len(sent') /\ k <= Len(sent) BY <1>2, <2>2
    <3>2. \A i \in 1..k : sent'[i] = sent[i] BY <1>2, <3>1
    <3> DEFINE a == SubSeq(sent, 1, k)
               b == SubSeq(sent', 1, k)
    <3>3. a \in Seq(Version) /\ b \in Seq(Version) /\ Len(a) = k /\ Len(b) = k
          /\ \A i \in 1..k : a[i] = sent[i] /\ b[i] = sent'[i]
      BY <1>2, <3>1
    <3> HIDE DEF a, b
    <3>4. \A i \in 1..Len(a) : a[i] = b[i] BY <3>2, <3>3
    <3>5. a = b BY <3>3, <3>4
    <3> QED BY <3>5 DEF a, b
  <2> QED BY <1>2, <2>1, <2>2, <2>3, <2>4
<1>10. Carrying' BY <1>1, <1>3, <1>8, <1>9 DEF Carrying
<1> QED BY <1>2, <1>3, <1>4, <1>6, <1>10

\* A chunk is read, whatever the file holds by now.
LEMMA SendsChunkStep ==
  ASSUME FolderInv, SenderSendsChunk
  PROVE  FolderInv'
<1>0. FolderTypeOK BY DEF FolderInv
<1> PICK v \in {opened, src[First(plan)]} \ {Absent} :
       /\ sent' = Append(sent, v)
       /\ toR' = Post(toR, <<[t |-> "chunk", v |-> v]>>)
  BY DEF SenderSendsChunk
<1>1. /\ sst = "stream" /\ sst' = sst /\ Len(sent) < Chunks
      /\ UNCHANGED <<src, manifest, gotHello, gotAck, acks, plan, stale, opened, sWritten, consent>>
      /\ UNCHANGED <<dest, rst, local, declared, acked, current, got, rWritten, rDeleted>>
      /\ UNCHANGED <<toS, up, before, undeleted, travelled, arrived>>
  BY DEF SenderSendsChunk, listVars, sumVars, recipientVars,
         partVars, tallyVars, runVars, cronVars
<1>2. v \in Version
  <2>1. opened \in Version BY <1>0, <1>1 DEF FolderTypeOK
  <2>2. First(plan) \in Path
    <3>1. plan # {} /\ plan \in SUBSET Path BY <1>0, <1>1 DEF FolderTypeOK
    <3> QED BY <3>1, FirstIsLeast
  <2>3. src[First(plan)] \in Version \cup {Absent} BY <1>0, <2>2 DEF FolderTypeOK
  <2> QED BY <2>1, <2>3
<1>3. sent \in Seq(Version) BY <1>0, ContentsAre DEF FolderTypeOK
<1>4. /\ sent' \in Seq(Version) /\ Len(sent) \in Nat /\ Len(sent') = Len(sent) + 1
      /\ \A i \in 1..Len(sent) : sent'[i] = sent[i]
      /\ sent'[Len(sent) + 1] = v
  BY <1>2, <1>3
<1>5. sent' \in Content
  <2>1. Len(sent') <= Chunks BY <1>1, <1>4, FolderConstants
  <2> QED BY <1>4, <2>1, ContentsAre
<1> DEFINE x == [t |-> "chunk", v |-> v]
<1>6. x = FrameOf(First(plan), sent', Len(sent) + 1)
  <2>1. Len(sent) + 1 # 0 /\ Len(sent) + 1 <= Len(sent') BY <1>4
  <2> QED BY <1>4, <2>1 DEF FrameOf
<1>7. toR' = Post(toR, <<x>>) OBVIOUS
<1> HIDE DEF x
<1>8. IsQueue(toR') BY <1>0, <1>7, PostOne
<1>9. FolderTypeOK' BY <1>0, <1>1, <1>5, <1>8 DEF FolderTypeOK
<1>10. InStep'
  <2> SUFFICES ASSUME rst' # "failed" PROVE InStep'
    BY DEF InStep
  <2>1. Streaming
    <3>1. InPhase(sst) BY <1>1, SenderPhase DEF Phases
    <3> QED BY <1>1, <3>1 DEF InPhase
  <2>2. Settled' BY <1>1, <2>1 DEF Streaming, Carrying, Settled
  <2>3. NotPruned' BY <1>1, <2>1 DEF Streaming, Carrying, NotPruned, Others
  <2>4. Len(sent') \in Nat /\ Len(sent') >= Len(sent) BY <1>4
  <2>5. /\ Carrying' /\ Heard' = Heard /\ Heard \in Nat /\ Len(sent) \in Nat
        /\ Len(toR) \in Nat
        /\ \/ up /\ Len(toR') = Len(toR) + 1 /\ Heard + Len(toR) = Len(sent) + 1
           \/ ~up /\ Len(toR') = Len(toR) /\ Heard + Len(toR) <= Len(sent) + 1
    BY <1>0, <1>1, <1>4, <1>6, <1>7, <2>1, <2>2, <2>3, <2>4, CarryOn
  <2>6. /\ Heard' + Len(toR') <= Len(sent') + 1
        /\ up => Heard' + Len(toR') = Len(sent') + 1
    BY <1>4, <2>5
  <2>7. Streaming' BY <1>1, <2>1, <2>5, <2>6 DEF Streaming
  <2>8. InPhase("stream")' /\ At("stream")' /\ "stream" \in Phases
    BY <1>1, <2>7 DEF InPhase, At, Phases
  <2> QED BY <2>8, InStepAt
<1> QED BY <1>1, <1>9, <1>10, SenderMove

\* The hash of what was read.
LEMMA EndsFileStep ==
  ASSUME FolderInv, SenderEndsFile
  PROVE  FolderInv'
<1>0. FolderTypeOK BY DEF FolderInv
<1> DEFINE x == [t |-> "end", hash |-> sent]
<1>1. /\ sst = "stream" /\ sst' = "verify"
      /\ toR' = Post(toR, <<x>>)
      /\ travelled' = Merge(travelled, [p \in {First(plan)} |-> sent])
      /\ UNCHANGED <<src, manifest, gotHello, gotAck, acks, plan, stale, opened, sent, sWritten, consent>>
      /\ UNCHANGED <<dest, rst, local, declared, acked, current, got, rWritten, rDeleted>>
      /\ UNCHANGED <<toS, up, before, undeleted, arrived>>
  BY DEF SenderEndsFile, listVars, fileVars, sumVars, recipientVars,
         partVars, tallyVars, runVars, cronVars
<1>2. sent \in Seq(Version) /\ Len(sent) \in Nat
  BY <1>0, ContentsAre DEF FolderTypeOK
<1>3. x = FrameOf(First(plan), sent', Len(sent) + 1)
  <2>1. Len(sent) + 1 # 0 /\ ~(Len(sent) + 1 <= Len(sent')) BY <1>1, <1>2
  <2> QED BY <1>1, <2>1 DEF FrameOf
<1> HIDE DEF x
<1>4. IsQueue(toR') BY <1>0, <1>1, PostOne
<1>5. FolderTypeOK' BY <1>0, <1>1, <1>4 DEF FolderTypeOK
<1>6. InStep'
  <2> SUFFICES ASSUME rst' # "failed" PROVE InStep'
    BY DEF InStep
  <2>1. Streaming
    <3>1. InPhase(sst) BY <1>1, SenderPhase DEF Phases
    <3> QED BY <1>1, <3>1 DEF InPhase
  <2>2. First(plan) \in plan BY <1>0, <2>1, HeardIsCount DEF Streaming
  <2>3. /\ First(plan) \in DOMAIN travelled' /\ travelled'[First(plan)] = sent
        /\ \A p \in DOMAIN travelled \ {First(plan)} :
             p \in DOMAIN travelled' /\ travelled'[p] = travelled[p]
    BY <1>1 DEF Merge
  <2>4. Settled'
    <3>1. Settled BY <2>1 DEF Streaming, Carrying
    <3>2. \A p \in DOMAIN manifest \ plan :
            /\ p \in DOMAIN travelled' /\ travelled'[p] \in Content /\ dest[p] = travelled'[p]
            /\ p \in arrived \/ dest[p] = manifest[p]
            /\ p \in Suffixed => \A q \in plan : Rank[p] < Rank[q]
      <4> TAKE p \in DOMAIN manifest \ plan
      <4>1. /\ p \in DOMAIN travelled /\ travelled[p] \in Content /\ dest[p] = travelled[p]
            /\ p \in arrived \/ dest[p] = manifest[p]
            /\ p \in Suffixed => \A q \in plan : Rank[p] < Rank[q]
        BY <3>1 DEF Settled
      <4>2. p \in DOMAIN travelled' /\ travelled'[p] = travelled[p] BY <2>2, <2>3, <4>1
      <4> QED BY <4>1, <4>2
    <3> QED BY <1>1, <3>1, <3>2 DEF Settled
  <2>5. NotPruned' BY <1>1, <2>1 DEF Streaming, Carrying, NotPruned, Others
  <2>6. /\ sent' = sent /\ Len(sent') \in Nat /\ Len(sent') >= Len(sent) /\ sent' \in Seq(Version)
        /\ \A i \in 1..Len(sent) : sent'[i] = sent[i]
    BY <1>1, <1>2
  <2>7. /\ Carrying' /\ Heard' = Heard /\ Heard \in Nat /\ Len(sent) \in Nat
        /\ Len(toR) \in Nat
        /\ \/ up /\ Len(toR') = Len(toR) + 1 /\ Heard + Len(toR) = Len(sent) + 1
           \/ ~up /\ Len(toR') = Len(toR) /\ Heard + Len(toR) <= Len(sent) + 1
    BY <1>0, <1>1, <1>3, <2>1, <2>4, <2>5, <2>6, CarryOn
  <2>8. Heard' + Len(toR') <= Len(sent') + 2 BY <1>2, <2>6, <2>7
  <2>9. toS = <<>> /\ rWritten = sWritten BY <2>1 DEF Streaming
  <2>10. Verifying' BY <1>1, <2>3, <2>7, <2>8, <2>9 DEF Verifying
  <2>11. InPhase("verify")' /\ At("verify")' /\ "verify" \in Phases
    BY <1>1, <2>10 DEF InPhase, At, Phases
  <2> QED BY <2>11, InStepAt
<1> QED BY <1>1, <1>5, <1>6, SenderMove

\* The answer to a file, when the sender reads it.
LEMMA FileAnswer ==
  ASSUME FolderInv, rst # "failed", sst = "verify", toS # <<>>
  PROVE  /\ Verifying /\ toR = <<>> /\ current = Nobody /\ Tail(toS) = <<>>
         /\ First(plan) \in plan /\ plan \in SUBSET Path
         /\ Head(toS).path = First(plan)
         /\ \/ /\ Head(toS).t = "ok" /\ rWritten = sWritten + 1
               /\ dest[First(plan)] = sent /\ First(plan) \in arrived
            \/ Head(toS).t = "fail" /\ rWritten = sWritten
<1>1. Verifying
  <2>1. InPhase(sst) BY SenderPhase DEF Phases
  <2> QED BY <2>1 DEF InPhase
<1>2. First(plan) \in plan /\ plan \in SUBSET Path
  BY <1>1, HeardIsCount DEF FolderInv, FolderTypeOK, Verifying
<1> DEFINE ok == [t |-> "ok", path |-> First(plan)]
           fail == [t |-> "fail", path |-> First(plan)]
<1>3. /\ toR = <<>> /\ current = Nobody
      /\ \/ /\ toS = <<ok>> /\ rWritten = sWritten + 1
            /\ dest[First(plan)] = sent /\ First(plan) \in arrived
         \/ toS = <<fail>> /\ rWritten = sWritten
  BY <1>1 DEF Verifying
<1>4. /\ ok.t = "ok" /\ ok.path = First(plan)
      /\ fail.t = "fail" /\ fail.path = First(plan)
  OBVIOUS
<1> HIDE DEF ok, fail
<1>5. \A y : Head(<<y>>) = y /\ Tail(<<y>>) = <<>>
  OBVIOUS
<1>6. CASE toS = <<ok>> /\ rWritten = sWritten + 1
           /\ dest[First(plan)] = sent /\ First(plan) \in arrived
  BY <1>1, <1>2, <1>3, <1>4, <1>5, <1>6 DEF Verifying
<1>7. CASE toS = <<fail>> /\ rWritten = sWritten
  BY <1>1, <1>2, <1>3, <1>4, <1>5, <1>7 DEF Verifying
<1> QED BY <1>3, <1>6, <1>7

\* The file is in place: one fewer is left.
LEMMA HearsOkStep ==
  ASSUME FolderInv, SenderHearsOk
  PROVE  FolderInv'
<1>0. FolderTypeOK BY DEF FolderInv
<1>1. /\ sst = "verify" /\ sst' = NextFile(plan')
      /\ toS # <<>> /\ Head(toS).t = "ok" /\ toS' = Tail(toS)
      /\ plan' = plan \ {First(plan)} /\ sWritten' = sWritten + 1
      /\ UNCHANGED <<src, manifest, gotHello, gotAck, acks, stale, opened, sent, consent>>
      /\ UNCHANGED <<dest, rst, local, declared, acked, current, got, rWritten, rDeleted>>
      /\ UNCHANGED <<toR, up, before, undeleted, travelled, arrived>>
  BY DEF SenderHearsOk, SenderReads, listVars, recipientVars,
         partVars, tallyVars, runVars, cronVars
<1>2. /\ sst' \in {"open", "finish"} /\ (sst' = "open" <=> plan' # {})
  BY <1>1 DEF NextFile
<1>3. IsQueue(toS') BY <1>0, <1>1, QueueHead DEF FolderTypeOK
<1>4. FolderTypeOK' BY <1>0, <1>1, <1>2, <1>3 DEF FolderTypeOK
<1>5. InStep'
  <2> SUFFICES ASSUME rst' # "failed" PROVE InStep'
    BY DEF InStep
  <2>1. /\ Verifying /\ toR = <<>> /\ current = Nobody /\ Tail(toS) = <<>>
        /\ First(plan) \in plan /\ plan \in SUBSET Path
        /\ rWritten = sWritten + 1 /\ dest[First(plan)] = sent /\ First(plan) \in arrived
    BY <1>1, FileAnswer
  <2>2. Settled /\ NotPruned /\ rst = "loop" BY <2>1 DEF Verifying, Carrying
  <2>3. sent \in Content /\ First(plan) \in DOMAIN travelled /\ travelled[First(plan)] = sent
    BY <1>0, <2>1 DEF FolderTypeOK, Verifying
  <2>4. Settled'
    <3>1. \A q \in plan : q # First(plan) => Rank[First(plan)] < Rank[q]
      <4> TAKE q \in plan
      <4>1. Rank[First(plan)] <= Rank[q] BY <2>1, FirstIsLeast
      <4>2. Rank[First(plan)] \in Nat /\ Rank[q] \in Nat BY <2>1, FolderConstants
      <4>3. Rank[First(plan)] = Rank[q] => First(plan) = q
        <5>1. First(plan) \in Path /\ q \in Path BY <2>1
        <5> QED BY <5>1, FolderConstants
      <4> QED BY <4>1, <4>2, <4>3
    <3>2. \A p \in DOMAIN manifest \ plan' :
            /\ p \in DOMAIN travelled /\ travelled[p] \in Content /\ dest[p] = travelled[p]
            /\ p \in arrived \/ dest[p] = manifest[p]
            /\ p \in Suffixed => \A q \in plan' : Rank[p] < Rank[q]
      <4> TAKE p \in DOMAIN manifest \ plan'
      <4>1. CASE p = First(plan) BY <1>1, <2>1, <2>3, <3>1, <4>1
      <4>2. CASE p # First(plan)
        <5>1. p \in DOMAIN manifest \ plan BY <1>1, <4>2
        <5> QED BY <1>1, <2>2, <5>1 DEF Settled
      <4> QED BY <4>1, <4>2
    <3> QED BY <1>1, <2>2, <3>2 DEF Settled
  <2>5. NotPruned' BY <1>1, <2>2 DEF NotPruned, Others
  <2>6. Idle' BY <1>1, <2>1, <2>2 DEF Idle
  <2>7. CASE plan' = {}
    <3>1. Finishing' /\ sst' = "finish" BY <1>2, <2>4, <2>5, <2>6, <2>7 DEF Finishing
    <3>2. InPhase("finish")' /\ At("finish")' /\ "finish" \in Phases
      BY <3>1 DEF InPhase, At, Phases
    <3> QED BY <3>2, InStepAt
  <2>8. CASE plan' # {}
    <3>1. Opening' /\ sst' = "open" BY <1>2, <2>4, <2>5, <2>6, <2>8 DEF Opening
    <3>2. InPhase("open")' /\ At("open")' /\ "open" \in Phases
      BY <3>1 DEF InPhase, At, Phases
    <3> QED BY <3>2, InStepAt
  <2> QED BY <2>7, <2>8
<1> QED BY <1>1, <1>2, <1>4, <1>5, SenderMove

\* The file is not in place: once more, or an abort.
LEMMA HearsFailStep ==
  ASSUME FolderInv, SenderHearsFail
  PROVE  FolderInv'
<1>0. FolderTypeOK BY DEF FolderInv
<1> DEFINE x == [t |-> "abort"]
<1>1. /\ sst = "verify"
      /\ toS # <<>> /\ Head(toS).t = "fail" /\ toS' = Tail(toS)
      /\ \/ sst' = "failed" /\ toR' = Post(toR, <<x>>)
         \/ sst' = "open" /\ UNCHANGED toR
      /\ UNCHANGED <<src, manifest, gotHello, gotAck, acks, plan, stale, opened, sent, sWritten, consent>>
      /\ UNCHANGED <<dest, rst, local, declared, acked, current, got, rWritten, rDeleted>>
      /\ UNCHANGED <<up, before, undeleted, travelled, arrived>>
  BY DEF SenderHearsFail, SenderReads, listVars, sumVars, recipientVars,
         partVars, tallyVars, runVars, cronVars
<1> HIDE DEF x
<1>3. IsQueue(toS') /\ IsQueue(toR')
  <2>1. IsQueue(toS) /\ IsQueue(toR) BY <1>0 DEF FolderTypeOK
  <2>2. IsQueue(toS') BY <1>1, <2>1, QueueHead
  <2>3. IsQueue(toR') BY <1>0, <1>1, <2>1, PostOne
  <2> QED BY <2>2, <2>3
<1>4. FolderTypeOK' BY <1>0, <1>1, <1>3 DEF FolderTypeOK
<1>5. InStep'
  <2> SUFFICES ASSUME rst' # "failed" PROVE InStep'
    BY DEF InStep
  <2>1. /\ Verifying /\ toR = <<>> /\ current = Nobody /\ Tail(toS) = <<>>
        /\ rWritten = sWritten
    <3>1. Head(toS).t # "ok" BY <1>1
    <3> QED BY <1>1, <3>1, FileAnswer
  <2>2. Settled /\ NotPruned /\ rst = "loop" /\ plan # {} BY <2>1 DEF Verifying, Carrying
  <2>3. Settled' BY <1>1, <2>2 DEF Settled
  <2>4. CASE sst' = "failed" /\ toR' = Post(toR, <<x>>)
    <3>1. toR' = <<>> \/ toR' = <<x>> BY <1>0, <2>1, <2>4, PostOne
    <3>2. Aborting' BY <1>1, <2>1, <2>2, <2>3, <3>1 DEF Aborting, x
    <3>3. InPhase("abort")' /\ At("abort")' /\ "abort" \in Phases
      BY <2>4, <3>2 DEF InPhase, At, Phases
    <3> QED BY <3>3, InStepAt
  <2>5. CASE sst' = "open" /\ UNCHANGED toR
    <3>1. NotPruned' BY <1>1, <2>2 DEF NotPruned, Others
    <3>2. Idle' BY <1>1, <2>1, <2>2, <2>5 DEF Idle
    <3>3. Opening' BY <1>1, <2>2, <2>3, <3>1, <3>2 DEF Opening
    <3>4. InPhase("open")' /\ At("open")' /\ "open" \in Phases
      BY <2>5, <3>3 DEF InPhase, At, Phases
    <3> QED BY <3>4, InStepAt
  <2> QED BY <1>1, <2>4, <2>5
<1> QED BY <1>1, <1>4, <1>5, SenderMove

\* Every file is answered: the names to delete, and the end.
LEMMA FinishesStep ==
  ASSUME FolderInv, SenderFinishes
  PROVE  FolderInv'
<1>0. FolderTypeOK BY DEF FolderInv
<1> DEFINE d == [t |-> "delete", paths |-> stale]
           x == [t |-> "done"]
           f == (IF stale = {} THEN <<>> ELSE <<d>>) \o <<x>>
<1>1. /\ sst = "finish" /\ sst' = "summary" /\ toR' = Post(toR, f)
      /\ UNCHANGED <<src, manifest, gotHello, gotAck, acks, plan, stale, opened, sent, sWritten, consent>>
      /\ UNCHANGED <<dest, rst, local, declared, acked, current, got, rWritten, rDeleted>>
      /\ UNCHANGED <<toS, up, before, undeleted, travelled, arrived>>
  BY DEF SenderFinishes, listVars, fileVars, sumVars, recipientVars,
         partVars, tallyVars, runVars, cronVars
<1>2. /\ IsQueue(f)
      /\ stale = {} => f = <<x>>
      /\ stale # {} => Len(f) = 2 /\ f[1] = d /\ f[2] = x
  <2> HIDE DEF d, x
  <2>1. CASE stale = {}
    <3>1. <<>> \o <<x>> = <<x>>
      <4>1. <<x>> \in Seq({x}) OBVIOUS
      <4> QED BY <4>1
    <3>2. f = <<x>> BY <2>1, <3>1
    <3> HIDE DEF f
    <3> QED BY <2>1, <3>2, QueueOne
  <2>2. CASE stale # {}
    <3>1. f = <<d>> \o <<x>> BY <2>2
    <3> DEFINE a == <<d>>
               b == <<x>>
               S == {d, x}
    <3>2. a \in Seq(S) /\ b \in Seq(S) /\ Len(a) = 1 /\ Len(b) = 1 /\ a[1] = d /\ b[1] = x
      OBVIOUS
    <3>3. f = a \o b BY <3>1
    <3> HIDE DEF f, a, b, S
    <3>4. a \in Seq(S) /\ b \in Seq(S) BY <3>2
    <3>7. /\ a \o b \in Seq(S) /\ Len(a \o b) = Len(a) + Len(b)
          /\ \A i \in 1..Len(a) : (a \o b)[i] = a[i]
          /\ \A i \in 1..Len(b) : (a \o b)[Len(a) + i] = b[i]
      BY <3>4
    <3>8. 1 \in 1..Len(a) /\ 1 \in 1..Len(b) /\ Len(a) + 1 = 2 BY <3>2
    <3>9. (a \o b)[1] = a[1] /\ (a \o b)[Len(a) + 1] = b[1] BY <3>7, <3>8
    <3>5. f \in Seq(S) /\ Len(f) = 2 /\ f[1] = d /\ f[2] = x BY <3>2, <3>3, <3>7, <3>8, <3>9
    <3>6. IsQueue(f) BY <3>5, SeqIsQueue
    <3> QED BY <2>2, <3>5, <3>6
  <2> QED BY <2>1, <2>2
<1> HIDE DEF f
<1>3. IsQueue(toR) BY <1>0 DEF FolderTypeOK
<1>4. IsQueue(toR') BY <1>1, <1>2, <1>3, QueuePost
<1>5. FolderTypeOK' BY <1>0, <1>1, <1>4 DEF FolderTypeOK
<1>6. InStep'
  <2> SUFFICES ASSUME rst' # "failed" PROVE InStep'
    BY DEF InStep
  <2>1. Finishing
    <3>1. InPhase(sst) BY <1>1, SenderPhase DEF Phases
    <3> QED BY <1>1, <3>1 DEF InPhase
  <2>2. /\ Settled /\ NotPruned /\ plan = {} /\ rst = "loop" /\ toR = <<>> /\ toS = <<>>
        /\ current = Nobody /\ rWritten = sWritten
    BY <2>1 DEF Finishing, Idle
  <2>3. Settled' /\ NotPruned'
    BY <1>1, <2>2 DEF Settled, NotPruned, Others
  <2>4. Summing'
    <3> USE <1>1, <2>2, <2>3
    <3>1. toR' = <<>> \/ toR' = f
      <4>1. Post(toR, f) = toR \/ Post(toR, f) = toR \o f BY DEF Post
      <4>2. <<>> \o f = f BY <1>2 DEF IsQueue
      <4> QED BY <4>1, <4>2
    <3>2. CASE toR' = <<>> BY <3>2 DEF Summing
    <3>3. CASE toR' = f /\ stale = {}
      <4>1. Pruned'
        <5> SUFFICES ASSUME NEW p \in Others, IsFile(before[p]) PROVE FALSE
          BY DEF Pruned, Others
        <5>1. p \in DOMAIN local /\ p \notin DOMAIN manifest
          BY DEF Settled, Others
        <5> QED BY <3>3, <5>1 DEF Settled
      <4>2. toR' = <<[t |-> "done"]>> BY <1>2, <3>3
      <4> QED BY <4>1, <4>2 DEF Summing
    <3>4. CASE toR' = f /\ stale # {}
      <4>1. Len(toR') = 2 /\ toR'[1] = [t |-> "delete", paths |-> stale] /\ toR'[2] = [t |-> "done"]
        BY <1>2, <3>4
      <4>2. Len(toR') \in 1..2 BY <4>1
      <4> QED BY <3>4, <4>1, <4>2 DEF Summing
    <3> QED BY <3>1, <3>2, <3>3, <3>4
  <2>5. InPhase("summary")' /\ At("summary")' /\ "summary" \in Phases
    BY <1>1, <2>4 DEF InPhase, At, Phases
  <2> QED BY <2>5, InStepAt
<1> QED BY <1>1, <1>5, <1>6, SenderMove

\* The recipient's summary.
LEMMA HearsDoneStep ==
  ASSUME FolderInv, SenderHearsDone
  PROVE  FolderInv'
<1>0. FolderTypeOK BY DEF FolderInv
<1>1. /\ sst = "summary" /\ sst' = "done" /\ sDeleted' = Head(toS).deleted
      /\ toS # <<>> /\ Head(toS).t = "done" /\ toS' = Tail(toS)
      /\ UNCHANGED <<src, manifest, gotHello, gotAck, acks, plan, stale, opened, sent, sWritten, consent>>
      /\ UNCHANGED <<dest, rst, local, declared, acked, current, got, rWritten, rDeleted>>
      /\ UNCHANGED <<toR, up, before, undeleted, travelled, arrived>>
  BY DEF SenderHearsDone, SenderReads, listVars, fileVars, recipientVars,
         partVars, tallyVars, runVars, cronVars
<1>2. /\ 1 \in 1..Len(toS) /\ Head(toS) = toS[1] /\ IsQueue(toS')
  BY <1>0, <1>1, QueueHead, QueueOne DEF FolderTypeOK
<1>3. rst = "done" /\ Head(toS).deleted = rDeleted
  BY <1>1, <1>2 DEF FolderInv, SummaryIsTrue
<1>4. Summing
  <2>1. InPhase(sst) BY <1>1, <1>3, SenderPhase DEF Phases
  <2> QED BY <1>1, <2>1 DEF InPhase
<1>5. toR = <<>> /\ Pruned /\ Settled /\ plan = {} /\ current = Nobody /\ rWritten = sWritten
  BY <1>3, <1>4 DEF Summing
<1>6. toS' = <<>>
  <2>1. \E x : toS = <<x>> BY <1>1, <1>3, <1>4 DEF Summing
  <2> QED BY <1>1, <2>1
<1>7. FolderTypeOK' BY <1>0, <1>1, <1>2 DEF FolderTypeOK
<1>8. SummaryIsTrue' BY <1>6, QueueOne DEF SummaryIsTrue
<1>9. SendersSuccessIsShared' BY <1>1, <1>3, <1>5 DEF SendersSuccessIsShared
<1>10. InStep'
  <2>1. Settled' /\ Pruned' BY <1>1, <1>5 DEF Settled, Pruned, Others
  <2>2. Summing' BY <1>1, <1>3, <1>5, <1>6, <2>1 DEF Summing
  <2>3. InPhase("summary")' /\ At("summary")' /\ "summary" \in Phases
    BY <1>1, <2>2 DEF InPhase, At, Phases
  <2> QED BY <2>3, InStepAt
<1> QED BY <1>7, <1>8, <1>9, <1>10 DEF FolderInv

-----------------------------------------------------------------------------
(* Steps of the recipient.                                                 *)

\* A step of the recipient that ends nothing.
LEMMA RecipientMove ==
  ASSUME FolderInv, FolderTypeOK', SummaryIsTrue', InStep', RecipientRuns,
         UNCHANGED <<sst>>
  PROVE  FolderInv'
<1>1. sst # "done" BY DEF FolderInv, SendersSuccessIsShared, RecipientRuns, Over
<1>2. SendersSuccessIsShared' BY <1>1 DEF SendersSuccessIsShared
<1> QED BY <1>2 DEF FolderInv

\* The phase tells which frames may come next, and the frame the phase.
LEMMA FramePhase ==
  ASSUME FolderInv, RecipientRuns, toR # <<>>
  PROVE  \/ /\ At("compare") /\ Comparing
            /\ rst = "hello" => Head(toR).t = "hello"
            /\ rst = "loop" => Head(toR).t = "manifest"
         \/ /\ (At("stream") /\ Streaming) \/ (At("verify") /\ Verifying)
            /\ rst = "loop"
            /\ Head(toR) = FrameOf(First(plan), sent, Heard)
            /\ Head(toR).t \in {"begin", "chunk", "end"}
         \/ At("summary") /\ Summing /\ rst = "loop" /\ Head(toR).t \in {"delete", "done"}
         \/ rst = "loop" /\ Head(toR).t = "abort"
<1>0. FolderTypeOK BY DEF FolderInv
<1>1. /\ rst # "failed" /\ rst # "done" BY DEF RecipientRuns, Over
<1>2. 1 \in 1..Len(toR) /\ Head(toR) = toR[1]
  BY <1>0, QueueHead, QueueOne DEF FolderTypeOK
<1>3. PICK ph \in Phases : At(ph) /\ InPhase(ph) BY <1>1 DEF FolderInv, InStep
<1>4. ~Starting /\ ~Opening /\ ~Finishing BY DEF Starting, Opening, Finishing, Idle
<1>5. ASSUME Comparing
      PROVE  /\ rst = "hello" => Head(toR).t = "hello"
             /\ rst = "loop" => Head(toR).t = "manifest"
  <2>1. PICK c \in 0..Len(ToRecipient) :
          /\ Window(toR, ToRecipient, c)
          /\ IF c = 0 THEN Before ELSE Listing(c)
    BY <1>5 DEF Comparing
  <2>2. IsScript(ToRecipient, "manifest", manifest) BY <1>0, Scripts
  <2>3. Len(ToRecipient) \in Nat /\ ToRecipient[1] = Hello BY <2>2 DEF IsScript
  <2>4. toR[1] = ToRecipient[c + 1] /\ c + Len(toR) <= Len(ToRecipient)
    BY <1>2, <2>1 DEF Window
  <2>5. CASE c = 0
    <3>1. rst = "hello" BY <2>1, <2>5 DEF Before
    <3>2. c + 1 = 1 BY <2>5
    <3>3. Hello.t = "hello" BY DEF Hello
    <3>4. Head(toR) = Hello BY <1>2, <2>3, <2>4, <3>2
    <3> QED BY <3>1, <3>3, <3>4
  <2>6. CASE c # 0
    <3>1. rst = "loop" BY <2>1, <2>6 DEF Listing
    <3>2. c + 1 \in 2..Len(ToRecipient)
      <4>1. Len(toR) \in Nat /\ Len(toR) >= 1
        BY <1>0, QueueHead DEF FolderTypeOK
      <4> QED BY <2>3, <2>4, <2>6, <4>1
    <3>3. ToRecipient[c + 1].t = "manifest" BY <2>2, <3>2 DEF IsScript
    <3> QED BY <1>2, <2>4, <3>1, <3>3
  <2> QED BY <2>5, <2>6
<1>6. ASSUME Carrying
      PROVE  /\ rst = "loop" /\ Head(toR) = FrameOf(First(plan), sent, Heard)
             /\ Head(toR).t \in {"begin", "chunk", "end"}
  <2>1. Heard \in Nat BY <1>0, <1>6, HeardIsCount
  <2>2. toR[1] = FrameOf(First(plan), sent, Heard + 1 - 1) BY <1>2, <1>6 DEF Carrying
  <2>3. Heard + 1 - 1 = Heard BY <2>1
  <2>4. \A n : FrameOf(First(plan), sent, n).t \in {"begin", "chunk", "end"}
    BY DEF FrameOf
  <2> QED BY <1>2, <1>6, <2>2, <2>3, <2>4 DEF Carrying
<1>7. ASSUME Summing PROVE rst = "loop" /\ Head(toR).t \in {"delete", "done"}
  <2>1. rst = "loop" /\ (toR[1] = [t |-> "delete", paths |-> stale] \/ toR = <<[t |-> "done"]>>)
    BY <1>1, <1>7 DEF Summing
  <2>2. CASE toR[1] = [t |-> "delete", paths |-> stale] BY <1>2, <2>1, <2>2
  <2>3. CASE toR = <<[t |-> "done"]>>
    <3>1. toR[1] = [t |-> "done"] BY <2>3, QueueOne
    <3> QED BY <1>2, <2>1, <3>1
  <2> QED BY <2>1, <2>2, <2>3
<1>8. ASSUME Aborting PROVE rst = "loop" /\ Head(toR).t = "abort"
  <2>1. rst = "loop" /\ toR = <<[t |-> "abort"]>> BY <1>8 DEF Aborting
  <2>2. toR[1] = [t |-> "abort"] BY <2>1, QueueOne
  <2> QED BY <1>2, <2>1, <2>2
<1>9. Streaming \/ Verifying => Carrying BY DEF Streaming, Verifying
<1>10. \/ ph = "compare" /\ Comparing
       \/ ph = "stream" /\ Streaming
       \/ ph = "verify" /\ Verifying
       \/ ph = "summary" /\ Summing
       \/ ph = "abort" /\ Aborting
  BY <1>3, <1>4 DEF InPhase, Phases
<1> QED BY <1>3, <1>5, <1>6, <1>7, <1>8, <1>9, <1>10

\* A frame of the list or the hello.
LEMMA NextListed ==
  ASSUME FolderInv, RecipientRuns, toR # <<>>, Head(toR).t \in {"hello", "manifest"}
  PROVE  \E c \in 0..(Len(ToRecipient) - 1) :
           /\ At("compare") /\ Untouched /\ ~gotAck
           /\ Head(toR) = ToRecipient[c + 1]
           /\ Len(Tail(toR)) = Len(toR) - 1
           /\ \A tail : tail = Tail(toR) => Window(tail, ToRecipient, c + 1)
           /\ IF c = 0 THEN Before ELSE Listing(c)
           /\ IsScript(ToRecipient, "manifest", manifest)
<1>0. FolderTypeOK BY DEF FolderInv
<1>1. At("compare") /\ Comparing
  <2>1. \A n \in Nat : FrameOf(First(plan), sent, n).t \in {"begin", "chunk", "end"}
    BY DEF FrameOf
  <2> QED BY FramePhase
<1>2. PICK c \in 0..Len(ToRecipient) :
        /\ Window(toR, ToRecipient, c)
        /\ IF c = 0 THEN Before ELSE Listing(c)
  BY <1>1 DEF Comparing
<1>3. IsScript(ToRecipient, "manifest", manifest) BY <1>0, Scripts
<1>4. Len(ToRecipient) \in Nat BY <1>3 DEF IsScript
<1>5. /\ Len(toR) \in Nat \ {0} /\ Head(toR) = toR[1]
      /\ Len(Tail(toR)) = Len(toR) - 1
      /\ \A i \in 1..(Len(toR) - 1) : Tail(toR)[i] = toR[i + 1]
  BY <1>0, QueueHead DEF FolderTypeOK
<1>6. c \in 0..(Len(ToRecipient) - 1) BY <1>2, <1>4, <1>5 DEF Window
<1>7. Head(toR) = ToRecipient[c + 1] BY <1>2, <1>5 DEF Window
<1>8. ASSUME NEW tail, tail = Tail(toR) PROVE Window(tail, ToRecipient, c + 1)
  <2>1. c + Len(toR) <= Len(ToRecipient) /\ \A i \in 1..Len(toR) : toR[i] = ToRecipient[c + i]
    BY <1>2 DEF Window
  <2>2. Len(tail) = Len(toR) - 1 BY <1>5, <1>8
  <2>3. c + 1 + Len(tail) <= Len(ToRecipient) BY <1>5, <1>6, <2>1, <2>2
  <2>4. \A i \in 1..Len(tail) : tail[i] = ToRecipient[c + 1 + i]
    <3> TAKE i \in 1..Len(tail)
    <3>1. i + 1 \in 1..Len(toR) /\ i \in 1..(Len(toR) - 1) BY <1>5, <2>2
    <3>2. tail[i] = toR[i + 1] BY <1>5, <1>8, <3>1
    <3>3. toR[i + 1] = ToRecipient[c + (i + 1)] BY <2>1, <3>1
    <3>4. c + (i + 1) = c + 1 + i BY <1>6
    <3> QED BY <3>2, <3>3, <3>4
  <2> QED BY <2>3, <2>4 DEF Window
<1> QED BY <1>1, <1>2, <1>3, <1>5, <1>6, <1>7, <1>8 DEF Comparing

\* What a recipient at work says is no summary.
LEMMA Replies ==
  ASSUME FolderInv, RecipientRuns, NEW f, IsQueue(f), toS' = Post(toS, f),
         \A i \in 1..Len(f) : f[i].t # "done"
  PROVE  SummaryIsTrue' /\ IsQueue(toS')
<1>1. IsQueue(toS) BY DEF FolderInv, FolderTypeOK
<1>2. IsQueue(toS') /\ Len(toS) \in Nat /\ Len(f) \in Nat /\ Len(toS') \in Nat
  BY <1>1, QueuePost
<1>3. up => Len(toS') = Len(toS) + Len(f)
  BY <1>1, QueuePost
<1>4. \A i \in 1..Len(toS) : toS'[i] = toS[i]
  BY <1>1, QueuePost
<1>5. \A i \in 1..Len(f) : up => toS'[Len(toS) + i] = f[i]
  BY <1>1, QueuePost
<1>6. ~up => toS' = toS BY DEF Post
<1>7. \A i \in 1..Len(toS) : toS[i].t # "done"
  BY DEF FolderInv, SummaryIsTrue, RecipientRuns, Over
<1>8. \A i \in 1..Len(toS') : toS'[i].t # "done"
  <2> TAKE i \in 1..Len(toS')
  <2>1. CASE i \in 1..Len(toS) BY <1>4, <1>7, <2>1
  <2>2. CASE i \notin 1..Len(toS)
    <3>1. up BY <1>6, <2>2
    <3>2. i - Len(toS) \in 1..Len(f) /\ i = Len(toS) + (i - Len(toS))
      BY <1>2, <1>3, <2>2, <3>1
    <3>3. toS'[Len(toS) + (i - Len(toS))] = f[i - Len(toS)] BY <1>5, <3>1, <3>2
    <3> QED BY <3>2, <3>3
  <2> QED BY <2>1, <2>2
<1> QED BY <1>2, <1>8 DEF SummaryIsTrue

\* Nothing said: every summary is as true as it was.
LEMMA Silence ==
  ASSUME FolderInv, RecipientRuns, toS' = toS
  PROVE  SummaryIsTrue' /\ IsQueue(toS')
<1>1. \A i \in 1..Len(toS) : toS[i].t # "done"
  BY DEF FolderInv, SummaryIsTrue, RecipientRuns, Over
<1> QED BY <1>1 DEF FolderInv, FolderTypeOK, SummaryIsTrue

\* One frame said.
LEMMA ReplyOne ==
  ASSUME FolderInv, NEW x, toS' = Post(toS, <<x>>)
  PROVE  /\ IsQueue(toS')
         /\ toS = <<>> => toS' = <<>> \/ toS' = <<x>>
         /\ toS = <<>> /\ up => toS' = <<x>>
         /\ RecipientRuns /\ x.t # "done" => SummaryIsTrue'
<1> DEFINE f == <<x>>
<1>1. IsQueue(f) /\ Len(f) = 1 /\ f[1] = x BY QueueOne
<1>2. toS' = Post(toS, f) OBVIOUS
<1>3. <<>> \o f = f
  <2>1. <<x>> \in Seq({x}) OBVIOUS
  <2> QED BY <2>1
<1> HIDE DEF f
<1>4. IsQueue(toS) BY DEF FolderInv, FolderTypeOK
<1>5. IsQueue(toS') BY <1>1, <1>2, <1>4, QueuePost
<1>6. toS = <<>> => toS' = <<>> \/ toS' = f BY <1>2, <1>3 DEF Post
<1>7. toS = <<>> /\ up => toS' = f BY <1>2, <1>3 DEF Post
<1>8. ASSUME RecipientRuns, x.t # "done" PROVE SummaryIsTrue'
  <2>1. \A i \in 1..Len(f) : f[i].t # "done"
    <3> TAKE i \in 1..Len(f)
    <3>1. i = 1 BY <1>1
    <3> QED BY <1>1, <1>8, <3>1
  <2> QED BY <1>1, <1>2, <1>8, <2>1, Replies
<1> QED BY <1>5, <1>6, <1>7, <1>8 DEF f

\* The part files are discarded and the folder is scanned.
LEMMA ScansStep ==
  ASSUME FolderInv, RecipientScans
  PROVE  FolderInv'
<1>0. FolderTypeOK BY DEF FolderInv
<1>1. /\ rst = "hello" /\ rst' = "loop"
      /\ toR # <<>> /\ Head(toR).t = "hello" /\ toR' = Tail(toR)
      /\ dest' = [n \in Name |-> IF n \in Suffixed THEN Absent ELSE dest[n]]
      /\ local' = [p \in Files(dest', Path) |-> dest'[p]]
      /\ toS' = Post(toS, <<Hello>>)
      /\ UNCHANGED <<src, sst, manifest, gotHello, gotAck, acks, plan, stale, opened, sent, sWritten, consent>>
      /\ UNCHANGED <<declared, acked, current, got, rWritten, rDeleted>>
      /\ UNCHANGED <<up, before, undeleted, travelled, arrived>>
  BY DEF RecipientScans, RecipientReads, Hello, senderVars, listVars, fileVars, sumVars,
         partVars, tallyVars, runVars, cronVars
<1>2. RecipientRuns BY <1>1 DEF RecipientRuns, Over
<1>3. IsQueue(toR') BY <1>0, <1>1, QueueHead DEF FolderTypeOK
<1>4. Hello.t # "done" BY DEF Hello
<1>5. SummaryIsTrue' /\ IsQueue(toS') BY <1>1, <1>2, <1>4, ReplyOne
<1>6. dest' \in [Name -> Content \cup {Absent, Folder}]
  BY <1>0, <1>1 DEF FolderTypeOK
<1>7. FolderTypeOK' BY <1>0, <1>1, <1>3, <1>5, <1>6 DEF FolderTypeOK
<1>8. PICK c \in 0..(Len(ToRecipient) - 1) :
           /\ At("compare") /\ Untouched /\ ~gotAck
           /\ Head(toR) = ToRecipient[c + 1]
           /\ Len(Tail(toR)) = Len(toR) - 1
           /\ \A tail : tail = Tail(toR) => Window(tail, ToRecipient, c + 1)
           /\ IF c = 0 THEN Before ELSE Listing(c)
           /\ IsScript(ToRecipient, "manifest", manifest)
  BY <1>1, <1>2, NextListed
<1>9. c = 0 BY <1>1, <1>8 DEF Listing
<1>10. Before /\ Window(toR', ToRecipient, 1)
  <2>1. c + 1 = 1 BY <1>9
  <2>2. Window(toR', ToRecipient, c + 1) BY <1>1, <1>8
  <2> QED BY <1>8, <1>9, <2>1, <2>2
<1>11. Len(ToRecipient) \in Nat /\ Len(ToRecipient) >= 2 /\ Named(ToRecipient, 1) = {}
  BY <1>8 DEF IsScript
<1>12. ToRecipient' = ToRecipient
  BY <1>1 DEF ToRecipient, Batches, NoBatchWhenEmpty
<1>13. \A p \in Path : p \in Name BY FolderConstants
<1>14. /\ dest = before /\ declared = {} /\ ~acked /\ toS = <<>> /\ ~gotHello /\ DOMAIN acks = {}
  BY <1>10 DEF Before
<1>15. Scanned'
  <2>1. DOMAIN local' = Files(dest', Path) /\ \A p \in DOMAIN local' : local'[p] = dest'[p]
    BY <1>1
  <2>2. DOMAIN local' \cap Suffixed = {}
    <3>1. \A p \in Path : p \in Suffixed => dest'[p] = Absent BY <1>1, <1>13
    <3> QED BY <2>1, <3>1 DEF Files, IsFile
  <2>3. \A n \in Name \ Suffixed : dest'[n] = before'[n] BY <1>1, <1>14
  <2> QED BY <2>1, <2>2, <2>3 DEF Scanned
<1>16. IsScript(ToSender', "ack", local')
  <2>1. DOMAIN local' \subseteq Path BY <1>1 DEF Files
  <2> DEFINE all == ToSender'
  <2>2. all = <<Hello>> \o Batches("ack", local')
    BY DEF ToSender, Batches, NoBatchWhenEmpty
  <2> HIDE DEF all
  <2>3. IsScript(all, "ack", local') BY <2>1, <2>2, ScriptShape
  <2> QED BY <2>3 DEF all
<1>17. /\ Len(ToSender') \in Nat /\ Len(ToSender') >= 2 /\ ToSender'[1] = Hello
       /\ Named(ToSender', 0) = {}
  BY <1>16 DEF IsScript
<1>18. toS' = <<>> \/ toS' = <<Hello>>
  BY <1>1, <1>14, ReplyOne
<1>19. up => toS' = <<Hello>>
  BY <1>1, <1>14, ReplyOne
<1>20. /\ Len(toS') <= 1 /\ Len(toS') \in Nat /\ (up => Len(toS') = 1)
       /\ \A i \in 1..Len(toS') : toS'[i] = Hello /\ i = 1
  <2>1. Len(<<>>) = 0 /\ Len(<<Hello>>) = 1 /\ <<Hello>>[1] = Hello BY QueueOne
  <2>2. CASE toS' = <<>> BY <1>19, <2>1, <2>2
  <2>3. CASE toS' = <<Hello>>
    <3>1. Len(toS') = 1 /\ toS'[1] = Hello BY <2>1, <2>3
    <3> QED BY <3>1
  <2> QED BY <1>18, <2>2, <2>3
<1>21. Answering(0)'
  <2>1. Window(toS', ToSender', 0)
    <3>1. 0 + Len(toS') <= Len(ToSender') BY <1>17, <1>20
    <3>2. \A i \in 1..Len(toS') : toS'[i] = ToSender'[0 + i]
      <4> TAKE i \in 1..Len(toS')
      <4>1. toS'[i] = Hello /\ i = 1 BY <1>20
      <4>2. 0 + i = 1 BY <4>1
      <4> QED BY <1>17, <4>1, <4>2
    <3> QED BY <3>1, <3>2 DEF Window
  <2>2. Window(toS, ToSender, 0)' BY <2>1 DEF Window
  <2>3. (DOMAIN acks = Named(ToSender, 0))' BY <1>1, <1>14, <1>17 DEF Named
  <2>4. /\ 0 + Len(toS') <= (IF acked' THEN Len(ToSender') ELSE 1)
        /\ up' => 0 + Len(toS') = (IF acked' THEN Len(ToSender') ELSE 1)
    BY <1>1, <1>14, <1>20
  <2>5. ~gotHello' /\ DOMAIN acks' = {} /\ ~(0 >= 1) BY <1>1, <1>14
  <2> QED BY <2>2, <2>3, <2>4, <2>5 DEF Answering
<1>22. Listing(1)'
  <2>1. declared' = Named(ToRecipient', 1) BY <1>1, <1>11, <1>12, <1>14
  <2>2. ~acked' /\ 1 # Len(ToRecipient')
    <3>1. 1 # Len(ToRecipient)
      <4>1. \A n \in Nat : n >= 2 => 1 # n OBVIOUS
      <4> QED BY <1>11, <4>1
    <3> QED BY <1>1, <1>12, <1>14, <3>1
  <2>3. 0 \in 0..(Len(ToSender') - 1) BY <1>17
  <2>4. (declared = Named(ToRecipient, 1))' BY <2>1 DEF Named
  <2> QED BY <1>1, <1>15, <1>21, <2>2, <2>3, <2>4 DEF Listing
<1>23. Comparing'
  <2>1. Untouched' /\ ~gotAck' BY <1>1, <1>8 DEF Untouched
  <2>2. Window(toR, ToRecipient, 1)' BY <1>10, <1>12 DEF Window
  <2>3. 1 \in 0..Len(ToRecipient') /\ 1 # 0 BY <1>11, <1>12
  <2> QED BY <1>22, <2>1, <2>2, <2>3 DEF Comparing
<1>24. InPhase("compare")' /\ At("compare")' /\ "compare" \in Phases
  BY <1>1, <1>8, <1>23 DEF InPhase, At, Phases
<1>25. InStep' BY <1>24, InStepAt
<1> QED BY <1>1, <1>2, <1>5, <1>7, <1>25, RecipientMove

\* A further frame of the list; the last one is answered.
LEMMA HearsManifestStep ==
  ASSUME FolderInv, RecipientHearsList
  PROVE  FolderInv'
<1>0. FolderTypeOK BY DEF FolderInv
<1> DEFINE b == Batches("ack", local)
<1>1. /\ rst = "loop" /\ rst' = rst
      /\ toR # <<>> /\ Head(toR).t = "manifest" /\ toR' = Tail(toR)
      /\ declared' = declared \cup DOMAIN Head(toR).files
      /\ acked' = (acked \/ ~Head(toR).more)
      /\ toS' = IF acked' /\ ~acked THEN Post(toS, b) ELSE toS
      /\ UNCHANGED <<src, sst, manifest, gotHello, gotAck, acks, plan, stale, opened, sent, sWritten, consent>>
      /\ UNCHANGED <<dest, local, current, got, rWritten, rDeleted>>
      /\ UNCHANGED <<up, before, undeleted, travelled, arrived>>
  BY DEF RecipientHearsList, RecipientReads, senderVars, listVars, fileVars, sumVars,
         partVars, tallyVars, runVars, cronVars
<1> HIDE DEF b
<1>2. RecipientRuns BY <1>1 DEF RecipientRuns, Over
<1>3. IsQueue(toR') BY <1>0, <1>1, QueueHead DEF FolderTypeOK
<1>4. PICK c \in 0..(Len(ToRecipient) - 1) :
           /\ At("compare") /\ Untouched /\ ~gotAck
           /\ Head(toR) = ToRecipient[c + 1]
           /\ Len(Tail(toR)) = Len(toR) - 1
           /\ \A tail : tail = Tail(toR) => Window(tail, ToRecipient, c + 1)
           /\ IF c = 0 THEN Before ELSE Listing(c)
           /\ IsScript(ToRecipient, "manifest", manifest)
  BY <1>1, <1>2, NextListed
<1>5. c # 0 BY <1>1, <1>4 DEF Before
<1>6. Listing(c) BY <1>4, <1>5
<1>7. /\ Scanned /\ declared = Named(ToRecipient, c) /\ (acked <=> c = Len(ToRecipient))
  BY <1>6 DEF Listing
<1>8. PICK d \in 0..(Len(ToSender) - 1) : Answering(d) BY <1>6 DEF Listing
<1>9. IsScript(ToSender, "ack", local) /\ IsQueue(b)
  <2>1. DOMAIN local \subseteq Path BY <1>7 DEF Scanned, Files
  <2> QED BY <2>1, Answers DEF b
<1>10. /\ Len(ToSender) \in Nat /\ Len(ToSender) >= 2 /\ Len(ToSender) = 1 + Len(b)
       /\ \A i \in 1..Len(b) : ToSender[1 + i] = b[i]
       /\ \A i \in 2..Len(ToSender) : ToSender[i].t = "ack"
  BY <1>9 DEF IsScript, b
<1>11. Len(b) \in Nat BY <1>9 DEF IsQueue
<1>12. Len(ToRecipient) \in Nat BY <1>4 DEF IsScript
<1>13. c \in 1..(Len(ToRecipient) - 1) /\ ~acked BY <1>4, <1>5, <1>7, <1>12
<1>14. /\ Head(toR).more = (c + 1 < Len(ToRecipient))
       /\ Named(ToRecipient, c + 1) = Named(ToRecipient, c) \cup DOMAIN Head(toR).files
  <2>1. c + 1 \in 2..Len(ToRecipient) BY <1>12, <1>13
  <2>2. ToRecipient[c + 1].more = (c + 1 < Len(ToRecipient)) BY <1>4, <2>1 DEF IsScript
  <2>3. Named(ToRecipient, c + 1) = Named(ToRecipient, c) \cup DOMAIN ToRecipient[c + 1].files
    BY <1>4, <1>13 DEF IsScript
  <2> QED BY <1>4, <2>2, <2>3
<1>15. declared' = Named(ToRecipient, c + 1) BY <1>1, <1>7, <1>14
<1>16. acked' <=> c + 1 = Len(ToRecipient)
  <2>1. acked' <=> ~(c + 1 < Len(ToRecipient)) BY <1>1, <1>13, <1>14
  <2>2. ~(c + 1 < Len(ToRecipient)) <=> c + 1 = Len(ToRecipient) BY <1>12, <1>13
  <2> QED BY <2>1, <2>2
<1>17. SummaryIsTrue' /\ IsQueue(toS')
  <2>1. CASE acked'
    <3>1. toS' = Post(toS, b) BY <1>1, <1>13, <2>1
    <3>2. \A i \in 1..Len(b) : b[i].t # "done"
      <4> TAKE i \in 1..Len(b)
      <4>1. 1 + i \in 2..Len(ToSender) BY <1>10, <1>11
      <4>2. ToSender[1 + i].t = "ack" BY <1>10, <4>1
      <4> QED BY <1>10, <4>2
    <3> QED BY <1>2, <1>9, <3>1, <3>2, Replies
  <2>2. CASE ~acked'
    <3>1. toS' = toS BY <1>1, <2>2
    <3> QED BY <1>2, <3>1, Silence
  <2> QED BY <2>1, <2>2
<1>18. FolderTypeOK' BY <1>0, <1>1, <1>3, <1>17 DEF FolderTypeOK
<1>19. ToRecipient' = ToRecipient /\ ToSender' = ToSender
  BY <1>1 DEF ToRecipient, ToSender, Batches, NoBatchWhenEmpty
<1>20. /\ d + Len(toS) <= Len(ToSender)
       /\ \A i \in 1..Len(toS) : toS[i] = ToSender[d + i]
       /\ d + Len(toS) <= 1
       /\ up => d + Len(toS) = 1
       /\ gotHello <=> d >= 1
       /\ DOMAIN acks = Named(ToSender, d)
       /\ \A p \in DOMAIN acks : acks[p] = local[p]
  BY <1>8, <1>13 DEF Answering, Window
<1>21. /\ d + Len(toS') <= Len(ToSender)
       /\ \A i \in 1..Len(toS') : toS'[i] = ToSender[d + i]
       /\ d + Len(toS') <= (IF acked' THEN Len(ToSender) ELSE 1)
       /\ up => d + Len(toS') = (IF acked' THEN Len(ToSender) ELSE 1)
  <2>1. CASE ~acked'
    <3>1. toS' = toS BY <1>1, <2>1
    <3> QED BY <1>20, <2>1, <3>1
  <2>2. CASE acked'
    <3>0. IsQueue(toS) BY <1>0 DEF FolderTypeOK
    <3>1. toS' = Post(toS, b) BY <1>1, <1>13, <2>2
    <3>2. CASE ~up
      <4>1. toS' = toS BY <3>1, <3>2 DEF Post
      <4> QED BY <1>10, <1>20, <2>2, <3>2, <4>1
    <3>3. CASE up
      <4>1. Len(toS) \in Nat /\ Len(b) \in Nat /\ Len(toS') \in Nat
        BY <1>9, <3>0, <3>1, QueuePost
      <4>2. Len(toS') = Len(toS) + Len(b)
        BY <1>9, <3>0, <3>1, <3>3, QueuePost
      <4>3. \A i \in 1..Len(toS) : toS'[i] = toS[i]
        BY <1>9, <3>0, <3>1, QueuePost
      <4>4. \A i \in 1..Len(b) : toS'[Len(toS) + i] = b[i]
        BY <1>9, <3>0, <3>1, <3>3, QueuePost
      <4>5. d + Len(toS) = 1 BY <1>20, <3>3
      <4>6. d + Len(toS') = Len(ToSender) BY <1>10, <4>1, <4>2, <4>5
      <4>7. \A i \in 1..Len(toS') : toS'[i] = ToSender[d + i]
        <5> TAKE i \in 1..Len(toS')
        <5>1. CASE i \in 1..Len(toS) BY <1>20, <4>3, <5>1
        <5>2. CASE i \notin 1..Len(toS)
          <6>1. /\ i - Len(toS) \in 1..Len(b) /\ i = Len(toS) + (i - Len(toS))
                /\ 1 + (i - Len(toS)) = d + i
            BY <4>1, <4>2, <4>5, <5>2
          <6>2. toS'[Len(toS) + (i - Len(toS))] = b[i - Len(toS)] BY <4>4, <6>1
          <6>3. ToSender[1 + (i - Len(toS))] = b[i - Len(toS)] BY <1>10, <6>1
          <6> QED BY <6>1, <6>2, <6>3
        <5> QED BY <5>1, <5>2
      <4> QED BY <1>10, <2>2, <4>6, <4>7
    <3> QED BY <3>2, <3>3
  <2> QED BY <2>1, <2>2
<1>22. Answering(d)' BY <1>1, <1>19, <1>20, <1>21 DEF Answering, Window, Named
<1>23. Scanned' BY <1>1, <1>7 DEF Scanned
<1>24. Listing(c + 1)'
  <2>1. (declared = Named(ToRecipient, c + 1))' BY <1>15, <1>19 DEF Named
  <2>2. d \in 0..(Len(ToSender') - 1) BY <1>19
  <2> QED BY <1>1, <1>16, <1>19, <1>22, <1>23, <2>1, <2>2 DEF Listing
<1>25. Comparing'
  <2>1. Untouched' /\ ~gotAck' BY <1>1, <1>4 DEF Untouched
  <2>2. Window(toR', ToRecipient, c + 1) BY <1>1, <1>4
  <2>3. Window(toR, ToRecipient, c + 1)' BY <1>19, <2>2 DEF Window
  <2>4. c + 1 \in 0..Len(ToRecipient') /\ c + 1 # 0 BY <1>12, <1>13, <1>19
  <2> QED BY <1>24, <2>1, <2>3, <2>4 DEF Comparing
<1>26. InPhase("compare")' /\ At("compare")' /\ "compare" \in Phases
  BY <1>1, <1>4, <1>25 DEF InPhase, At, Phases
<1>27. InStep' BY <1>26, InStepAt
<1> QED BY <1>1, <1>2, <1>17, <1>18, <1>27, RecipientMove

\* What is settled is not the file under way, nor its part file, nor a folder.
LEMMA OutOfTheWay ==
  ASSUME FolderTypeOK, Settled, NotPruned, plan # {}
  PROVE  /\ First(plan) \in plan /\ First(plan) \in Path /\ First(plan) \in DOMAIN manifest
         /\ \A r \in DOMAIN manifest \ plan :
              r # First(plan) /\ r # Part[First(plan)] /\ r \in Name /\ IsFile(dest[r])
         /\ \A q \in Others : /\ q # First(plan) /\ q # Part[First(plan)] /\ q \in Name
                              /\ IsFile(before[q]) => IsFile(dest[q])
<1>1. plan \in SUBSET Path /\ plan \subseteq DOMAIN manifest /\ DOMAIN manifest \subseteq Path
  BY DEF FolderTypeOK
<1>2. First(plan) \in plan BY <1>1, FirstIsLeast
<1>3. ASSUME NEW r \in DOMAIN manifest \ plan
      PROVE  r # First(plan) /\ r # Part[First(plan)] /\ r \in Name /\ IsFile(dest[r])
  <2>1. travelled[r] \in Content /\ dest[r] = travelled[r]
        /\ (r \in Suffixed => \A q \in plan : Rank[r] < Rank[q])
    BY <1>3 DEF Settled
  <2>2. r # Part[First(plan)]
    <3> SUFFICES ASSUME r = Part[First(plan)] PROVE FALSE
      OBVIOUS
    <3>1. r \in Suffixed /\ r \in Path BY <1>1, <1>2, <1>3, FolderConstants
    <3>2. Rank[r] < Rank[First(plan)] BY <1>2, <2>1, <3>1
    <3>3. Rank[First(plan)] < Rank[r] BY <1>1, <1>2, <3>1, FolderConstants
    <3>4. Rank[r] \in Nat /\ Rank[First(plan)] \in Nat
      BY <1>1, <1>2, <3>1, FolderConstants
    <3> QED BY <3>2, <3>3, <3>4
  <2>3. IsFile(dest[r]) BY <2>1, FolderConstants DEF IsFile
  <2> QED BY <1>1, <1>2, <1>3, <2>2, <2>3, FolderConstants
<1>4. ASSUME NEW q \in Others
      PROVE  /\ q # First(plan) /\ q # Part[First(plan)] /\ q \in Name
             /\ IsFile(before[q]) => IsFile(dest[q])
  <2>1. q \in Path /\ q \notin DOMAIN manifest /\ q \notin Suffixed BY <1>4 DEF Others
  <2>2. Part[First(plan)] \in Suffixed BY <1>1, <1>2, FolderConstants
  <2>3. IsFile(before[q]) => dest[q] = before[q] BY <1>4 DEF NotPruned
  <2> QED BY <1>1, <1>2, <2>1, <2>2, <2>3, FolderConstants
<1> QED BY <1>1, <1>2, <1>3, <1>4

\* What is settled stays so while other names change.
LEMMA StillSettled ==
  ASSUME Settled, NotPruned,
         UNCHANGED <<rst, declared, manifest, local, stale, before, plan, travelled, undeleted>>,
         arrived \subseteq arrived',
         \A r \in DOMAIN manifest \ plan : dest'[r] = dest[r],
         \A q \in Others : IsFile(before[q]) => dest'[q] = dest[q]
  PROVE  Settled' /\ NotPruned'
<1>1. Settled'
  <2>1. \A p \in DOMAIN manifest \ plan :
          /\ p \in DOMAIN travelled /\ travelled[p] \in Content /\ dest'[p] = travelled[p]
          /\ p \in arrived' \/ dest'[p] = manifest[p]
          /\ p \in Suffixed => \A q \in plan : Rank[p] < Rank[q]
    BY DEF Settled
  <2> QED BY <2>1 DEF Settled
<1>2. Others' = Others BY DEF Others
<1>3. NotPruned' BY <1>2 DEF NotPruned
<1> QED BY <1>1, <1>3

\* The frame of the file that the recipient reads next.
LEMMA NextFrame ==
  ASSUME FolderInv, RecipientRuns, toR # <<>>, toR' = Tail(toR),
         Head(toR).t \in {"begin", "chunk", "end"}
  PROVE  /\ (At("stream") /\ Streaming) \/ (At("verify") /\ Verifying)
         /\ Carrying /\ rst = "loop" /\ Settled /\ NotPruned /\ plan # {}
         /\ Heard \in Nat /\ Len(sent) \in Nat
         /\ IsQueue(toR') /\ Len(toR) \in Nat \ {0} /\ Len(toR') = Len(toR) - 1
         /\ Head(toR) = FrameOf(First(plan), sent, Heard)
         /\ \A i \in 1..Len(toR') : toR'[i] = FrameOf(First(plan), sent, Heard + i)
         /\ toS = <<>> /\ rWritten = sWritten
<1>0. FolderTypeOK BY DEF FolderInv
<1>1. /\ (At("stream") /\ Streaming) \/ (At("verify") /\ Verifying)
      /\ rst = "loop"
      /\ Head(toR) = FrameOf(First(plan), sent, Heard)
  <2>1. rst \in {"hello", "loop"}
    <3>1. rst # "failed" /\ rst # "done" BY DEF RecipientRuns, Over
    <3>2. PICK ph \in Phases : InPhase(ph) BY <3>1 DEF FolderInv, InStep
    <3>3. Starting => rst = "hello" BY DEF Starting, Before
    <3>4. Comparing => rst \in {"hello", "loop"}
      BY DEF Comparing, Before, Listing
    <3>5. Settled => rst = "loop" BY <3>1 DEF Settled
    <3>6. Opening \/ Finishing \/ Streaming \/ Verifying \/ Summing \/ Aborting => Settled
      BY DEF Opening, Finishing, Streaming, Verifying, Summing, Aborting, Carrying
    <3> QED BY <3>2, <3>3, <3>4, <3>5, <3>6 DEF InPhase
  <2> QED BY <2>1, FramePhase
<1>2. Carrying /\ Settled /\ NotPruned /\ plan # {} BY <1>1 DEF Streaming, Verifying, Carrying
<1>3. Heard \in Nat /\ Len(sent) \in Nat BY <1>0, <1>2, HeardIsCount
<1>4. /\ IsQueue(toR') /\ Len(toR) \in Nat \ {0} /\ Len(toR') = Len(toR) - 1
      /\ \A i \in 1..(Len(toR) - 1) : toR'[i] = toR[i + 1]
  BY <1>0, QueueHead DEF FolderTypeOK
<1>5. \A i \in 1..Len(toR') : toR'[i] = FrameOf(First(plan), sent, Heard + i)
  <2> TAKE i \in 1..Len(toR')
  <2>1. i + 1 \in 1..Len(toR) /\ toR'[i] = toR[i + 1] BY <1>4
  <2>2. toR[i + 1] = FrameOf(First(plan), sent, Heard + (i + 1) - 1)
    BY <1>2, <2>1 DEF Carrying
  <2>3. Heard + (i + 1) - 1 = Heard + i BY <1>3
  <2> QED BY <2>1, <2>2, <2>3
<1>6. toS = <<>> /\ rWritten = sWritten BY <1>1 DEF Streaming, Verifying
<1> QED BY <1>1, <1>2, <1>3, <1>4, <1>5, <1>6

\* A frame of the file that moves the recipient on within it.
LEMMA OneFurther ==
  ASSUME FolderInv, (At("stream") /\ Streaming) \/ (At("verify") /\ Verifying),
         Carrying', Heard' + Len(toR') = Heard + Len(toR), toR # <<>>,
         UNCHANGED <<sst, sent, up, toS, rWritten, sWritten, travelled, plan>>
  PROVE  InStep'
<1>1. CASE At("stream") /\ Streaming
  <2>1. Streaming' BY <1>1 DEF Streaming
  <2>2. InPhase("stream")' /\ At("stream")' /\ "stream" \in Phases
    BY <1>1, <2>1 DEF InPhase, At, Phases
  <2> QED BY <2>2, InStepAt
<1>2. CASE At("verify") /\ Verifying
  <2>1. toS = <<>> /\ rWritten = sWritten BY <1>2 DEF Verifying
  <2>2. Verifying' BY <1>2, <2>1 DEF Verifying
  <2>3. InPhase("verify")' /\ At("verify")' /\ "verify" \in Phases
    BY <1>2, <2>2 DEF InPhase, At, Phases
  <2> QED BY <2>3, InStepAt
<1> QED BY <1>1, <1>2

\* A new part file.
LEMMA BeginsStep ==
  ASSUME FolderInv, RecipientBegins
  PROVE  FolderInv'
<1>0. FolderTypeOK BY DEF FolderInv
<1> DEFINE p == Head(toR).path
<1>1. /\ rst = "loop" /\ toR # <<>> /\ Head(toR).t = "begin" /\ toR' = Tail(toR)
      /\ UNCHANGED <<src, sst, manifest, gotHello, gotAck, acks, plan, stale, opened, sent, sWritten, consent>>
      /\ UNCHANGED <<local, declared, acked, rWritten, rDeleted>>
      /\ UNCHANGED <<toS, up, before, undeleted, travelled, arrived>>
  BY DEF RecipientBegins, RecipientReads, RecipientGivesUp, senderVars, listVars, fileVars,
         sumVars, tallyVars, runVars, cronVars
<1>2. RecipientRuns BY <1>1 DEF RecipientRuns, Over
<1>3. IsQueue(toR') /\ IsQueue(toS') BY <1>0, <1>1, QueueHead DEF FolderTypeOK
<1>4. CASE \E q \in Above[p] : IsFile(dest[q])
  <2>1. rst' = "failed" /\ CleanUp BY <1>4 DEF RecipientBegins, RecipientGivesUp
  <2>2. dest' \in [Name -> Content \cup {Absent, Folder}] BY <2>1, CleanUpTyped
  <2> QED BY <1>1, <1>2, <1>3, <2>1, <2>2, RecipientFailsStep
<1>5. CASE ~\E q \in Above[p] : IsFile(dest[q])
  <2>1. /\ dest' = [n \in Name |-> IF n = Part[p] THEN <<>>
                                   ELSE IF n \in Above[p] THEN Folder ELSE dest[n]]
        /\ current' = p /\ got' = <<>> /\ rst' = rst
    BY <1>5 DEF RecipientBegins, PartName
  <2>2. /\ (At("stream") /\ Streaming) \/ (At("verify") /\ Verifying)
        /\ Carrying /\ Settled /\ NotPruned /\ plan # {}
        /\ Heard \in Nat /\ Len(sent) \in Nat
        /\ Len(toR) \in Nat \ {0} /\ Len(toR') = Len(toR) - 1
        /\ Head(toR) = FrameOf(First(plan), sent, Heard)
        /\ \A i \in 1..Len(toR') : toR'[i] = FrameOf(First(plan), sent, Heard + i)
    BY <1>1, <1>2, NextFrame
  <2>3. Heard = 0 BY <1>1, <2>2 DEF FrameOf
  <2>4. p = First(plan)
    <3>1. FrameOf(First(plan), sent, 0) = [t |-> "begin", path |-> First(plan)] BY DEF FrameOf
    <3> QED BY <2>2, <2>3, <3>1
  <2>5. /\ First(plan) \in Path
        /\ \A r \in DOMAIN manifest \ plan :
             r # Part[First(plan)] /\ r \in Name /\ IsFile(dest[r])
        /\ \A q \in Others : /\ q # Part[First(plan)] /\ q \in Name
                             /\ IsFile(before[q]) => IsFile(dest[q])
    BY <1>0, <2>2, OutOfTheWay
  <2> HIDE DEF p
  <2>6. Settled' /\ NotPruned'
    <3>1. \A r \in DOMAIN manifest \ plan : dest'[r] = dest[r]
      BY <1>5, <2>1, <2>4, <2>5
    <3>2. \A q \in Others : IsFile(before[q]) => dest'[q] = dest[q]
      BY <1>5, <2>1, <2>4, <2>5
    <3> QED BY <1>1, <2>1, <2>2, <3>1, <3>2, StillSettled
  <2>7. <<>> \in Content /\ Len(<<>>) = 0 /\ <<>> = SubSeq(sent, 1, 0)
    <3>1. <<>> \in Seq(Version) /\ Len(<<>>) = 0 /\ 0 <= Chunks BY FolderConstants
    <3>2. sent \in Seq(Version) BY <1>0, ContentsAre DEF FolderTypeOK
    <3> DEFINE s == SubSeq(sent, 1, 0)
    <3>3. s \in Seq(Version) /\ Len(s) = 0 BY <2>2, <3>2
    <3> HIDE DEF s
    <3>4. s = <<>> BY <3>3, QueueOne, SeqIsQueue
    <3>5. <<>> \in Content BY <3>1, ContentsAre
    <3> QED BY <3>1, <3>4, <3>5 DEF s
  <2>8. dest' \in [Name -> Content \cup {Absent, Folder}]
    BY <1>0, <2>1, <2>7 DEF FolderTypeOK
  <2>9. FolderTypeOK' BY <1>0, <1>1, <1>3, <2>8 DEF FolderTypeOK
  <2>10. SummaryIsTrue' BY <1>1, <1>2, Silence
  <2>11. current' # Nobody BY <2>1, <2>4, <2>5, FolderConstants
  <2>12. Heard' = 1
    <3>1. Len(got') = 0 BY <2>1, <2>7
    <3> QED BY <2>11, <3>1 DEF Heard
  <2>13. Carrying'
    <3>1. \A i \in 1..Len(toR') : toR'[i] = FrameOf(First(plan'), sent', Heard' + i - 1)
      <4> TAKE i \in 1..Len(toR')
      <4>1. Heard' + i - 1 = Heard + i BY <2>3, <2>12
      <4>2. toR'[i] = FrameOf(First(plan), sent, Heard + i) BY <2>2
      <4> QED BY <1>1, <4>1, <4>2
    <3>2. dest'[Part[p]] = <<>>
      <4>1. Part[p] \in Name BY <2>4, <2>5, FolderConstants
      <4> QED BY <2>1, <4>1
    <3>3. /\ current' = First(plan') /\ dest'[Part[current']] = got'
          /\ Len(got') \in 0..Len(sent') /\ got' = SubSeq(sent', 1, Len(got'))
      BY <1>1, <2>1, <2>2, <2>4, <2>7, <3>2
    <3> QED BY <1>1, <2>1, <2>2, <2>6, <3>1, <3>3 DEF Carrying
  <2>14. Heard' + Len(toR') = Heard + Len(toR) BY <2>2, <2>3, <2>12
  <2>15. InStep' BY <1>1, <2>2, <2>13, <2>14, OneFurther
  <2> QED BY <1>1, <1>2, <2>9, <2>10, <2>15, RecipientMove
<1> QED BY <1>4, <1>5

\* A chunk is appended to it.
LEMMA WritesStep ==
  ASSUME FolderInv, RecipientWrites
  PROVE  FolderInv'
<1>0. FolderTypeOK BY DEF FolderInv
<1> DEFINE v == Head(toR).v
<1>1. /\ rst = "loop" /\ toR # <<>> /\ Head(toR).t = "chunk" /\ toR' = Tail(toR)
      /\ dest' = Put(dest, Part[current], Append(dest[Part[current]], v))
      /\ got' = Append(got, v)
      /\ UNCHANGED <<src, sst, manifest, gotHello, gotAck, acks, plan, stale, opened, sent, sWritten, consent>>
      /\ UNCHANGED <<rst, local, declared, acked, current, rWritten, rDeleted>>
      /\ UNCHANGED <<toS, up, before, undeleted, travelled, arrived>>
  BY DEF RecipientWrites, RecipientReads, PartName, senderVars, listVars, fileVars,
         sumVars, tallyVars, runVars, cronVars
<1>2. RecipientRuns BY <1>1 DEF RecipientRuns, Over
<1>3. IsQueue(toR') /\ IsQueue(toS') BY <1>0, <1>1, QueueHead DEF FolderTypeOK
<1>4. /\ (At("stream") /\ Streaming) \/ (At("verify") /\ Verifying)
      /\ Carrying /\ Settled /\ NotPruned /\ plan # {}
      /\ Heard \in Nat /\ Len(sent) \in Nat
      /\ Len(toR) \in Nat \ {0} /\ Len(toR') = Len(toR) - 1
      /\ Head(toR) = FrameOf(First(plan), sent, Heard)
      /\ \A i \in 1..Len(toR') : toR'[i] = FrameOf(First(plan), sent, Heard + i)
  BY <1>1, <1>2, NextFrame
<1>5. Heard # 0 /\ Heard <= Len(sent) /\ v = sent[Heard]
  <2>1. Heard # 0 BY <1>1, <1>4 DEF FrameOf
  <2>2. Heard <= Len(sent) BY <1>1, <1>4, <2>1 DEF FrameOf
  <2>3. FrameOf(First(plan), sent, Heard) = [t |-> "chunk", v |-> sent[Heard]]
    BY <2>1, <2>2 DEF FrameOf
  <2> QED BY <1>4, <2>1, <2>2, <2>3
<1> HIDE DEF v
<1>6. current # Nobody BY <1>5 DEF Heard
<1>7. /\ Heard = Len(got) + 1 /\ current = First(plan) /\ dest[Part[current]] = got
      /\ got = SubSeq(sent, 1, Len(got))
  BY <1>4, <1>6 DEF Heard, Carrying
<1>8. got \in Seq(Version) /\ Len(got) \in Nat /\ sent \in Seq(Version)
  BY <1>0, <1>4, <1>6, HeardIsCount
<1>9. v \in Version /\ Len(sent) <= Chunks
  BY <1>0, <1>4, <1>5, <1>8, ContentsAre DEF FolderTypeOK
<1>10. /\ got' \in Seq(Version) /\ Len(got') = Len(got) + 1
       /\ \A i \in 1..Len(got) : got'[i] = got[i]
       /\ got'[Len(got) + 1] = v
  BY <1>1, <1>8, <1>9
<1>11. Len(got') <= Len(sent) /\ got' \in Content
  <2>1. Len(got') <= Len(sent) BY <1>5, <1>7, <1>10
  <2>2. Len(got') <= Chunks BY <1>4, <1>8, <1>9, <1>10, <2>1, FolderConstants
  <2> QED BY <1>10, <2>1, <2>2, ContentsAre
<1>12. got' = SubSeq(sent, 1, Len(got'))
  <2> DEFINE k == Len(got)
             a == SubSeq(sent, 1, k + 1)
             s == SubSeq(sent, 1, k)
  <2>1. k \in Nat /\ k + 1 <= Len(sent) BY <1>5, <1>7, <1>8
  <2> HIDE DEF k
  <2>2. /\ a \in Seq(Version) /\ Len(a) = k + 1 /\ \A i \in 1..(k + 1) : a[i] = sent[i]
        /\ s \in Seq(Version) /\ Len(s) = k /\ \A i \in 1..k : s[i] = sent[i]
    BY <1>4, <1>8, <2>1
  <2> HIDE DEF a, s
  <2>3. got = s BY <1>7 DEF s, k
  <2>4. v = sent[k + 1] BY <1>5, <1>7 DEF k
  <2>5. Len(got') = k + 1 /\ got'[k + 1] = v /\ \A i \in 1..k : got'[i] = got[i]
    BY <1>10 DEF k
  <2>6. \A i \in 1..(k + 1) : got'[i] = a[i]
    <3> TAKE i \in 1..(k + 1)
    <3>1. CASE i \in 1..k BY <2>2, <2>3, <2>5, <3>1
    <3>2. CASE i \notin 1..k
      <4>1. i = k + 1 BY <2>1, <3>2
      <4> QED BY <2>2, <2>4, <2>5, <4>1
    <3> QED BY <3>1, <3>2
  <2>7. got' = a BY <1>10, <2>1, <2>2, <2>5, <2>6
  <2> QED BY <2>5, <2>7 DEF a
<1>13. /\ First(plan) \in Path
       /\ \A r \in DOMAIN manifest \ plan : r # Part[First(plan)] /\ r \in Name
       /\ \A q \in Others : q # Part[First(plan)] /\ q \in Name
  BY <1>0, <1>4, OutOfTheWay
<1>14. dest' = [dest EXCEPT ![Part[First(plan)]] = got']
  BY <1>1, <1>7 DEF Put
<1>15. dest \in [Name -> Content \cup {Absent, Folder}] BY <1>0 DEF FolderTypeOK
<1>16. dest' \in [Name -> Content \cup {Absent, Folder}]
  BY <1>11, <1>14, <1>15
<1>17. dest'[Part[First(plan)]] = got'
  <2>1. Part[First(plan)] \in Name BY <1>13, FolderConstants
  <2> QED BY <1>14, <1>15, <2>1
<1>18. Settled' /\ NotPruned'
  <2>1. \A r \in DOMAIN manifest \ plan : dest'[r] = dest[r] BY <1>13, <1>14, <1>15
  <2>2. \A q \in Others : IsFile(before[q]) => dest'[q] = dest[q] BY <1>13, <1>14, <1>15
  <2> QED BY <1>1, <1>4, <2>1, <2>2, StillSettled
<1>19. FolderTypeOK' BY <1>0, <1>1, <1>3, <1>16 DEF FolderTypeOK
<1>20. SummaryIsTrue' BY <1>1, <1>2, Silence
<1>21. Heard' = Heard + 1 BY <1>1, <1>6, <1>7, <1>8, <1>10 DEF Heard
<1>22. Carrying'
  <2>1. \A i \in 1..Len(toR') : toR'[i] = FrameOf(First(plan'), sent', Heard' + i - 1)
    <3> TAKE i \in 1..Len(toR')
    <3>1. Heard' + i - 1 = Heard + i BY <1>4, <1>21
    <3>2. toR'[i] = FrameOf(First(plan), sent, Heard + i) BY <1>4
    <3> QED BY <1>1, <3>1, <3>2
  <2>2. Len(got') \in 0..Len(sent) BY <1>4, <1>8, <1>10, <1>11
  <2>3. /\ current' = First(plan') /\ dest'[Part[current']] = got'
        /\ Len(got') \in 0..Len(sent') /\ got' = SubSeq(sent', 1, Len(got'))
    BY <1>1, <1>7, <1>12, <1>17, <2>2
  <2> QED BY <1>1, <1>4, <1>18, <2>1, <2>3 DEF Carrying
<1>23. Heard' + Len(toR') = Heard + Len(toR) BY <1>4, <1>21
<1>24. InStep' BY <1>1, <1>4, <1>22, <1>23, OneFurther
<1> QED BY <1>1, <1>2, <1>19, <1>20, <1>24, RecipientMove

\* The last frame of a file: nothing is behind it, and all its chunks are read.
LEMMA LastFrame ==
  ASSUME FolderInv, RecipientRuns, toR # <<>>, toR' = Tail(toR), Head(toR).t = "end"
  PROVE  /\ At("verify") /\ Verifying /\ rst = "loop"
         /\ Settled /\ NotPruned /\ plan # {}
         /\ toR' = <<>> /\ toS = <<>> /\ rWritten = sWritten
         /\ current = First(plan) /\ current \in plan /\ current \in Path
         /\ got = sent /\ sent \in Content /\ dest[Part[current]] = sent
         /\ First(plan) \in DOMAIN travelled /\ travelled[First(plan)] = sent
         /\ Head(toR).hash = sent
<1>0. FolderTypeOK BY DEF FolderInv
<1>1. /\ (At("stream") /\ Streaming) \/ (At("verify") /\ Verifying)
      /\ Carrying /\ rst = "loop" /\ Settled /\ NotPruned /\ plan # {}
      /\ Heard \in Nat /\ Len(sent) \in Nat
      /\ IsQueue(toR') /\ Len(toR) \in Nat \ {0} /\ Len(toR') = Len(toR) - 1
      /\ Head(toR) = FrameOf(First(plan), sent, Heard)
      /\ toS = <<>> /\ rWritten = sWritten
  BY NextFrame
<1>2. Heard > Len(sent) /\ Heard # 0
  <2>1. Heard # 0 BY <1>1 DEF FrameOf
  <2>2. ~(Heard <= Len(sent)) BY <1>1, <2>1 DEF FrameOf
  <2> QED BY <1>1, <2>1, <2>2
<1>3. Head(toR).hash = sent
  <2>1. ~(Heard <= Len(sent)) BY <1>1, <1>2
  <2>2. FrameOf(First(plan), sent, Heard) = [t |-> "end", hash |-> sent]
    BY <1>2, <2>1 DEF FrameOf
  <2> QED BY <1>1, <2>2
<1>4. ~Streaming
  <2> SUFFICES ASSUME Streaming PROVE FALSE
    OBVIOUS
  <2>1. Heard + Len(toR) <= Len(sent) + 1 BY DEF Streaming
  <2> QED BY <1>1, <1>2, <2>1
<1>5. At("verify") /\ Verifying BY <1>1, <1>4
<1>6. /\ Heard + Len(toR) <= Len(sent) + 2
      /\ First(plan) \in DOMAIN travelled /\ travelled[First(plan)] = sent
  BY <1>5 DEF Verifying
<1>7. current # Nobody BY <1>2 DEF Heard
<1>8. /\ Heard = Len(got) + 1 /\ current = First(plan) /\ dest[Part[current]] = got
      /\ Len(got) \in 0..Len(sent) /\ got = SubSeq(sent, 1, Len(got))
  BY <1>1, <1>7 DEF Heard, Carrying
<1>9. Len(got) = Len(sent) BY <1>1, <1>2, <1>8
<1>10. sent \in Seq(Version) BY <1>0, ContentsAre DEF FolderTypeOK
<1>11. got = sent
  <2>1. SubSeq(sent, 1, Len(sent)) = sent BY <1>10
  <2> QED BY <1>8, <1>9, <2>1
<1>12. sent \in Content BY <1>0 DEF FolderTypeOK
<1>13. toR' = <<>>
  <2>1. Len(toR') = 0 BY <1>1, <1>2, <1>6
  <2> QED BY <1>1, <2>1, QueueOne
<1>14. First(plan) \in plan /\ First(plan) \in Path BY <1>0, <1>1, HeardIsCount
<1> QED BY <1>1, <1>3, <1>5, <1>6, <1>8, <1>11, <1>12, <1>13, <1>14

\* The rename: the file is in place.
LEMMA CommitsStep ==
  ASSUME FolderInv, RecipientCommits
  PROVE  FolderInv'
<1>0. FolderTypeOK BY DEF FolderInv
<1> DEFINE x == [t |-> "ok", path |-> current]
<1>1. /\ rst = "loop" /\ toR # <<>> /\ Head(toR).t = "end" /\ toR' = Tail(toR)
      /\ dest' = Rename(dest, Part[current], current)
      /\ arrived' = arrived \cup {current} /\ rWritten' = rWritten + 1
      /\ toS' = Post(toS, <<x>>) /\ current' = Nobody
      /\ UNCHANGED <<src, sst, manifest, gotHello, gotAck, acks, plan, stale, opened, sent, sWritten, consent>>
      /\ UNCHANGED <<rst, local, declared, acked, got, rDeleted>>
      /\ UNCHANGED <<up, before, undeleted, travelled>>
  BY DEF RecipientCommits, RecipientReads, PartName, senderVars, listVars, fileVars,
         sumVars, runVars, cronVars
<1>2. x.t # "done" OBVIOUS
<1>3. RecipientRuns BY <1>1 DEF RecipientRuns, Over
<1>4. /\ At("verify") /\ Verifying
      /\ Settled /\ NotPruned /\ plan # {}
      /\ toR' = <<>> /\ toS = <<>> /\ rWritten = sWritten
      /\ current = First(plan) /\ current \in plan /\ current \in Path
      /\ sent \in Content /\ dest[Part[current]] = sent
  BY <1>1, <1>3, LastFrame
<1>5. x = [t |-> "ok", path |-> First(plan)] BY <1>4
<1> HIDE DEF x
<1>6. /\ IsQueue(toS') /\ SummaryIsTrue' /\ (toS' = <<>> \/ toS' = <<x>>)
  BY <1>1, <1>2, <1>3, <1>4, ReplyOne
<1>7. dest \in [Name -> Content \cup {Absent, Folder}] BY <1>0 DEF FolderTypeOK
<1>8. dest' \in [Name -> Content \cup {Absent, Folder}]
  <2>1. sent \in Content BY <1>0 DEF FolderTypeOK
  <2> QED BY <1>1, <1>4, <1>7, <2>1 DEF Rename
<1>9. \A n \in Name : n # current /\ n # Part[current] => dest'[n] = dest[n]
  BY <1>1, <1>7 DEF Rename
<1>10. dest'[current] = sent
  <2>1. current \in Name BY <1>4, FolderConstants
  <2> QED BY <1>1, <1>4, <2>1 DEF Rename
<1>11. /\ \A r \in DOMAIN manifest \ plan :
            r # First(plan) /\ r # Part[First(plan)] /\ r \in Name
       /\ \A q \in Others : q # First(plan) /\ q # Part[First(plan)] /\ q \in Name
  BY <1>0, <1>4, OutOfTheWay
<1>12. Settled' /\ NotPruned'
  <2>1. \A r \in DOMAIN manifest \ plan : dest'[r] = dest[r] BY <1>4, <1>9, <1>11
  <2>2. \A q \in Others : IsFile(before[q]) => dest'[q] = dest[q] BY <1>4, <1>9, <1>11
  <2>3. arrived \subseteq arrived' BY <1>1
  <2> QED BY <1>1, <1>4, <2>1, <2>2, <2>3, StillSettled
<1>13. FolderTypeOK'
  <2>1. IsQueue(toR') BY <1>4, QueueOne
  <2> QED BY <1>0, <1>1, <1>6, <1>8, <2>1 DEF FolderTypeOK
<1>14. Verifying'
  <2>1. Heard' = 0 /\ Len(toR') = 0 BY <1>1, <1>4, QueueOne DEF Heard
  <2>2. Carrying'
    <3>1. \A i \in 1..Len(toR') : FALSE BY <2>1
    <3> QED BY <1>1, <1>4, <1>12, <3>1 DEF Carrying, Verifying
  <2>3. Heard' + Len(toR') <= Len(sent') + 2
    <3>1. Len(sent) \in Nat BY <1>0, ContentsAre DEF FolderTypeOK
    <3> QED BY <1>1, <2>1, <3>1
  <2>4. First(plan) \in DOMAIN travelled /\ travelled[First(plan)] = sent
    BY <1>4 DEF Verifying
  <2>5. current' = Nobody /\ toR' = <<>> BY <1>1, <1>4
  <2>6. toS' = <<>> \/ /\ toS' = <<[t |-> "ok", path |-> First(plan')]>>
                       /\ rWritten' = sWritten' + 1
                       /\ dest'[First(plan')] = sent' /\ First(plan') \in arrived'
    BY <1>1, <1>4, <1>5, <1>6, <1>10
  <2> QED BY <1>1, <2>2, <2>3, <2>4, <2>5, <2>6 DEF Verifying
<1>15. InPhase("verify")' /\ At("verify")' /\ "verify" \in Phases
  BY <1>1, <1>4, <1>14 DEF InPhase, At, Phases
<1>16. InStep' BY <1>15, InStepAt
<1> QED BY <1>1, <1>3, <1>6, <1>13, <1>16, RecipientMove

\* The file is refused and its part file removed.
LEMMA RejectsStep ==
  ASSUME FolderInv, RecipientRejects
  PROVE  FolderInv'
<1>0. FolderTypeOK BY DEF FolderInv
<1> DEFINE x == [t |-> "fail", path |-> current]
<1>1. /\ rst = "loop" /\ toR # <<>> /\ Head(toR).t = "end" /\ toR' = Tail(toR)
      /\ CleanUp /\ toS' = Post(toS, <<x>>) /\ current' = Nobody
      /\ UNCHANGED <<src, sst, manifest, gotHello, gotAck, acks, plan, stale, opened, sent, sWritten, consent>>
      /\ UNCHANGED <<rst, local, declared, acked, got, rWritten, rDeleted>>
      /\ UNCHANGED <<up, before, undeleted, travelled, arrived>>
  BY DEF RecipientRejects, RecipientReads, senderVars, listVars, fileVars,
         sumVars, tallyVars, runVars, cronVars
<1>2. x.t # "done" OBVIOUS
<1>3. RecipientRuns BY <1>1 DEF RecipientRuns, Over
<1>4. /\ At("verify") /\ Verifying
      /\ Settled /\ NotPruned /\ plan # {}
      /\ toR' = <<>> /\ toS = <<>> /\ rWritten = sWritten
      /\ current = First(plan) /\ current \in plan /\ current \in Path
  BY <1>1, <1>3, LastFrame
<1>5. x = [t |-> "fail", path |-> First(plan)] BY <1>4
<1> HIDE DEF x
<1>6. /\ IsQueue(toS') /\ SummaryIsTrue' /\ (toS' = <<>> \/ toS' = <<x>>)
  BY <1>1, <1>2, <1>3, <1>4, ReplyOne
<1>7. dest \in [Name -> Content \cup {Absent, Folder}] BY <1>0 DEF FolderTypeOK
<1>8. dest' \in [Name -> Content \cup {Absent, Folder}] BY <1>1, CleanUpTyped
<1>9. \A n \in Name : n # Part[First(plan)] => dest'[n] = dest[n]
  <2>1. current # Nobody BY <1>4, FolderConstants
  <2> QED BY <1>1, <1>4, <1>7, <2>1 DEF CleanUp, Put, PartName
<1>11. /\ \A r \in DOMAIN manifest \ plan : r # Part[First(plan)] /\ r \in Name
       /\ \A q \in Others : q # Part[First(plan)] /\ q \in Name
  BY <1>0, <1>4, OutOfTheWay
<1>12. Settled' /\ NotPruned'
  <2>1. \A r \in DOMAIN manifest \ plan : dest'[r] = dest[r] BY <1>9, <1>11
  <2>2. \A q \in Others : IsFile(before[q]) => dest'[q] = dest[q] BY <1>9, <1>11
  <2> QED BY <1>1, <1>4, <2>1, <2>2, StillSettled
<1>13. FolderTypeOK'
  <2>1. IsQueue(toR') BY <1>4, QueueOne
  <2> QED BY <1>0, <1>1, <1>6, <1>8, <2>1 DEF FolderTypeOK
<1>14. Verifying'
  <2>1. Heard' = 0 /\ Len(toR') = 0 BY <1>1, <1>4, QueueOne DEF Heard
  <2>2. Carrying'
    <3>1. \A i \in 1..Len(toR') : FALSE BY <2>1
    <3> QED BY <1>1, <1>4, <1>12, <3>1 DEF Carrying, Verifying
  <2>3. Heard' + Len(toR') <= Len(sent') + 2
    <3>1. Len(sent) \in Nat BY <1>0, ContentsAre DEF FolderTypeOK
    <3> QED BY <1>1, <2>1, <3>1
  <2>4. First(plan) \in DOMAIN travelled /\ travelled[First(plan)] = sent
    BY <1>4 DEF Verifying
  <2>5. current' = Nobody /\ toR' = <<>> BY <1>1, <1>4
  <2>6. toS' = <<>> \/ /\ toS' = <<[t |-> "fail", path |-> First(plan')]>>
                       /\ rWritten' = sWritten'
    BY <1>1, <1>4, <1>5, <1>6
  <2> QED BY <1>1, <2>2, <2>3, <2>4, <2>5, <2>6 DEF Verifying
<1>15. InPhase("verify")' /\ At("verify")' /\ "verify" \in Phases
  BY <1>1, <1>4, <1>14 DEF InPhase, At, Phases
<1>16. InStep' BY <1>15, InStepAt
<1> QED BY <1>1, <1>3, <1>6, <1>13, <1>16, RecipientMove

\* The frames after the last file.
LEMMA LastFrames ==
  ASSUME FolderInv, RecipientRuns, rst = "loop", toR # <<>>, toR' = Tail(toR),
         Head(toR).t \in {"delete", "done"}
  PROVE  /\ At("summary") /\ Summing /\ toS = <<>> /\ IsQueue(toR')
         /\ Settled /\ plan = {} /\ current = Nobody /\ rWritten = sWritten
         /\ \/ /\ Head(toR).t = "delete" /\ Head(toR).paths = stale /\ NotPruned
               /\ toR' = <<>> \/ toR' = <<[t |-> "done"]>>
            \/ Head(toR).t = "done" /\ Pruned /\ toR' = <<>>
<1>0. FolderTypeOK BY DEF FolderInv
<1>1. At("summary") /\ Summing
  BY FramePhase
<1>2. /\ 1 \in 1..Len(toR) /\ Head(toR) = toR[1] /\ Len(toR) \in Nat \ {0}
      /\ IsQueue(toR') /\ Len(toR') = Len(toR) - 1
      /\ \A i \in 1..(Len(toR) - 1) : toR'[i] = toR[i + 1]
  BY <1>0, QueueHead, QueueOne DEF FolderTypeOK
<1>3. /\ toS = <<>> /\ Settled /\ plan = {} /\ current = Nobody /\ rWritten = sWritten
      /\ \/ /\ NotPruned
            /\ Len(toR) \in 1..2 /\ toR[1] = [t |-> "delete", paths |-> stale]
            /\ Len(toR) = 2 => toR[2] = [t |-> "done"]
         \/ Pruned /\ toR = <<[t |-> "done"]>>
  BY <1>1 DEF Summing
<1>4. CASE /\ NotPruned
           /\ Len(toR) \in 1..2 /\ toR[1] = [t |-> "delete", paths |-> stale]
           /\ Len(toR) = 2 => toR[2] = [t |-> "done"]
  <2>1. Head(toR).t = "delete" /\ Head(toR).paths = stale BY <1>2, <1>4
  <2>2. toR' = <<>> \/ toR' = <<[t |-> "done"]>>
    <3>1. CASE Len(toR) = 1
      <4>1. Len(toR') = 0 BY <1>2, <3>1
      <4> QED BY <1>2, <4>1, QueueOne
    <3>2. CASE Len(toR) = 2
      <4>1. Len(toR') = 1 BY <1>2, <3>2
      <4>2. 1 \in 1..(Len(toR) - 1) /\ 1 + 1 = 2 BY <3>2
      <4>3. toR'[1] = toR[1 + 1] BY <1>2, <4>2
      <4>4. toR'[1] = [t |-> "done"] BY <1>4, <3>2, <4>2, <4>3
      <4>5. toR' = <<toR'[1]>> BY <1>2, <4>1, QueueOne
      <4> QED BY <4>4, <4>5
    <3> QED BY <1>4, <3>1, <3>2
  <2> QED BY <1>1, <1>2, <1>3, <1>4, <2>1, <2>2
<1>5. CASE Pruned /\ toR = <<[t |-> "done"]>>
  <2>1. Len(toR) = 1 /\ toR[1] = [t |-> "done"] BY <1>5, QueueOne
  <2>2. Len(toR') = 0 BY <1>2, <2>1
  <2>3. toR' = <<>> BY <1>2, <2>2, QueueOne
  <2> QED BY <1>1, <1>2, <1>3, <1>5, <2>1, <2>3
<1> QED BY <1>3, <1>4, <1>5

\* The names that the sender does not have are deleted, if the user agreed.
LEMMA PrunesStep ==
  ASSUME FolderInv, RecipientPrunes
  PROVE  FolderInv'
<1>0. FolderTypeOK BY DEF FolderInv
<1> DEFINE asked == IF MayPrune THEN Head(toR).paths ELSE {}
<1> PICK kept \in SUBSET asked :
           /\ dest' = [n \in Name |-> IF n \in asked \ kept THEN Absent ELSE dest[n]]
           /\ undeleted' = kept
  BY DEF RecipientPrunes
<1>1. /\ rst = "loop" /\ toR # <<>> /\ Head(toR).t = "delete" /\ toR' = Tail(toR)
      /\ UNCHANGED <<src, sst, manifest, gotHello, gotAck, acks, plan, stale, opened, sent, sWritten, consent>>
      /\ UNCHANGED <<rst, local, declared, acked, current, got, rWritten>>
      /\ UNCHANGED <<toS, up, before, travelled, arrived>>
  BY DEF RecipientPrunes, RecipientReads, senderVars, listVars, fileVars,
         sumVars, partVars, cronVars
<1>2. RecipientRuns BY <1>1 DEF RecipientRuns, Over
<1>3. /\ At("summary") /\ Summing /\ toS = <<>> /\ IsQueue(toR')
      /\ Settled /\ plan = {} /\ current = Nobody /\ rWritten = sWritten
      /\ Head(toR).paths = stale /\ NotPruned
      /\ toR' = <<>> \/ toR' = <<[t |-> "done"]>>
  <2>1. Head(toR).t # "done" /\ Head(toR).t \in {"delete", "done"} BY <1>1
  <2> QED BY <1>1, <1>2, <2>1, LastFrames
<1>4. asked = IF MayPrune THEN stale ELSE {} BY <1>3
<1> HIDE DEF asked
<1>5. stale = DOMAIN local \ DOMAIN manifest /\ declared = DOMAIN manifest
  BY <1>3 DEF Settled
<1>6. DOMAIN manifest \subseteq Path /\ \A p \in Path : p \in Name
  BY <1>0, FolderConstants DEF FolderTypeOK
<1>7. \A r \in DOMAIN manifest : dest'[r] = dest[r] BY <1>4, <1>5, <1>6
<1>8. Settled'
  <2>1. \A p \in DOMAIN manifest \ plan :
          /\ p \in DOMAIN travelled /\ travelled[p] \in Content /\ dest'[p] = travelled[p]
          /\ p \in arrived \/ dest'[p] = manifest[p]
          /\ p \in Suffixed => \A q \in plan : Rank[p] < Rank[q]
    BY <1>3, <1>7 DEF Settled
  <2> QED BY <1>1, <1>3, <2>1 DEF Settled
<1>9. Pruned'
  <2> SUFFICES ASSUME NEW p \in Others, IsFile(before[p])
               PROVE dest'[p] = IF (consent = "always" \/ (consent = "careful" /\ declared # {}))
                                   /\ p \notin kept
                                THEN Absent ELSE before[p]
    BY <1>1 DEF Pruned, Others
  <2>1. p \in Path /\ p \notin DOMAIN manifest /\ p \notin Suffixed BY DEF Others
  <2>2. p \in DOMAIN local /\ p \in stale BY <1>3, <1>5, <2>1 DEF Settled
  <2>3. dest[p] = before[p] BY <1>3 DEF NotPruned
  <2>4. consent \in {"never", "careful", "always"} BY <1>0 DEF FolderTypeOK
  <2>5. MayPrune <=> consent = "always" \/ (consent = "careful" /\ declared # {})
    BY <2>2, <2>4 DEF MayPrune
  <2>6. CASE MayPrune
    <3>1. dest'[p] = IF p \notin kept THEN Absent ELSE dest[p]
      BY <1>4, <1>6, <2>1, <2>2, <2>6
    <3> QED BY <2>3, <2>5, <2>6, <3>1
  <2>7. CASE ~MayPrune
    <3>1. dest'[p] = dest[p] BY <1>4, <1>6, <2>1, <2>7
    <3> QED BY <2>3, <2>5, <2>7, <3>1
  <2> QED BY <2>6, <2>7
<1>10. dest' \in [Name -> Content \cup {Absent, Folder}] BY <1>0 DEF FolderTypeOK
<1>11. FolderTypeOK' BY <1>0, <1>1, <1>3, <1>10 DEF FolderTypeOK
<1>12. SummaryIsTrue' BY <1>1, <1>3, QueueOne DEF SummaryIsTrue
<1>13. Summing' BY <1>1, <1>3, <1>8, <1>9 DEF Summing
<1>14. InPhase("summary")' /\ At("summary")' /\ "summary" \in Phases
  BY <1>1, <1>3, <1>13 DEF InPhase, At, Phases
<1>15. InStep' BY <1>14, InStepAt
<1> QED BY <1>1, <1>2, <1>11, <1>12, <1>15, RecipientMove

\* The recipient is done.
LEMMA SumsUpStep ==
  ASSUME FolderInv, RecipientHearsDone
  PROVE  FolderInv'
<1>0. FolderTypeOK BY DEF FolderInv
<1> DEFINE x == [t |-> "done", deleted |-> rDeleted]
<1>1. /\ rst = "loop" /\ rst' = "done"
      /\ toR # <<>> /\ Head(toR).t = "done" /\ toR' = Tail(toR)
      /\ toS' = Post(toS, <<x>>)
      /\ UNCHANGED <<src, sst, manifest, gotHello, gotAck, acks, plan, stale, opened, sent, sWritten, consent>>
      /\ UNCHANGED <<dest, local, declared, acked, current, got, rWritten, rDeleted>>
      /\ UNCHANGED <<up, before, undeleted, travelled, arrived>>
  BY DEF RecipientHearsDone, RecipientReads, senderVars, listVars, fileVars,
         sumVars, partVars, tallyVars, runVars, cronVars
<1>2. RecipientRuns BY <1>1 DEF RecipientRuns, Over
<1>3. /\ At("summary") /\ Summing /\ toS = <<>> /\ IsQueue(toR')
      /\ Settled /\ plan = {} /\ current = Nobody /\ rWritten = sWritten
      /\ Pruned /\ toR' = <<>>
  <2>1. Head(toR).t # "delete" /\ Head(toR).t \in {"delete", "done"} BY <1>1
  <2> QED BY <1>1, <1>2, <2>1, LastFrames
<1>4. x.t = "done" /\ x.deleted = rDeleted OBVIOUS
<1>5. x = [t |-> "done", deleted |-> rDeleted] OBVIOUS
<1> HIDE DEF x
<1>6. IsQueue(toS') /\ (toS' = <<>> \/ toS' = <<x>>)
  BY <1>1, <1>3, ReplyOne
<1>7. FolderTypeOK' BY <1>0, <1>1, <1>3, <1>6 DEF FolderTypeOK
<1>8. SummaryIsTrue'
  <2>1. \A i \in 1..Len(toS') : toS'[i] = x
    <3>1. CASE toS' = <<>> BY <3>1, QueueOne
    <3>2. CASE toS' = <<x>>
      <4>1. Len(toS') = 1 /\ toS'[1] = x BY <3>2, QueueOne
      <4> QED BY <4>1
    <3> QED BY <1>6, <3>1, <3>2
  <2> QED BY <1>1, <1>4, <2>1 DEF SummaryIsTrue
<1>9. Settled' /\ Pruned' BY <1>1, <1>3 DEF Settled, Pruned, Others
<1>10. Summing' BY <1>1, <1>3, <1>5, <1>6, <1>9 DEF Summing
<1>11. InPhase("summary")' /\ At("summary")' /\ "summary" \in Phases
  BY <1>1, <1>3, <1>10 DEF InPhase, At, Phases
<1>12. InStep' BY <1>11, InStepAt
<1> QED BY <1>1, <1>2, <1>7, <1>8, <1>12, RecipientMove

-----------------------------------------------------------------------------
(* The invariant, and what follows from it.                                *)

\* Every step keeps the inductive invariant.
LEMMA FolderInductive == FolderInv /\ [Next]_vars => FolderInv'
<1> SUFFICES ASSUME FolderInv, [Next]_vars PROVE FolderInv'
  OBVIOUS
<1>1. CASE StartRun BY <1>1, StartStep
<1>2. CASE SenderStep
  <2>1. CASE SenderGreets BY <2>1, GreetsStep
  <2>2. CASE SenderHearsHello BY <2>2, HearsHelloStep
  <2>3. CASE SenderHearsList BY <2>3, HearsListStep
  <2>4. CASE SenderOpens BY <2>4, OpensStep
  <2>5. CASE SenderSendsChunk BY <2>5, SendsChunkStep
  <2>6. CASE SenderEndsFile BY <2>6, EndsFileStep
  <2>7. CASE SenderHearsOk BY <2>7, HearsOkStep
  <2>8. CASE SenderHearsFail BY <2>8, HearsFailStep
  <2>9. CASE SenderFinishes BY <2>9, FinishesStep
  <2>10. CASE SenderHearsDone BY <2>10, HearsDoneStep
  <2>11. CASE SenderEndsInError \/ SenderCannotFinish \/ SenderFaults
    BY <2>11, EnvironmentStep
  <2> QED BY <1>2, <2>1, <2>2, <2>3, <2>4, <2>5, <2>6, <2>7, <2>8, <2>9, <2>10, <2>11
          DEF SenderStep
<1>3. CASE RecipientStep
  <2>1. CASE RecipientScans BY <2>1, ScansStep
  <2>2. CASE RecipientHearsList BY <2>2, HearsManifestStep
  <2>3. CASE RecipientBegins BY <2>3, BeginsStep
  <2>4. CASE RecipientWrites BY <2>4, WritesStep
  <2>5. CASE RecipientCommits BY <2>5, CommitsStep
  <2>6. CASE RecipientRejects BY <2>6, RejectsStep
  <2>7. CASE RecipientPrunes BY <2>7, PrunesStep
  <2>8. CASE RecipientHearsDone BY <2>8, SumsUpStep
  <2>9. CASE RecipientRefuses \/ RecipientEndsInError \/ RecipientFaults
    BY <2>9, RecipientFails
  <2> QED BY <1>3, <2>1, <2>2, <2>3, <2>4, <2>5, <2>6, <2>7, <2>8, <2>9
          DEF RecipientStep
<1>4. CASE SourceChanges \/ SenderDies BY <1>4, EnvironmentStep
<1>5. CASE ChannelLost BY <1>5, LossStep
<1>6. CASE RecipientDies BY <1>6, RecipientFails
<1>7. CASE UNCHANGED vars
  <2>1. UNCHANGED phaseVars /\ UNCHANGED <<sDeleted, opened, src, sst>>
    BY <1>7 DEF vars, phaseVars, senderVars, listVars, fileVars, sumVars, recipientVars,
                partVars, tallyVars, runVars, cronVars
  <2>2. src' \in [Path -> Version \cup {Absent}] BY <2>1 DEF FolderInv, FolderTypeOK
  <2> QED BY <2>1, <2>2, OutsideStep
<1> QED BY <1>1, <1>2, <1>3, <1>4, <1>5, <1>6, <1>7 DEF Next

\* Through edits, losses, deaths and faults, run after run, the two loops of a sync
\* are in step for as long as the recipient has not failed (run_sender(),
\* run_receiver()).
THEOREM FolderInvariant == Spec => []FolderInv
BY FolderInitial, FolderInductive, PTL DEF Spec

\* When `share` reports success so did `get`, with the same numbers of files written
\* and deleted: SendersSuccessIsShared.
THEOREM SuccessIsShared == Spec => []SendersSuccessIsShared
<1>1. FolderInv => SendersSuccessIsShared BY DEF FolderInv
<1> QED BY <1>1, FolderInvariant, PTL

\* When `get` reports success its folder is the sender's list, whole and exact, and
\* every other file is deleted or as it was: DoneMeansMirrored.
THEOREM SuccessIsAMirror == Spec => []DoneMeansMirrored
<1>1. FolderInv => DoneMeansMirrored
  <2> SUFFICES ASSUME FolderInv, rst = "done" PROVE DoneMeansMirrored
    BY DEF DoneMeansMirrored
  <2>1. PICK ph \in Phases : InPhase(ph) BY DEF FolderInv, InStep
  <2>2. /\ ~Starting /\ ~Comparing /\ ~Opening /\ ~Finishing /\ ~Aborting
        /\ ~Streaming /\ ~Verifying
    BY DEF Starting, Comparing, Before, Listing, Opening, Finishing, Idle, Aborting,
           Streaming, Verifying, Carrying
  <2>3. Summing BY <2>1, <2>2 DEF InPhase
  <2>4. Settled /\ plan = {} /\ Pruned BY <2>3 DEF Summing
  <2>5. declared = DOMAIN manifest /\ \A p \in DOMAIN manifest : dest[p] = travelled[p]
    BY <2>4 DEF Settled
  <2>6. Others = Path \ (declared \cup Suffixed) BY <2>5 DEF Others
  <2> QED BY <2>4, <2>5, <2>6 DEF DoneMeansMirrored, Pruned
<1> QED BY <1>1, FolderInvariant, PTL

-----------------------------------------------------------------------------
(* The refinement of FolderMirror.                                         *)

\* FolderMirror's variables, by name.
MirrorNow == [p \in Seen |-> IF IsFile(dest[p]) THEN dest[p] ELSE Absent]
OfferNow == [p \in Seen |-> IF p \in DOMAIN manifest THEN manifest[p] ELSE Absent]
ReadNow == [p \in Seen |-> IF p \in DOMAIN travelled THEN travelled[p] ELSE Absent]
VerdictNow == CASE rst = "done" -> "success" [] rst = "failed" -> "failure"
                [] OTHER -> "open"

\* What the mirror does not show.
LEMMA MirrorStutter ==
  ASSUME UNCHANGED <<MirrorNow, manifest, travelled, arrived \cap Seen, VerdictNow, consent>>
  PROVE  UNCHANGED Mirror!mirrorVars
BY DEF Mirror!mirrorVars, MirrorNow, VerdictNow

\* An end in error changes no file that the mirror shows.
LEMMA MirrorFails ==
  ASSUME RecipientRuns, rst' = "failed",
         UNCHANGED <<MirrorNow, manifest, travelled, arrived, consent>>
  PROVE  Mirror!Fail
BY DEF Mirror!Fail, MirrorNow, RecipientRuns, Over

\* What the sender has read is a content of a file of its list.
ReadsAreOffered ==
  /\ DOMAIN travelled \subseteq DOMAIN manifest
  /\ \A p \in DOMAIN travelled : travelled[p] \in Content

\* The steps of the sender that settle what is read.
Reading == SenderHearsHello \/ SenderHearsList \/ SenderEndsFile

\* No step of the sender, of the source or of the channel changes the destination.
LEMMA SenderIsSilent ==
  ASSUME SenderStep \/ SourceChanges \/ ChannelLost \/ SenderDies
  PROVE  /\ UNCHANGED <<dest, manifest, arrived, rst, consent>>
         /\ travelled' = travelled \/ Reading
<1> USE DEF senderVars, listVars, sumVars, fileVars, recipientVars, cronVars, Reading
<1>1. CASE SenderGreets \/ SenderHearsHello \/ SenderHearsList \/ SenderOpens
  BY <1>1 DEF SenderGreets, SenderHearsHello, SenderHearsList, SenderOpens
<1>2. CASE SenderSendsChunk \/ SenderEndsFile \/ SenderHearsOk \/ SenderHearsFail
  BY <1>2 DEF SenderSendsChunk, SenderEndsFile, SenderHearsOk, SenderHearsFail
<1>3. CASE SenderFinishes \/ SenderCannotFinish \/ SenderHearsDone \/ SenderEndsInError
           \/ SenderFaults
  BY <1>3 DEF SenderFinishes, SenderCannotFinish, SenderHearsDone, SenderEndsInError,
              SenderFaults
<1>4. CASE SourceChanges \/ ChannelLost \/ SenderDies
  BY <1>4 DEF SourceChanges, ChannelLost, SenderDies
<1> QED BY <1>1, <1>2, <1>3, <1>4 DEF SenderStep

\* What a comparison or the end of a file settles.
LEMMA ReadingIsOffered ==
  ASSUME FolderInv, ReadsAreOffered, Reading
  PROVE  ReadsAreOffered'
<1>0. FolderTypeOK BY DEF FolderInv
<1>1. \A p \in DOMAIN manifest : manifest[p] \in Content
  BY <1>0, ContentsAre DEF FolderTypeOK
<1>2. CASE SenderHearsHello \/ SenderHearsList
  <2>1. manifest' = manifest /\ Compare
    BY <1>2 DEF SenderHearsHello, SenderHearsList, listVars
  <2>2. travelled' = travelled \/ \E left : travelled' = [p \in DOMAIN manifest \ left |-> manifest[p]]
    BY <2>1 DEF Compare
  <2> QED BY <1>1, <2>1, <2>2 DEF ReadsAreOffered
<1>3. CASE SenderEndsFile
  <2>1. /\ sst = "stream" /\ manifest' = manifest
        /\ travelled' = Merge(travelled, [p \in {First(plan)} |-> sent])
    BY <1>3 DEF SenderEndsFile, listVars
  <2>2. First(plan) \in DOMAIN manifest /\ sent \in Content
    <3>1. plan # {} /\ plan \in SUBSET Path /\ plan \subseteq DOMAIN manifest /\ sent \in Content
      BY <1>0, <2>1 DEF FolderTypeOK
    <3> QED BY <3>1, FirstIsLeast
  <2> QED BY <2>1, <2>2 DEF ReadsAreOffered, Merge
<1> QED BY <1>2, <1>3 DEF Reading

\* Every step keeps it.
LEMMA ReadsInductive == FolderInv /\ ReadsAreOffered /\ [Next]_vars => ReadsAreOffered'
<1> SUFFICES ASSUME FolderInv, ReadsAreOffered, [Next]_vars PROVE ReadsAreOffered'
  OBVIOUS
<1>1. CASE StartRun BY <1>1 DEF StartRun, ReadsAreOffered
<1>2. CASE SenderStep \/ SourceChanges \/ ChannelLost \/ SenderDies
  BY <1>2, SenderIsSilent, ReadingIsOffered DEF ReadsAreOffered
<1>3. CASE RecipientStep \/ RecipientDies \/ UNCHANGED vars
  <2>1. UNCHANGED <<manifest, travelled>>
    BY <1>3 DEF RecipientStep, RecipientScans, RecipientRefuses, RecipientHearsList,
                RecipientBegins, RecipientWrites, RecipientCommits, RecipientRejects,
                RecipientPrunes, RecipientHearsDone, RecipientEndsInError, RecipientFaults,
                RecipientDies, vars, senderVars, listVars
  <2> QED BY <2>1 DEF ReadsAreOffered
<1> QED BY <1>1, <1>2, <1>3 DEF Next

\* A recipient that is done has heard all that the sender reads.
LEMMA NothingIsReadAfterwards ==
  ASSUME FolderInv, Reading
  PROVE  rst # "done"
<1> SUFFICES ASSUME rst = "done" PROVE FALSE
  OBVIOUS
<1>1. sst \in {"compare", "stream"}
  BY DEF Reading, SenderHearsHello, SenderHearsList, SenderReads, SenderEndsFile
<1>2. InPhase(sst) BY <1>1, SenderPhase DEF Phases
<1>3. Comparing \/ Streaming BY <1>1, <1>2 DEF InPhase
<1> QED BY <1>3 DEF Comparing, Before, Listing, Streaming, Carrying

\* What a run offers is its list, and every entry is a whole file.
LEMMA OfferedNames ==
  ASSUME FolderTypeOK
  PROVE  /\ Mirror!Offered = Seen \cap DOMAIN manifest
         /\ \A p \in DOMAIN manifest : manifest[p] \in Whole /\ manifest[p] # Absent
                                       /\ IsFile(manifest[p])
<1>1. \A p \in DOMAIN manifest : manifest[p] \in Whole /\ manifest[p] # Absent
                                 /\ IsFile(manifest[p])
  BY ContentsAre, FolderConstants DEF FolderTypeOK, IsFile
<1> QED BY <1>1 DEF Mirror!Offered

\* What the sender does is at most a Read of the mirror.
LEMMA SenderRefines ==
  ASSUME FolderInv, ReadsAreOffered, ReadsAreOffered',
         SenderStep \/ SourceChanges \/ ChannelLost \/ SenderDies
  PROVE  Mirror!Read \/ UNCHANGED Mirror!mirrorVars
<1>1. UNCHANGED <<dest, manifest, arrived, rst, consent>> BY SenderIsSilent
<1>2. UNCHANGED <<MirrorNow, OfferNow, DOMAIN manifest, arrived \cap Seen, VerdictNow>>
  BY <1>1 DEF MirrorNow, OfferNow, VerdictNow
<1>3. CASE travelled' = travelled BY <1>1, <1>2, <1>3, MirrorStutter
<1>4. CASE travelled' # travelled
  <2>1. rst # "done" BY <1>4, SenderIsSilent, NothingIsReadAfterwards
  <2>2. VerdictNow # "success" BY <2>1 DEF VerdictNow
  <2>3. ReadNow' \in [Seen -> Content \cup {Absent}] BY DEF ReadsAreOffered, ReadNow
  <2>4. \A f \in Seen : ReadNow'[f] # ReadNow[f] => f \in DOMAIN manifest
    BY <1>1 DEF ReadsAreOffered, ReadNow
  <2>5. Mirror!Offered = Seen \cap DOMAIN manifest
    <3>1. FolderTypeOK BY DEF FolderInv
    <3> QED BY <3>1, OfferedNames
  <2>6. \A f \in Seen : ReadNow'[f] # ReadNow[f] => f \in Mirror!Offered
    BY <2>4, <2>5
  <2> QED BY <1>1, <1>2, <2>2, <2>3, <2>6
          DEF Mirror!Read, MirrorNow, OfferNow, ReadNow, VerdictNow
<1> QED BY <1>3, <1>4

\* Once no file is left, all that was offered is in place.
LEMMA AllInPlace ==
  ASSUME FolderTypeOK, Settled, plan = {}
  PROVE  \A f \in Mirror!Offered : Mirror!InPlace(f)
<1>1. /\ Mirror!Offered = Seen \cap DOMAIN manifest
      /\ \A p \in DOMAIN manifest : IsFile(manifest[p])
  BY OfferedNames
<1>2. \A p \in DOMAIN manifest :
        /\ p \in DOMAIN travelled /\ travelled[p] \in Content /\ dest[p] = travelled[p]
        /\ p \in arrived \/ dest[p] = manifest[p]
  BY DEF Settled
<1>3. \A p \in DOMAIN manifest : IsFile(dest[p]) BY <1>2, FolderConstants DEF IsFile
<1> QED BY <1>1, <1>2, <1>3 DEF Mirror!InPlace

\* The file a recipient at work writes has a name.
LEMMA CurrentIsAName ==
  ASSUME FolderInv, RecipientRuns
  PROVE  current = Nobody \/ current \in Path
<1>0. FolderTypeOK BY DEF FolderInv
<1>1. PICK ph \in Phases : InPhase(ph)
  BY DEF FolderInv, InStep, RecipientRuns, Over
<1>2. Starting \/ Comparing \/ Opening \/ Finishing \/ Summing \/ Aborting => current = Nobody
  BY DEF Starting, Comparing, Untouched, Opening, Finishing, Idle, Summing, Aborting
<1>3. Streaming \/ Verifying => current = Nobody \/ (current = First(plan) /\ plan # {})
  BY DEF Streaming, Verifying, Carrying
<1>4. plan \in SUBSET Path BY <1>0 DEF FolderTypeOK
<1>5. plan # {} => First(plan) \in Path BY <1>4, FirstIsLeast
<1> QED BY <1>1, <1>2, <1>3, <1>5 DEF InPhase, Phases

\* A change of a part file is not seen.
LEMMA OnlyAPartFile ==
  ASSUME NEW p, \A n \in Seen : n # Part[p] => dest'[n] = dest[n], p \in Path
  PROVE  UNCHANGED MirrorNow
<1>1. \A n \in Seen : dest'[n] = dest[n] BY FolderConstants DEF Seen
<1> QED BY <1>1 DEF MirrorNow

\* Nor is the removal of one.
LEMMA CleanUpIsUnseen ==
  ASSUME FolderInv, RecipientRuns, CleanUp
  PROVE  UNCHANGED MirrorNow
<1>1. dest \in [Name -> Content \cup {Absent, Folder}] BY DEF FolderInv, FolderTypeOK
<1>2. CASE current = Nobody BY <1>2 DEF CleanUp, MirrorNow
<1>3. CASE current # Nobody
  <2>1. current \in Path BY <1>3, CurrentIsAName
  <2>2. dest' = [dest EXCEPT ![Part[current]] = Absent]
    BY <1>3 DEF CleanUp, Put, PartName
  <2>3. \A n \in Seen : n # Part[current] => dest'[n] = dest[n]
    <3>1. \A n \in Seen : n \in Name BY FolderConstants DEF Seen
    <3> QED BY <1>1, <2>2, <3>1
  <2> QED BY <2>1, <2>3, OnlyAPartFile
<1> QED BY <1>2, <1>3

\* Every failure of the recipient is a Fail of the mirror.
LEMMA FailingRefines ==
  ASSUME FolderInv,
         RecipientRefuses \/ RecipientEndsInError \/ RecipientFaults \/ RecipientDies
  PROVE  Mirror!Fail
<1>1. /\ RecipientRuns /\ rst' = "failed"
      /\ UNCHANGED <<manifest, travelled, arrived, consent>>
      /\ CleanUp \/ dest' = dest
  BY DEF RecipientRefuses, RecipientEndsInError, RecipientFaults, RecipientDies,
         RecipientReads, RecipientGivesUp, RecipientRuns, Over, senderVars, listVars, cronVars
<1>2. UNCHANGED MirrorNow BY <1>1, CleanUpIsUnseen DEF MirrorNow
<1> QED BY <1>1, <1>2, MirrorFails

\* A new run is a Begin.
LEMMA StartRefines ==
  ASSUME FolderInv, StartRun
  PROVE  Mirror!Begin
<1>0. FolderTypeOK /\ FolderTypeOK'
  <2>1. FolderInv' BY StartStep
  <2> QED BY <2>1 DEF FolderInv
<1>1. /\ rst' = "hello" /\ ~RecipientRuns /\ arrived' = {} /\ DOMAIN travelled' = {}
      /\ UNCHANGED <<dest, consent>>
  BY DEF StartRun
<1>2. VerdictNow # "open" /\ VerdictNow' = "open"
  BY <1>1 DEF VerdictNow, RecipientRuns, Over
<1>3. /\ OfferNow' \in [Seen -> Content \cup {Absent}]
      /\ ReadNow' = [f \in Seen |-> Absent]
  BY <1>0, <1>1, ContentsAre DEF OfferNow, ReadNow, FolderTypeOK
<1>4. (arrived \cap Seen)' = {} BY <1>1
<1>5. (DOMAIN manifest = {})' \in BOOLEAN OBVIOUS
<1>6. (DOMAIN manifest = {})' => Mirror!Offered' = {}
  BY DEF Mirror!Offered
<1>7. UNCHANGED <<MirrorNow, consent>> BY <1>1 DEF MirrorNow
<1> QED BY <1>2, <1>3, <1>4, <1>5, <1>6, <1>7 
       DEF Mirror!Begin, MirrorNow, OfferNow, ReadNow, VerdictNow

\* The scan and the list change no file that the mirror shows.
LEMMA QuietRefines ==
  ASSUME FolderInv, RecipientScans \/ RecipientHearsList
  PROVE  UNCHANGED Mirror!mirrorVars
<1>1. /\ UNCHANGED <<manifest, travelled, arrived, consent>>
      /\ rst \in {"hello", "loop"} /\ rst' \in {"hello", "loop"}
      /\ \A n \in Name \ Suffixed : dest'[n] = dest[n]
  BY DEF RecipientScans, RecipientHearsList, RecipientReads, senderVars, listVars, cronVars
<1>2. \A n \in Seen : dest'[n] = dest[n] BY <1>1, FolderConstants DEF Seen
<1>3. UNCHANGED <<MirrorNow, manifest, travelled, arrived \cap Seen, VerdictNow, consent>>
  BY <1>1, <1>2 DEF MirrorNow, VerdictNow
<1> QED BY <1>3, MirrorStutter

\* Directories made for a file take the place of no file; where they would, the run
\* fails.
LEMMA BeginRefines ==
  ASSUME FolderInv, RecipientBegins
  PROVE  Mirror!Fail \/ UNCHANGED Mirror!mirrorVars
<1>0. FolderTypeOK BY DEF FolderInv
<1> DEFINE p == Head(toR).path
<1>1. /\ rst = "loop" /\ toR # <<>> /\ Head(toR).t = "begin" /\ toR' = Tail(toR)
      /\ UNCHANGED <<manifest, travelled, arrived, consent>>
  BY DEF RecipientBegins, RecipientReads, senderVars, listVars, cronVars
<1>2. RecipientRuns BY <1>1 DEF RecipientRuns, Over
<1>3. CASE \E q \in Above[p] : IsFile(dest[q])
  <2>1. rst' = "failed" /\ CleanUp BY <1>3 DEF RecipientBegins, RecipientGivesUp
  <2>2. UNCHANGED MirrorNow BY <1>2, <2>1, CleanUpIsUnseen
  <2> QED BY <1>1, <1>2, <2>1, <2>2, MirrorFails
<1>4. CASE ~\E q \in Above[p] : IsFile(dest[q])
  <2>1. /\ dest' = [n \in Name |-> IF n = Part[p] THEN <<>>
                                   ELSE IF n \in Above[p] THEN Folder ELSE dest[n]]
        /\ rst' = rst
    BY <1>4 DEF RecipientBegins, PartName
  <2>2. plan # {} /\ Head(toR) = FrameOf(First(plan), sent, Heard)
    BY <1>1, <1>2, NextFrame
  <2>3. p = First(plan)
    <3>1. Heard = 0 BY <1>1, <2>2 DEF FrameOf
    <3>2. FrameOf(First(plan), sent, 0) = [t |-> "begin", path |-> First(plan)] BY DEF FrameOf
    <3> QED BY <2>2, <3>1, <3>2
  <2>4. p \in Path
    <3>1. plan \in SUBSET Path BY <1>0 DEF FolderTypeOK
    <3> QED BY <2>2, <2>3, <3>1, FirstIsLeast
  <2> HIDE DEF p
  <2>5. \A n \in Seen : /\ n \in Name /\ n # Part[p]
                        /\ n \in Above[p] => dest'[n] = Folder /\ ~IsFile(dest[n])
                        /\ n \notin Above[p] => dest'[n] = dest[n]
    <3>1. \A n \in Seen : n \in Name /\ n # Part[p]
      BY <2>4, FolderConstants DEF Seen
    <3> QED BY <1>4, <2>1, <3>1
  <2>6. UNCHANGED MirrorNow
    <3>1. ~IsFile(Folder) BY DEF IsFile
    <3>2. \A n \in Seen : (IF IsFile(dest'[n]) THEN dest'[n] ELSE Absent)
                          = (IF IsFile(dest[n]) THEN dest[n] ELSE Absent)
      BY <2>5, <3>1
    <3> QED BY <3>2 DEF MirrorNow
  <2>7. UNCHANGED <<arrived \cap Seen, VerdictNow>> BY <1>1, <2>1 DEF VerdictNow
  <2> QED BY <1>1, <2>6, <2>7, MirrorStutter
<1> QED BY <1>3, <1>4

\* A chunk goes to the part file.
LEMMA WriteRefines ==
  ASSUME FolderInv, RecipientWrites
  PROVE  UNCHANGED Mirror!mirrorVars
<1>0. FolderTypeOK BY DEF FolderInv
<1>1. /\ rst = "loop" /\ toR # <<>> /\ Head(toR).t = "chunk" /\ toR' = Tail(toR)
      /\ dest' = [dest EXCEPT ![Part[current]] = Append(dest[Part[current]], Head(toR).v)]
      /\ UNCHANGED <<rst, manifest, travelled, arrived, consent>>
  BY DEF RecipientWrites, RecipientReads, PartName, Put, senderVars, listVars, cronVars
<1>2. RecipientRuns BY <1>1 DEF RecipientRuns, Over
<1>3. /\ plan # {} /\ Carrying /\ Head(toR) = FrameOf(First(plan), sent, Heard)
  BY <1>1, <1>2, NextFrame
<1>4. current # Nobody BY <1>1, <1>3 DEF FrameOf, Heard
<1>5. current \in Path BY <1>2, <1>4, CurrentIsAName
<1>6. \A n \in Seen : n # Part[current] => dest'[n] = dest[n]
  <2>1. \A n \in Seen : n \in Name BY FolderConstants DEF Seen
  <2> QED BY <1>0, <1>1, <2>1 DEF FolderTypeOK
<1>7. UNCHANGED MirrorNow BY <1>5, <1>6, OnlyAPartFile
<1>8. UNCHANGED <<arrived \cap Seen, VerdictNow>> BY <1>1 DEF VerdictNow
<1> QED BY <1>1, <1>7, <1>8, MirrorStutter

\* A refused file leaves what was there.
LEMMA RejectRefines ==
  ASSUME FolderInv, RecipientRejects
  PROVE  UNCHANGED Mirror!mirrorVars
<1>1. rst = "loop" /\ CleanUp /\ UNCHANGED <<rst, manifest, travelled, arrived, consent>>
  BY DEF RecipientRejects, RecipientReads, senderVars, listVars, cronVars
<1>2. UNCHANGED MirrorNow BY <1>1, CleanUpIsUnseen DEF RecipientRuns, Over
<1>3. UNCHANGED <<arrived \cap Seen, VerdictNow>> BY <1>1 DEF VerdictNow
<1> QED BY <1>1, <1>2, <1>3, MirrorStutter

\* The rename is a Place of what was read under an offered name.
LEMMA CommitRefines ==
  ASSUME FolderInv, RecipientCommits
  PROVE  (\E f \in Seen : Mirror!Place(f)) \/ UNCHANGED Mirror!mirrorVars
<1>0. FolderTypeOK BY DEF FolderInv
<1>1. /\ rst = "loop" /\ toR # <<>> /\ Head(toR).t = "end" /\ toR' = Tail(toR)
      /\ dest' = Rename(dest, Part[current], current)
      /\ arrived' = arrived \cup {current}
      /\ UNCHANGED <<rst, manifest, travelled, consent>>
  BY DEF RecipientCommits, RecipientReads, PartName, senderVars, listVars, cronVars
<1>2. RecipientRuns BY <1>1 DEF RecipientRuns, Over
<1>3. /\ current \in plan /\ current \in Path /\ sent \in Content
      /\ dest[Part[current]] = sent
      /\ current \in DOMAIN travelled /\ travelled[current] = sent
  BY <1>1, <1>2, LastFrame
<1>4. /\ \A n \in Seen : n \in Name /\ n # Part[current]
      /\ IsFile(sent)
  BY <1>3, FolderConstants DEF Seen, IsFile
<1>5. \A n \in Seen : dest'[n] = IF n = current THEN sent ELSE dest[n]
  BY <1>1, <1>3, <1>4 DEF Rename
<1>6. UNCHANGED <<OfferNow, ReadNow, VerdictNow, DOMAIN manifest, consent>>
  BY <1>1 DEF OfferNow, ReadNow, VerdictNow
<1>7. CASE current \in Seen
  <2>1. MirrorNow' = [MirrorNow EXCEPT ![current] = sent]
    BY <1>4, <1>5, <1>7 DEF MirrorNow
  <2>2. (arrived \cap Seen)' = (arrived \cap Seen) \cup {current} BY <1>1, <1>7
  <2>3. current \in Mirror!Offered
    <3>1. current \in DOMAIN manifest BY <1>0, <1>3 DEF FolderTypeOK
    <3> QED BY <1>0, <1>7, <3>1, OfferedNames
  <2>4. VerdictNow = "open" BY <1>1 DEF VerdictNow
  <2>5. PICK f \in Seen : f = current BY <1>7
  <2>6. ReadNow[f] = sent /\ sent # Absent BY <1>3, <2>5, FolderConstants DEF ReadNow
  <2>7. Mirror!Place(f)
    BY <1>6, <2>1, <2>2, <2>3, <2>4, <2>5, <2>6
    DEF Mirror!Place, MirrorNow, OfferNow, ReadNow, VerdictNow
  <2> QED BY <2>7
<1>8. CASE current \notin Seen
  <2>1. UNCHANGED MirrorNow BY <1>5, <1>8 DEF MirrorNow
  <2>2. UNCHANGED (arrived \cap Seen) BY <1>1, <1>8
  <2> QED BY <1>1, <1>6, <2>1, <2>2, MirrorStutter
<1> QED BY <1>7, <1>8

\* The deletions are one Prune, after everything offered is in place and with the
\* user's consent.
LEMMA PruneRefines ==
  ASSUME FolderInv, RecipientPrunes
  PROVE  (\E gone \in SUBSET Seen : Mirror!Prune(gone)) \/ UNCHANGED Mirror!mirrorVars
<1>0. FolderTypeOK BY DEF FolderInv
<1> DEFINE asked == IF MayPrune THEN Head(toR).paths ELSE {}
<1> PICK kept \in SUBSET asked :
           dest' = [n \in Name |-> IF n \in asked \ kept THEN Absent ELSE dest[n]]
  BY DEF RecipientPrunes
<1>1. /\ rst = "loop" /\ toR # <<>> /\ Head(toR).t = "delete" /\ toR' = Tail(toR)
      /\ UNCHANGED <<rst, manifest, travelled, arrived, consent>>
  BY DEF RecipientPrunes, RecipientReads, senderVars, listVars, cronVars
<1>2. RecipientRuns BY <1>1 DEF RecipientRuns, Over
<1>3. Settled /\ plan = {} /\ Head(toR).paths = stale
  <2>1. Head(toR).t # "done" /\ Head(toR).t \in {"delete", "done"} BY <1>1
  <2> QED BY <1>1, <1>2, <2>1, LastFrames
<1>4. stale = DOMAIN local \ DOMAIN manifest /\ declared = DOMAIN manifest
  BY <1>3 DEF Settled
<1>5. asked = IF MayPrune THEN stale ELSE {} BY <1>3
<1> HIDE DEF asked
<1> DEFINE gone == (asked \ kept) \cap Seen
<1>6. \A n \in Seen : dest'[n] = IF n \in gone THEN Absent ELSE dest[n]
  <2>1. \A n \in Seen : n \in Name BY FolderConstants DEF Seen
  <2> QED BY <2>1
<1>7. gone \in SUBSET Seen /\ gone \cap DOMAIN manifest = {} BY <1>4, <1>5
<1>8. UNCHANGED <<OfferNow, ReadNow, VerdictNow, DOMAIN manifest, arrived \cap Seen>>
  BY <1>1 DEF OfferNow, ReadNow, VerdictNow
<1>9. CASE gone = {}
  <2>1. UNCHANGED MirrorNow BY <1>6, <1>9 DEF MirrorNow
  <2> QED BY <1>1, <1>8, <2>1, MirrorStutter
<1>10. CASE gone # {}
  <2>1. MayPrune /\ stale # {} BY <1>5, <1>10
  <2>2. consent = "always" \/ (consent = "careful" /\ DOMAIN manifest # {})
    <3>1. consent \in {"never", "careful", "always"} BY <1>0 DEF FolderTypeOK
    <3>2. DOMAIN local # {} BY <1>4, <2>1
    <3> QED BY <1>4, <2>1, <3>1, <3>2 DEF MayPrune
  <2> HIDE DEF gone
  <2>3. MirrorNow' = [f \in Seen |-> IF f \in gone THEN Absent ELSE MirrorNow[f]]
    <3>1. ~IsFile(Absent) BY DEF IsFile
    <3> QED BY <1>6, <3>1 DEF MirrorNow
  <2>4. gone \cap Mirror!Offered = {} BY <1>0, <1>7, OfferedNames
  <2>5. \A f \in Mirror!Offered : Mirror!InPlace(f) BY <1>0, <1>3, AllInPlace
  <2>6. VerdictNow = "open" BY <1>1 DEF VerdictNow
  <2>7. PICK g \in SUBSET Seen : g = gone BY <1>7
  <2>8. Mirror!Prune(g)
    BY <1>1, <1>8, <2>2, <2>3, <2>4, <2>5, <2>6, <2>7
    DEF Mirror!Prune, MirrorNow, OfferNow, ReadNow, VerdictNow
  <2> QED BY <2>8
<1> QED BY <1>9, <1>10

\* The end of run_receiver() without an error is a Succeed.
LEMMA SuccessRefines ==
  ASSUME FolderInv, RecipientHearsDone
  PROVE  Mirror!Succeed
<1>0. FolderTypeOK BY DEF FolderInv
<1>1. /\ rst = "loop" /\ rst' = "done" /\ toR # <<>> /\ Head(toR).t = "done"
      /\ toR' = Tail(toR) /\ UNCHANGED <<dest, manifest, travelled, arrived, consent>>
  BY DEF RecipientHearsDone, RecipientReads, senderVars, listVars, cronVars
<1>2. RecipientRuns BY <1>1 DEF RecipientRuns, Over
<1>3. Settled /\ plan = {}
  <2>1. Head(toR).t \in {"delete", "done"} BY <1>1
  <2> QED BY <1>1, <1>2, <2>1, LastFrames
<1>4. \A f \in Mirror!Offered : Mirror!InPlace(f) BY <1>0, <1>3, AllInPlace
<1>5. VerdictNow = "open" /\ VerdictNow' = "success" BY <1>1 DEF VerdictNow
<1>6. UNCHANGED <<MirrorNow, OfferNow, ReadNow, arrived \cap Seen, DOMAIN manifest, consent>>
  BY <1>1 DEF MirrorNow, OfferNow, ReadNow
<1> QED BY <1>4, <1>5, <1>6 DEF Mirror!Succeed, MirrorNow, OfferNow, ReadNow, VerdictNow

\* The folder before the first run.
LEMMA MirrorInitial == Init => Mirror!Init
<1> SUFFICES ASSUME Init PROVE Mirror!Init
  OBVIOUS
<1>1. dest \in [Name -> {Absent, Folder} \cup Whole] BY FolderAssumption DEF Init
<1>2. MirrorNow \in [Seen -> Content \cup {Absent}]
  <2>1. \A n \in Seen : n \in Name BY FolderConstants DEF Seen
  <2>2. \A n \in Seen : IsFile(dest[n]) => dest[n] \in Content
    BY <1>1, <2>1, ContentsAre DEF IsFile
  <2> QED BY <2>2 DEF MirrorNow
<1>3. DOMAIN manifest = {} /\ DOMAIN travelled = {} /\ arrived = {} /\ rst = "failed"
      /\ consent \in {"never", "careful", "always"}
  BY DEF Init
<1>4. OfferNow = [f \in Seen |-> Absent] /\ ReadNow = OfferNow
  BY <1>3 DEF OfferNow, ReadNow
<1>5. VerdictNow = "failure" BY <1>3 DEF VerdictNow
<1> QED BY <1>2, <1>3, <1>4, <1>5 DEF Mirror!Init, MirrorNow, OfferNow, ReadNow, VerdictNow

\* Every step is a step of the mirror or none.
LEMMA MirrorStep ==
  FolderInv /\ ReadsAreOffered /\ ReadsAreOffered' /\ [Next]_vars
  => [Mirror!Next]_(Mirror!mirrorVars)
<1> SUFFICES ASSUME FolderInv, ReadsAreOffered, ReadsAreOffered', [Next]_vars
             PROVE  Mirror!Next \/ UNCHANGED Mirror!mirrorVars
  OBVIOUS
<1>1. CASE StartRun BY <1>1, StartRefines DEF Mirror!Next
<1>2. CASE SenderStep \/ SourceChanges \/ ChannelLost \/ SenderDies
  BY <1>2, SenderRefines DEF Mirror!Next
<1>3. CASE RecipientStep
  <2>1. CASE RecipientScans \/ RecipientHearsList BY <2>1, QuietRefines
  <2>2. CASE RecipientBegins BY <2>2, BeginRefines DEF Mirror!Next
  <2>3. CASE RecipientWrites BY <2>3, WriteRefines
  <2>4. CASE RecipientCommits BY <2>4, CommitRefines DEF Mirror!Next
  <2>5. CASE RecipientRejects BY <2>5, RejectRefines
  <2>6. CASE RecipientPrunes BY <2>6, PruneRefines DEF Mirror!Next
  <2>7. CASE RecipientHearsDone BY <2>7, SuccessRefines DEF Mirror!Next
  <2>8. CASE RecipientRefuses \/ RecipientEndsInError \/ RecipientFaults
    BY <2>8, FailingRefines DEF Mirror!Next
  <2> QED BY <1>3, <2>1, <2>2, <2>3, <2>4, <2>5, <2>6, <2>7, <2>8 DEF RecipientStep
<1>4. CASE RecipientDies BY <1>4, FailingRefines DEF Mirror!Next
<1>5. CASE UNCHANGED vars
  <2>1. UNCHANGED <<dest, manifest, travelled, arrived, rst, consent>>
    BY <1>5 DEF vars, senderVars, listVars, recipientVars, cronVars
  <2>2. UNCHANGED <<MirrorNow, manifest, travelled, arrived \cap Seen, VerdictNow, consent>>
    BY <2>1 DEF MirrorNow, VerdictNow
  <2> QED BY <2>2, MirrorStutter
<1> QED BY <1>1, <1>2, <1>3, <1>4, <1>5 DEF Next

\* The two processes implement FolderMirror: MirrorPromise.
THEOREM MirrorIsKept == Spec => MirrorPromise
<1>1. Init => ReadsAreOffered BY DEF Init, ReadsAreOffered
<1> QED BY <1>1, FolderInvariant, ReadsInductive, MirrorInitial, MirrorStep, PTL
        DEF Spec, MirrorPromise, Mirror!Spec

-----------------------------------------------------------------------------
(* A repeated run.                                                         *)

\* The recipient's list is that of the folder as the run found it.
Scan ==
  /\ DOMAIN local = Files(before, Path \ Suffixed)
  /\ \A p \in DOMAIN local : local[p] = before[p]

\* The sender has read d frames of the answer, and what it reads next is the rest.
Heeding(d) ==
  /\ Window(toS, ToSender, d)
  /\ gotHello <=> d >= 1
  /\ DOMAIN acks = Named(ToSender, d)
  /\ \A p \in DOMAIN acks : acks[p] = local[p]

\* Also when the recipient has failed since.
AnswerIsHeeded ==
  /\ sst = "start" => toS = <<>> /\ ~gotAck
  /\ sst = "compare" =>
       /\ ~gotAck
       /\ \/ toS = <<>> \/ Head(toS).t = "abort"
          \/ Scan /\ \E d \in 0..(Len(ToSender) - 1) : Heeding(d)

\* While the source is not edited, its list is true, and so is every file read.
OffersAreTrue ==
  ~edited => /\ DOMAIN manifest = {p \in Path : src[p] # Absent}
             /\ \A p \in DOMAIN manifest : manifest[p] = Copy(src[p])

ReadsAreTrue ==
  ~edited =>
    /\ sst = "stream" => opened = src[First(plan)]
    /\ sst \in {"stream", "verify"} =>
         \A i \in 1..Len(sent) : sent[i] = src[First(plan)]
    /\ \A p \in DOMAIN travelled : p \in DOMAIN manifest /\ travelled[p] = manifest[p]

\* After a success and without an edit, all of the list was there when the run began.
OfferWasThere == steady => \A p \in DOMAIN manifest : before[p] = manifest[p]

\* The inductive invariant of a repeat, beside FolderInv.
RunsAgree == OffersAreTrue /\ ReadsAreTrue /\ OfferWasThere /\ RepeatSendsNothing
RepeatInv == AnswerIsHeeded /\ RunsAgree

\* The phases say so while the recipient is at work.
LEMMA HeededWhileItRuns == FolderInv /\ rst # "failed" => AnswerIsHeeded
<1> SUFFICES ASSUME FolderInv, rst # "failed" PROVE AnswerIsHeeded
  OBVIOUS
<1>1. ASSUME sst = "start" PROVE toS = <<>> /\ ~gotAck
  <2>1. InPhase("start") BY <1>1, SenderPhase DEF Phases
  <2> QED BY <2>1 DEF InPhase, Starting, Before
<1>2. ASSUME sst = "compare"
      PROVE  /\ ~gotAck
             /\ toS = <<>> \/ (Scan /\ \E d \in 0..(Len(ToSender) - 1) : Heeding(d))
  <2>1. InPhase("compare") BY <1>2, SenderPhase DEF Phases
  <2>2. Comparing BY <2>1 DEF InPhase
  <2>3. PICK c \in 0..Len(ToRecipient) : IF c = 0 THEN Before ELSE Listing(c)
    BY <2>2 DEF Comparing
  <2>4. ~gotAck BY <2>2 DEF Comparing
  <2>5. CASE c = 0
    <3>1. Before BY <2>3, <2>5
    <3> QED BY <2>4, <3>1 DEF Before
  <2>6. CASE c # 0
    <3>1. Listing(c) BY <2>3, <2>6
    <3>2. /\ DOMAIN local = Files(dest, Path) /\ \A p \in DOMAIN local : local[p] = dest[p]
          /\ DOMAIN local \cap Suffixed = {}
          /\ \A n \in Name \ Suffixed : dest[n] = before[n]
      BY <3>1 DEF Listing, Scanned
    <3>3. \A p \in Path \ Suffixed : dest[p] = before[p] BY <3>2, FolderConstants
    <3>4. Scan BY <3>2, <3>3 DEF Scan, Files
    <3>5. PICK d \in 0..(Len(ToSender) - 1) : Answering(d) BY <3>1 DEF Listing
    <3>6. Heeding(d) BY <3>5 DEF Answering, Heeding
    <3> QED BY <2>4, <3>4, <3>5, <3>6
  <2> QED BY <2>5, <2>6
<1> QED BY <1>1, <1>2 DEF AnswerIsHeeded

\* And so they do after a step.
LEMMA HeededAfterwards == (FolderInv /\ rst # "failed" => AnswerIsHeeded)'
BY HeededWhileItRuns, PTL

\* The frame that a comparing sender reads, whether or not the recipient still runs.
LEMMA HeardFrame ==
  ASSUME FolderInv, AnswerIsHeeded, sst = "compare", toS # <<>>,
         Head(toS).t \in {"hello", "ack"}
  PROVE  \E d \in 0..(Len(ToSender) - 1) :
           /\ ~gotAck /\ Scan /\ Heeding(d)
           /\ Head(toS) = ToSender[d + 1] /\ IsScript(ToSender, "ack", local)
<1>1. PICK d \in 0..(Len(ToSender) - 1) : ~gotAck /\ Scan /\ Heeding(d)
  BY DEF AnswerIsHeeded
<1>2. Head(toS) = ToSender[d + 1]
  <2>1. 1 \in 1..Len(toS) /\ Head(toS) = toS[1]
    BY QueueHead, QueueOne DEF FolderInv, FolderTypeOK
  <2> QED BY <1>1, <2>1 DEF Heeding, Window
<1>3. DOMAIN local \subseteq Path BY <1>1 DEF Scan, Files
<1>4. IsScript(ToSender, "ack", local) BY <1>3, Answers
<1> QED BY <1>1, <1>2, <1>4

\* One frame further.
LEMMA HeedingMoves ==
  ASSUME FolderInv, toS # <<>>, toS' = Tail(toS), NEW d \in Nat, Heeding(d)
  PROVE  Window(toS', ToSender, d + 1)
<1>1. /\ Len(toS) \in Nat \ {0} /\ Len(toS') = Len(toS) - 1
      /\ \A i \in 1..(Len(toS) - 1) : toS'[i] = toS[i + 1]
  BY QueueHead DEF FolderInv, FolderTypeOK
<1>2. /\ d + Len(toS) <= Len(ToSender)
      /\ \A i \in 1..Len(toS) : toS[i] = ToSender[d + i]
  BY DEF Heeding, Window
<1>3. \A i \in 1..Len(toS') : toS'[i] = ToSender[(d + 1) + i]
  <2> TAKE i \in 1..Len(toS')
  <2>1. i + 1 \in 1..Len(toS) /\ toS'[i] = toS[i + 1] /\ d + (i + 1) = (d + 1) + i BY <1>1
  <2>2. toS[i + 1] = ToSender[d + (i + 1)] BY <1>2, <2>1
  <2> QED BY <2>1, <2>2
<1>4. (d + 1) + Len(toS') = d + Len(toS) BY <1>1
<1> QED BY <1>2, <1>3, <1>4 DEF Window

\* The hello alone decides nothing.
LEMMA HelloIsHeeded ==
  ASSUME FolderInv, AnswerIsHeeded, SenderHearsHello
  PROVE  AnswerIsHeeded' /\ UNCHANGED <<plan, travelled, sst>>
<1>1. /\ sst = "compare" /\ toS # <<>> /\ Head(toS).t = "hello" /\ toS' = Tail(toS)
      /\ gotHello' = TRUE /\ Compare
      /\ UNCHANGED <<gotAck, acks, local, before>>
  BY DEF SenderHearsHello, SenderReads, recipientVars, runVars
<1>2. PICK d \in 0..(Len(ToSender) - 1) :
           /\ ~gotAck /\ Scan /\ Heeding(d)
           /\ Head(toS) = ToSender[d + 1] /\ IsScript(ToSender, "ack", local)
  BY <1>1, HeardFrame
<1>3. Len(ToSender) \in Nat /\ Len(ToSender) >= 2 BY <1>2 DEF IsScript
<1>4. d = 0
  <2> SUFFICES ASSUME d # 0 PROVE FALSE
    OBVIOUS
  <2>1. d + 1 \in 2..Len(ToSender) BY <1>3
  <2>2. ToSender[d + 1].t = "ack" BY <1>2, <2>1 DEF IsScript
  <2> QED BY <1>1, <1>2, <2>2
<1>5. UNCHANGED <<plan, travelled, sst>> BY <1>1, <1>2 DEF Compare
<1>6. ToSender' = ToSender BY <1>1 DEF ToSender, Batches, NoBatchWhenEmpty
<1>7. Heeding(1)'
  <2>1. Window(toS', ToSender, 0 + 1) BY <1>1, <1>2, <1>4, HeedingMoves
  <2>2. DOMAIN acks = Named(ToSender, 1) BY <1>2, <1>4 DEF IsScript, Heeding
  <2>3. \A p \in DOMAIN acks : acks[p] = local[p] BY <1>2 DEF Heeding
  <2>4. Window(toS, ToSender, 1)' BY <1>6, <2>1 DEF Window
  <2>5. (DOMAIN acks = Named(ToSender, 1))' BY <1>1, <1>6, <2>2 DEF Named
  <2> QED BY <1>1, <2>3, <2>4, <2>5 DEF Heeding
<1>8. Scan' BY <1>1, <1>2 DEF Scan, Files
<1>9. 1 \in 0..(Len(ToSender') - 1) BY <1>3, <1>6
<1> QED BY <1>1, <1>2, <1>5, <1>7, <1>8, <1>9 DEF AnswerIsHeeded

\* The last frame of the list: only what was missing or different is to travel.
LEMMA ListIsHeeded ==
  ASSUME FolderInv, AnswerIsHeeded, SenderHearsList
  PROVE  /\ AnswerIsHeeded' /\ sst' \notin {"stream", "verify"}
         /\ \/ UNCHANGED <<plan, travelled>>
            \/ /\ \A p \in plan' : p \in DOMAIN manifest
                    /\ (p \notin Suffixed => before[p] # manifest[p])
               /\ travelled' = [p \in DOMAIN manifest \ plan' |-> manifest[p]]
<1>1. /\ sst = "compare" /\ toS # <<>> /\ Head(toS).t = "ack" /\ toS' = Tail(toS)
      /\ acks' = Merge(acks, Head(toS).files) /\ gotAck' = ~Head(toS).more
      /\ gotHello' = gotHello /\ Compare
      /\ UNCHANGED <<local, before, manifest>>
  BY DEF SenderHearsList, SenderReads, Collect, recipientVars, runVars
<1>2. PICK d \in 0..(Len(ToSender) - 1) :
           /\ ~gotAck /\ Scan /\ Heeding(d)
           /\ Head(toS) = ToSender[d + 1] /\ IsScript(ToSender, "ack", local)
  BY <1>1, HeardFrame
<1>3. Len(ToSender) \in Nat /\ Len(ToSender) >= 2 BY <1>2 DEF IsScript
<1>4. d # 0
  <2> SUFFICES ASSUME d = 0 PROVE FALSE
    OBVIOUS
  <2>1. ToSender[d + 1] = Hello BY <1>2 DEF IsScript
  <2> QED BY <1>1, <1>2, <2>1 DEF Hello
<1>5. d \in 1..(Len(ToSender) - 1) /\ d + 1 \in 2..Len(ToSender) BY <1>3, <1>4
<1>6. /\ gotHello /\ DOMAIN acks = Named(ToSender, d)
      /\ \A p \in DOMAIN acks : acks[p] = local[p]
  BY <1>2, <1>5 DEF Heeding
<1>7. /\ Head(toS).more = (d + 1 < Len(ToSender))
      /\ \A p \in DOMAIN Head(toS).files : Head(toS).files[p] = local[p]
      /\ Named(ToSender, d + 1) = Named(ToSender, d) \cup DOMAIN Head(toS).files
  <2> DEFINE m == d + 1
  <2>1. m \in 2..Len(ToSender) /\ d \in 1..(Len(ToSender) - 1) BY <1>5
  <2>2. Head(toS) = ToSender[m] BY <1>2
  <2>3. Named(ToSender, d + 1) = Named(ToSender, d) \cup DOMAIN ToSender[d + 1].files
    BY <1>2, <2>1 DEF IsScript
  <2>4. m = d + 1 OBVIOUS
  <2> HIDE DEF m
  <2>5. ToSender[m].more = (m < Len(ToSender)) BY <1>2, <2>1 DEF IsScript
  <2>6. \A p \in DOMAIN ToSender[m].files : ToSender[m].files[p] = local[p]
    BY <1>2, <2>1 DEF IsScript
  <2> QED BY <2>2, <2>3, <2>4, <2>5, <2>6
<1>8. DOMAIN acks' = Named(ToSender, d + 1) /\ \A p \in DOMAIN acks' : acks'[p] = local[p]
  BY <1>1, <1>6, <1>7 DEF Merge
<1>9. CASE d + 1 < Len(ToSender)
  <2>1. ~gotAck' /\ UNCHANGED <<plan, travelled, sst>> BY <1>1, <1>7, <1>9 DEF Compare
  <2>2. ToSender' = ToSender BY <1>1 DEF ToSender, Batches, NoBatchWhenEmpty
  <2>3. Heeding(d + 1)'
    <3>1. d \in Nat BY <1>5
    <3>2. Window(toS', ToSender, d + 1) BY <1>1, <1>2, <3>1, HeedingMoves
    <3>3. Window(toS, ToSender, d + 1)' BY <2>2, <3>2 DEF Window
    <3>4. (DOMAIN acks = Named(ToSender, d + 1))' BY <1>8, <2>2 DEF Named
    <3>5. d + 1 >= 1 BY <3>1
    <3> QED BY <1>1, <1>6, <1>8, <3>3, <3>4, <3>5 DEF Heeding
  <2>4. Scan' BY <1>1, <1>2 DEF Scan, Files
  <2>5. d + 1 \in 0..(Len(ToSender') - 1) BY <1>3, <1>5, <1>9, <2>2
  <2>6. AnswerIsHeeded' BY <1>1, <2>1, <2>3, <2>4, <2>5 DEF AnswerIsHeeded
  <2> QED BY <1>1, <2>1, <2>6
<1>10. CASE ~(d + 1 < Len(ToSender))
  <2>1. d + 1 = Len(ToSender) BY <1>3, <1>5, <1>10
  <2>2. gotAck' /\ gotHello' BY <1>1, <1>6, <1>7, <1>10
  <2>3. /\ plan' = {p \in DOMAIN manifest : Differs(p, acks')}
        /\ travelled' = [p \in DOMAIN manifest \ plan' |-> manifest[p]]
        /\ sst' = NextFile(plan')
    BY <1>1, <2>2 DEF Compare
  <2>4. DOMAIN acks' = DOMAIN local BY <1>2, <1>8, <2>1 DEF IsScript
  <2>5. sst' \in {"finish", "open"} BY <2>3 DEF NextFile
  <2>6. AnswerIsHeeded' BY <2>5 DEF AnswerIsHeeded
  <2>7. ASSUME NEW p \in DOMAIN manifest, p \notin Suffixed, before[p] = manifest[p]
        PROVE  p \notin plan'
    <3>1. p \in Path /\ IsFile(manifest[p])
      BY OfferedNames DEF FolderInv, FolderTypeOK
    <3>2. p \in DOMAIN local /\ local[p] = before[p]
      BY <1>2, <2>7, <3>1 DEF Scan, Files
    <3>3. p \in DOMAIN acks' /\ acks'[p] = manifest[p] BY <1>8, <2>4, <2>7, <3>2
    <3> QED BY <2>3, <3>3 DEF Differs
  <2> QED BY <2>3, <2>5, <2>6, <2>7
<1> QED BY <1>9, <1>10

\* A step that leaves the answer alone, or cuts it short.
LEMMA AnswerKept ==
  ASSUME FolderInv, AnswerIsHeeded, toS' \in Prefixes(toS),
         sst' = sst \/ sst' \notin {"start", "compare"},
         UNCHANGED <<gotHello, gotAck, acks, local, before>>
  PROVE  AnswerIsHeeded'
<1>1. IsQueue(toS) /\ IsQueue(toS') /\ Len(toS') \in 0..Len(toS) /\ Len(toS) \in Nat
      /\ \A i \in 1..Len(toS') : toS'[i] = toS[i]
  BY QueuePrefix DEF FolderInv, FolderTypeOK
<1>2. toS = <<>> => toS' = <<>>
  <2>1. Len(<<>>) = 0 OBVIOUS
  <2> QED BY <1>1, <2>1, QueueOne
<1>3. toS' # <<>> => toS # <<>> /\ Head(toS') = Head(toS)
  <2> SUFFICES ASSUME toS' # <<>> PROVE toS # <<>> /\ Head(toS') = Head(toS)
    OBVIOUS
  <2>1. toS # <<>> BY <1>2
  <2>2. Head(toS') = toS'[1] /\ 1 \in 1..Len(toS') BY <1>1, QueueHead, QueueOne
  <2>3. Head(toS) = toS[1] BY <1>1, <2>1, QueueHead
  <2> QED BY <1>1, <2>1, <2>2, <2>3
<1>4. ToSender' = ToSender BY DEF ToSender, Batches, NoBatchWhenEmpty
<1>5. ASSUME Scan PROVE Len(ToSender) \in Nat
  <2>1. DOMAIN local \subseteq Path BY <1>5 DEF Scan, Files
  <2> QED BY <2>1, Answers DEF IsScript
<1>6. ASSUME Scan, NEW d \in 0..(Len(ToSender) - 1), Heeding(d) PROVE Heeding(d)'
  <2>1. d + Len(toS) <= Len(ToSender) /\ \A i \in 1..Len(toS) : toS[i] = ToSender[d + i]
    BY <1>6 DEF Heeding, Window
  <2>2. d + Len(toS') <= Len(ToSender) BY <1>1, <1>5, <1>6, <2>1
  <2>3. \A i \in 1..Len(toS') : toS'[i] = ToSender[d + i]
    <3> TAKE i \in 1..Len(toS')
    <3>1. i \in 1..Len(toS) BY <1>1
    <3> QED BY <1>1, <2>1, <3>1
  <2>4. Window(toS, ToSender, d)' BY <1>4, <2>2, <2>3 DEF Window
  <2>5. (DOMAIN acks = Named(ToSender, d))'
    <3>1. DOMAIN acks = Named(ToSender, d) BY <1>6 DEF Heeding
    <3> QED BY <1>4, <3>1 DEF Named
  <2> QED BY <1>6, <2>4, <2>5 DEF Heeding
<1>7. Scan' <=> Scan BY DEF Scan, Files
<1>8. CASE sst' \notin {"start", "compare"} BY <1>8 DEF AnswerIsHeeded
<1>9. CASE sst' = "start" /\ sst = "start" BY <1>2, <1>9 DEF AnswerIsHeeded
<1>10. CASE sst' = "compare" /\ sst = "compare"
  <2>1. CASE toS' = <<>> BY <1>10, <2>1 DEF AnswerIsHeeded
  <2>2. CASE toS' # <<>> /\ Head(toS).t = "abort"
    BY <1>3, <1>10, <2>2 DEF AnswerIsHeeded
  <2>3. CASE toS' # <<>> /\ Head(toS).t # "abort"
    <3>1. PICK d \in 0..(Len(ToSender) - 1) : Scan /\ Heeding(d)
      BY <1>3, <1>10, <2>3 DEF AnswerIsHeeded
    <3>2. Scan' /\ Heeding(d)' BY <1>6, <1>7, <3>1
    <3> QED BY <1>4, <1>10, <3>1, <3>2 DEF AnswerIsHeeded
  <2> QED BY <2>1, <2>2, <2>3
<1> QED BY <1>8, <1>9, <1>10

\* Nothing need be lost.
LEMMA WholeIsPrefix ==
  ASSUME NEW q, IsQueue(q)
  PROVE  q \in Prefixes(q)
<1> DEFINE S == {q[i] : i \in 1..Len(q)}
<1>1. q \in Seq(S) BY DEF IsQueue
<1> HIDE DEF S
<1>2. Len(q) \in 0..Len(q) /\ q = SubSeq(q, 1, Len(q)) BY <1>1
<1> QED BY <1>2 DEF Prefixes

\* A step that leaves the answer alone.
LEMMA AnswerUntouched ==
  ASSUME FolderInv, AnswerIsHeeded, toS' = toS,
         sst' = sst \/ sst' \notin {"start", "compare"},
         UNCHANGED <<gotHello, gotAck, acks, local, before>>
  PROVE  AnswerIsHeeded'
<1>1. toS' \in Prefixes(toS) BY WholeIsPrefix DEF FolderInv, FolderTypeOK
<1> QED BY <1>1, AnswerKept

\* What the runs agree on is the sender's business.
LEMMA RunsKept ==
  ASSUME RunsAgree, UNCHANGED <<manifest, before, steady, plan, travelled, sent, opened>>,
         edited' \/ (edited' = edited /\ src' = src),
         sst' = sst \/ sst' \notin {"stream", "verify"}
  PROVE  RunsAgree'
<1>1. OffersAreTrue' BY DEF RunsAgree, OffersAreTrue
<1>2. ReadsAreTrue' BY DEF RunsAgree, ReadsAreTrue
<1>3. OfferWasThere' BY DEF RunsAgree, OfferWasThere
<1>4. RepeatSendsNothing' BY DEF RunsAgree, RepeatSendsNothing
<1> QED BY <1>1, <1>2, <1>3, <1>4 DEF RunsAgree

\* After a success and without an edit, what the last run put in place is what the
\* new one offers.
LEMMA StartRepeats ==
  ASSUME FolderInv, RepeatInv, StartRun
  PROVE  RepeatInv'
<1>0. FolderTypeOK BY DEF FolderInv
<1>1. /\ manifest' = [p \in {q \in Path : src[q] # Absent} |-> Copy(src[p])]
      /\ sst' = "start" /\ rst' = "hello" /\ plan' = {} /\ travelled' = <<>>
      /\ before' = dest /\ src' = src
      /\ steady' => rst = "done" /\ ~edited
  BY DEF StartRun
<1>2. AnswerIsHeeded'
  <2>1. FolderInv' BY StartStep
  <2> QED BY <1>1, <2>1, HeededAfterwards
<1>3. OffersAreTrue' BY <1>1 DEF OffersAreTrue
<1>4. ReadsAreTrue'
  <2>1. DOMAIN travelled' = {} BY <1>1
  <2> QED BY <1>1, <2>1 DEF ReadsAreTrue
<1>5. OfferWasThere'
  <2> SUFFICES ASSUME steady', NEW p \in DOMAIN manifest' PROVE before'[p] = manifest'[p]
    BY DEF OfferWasThere
  <2>1. rst = "done" /\ ~edited BY <1>1
  <2>2. p \in DOMAIN manifest /\ manifest[p] = Copy(src[p])
    BY <1>1, <2>1 DEF RepeatInv, RunsAgree, OffersAreTrue
  <2>3. Settled /\ plan = {}
    <3>1. PICK ph \in Phases : InPhase(ph) BY <2>1 DEF FolderInv, InStep
    <3>2. /\ ~Starting /\ ~Comparing /\ ~Opening /\ ~Finishing /\ ~Aborting
          /\ ~Streaming /\ ~Verifying
      BY <2>1 DEF Starting, Comparing, Before, Listing, Opening, Finishing, Idle, Aborting,
                  Streaming, Verifying, Carrying
    <3>3. Summing BY <3>1, <3>2 DEF InPhase
    <3> QED BY <3>3 DEF Summing
  <2>4. p \in DOMAIN travelled /\ dest[p] = travelled[p] BY <2>2, <2>3 DEF Settled
  <2>5. travelled[p] = manifest[p] BY <2>1, <2>4 DEF RepeatInv, RunsAgree, ReadsAreTrue
  <2> QED BY <1>1, <2>2, <2>4, <2>5
<1>6. RepeatSendsNothing' BY <1>1 DEF RepeatSendsNothing
<1> QED BY <1>2, <1>3, <1>4, <1>5, <1>6 DEF RepeatInv, RunsAgree

\* The comparison.
LEMMA ListRepeats ==
  ASSUME FolderInv, RepeatInv, SenderHearsList
  PROVE  RepeatInv'
<1>0. FolderTypeOK BY DEF FolderInv
<1>1. UNCHANGED <<manifest, before, steady, edited, src, sent, opened>>
  BY DEF SenderHearsList, runVars, cronVars
<1>2. /\ AnswerIsHeeded' /\ sst' \notin {"stream", "verify"}
      /\ \/ UNCHANGED <<plan, travelled>>
         \/ /\ \A p \in plan' : p \in DOMAIN manifest
                 /\ (p \notin Suffixed => before[p] # manifest[p])
            /\ travelled' = [p \in DOMAIN manifest \ plan' |-> manifest[p]]
  BY ListIsHeeded DEF RepeatInv
<1>3. CASE UNCHANGED <<plan, travelled>>
  BY <1>1, <1>2, <1>3, RunsKept DEF RepeatInv
<1>4. CASE /\ \A p \in plan' : p \in DOMAIN manifest
                 /\ (p \notin Suffixed => before[p] # manifest[p])
           /\ travelled' = [p \in DOMAIN manifest \ plan' |-> manifest[p]]
  <2>1. OffersAreTrue' /\ OfferWasThere'
    BY <1>1 DEF RepeatInv, RunsAgree, OffersAreTrue, OfferWasThere
  <2>2. ReadsAreTrue' BY <1>1, <1>2, <1>4 DEF ReadsAreTrue
  <2>3. RepeatSendsNothing'
    BY <1>1, <1>4 DEF RepeatInv, RunsAgree, OfferWasThere, RepeatSendsNothing
  <2> QED BY <1>2, <2>1, <2>2, <2>3 DEF RepeatInv, RunsAgree
<1> QED BY <1>2, <1>3, <1>4

\* Reading a file that is not edited reads what the list says of it.
LEMMA FileRepeats ==
  ASSUME FolderInv, RepeatInv,
         SenderOpens \/ SenderSendsChunk \/ SenderEndsFile \/ SenderHearsOk
  PROVE  RepeatInv'
<1>0. FolderTypeOK BY DEF FolderInv
<1>1. /\ sst \in {"open", "stream", "verify"}
      /\ sst' \notin {"start", "compare"}
      /\ UNCHANGED <<manifest, before, steady, edited, src>>
      /\ plan' \subseteq plan
  BY DEF SenderOpens, SenderSendsChunk, SenderEndsFile, SenderHearsOk, SenderReads, NextFile,
         listVars, fileVars, runVars, cronVars
<1>2. AnswerIsHeeded' BY <1>1 DEF AnswerIsHeeded
<1>3. OffersAreTrue' /\ OfferWasThere' /\ RepeatSendsNothing'
  BY <1>1 DEF RepeatInv, RunsAgree, OffersAreTrue, OfferWasThere, RepeatSendsNothing
<1>4. First(plan) \in DOMAIN manifest /\ sent \in Seq(Version)
  <2>1. plan \in SUBSET Path /\ plan # {} /\ plan \subseteq DOMAIN manifest
    BY <1>0, <1>1 DEF FolderTypeOK
  <2>2. First(plan) \in plan BY <2>1, FirstIsLeast
  <2> QED BY <1>0, <2>1, <2>2, ContentsAre DEF FolderTypeOK
<1>5. ReadsAreTrue'
  <2> SUFFICES ASSUME ~edited' PROVE ReadsAreTrue'
    BY DEF ReadsAreTrue
  <2>0. ~edited BY <1>1
  <2>1. /\ sst = "stream" => opened = src[First(plan)]
        /\ sst \in {"stream", "verify"} =>
             \A i \in 1..Len(sent) : sent[i] = src[First(plan)]
        /\ \A p \in DOMAIN travelled : p \in DOMAIN manifest /\ travelled[p] = manifest[p]
    BY <2>0 DEF RepeatInv, RunsAgree, ReadsAreTrue
  <2>2. CASE SenderOpens
    <3>1. UNCHANGED <<plan, travelled>>
      BY <2>2 DEF SenderOpens
    <3>2. CASE src[First(plan)] = Absent
      <4>1. sst' = "failed" BY <2>2, <3>2 DEF SenderOpens
      <4> QED BY <1>1, <2>1, <3>1, <4>1 DEF ReadsAreTrue
    <3>3. CASE src[First(plan)] # Absent
      <4>1. opened' = src[First(plan)] /\ sent' = <<>> BY <2>2, <3>3 DEF SenderOpens
      <4>2. Len(<<>>) = 0 OBVIOUS
      <4>3. \A i \in 1..Len(sent') : FALSE BY <4>1, <4>2
      <4> QED BY <1>1, <2>1, <3>1, <4>1, <4>3 DEF ReadsAreTrue
    <3> QED BY <3>2, <3>3
  <2>3. CASE SenderSendsChunk
    <3>1. /\ sst = "stream" /\ UNCHANGED <<sst, plan, travelled, opened>>
          /\ \E v \in {opened, src[First(plan)]} \ {Absent} : sent' = Append(sent, v)
      BY <2>3 DEF SenderSendsChunk
    <3>2. sent' = Append(sent, src[First(plan)]) BY <2>1, <3>1
    <3>3. \A i \in 1..Len(sent') : sent'[i] = src[First(plan)]
      <4> DEFINE v == src[First(plan)]
      <4>1. \A i \in 1..Len(sent) : sent[i] = v BY <2>1, <3>1
      <4>2. sent' = Append(sent, v) BY <3>2
      <4> HIDE DEF v
      <4>3. \A i \in 1..Len(sent') : sent'[i] = v
        <5> DEFINE T == Version \cup {v}
        <5>1. sent \in Seq(T) /\ v \in T BY <1>4
        <5> HIDE DEF T
        <5> QED BY <4>1, <4>2, <5>1
      <4> QED BY <4>3 DEF v
    <3> QED BY <1>1, <2>1, <3>1, <3>3 DEF ReadsAreTrue
  <2>4. CASE SenderEndsFile
    <3>1. /\ sst = "stream" /\ sst' = "verify" /\ Len(sent) = Chunks
          /\ travelled' = Merge(travelled, [p \in {First(plan)} |-> sent])
          /\ UNCHANGED <<plan, sent>>
      BY <2>1, <2>4 DEF SenderEndsFile, fileVars
    <3>2. sent = Copy(src[First(plan)])
      <4>1. sent \in [1..Chunks -> Version] BY <1>4, <3>1, ContentsAre DEF Whole
      <4>2. \A i \in 1..Chunks : sent[i] = src[First(plan)] BY <2>1, <3>1
      <4> QED BY <4>1, <4>2 DEF Copy
    <3>3. sent = manifest[First(plan)]
      BY <1>4, <2>0, <3>2 DEF RepeatInv, RunsAgree, OffersAreTrue
    <3>4. \A p \in DOMAIN travelled' : p \in DOMAIN manifest /\ travelled'[p] = manifest[p]
      BY <1>4, <2>1, <3>1, <3>3 DEF Merge
    <3> QED BY <1>1, <2>1, <3>1, <3>4 DEF ReadsAreTrue
  <2>5. CASE SenderHearsOk
    <3>1. sst' \in {"open", "finish"} /\ UNCHANGED <<travelled, sent, opened>>
      BY <2>5 DEF SenderHearsOk, NextFile
    <3> QED BY <1>1, <2>1, <3>1 DEF ReadsAreTrue
  <2> QED BY <2>2, <2>3, <2>4, <2>5
<1> QED BY <1>2, <1>3, <1>5 DEF RepeatInv, RunsAgree

\* Every step of the recipient, and its failures.
LEMMA RecipientRepeats ==
  ASSUME FolderInv, FolderInv', RepeatInv, RecipientStep \/ RecipientDies
  PROVE  RepeatInv'
<1>1. UNCHANGED <<src, senderVars, before, travelled, steady, edited>>
  BY DEF RecipientStep, RecipientScans, RecipientRefuses, RecipientHearsList, RecipientBegins,
         RecipientWrites, RecipientCommits, RecipientRejects, RecipientPrunes,
         RecipientHearsDone, RecipientEndsInError, RecipientFaults, RecipientDies,
         runVars, cronVars
<1>2. UNCHANGED <<sst, manifest, gotHello, gotAck, acks, plan, opened, sent>>
  BY <1>1 DEF senderVars, listVars, fileVars
<1>3. RunsAgree' BY <1>1, <1>2, RunsKept DEF RepeatInv
<1>4. AnswerIsHeeded'
  <2>1. CASE rst' # "failed" BY <2>1, HeededAfterwards
  <2>2. CASE rst' = "failed"
    <3>1. \/ RecipientBegins \/ RecipientEndsInError \/ RecipientFaults \/ RecipientDies
          \/ RecipientRefuses
      BY <2>2 DEF RecipientStep, RecipientScans, RecipientHearsList, RecipientReads,
                  RecipientWrites, RecipientCommits, RecipientRejects, RecipientPrunes,
                  RecipientHearsDone
    <3>2. CASE RecipientBegins \/ RecipientEndsInError \/ RecipientFaults \/ RecipientDies
      <4>1. UNCHANGED <<toS, local>>
        BY <3>2 DEF RecipientBegins, RecipientEndsInError, RecipientFaults, RecipientDies,
                    RecipientGivesUp
      <4> QED BY <1>1, <1>2, <4>1, AnswerUntouched DEF RepeatInv
    <3>3. CASE RecipientRefuses
      <4>1. /\ rst = "hello" /\ toR # <<>>
            /\ toS' = Post(toS, <<[t |-> "abort"]>>)
        BY <3>3 DEF RecipientRefuses, RecipientReads
      <4>2. ASSUME sst = "start" PROVE FALSE
        <5>1. InPhase("start") BY <4>1, <4>2, SenderPhase DEF Phases
        <5> QED BY <4>1, <5>1 DEF InPhase, Starting
      <4>3. ASSUME sst = "compare" PROVE ~gotAck /\ toS = <<>>
        <5>1. InPhase("compare") BY <4>1, <4>3, SenderPhase DEF Phases
        <5> QED BY <4>1, <5>1 DEF InPhase, Comparing, Listing, Before
      <4>4. toS = <<>> => toS' = <<>> \/ (toS' # <<>> /\ Head(toS').t = "abort")
        <5> DEFINE x == [t |-> "abort"]
        <5>1. x.t = "abort" OBVIOUS
        <5>2. toS' = Post(toS, <<x>>) BY <4>1
        <5> HIDE DEF x
        <5>3. <<>> \o <<x>> = <<x>> /\ Head(<<x>>) = x /\ <<x>> # <<>> OBVIOUS
        <5> QED BY <5>1, <5>2, <5>3 DEF Post
      <4> QED BY <1>2, <4>2, <4>3, <4>4 DEF AnswerIsHeeded
    <3> QED BY <3>1, <3>2, <3>3
  <2> QED BY <2>1, <2>2
<1> QED BY <1>3, <1>4 DEF RepeatInv

\* Every other step.
LEMMA OthersRepeat ==
  ASSUME FolderInv, RepeatInv,
         \/ SenderGreets \/ SenderHearsHello \/ SenderHearsFail \/ SenderFinishes
         \/ SenderCannotFinish \/ SenderHearsDone \/ SenderEndsInError \/ SenderFaults
         \/ SenderDies \/ SourceChanges \/ ChannelLost \/ UNCHANGED vars
  PROVE  RepeatInv'
<1> USE DEF senderVars, listVars, fileVars, sumVars, runVars, cronVars, recipientVars
<1>1. CASE SenderGreets
  <2>1. /\ sst = "start" /\ sst' = "compare"
        /\ UNCHANGED <<manifest, before, steady, plan, travelled, sent, opened, edited, src,
                       toS, gotAck>>
    BY <1>1 DEF SenderGreets
  <2>2. RunsAgree' BY <2>1, RunsKept DEF RepeatInv
  <2>3. AnswerIsHeeded' BY <2>1 DEF RepeatInv, AnswerIsHeeded
  <2> QED BY <2>2, <2>3 DEF RepeatInv
<1>2. CASE SenderHearsHello
  <2>1. UNCHANGED <<manifest, before, steady, sent, opened, edited, src>>
    BY <1>2 DEF SenderHearsHello
  <2>2. AnswerIsHeeded' /\ UNCHANGED <<plan, travelled, sst>>
    BY <1>2, HelloIsHeeded DEF RepeatInv
  <2> QED BY <2>1, <2>2, RunsKept DEF RepeatInv
<1>3. CASE SenderHearsFail \/ SenderFinishes \/ SenderCannotFinish \/ SenderHearsDone
           \/ SenderEndsInError \/ SenderFaults \/ SenderDies
  <2>1. /\ UNCHANGED <<manifest, before, steady, plan, travelled, sent, opened, edited, src>>
        /\ sst' \in {"failed", "open", "summary", "done"}
    BY <1>3 DEF SenderHearsFail, SenderFinishes, SenderCannotFinish, SenderHearsDone,
                SenderEndsInError, SenderFaults, SenderDies
  <2>2. RunsAgree' BY <2>1, RunsKept DEF RepeatInv
  <2>3. AnswerIsHeeded' BY <2>1 DEF AnswerIsHeeded
  <2> QED BY <2>2, <2>3 DEF RepeatInv
<1>4. CASE SourceChanges \/ UNCHANGED vars
  <2>1. /\ UNCHANGED <<manifest, before, steady, plan, travelled, sent, opened, sst>>
        /\ UNCHANGED <<gotHello, gotAck, acks, local, toS>>
        /\ edited' \/ (edited' = edited /\ src' = src)
    BY <1>4 DEF SourceChanges, vars
  <2>2. RunsAgree' BY <2>1, RunsKept DEF RepeatInv
  <2>3. AnswerIsHeeded' BY <2>1, AnswerUntouched DEF RepeatInv
  <2> QED BY <2>2, <2>3 DEF RepeatInv
<1>5. CASE ChannelLost
  <2>1. /\ UNCHANGED <<manifest, before, steady, plan, travelled, sent, opened, sst>>
        /\ UNCHANGED <<gotHello, gotAck, acks, local, edited, src>>
        /\ toS' \in Prefixes(toS)
    BY <1>5 DEF ChannelLost
  <2>2. RunsAgree' BY <2>1, RunsKept DEF RepeatInv
  <2>3. AnswerIsHeeded' BY <2>1, AnswerKept DEF RepeatInv
  <2> QED BY <2>2, <2>3 DEF RepeatInv
<1> QED BY <1>1, <1>2, <1>3, <1>4, <1>5

\* Before the first run.
LEMMA RepeatInitial == Init => RepeatInv
<1> SUFFICES ASSUME Init PROVE RepeatInv
  OBVIOUS
<1>1. sst = "failed" /\ edited /\ ~steady BY DEF Init
<1> QED BY <1>1 DEF RepeatInv, RunsAgree, AnswerIsHeeded, OffersAreTrue, ReadsAreTrue,
                    OfferWasThere, RepeatSendsNothing

\* Every step keeps it.
LEMMA RepeatInductive == FolderInv /\ FolderInv' /\ RepeatInv /\ [Next]_vars => RepeatInv'
<1> SUFFICES ASSUME FolderInv, FolderInv', RepeatInv, [Next]_vars PROVE RepeatInv'
  OBVIOUS
<1>1. CASE StartRun BY <1>1, StartRepeats
<1>2. CASE SenderStep
  <2>1. CASE SenderHearsList BY <2>1, ListRepeats
  <2>2. CASE SenderOpens \/ SenderSendsChunk \/ SenderEndsFile \/ SenderHearsOk
    BY <2>2, FileRepeats
  <2> QED BY <1>2, <2>1, <2>2, OthersRepeat DEF SenderStep
<1>3. CASE RecipientStep \/ RecipientDies BY <1>3, RecipientRepeats
<1>4. CASE SourceChanges \/ ChannelLost \/ SenderDies \/ UNCHANGED vars
  BY <1>4, OthersRepeat
<1> QED BY <1>1, <1>2, <1>3, <1>4 DEF Next

\* A run after a successful one, with no edit in between, sends no file (but those
\* named like part files): RepeatSendsNothing.
THEOREM RepeatIsFree == Spec => []RepeatSendsNothing
<1>1. RepeatInv => RepeatSendsNothing BY DEF RepeatInv, RunsAgree
<1> QED BY <1>1, FolderInvariant, RepeatInitial, RepeatInductive, PTL DEF Spec
===============================================================================
