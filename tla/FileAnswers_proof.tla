--------------------------- MODULE FileAnswers_proof ---------------------------
(***************************************************************************)
(* Theorems about files that are served, for files and chunks of any size, *)
(* any ranges, any directories and any changes meanwhile: the body is the  *)
(* file or the ranges that were asked for, its messages are in order, and  *)
(* StaticFiles answers what the directories have.                          *)
(***************************************************************************)
EXTENDS FileAnswers, SequenceTheorems, WellFoundedInduction, TLAPS

-----------------------------------------------------------------------------
(* The inductive invariant of FileResponse.                                *)

Spans == [start : 0..MaxSize, end : 0..MaxSize]

\* A range of the file, as it was when it was looked at.
GoodSpan(r) == r.start <= r.end /\ r.end <= size

\* The size is the file's until it changes, and the ranges lie in it.
SizeInv ==
  /\ file.changes = 0 => file.there
  /\ file.changes = 0 /\ (pc \in {"call", "raised"} => request.given) => size = file.length
  /\ asked \in Seq(Spans)
  /\ \A i \in DOMAIN asked : GoodSpan(asked[i])
  /\ \A i \in DOMAIN ranges : GoodSpan(ranges[i])

\* What was chosen, and where its sending is.
ChoiceInv ==
  /\ pc \in {"call", "headers", "merge"} => resp.kind = "none"
  /\ resp.kind = "none" => pc \in {"call", "headers", "merge", "raised"}
  /\ pc \in {"call", "headers"} => ranges = <<>> /\ asked = <<>>
  /\ pc \in {"call", "headers", "merge"} => start = 0
  /\ pc = "last" => resp.kind = "error" \/ request.method = "HEAD"
  /\ pc \in {"open", "pathsend"} => resp.kind # "error"
  /\ pc = "pathsend" => resp.kind = "simple"
  /\ pc = "read" => resp.kind \in {"simple", "single"}
  /\ pc \in {"header", "part"} => resp.kind = "multi"
  /\ resp.kind = "error" => ranges = <<>> /\ pc \in {"start", "last", "done", "raised"}
  /\ resp.kind = "single" => Len(ranges) = 1 /\ resp.length = ranges[1].end - ranges[1].start
  /\ resp.kind = "simple" => resp.length = size

\* What the messages so far say of the response.
WireInv ==
  /\ pc \in {"call", "headers", "merge", "start"} => wire = <<>>
  /\ pc \in {"last", "pathsend", "open", "read", "header", "part"} => Protocol!Open
  /\ pc \in {"background", "done"} => Protocol!Complete
  /\ pc = "pathsend" => wire[Len(wire)].type = "start"

\* The merge has lost no byte and added none.
MergeInv ==
  /\ pc = "merge" => BytesOf(ranges) \union BytesOf(asked) = BytesOf(Parsed)
  /\ MergeKeepsBytes

\* The bytes from one position to another.
Stretch(a, b) == Positions([start |-> a, end |-> b])

\* The bytes that were sent are those from the start of the range, or of the file, up to the
\* next that is read.
Base == IF resp.kind = "simple" THEN 0 ELSE ranges[1].start
ReadInv ==
  /\ pc \in {"call", "headers", "merge", "start", "last", "pathsend", "open"} =>
       body.parts = <<>> /\ part = 1
  /\ pc \in {"start", "open"} /\ resp.kind = "simple" => start = 0
  /\ pc \in {"start", "open"} /\ resp.kind = "single" => start = ranges[1].start
  /\ pc = "read" /\ resp.kind = "single" => start \in ranges[1].start..ranges[1].end
  /\ pc = "read" =>
       \/ body.parts = <<>> /\ start = Base
       \/ body.parts = <<Stretch(Base, start)>>
  /\ pc = "read" /\ resp.kind = "simple" /\ file.changes = 0 => start <= size

\* The same for the parts of a multipart response.
PartsInv ==
  /\ pc \in {"header", "part"} =>
       \A k \in 1..(part - 1) : body.parts[k] = Positions(ranges[k])
  /\ pc = "header" => part \in 1..(Len(ranges) + 1) /\ Len(body.parts) = part - 1
  /\ pc = "part" =>
       /\ part \in 1..Len(ranges) /\ Len(body.parts) = part
       /\ start \in ranges[part].start..ranges[part].end
       /\ body.parts[part] = Stretch(ranges[part].start, start)

\* What was sent is a beginning of what has to be sent; when nothing changes the file it is all
\* once it is over; and its length is counted.
WholeInv ==
  /\ resp.kind \in {"single", "multi"} \/ file.changes = 0 => Begins(body.parts, Whole)
  /\ file.changes = 0 /\ pc \in {"background", "done"} /\ request.method = "GET"
     /\ ~Protocol!LastIs({"pathsend"}) => body.parts = Whole
  /\ resp.kind # "multi" =>
       \/ body.parts = <<>> /\ body.length = 0
       \/ Len(body.parts) = 1 /\ body.length = Len(body.parts[1])

IInv ==
  /\ TypeOK /\ SizeInv /\ ChoiceInv /\ WireInv /\ MergeInv
  /\ ReadInv /\ PartsInv /\ WholeInv

-----------------------------------------------------------------------------
(* Lemmas: numbers, and stretches of bytes.                                *)

LEMMA MinOfTwo ==
  ASSUME NEW a \in Int, NEW b \in Int
  PROVE  Min({a, b}) = IF a <= b THEN a ELSE b
<1>1. \E x \in {a, b} : \A y \in {a, b} : x <= y
  OBVIOUS
<1>2. Min({a, b}) \in {a, b} /\ \A y \in {a, b} : Min({a, b}) <= y
  BY <1>1 DEF Min
<1>3. QED
  BY <1>2

LEMMA MaxOfTwo ==
  ASSUME NEW a \in Int, NEW b \in Int
  PROVE  Max({a, b}) = IF a >= b THEN a ELSE b
<1>1. \E x \in {a, b} : \A y \in {a, b} : x >= y
  OBVIOUS
<1>2. Max({a, b}) \in {a, b} /\ \A y \in {a, b} : Max({a, b}) >= y
  BY <1>1 DEF Max
<1>3. QED
  BY <1>2

\* A set of natural numbers that is not empty has a smallest element.
LEMMA Smallest ==
  ASSUME NEW S \in SUBSET Nat, S # {}
  PROVE  \E i \in S : \A j \in S : i <= j
<1>1. PICK i \in S : \A j \in S : ~ (<<j, i>> \in OpToRel(<, Nat))
  BY WFMin, NatLessThanWellFounded
<1>2. \A j \in S : ~ (j < i)
  BY <1>1 DEF OpToRel
<1>3. \A j \in S : i <= j
  BY <1>2, SMT
<1>4. QED
  BY <1>3

\* The sum that is announced for a multipart response is a number.
LEMMA Totals ==
  ASSUME NEW lengths \in Seq(Nat)
  PROVE  Total(lengths) \in Nat
<1> DEFINE N == Len(lengths)
           IsSum(f, n) == f = [k \in 0..n |-> IF k = 0 THEN 0 ELSE f[k - 1] + lengths[k]]
           Bad == {n \in 0..N : ~ \E f \in [0..n -> Nat] : IsSum(f, n)}
<1>1. N \in Nat /\ \A k \in 1..N : lengths[k] \in Nat
  OBVIOUS
<1>2. Bad = {}
  <2>1. SUFFICES ASSUME Bad # {} PROVE FALSE
    OBVIOUS
  <2>2. Bad \in SUBSET Nat
    BY <1>1
  <2>3. PICK n \in Bad : \A m \in Bad : n <= m
    <3> HIDE DEF Bad
    <3>1. QED
      BY <2>1, <2>2, Smallest
  <2>4. CASE n = 0
    <3> DEFINE f == [k \in 0..0 |-> 0]
    <3>1. f \in [0..0 -> Nat] /\ IsSum(f, 0)
      OBVIOUS
    <3>2. QED
      BY <2>3, <2>4, <3>1
  <2>5. CASE n # 0
    <3>1. n - 1 \in 0..N /\ n - 1 \notin Bad /\ n \in 1..N
      <4>1. n \in 0..N
        BY <2>3
      <4>2. n - 1 \in 0..N /\ n \in 1..N /\ ~ (n <= n - 1)
        BY <1>1, <2>5, <4>1
      <4> HIDE DEF Bad
      <4>3. QED
        BY <2>3, <4>2
    <3>2. PICK g \in [0..(n - 1) -> Nat] : IsSum(g, n - 1)
      BY <3>1
    <3> DEFINE f == [k \in 0..n |-> IF k = n THEN g[n - 1] + lengths[n] ELSE g[k]]
    <3>3. f \in [0..n -> Nat]
      <4>1. g[n - 1] \in Nat /\ lengths[n] \in Nat
        BY <1>1, <3>1, <3>2
      <4>2. g[n - 1] + lengths[n] \in Nat
        BY <4>1
      <4>3. \A k \in 0..n : k # n => k \in 0..(n - 1)
        BY <3>1
      <4>4. QED
        BY <3>2, <4>2, <4>3
    <3>4. ASSUME NEW k \in 0..n
          PROVE  f[k] = IF k = 0 THEN 0 ELSE f[k - 1] + lengths[k]
      <4>1. CASE k = n
        BY <3>1, <4>1
      <4>2. CASE k # n
        <5>1. k \in 0..(n - 1)
          BY <3>1, <4>2
        <5>2. g[k] = IF k = 0 THEN 0 ELSE g[k - 1] + lengths[k]
          BY <3>2, <5>1, Zenon
        <5>3. f[k] = g[k] /\ (k # 0 => f[k - 1] = g[k - 1])
          BY <3>1, <5>1
        <5>4. QED
          BY <5>2, <5>3
      <4>3. QED
        BY <4>1, <4>2
    <3>5. f = [k \in 0..n |-> IF k = 0 THEN 0 ELSE f[k - 1] + lengths[k]]
      <4>1. f = [k \in 0..n |-> f[k]]
        BY <3>3
      <4> HIDE DEF f
      <4>2. QED
        BY <3>4, <4>1, Zenon
    <3>6. IsSum(f, n)
      BY <3>5
    <3>7. QED
      BY <2>3, <3>3, <3>6
  <2>6. QED
    BY <2>4, <2>5
<1>3. N \notin Bad /\ N \in 0..N
  <2> HIDE DEF Bad
  <2>1. QED
    BY <1>1, <1>2
<1>4. PICK h \in [0..N -> Nat] : IsSum(h, N)
  BY <1>3
<1> DEFINE sum == CHOOSE f : IsSum(f, N)
<1>5. IsSum(sum, N)
  BY <1>4
<1>6. \A k \in 0..N : sum[k] = IF k = 0 THEN 0 ELSE sum[k - 1] + lengths[k]
  BY <1>5, Zenon
<1>7. \A k \in 0..N : h[k] = IF k = 0 THEN 0 ELSE h[k - 1] + lengths[k]
  BY <1>4, Zenon
<1> HIDE DEF sum
<1> DEFINE Differ == {k \in 0..N : sum[k] # h[k]}
<1>8. Differ = {}
  <2>1. SUFFICES ASSUME Differ # {} PROVE FALSE
    OBVIOUS
  <2>2. Differ \in SUBSET Nat
    BY <1>1
  <2>3. PICK k \in Differ : \A m \in Differ : k <= m
    <3> HIDE DEF Differ
    <3>1. QED
      BY <2>1, <2>2, Smallest
  <2>4. k \in 0..N /\ sum[k] # h[k]
    BY <2>3
  <2>5. k # 0
    BY <1>6, <1>7, <2>4
  <2>6. k - 1 \in 0..N /\ k - 1 \notin Differ
    BY <1>1, <2>3, <2>4, <2>5
  <2>7. sum[k - 1] = h[k - 1]
    BY <2>6
  <2>8. QED
    BY <1>6, <1>7, <2>4, <2>5, <2>7
<1>9. sum[N] \in Nat
  BY <1>4, <1>8, <1>3
<1>10. Total(lengths) = sum[N]
  BY DEF Total, sum
<1>11. QED
  BY <1>9, <1>10

\* The bytes from one position to another are as many as there are between them.
LEMMA Stretches ==
  ASSUME NEW a \in Nat, NEW b \in Nat, a <= b
  PROVE  /\ Stretch(a, b) \in Seq(Nat)
         /\ Len(Stretch(a, b)) = b - a
         /\ \A i \in 1..(b - a) : Stretch(a, b)[i] = a + i - 1
         /\ b <= MaxSize => Stretch(a, b) \in Seq(0..MaxSize)
<1>1. Stretch(a, b) = [i \in 1..(b - a) |-> a + i - 1]
  BY DEF Stretch, Positions
<1>2. b - a \in Nat
  OBVIOUS
<1>3. \A i \in 1..(b - a) : a + i - 1 \in Nat /\ a + i - 1 <= b
  OBVIOUS
<1>4. Stretch(a, b) \in Seq(Nat) /\ Len(Stretch(a, b)) = b - a
  BY <1>1, <1>2, <1>3
<1>5. b <= MaxSize => Stretch(a, b) \in Seq(0..MaxSize)
  <2>1. b <= MaxSize => \A i \in 1..(b - a) : a + i - 1 \in 0..MaxSize
    BY <1>3, MaxSizeAssumption
  <2>2. QED
    BY <1>1, <1>2, <2>1
<1>6. QED
  BY <1>1, <1>4, <1>5

\* Two stretches that meet are one.
LEMMA Joined ==
  ASSUME NEW a \in Nat, NEW b \in Nat, NEW c \in Nat, a <= b, b <= c
  PROVE  Stretch(a, b) \o Stretch(b, c) = Stretch(a, c)
<1> DEFINE s == Stretch(a, b)  t == Stretch(b, c)  u == Stretch(a, c)
<1>0. a <= c
  OBVIOUS
<1>1. /\ s \in Seq(Nat) /\ Len(s) = b - a /\ \A i \in 1..(b - a) : s[i] = a + i - 1
      /\ t \in Seq(Nat) /\ Len(t) = c - b /\ \A i \in 1..(c - b) : t[i] = b + i - 1
      /\ u \in Seq(Nat) /\ Len(u) = c - a /\ \A i \in 1..(c - a) : u[i] = a + i - 1
  BY <1>0, Stretches
<1> HIDE DEF s, t, u
<1>2. /\ s \o t \in Seq(Nat) /\ Len(s \o t) = c - a
      /\ \A i \in 1..(c - a) : (s \o t)[i] = IF i <= b - a THEN s[i] ELSE t[i - (b - a)]
  <2>1. (b - a) + (c - b) = c - a
    OBVIOUS
  <2>2. /\ s \o t \in Seq(Nat) /\ Len(s \o t) = (b - a) + (c - b)
        /\ \A i \in 1..((b - a) + (c - b)) :
             (s \o t)[i] = IF i <= b - a THEN s[i] ELSE t[i - (b - a)]
    <3>1. Len(s) = b - a /\ Len(t) = c - b /\ s \in Seq(Nat) /\ t \in Seq(Nat)
      BY <1>1
    <3>2. /\ s \o t \in Seq(Nat) /\ Len(s \o t) = Len(s) + Len(t)
          /\ \A i \in 1..(Len(s) + Len(t)) :
               (s \o t)[i] = IF i <= Len(s) THEN s[i] ELSE t[i - Len(s)]
      BY <3>1, ConcatProperties, Zenon
    <3>3. QED
      BY <3>1, <3>2, Zenon
  <2>3. QED
    BY <2>1, <2>2, Zenon
<1>3. ASSUME NEW i \in 1..(c - a)
      PROVE  (s \o t)[i] = u[i]
  <2>1. CASE i <= b - a
    BY <1>1, <1>2, <2>1
  <2>2. CASE ~ (i <= b - a)
    <3>1. i - (b - a) \in 1..(c - b)
      BY <2>2
    <3>2. (s \o t)[i] = t[i - (b - a)]
      BY <1>2, <2>2
    <3>3. t[i - (b - a)] = b + (i - (b - a)) - 1
      BY <1>1, <3>1
    <3>4. u[i] = a + i - 1
      BY <1>1
    <3>5. QED
      BY <3>2, <3>3, <3>4
  <2>3. QED
    BY <2>1, <2>2, Zenon
<1>4. s \o t = u
  <2>1. Len(s \o t) = c - a /\ Len(u) = c - a
    BY <1>1, <1>2, Zenon
  <2>2. Len(s \o t) = Len(u) /\ \A i \in 1..Len(s \o t) : (s \o t)[i] = u[i]
    BY <1>3, <2>1, Zenon
  <2>3. QED
    BY <1>1, <1>2, <2>2, SeqEqual, Zenon
<1>5. QED
  BY <1>4 DEF s, t, u

\* A stretch begins every longer one from the same position.
LEMMA Beginning ==
  ASSUME NEW a \in Nat, NEW b \in Nat, NEW c \in Nat, a <= b, b <= c
  PROVE  IsPrefix(Stretch(a, b), Stretch(a, c))
<1> DEFINE s == Stretch(a, b)  u == Stretch(a, c)
<1>0. a <= c
  OBVIOUS
<1>1. /\ s \in Seq(Nat) /\ Len(s) = b - a /\ \A i \in 1..(b - a) : s[i] = a + i - 1
      /\ u \in Seq(Nat) /\ Len(u) = c - a /\ \A i \in 1..(c - a) : u[i] = a + i - 1
  BY <1>0, Stretches
<1> HIDE DEF s, u
<1>2. \A i \in 1..Len(s) : s[i] = u[i]
  BY <1>1
<1>3. SubSeq(s, 1, Len(s)) = [i \in 1..Len(s) |-> s[i]]
  BY <1>1
<1>4. SubSeq(u, 1, Len(s)) = [i \in 1..Len(s) |-> u[i]]
  BY <1>1
<1>5. SubSeq(s, 1, Len(s)) = SubSeq(u, 1, Len(s))
  BY <1>2, <1>3, <1>4
<1>6. QED
  BY <1>1, <1>5 DEF IsPrefix, s, u

\* What a read gives: the bytes up to the position where it ends, as many as were asked for
\* unless the file ends before.
LEMMA Reads ==
  ASSUME start \in 0..MaxSize, file.length \in 0..MaxSize, NEW n \in Nat
  PROVE  \E e \in start..MaxSize :
           /\ Read(n) = Stretch(start, e)
           /\ Len(Read(n)) = e - start
           /\ Read(n) \in Seq(0..MaxSize)
           /\ e - start <= n
           /\ start <= file.length => e <= file.length
           /\ e - start < n => e >= file.length
<1> DEFINE left == file.length - start
           most == IF n <= left THEN n ELSE left
           e == start + (IF 0 >= most THEN 0 ELSE most)
<1>1. left \in Int /\ most \in Int /\ start \in Nat /\ file.length \in Nat /\ MaxSize \in Nat
  BY MaxSizeAssumption
<1>2. Max({0, Min({n, left})}) = e - start
  <2>1. Min({n, left}) = most
    BY <1>1, MinOfTwo
  <2>2. Max({0, most}) = IF 0 >= most THEN 0 ELSE most
    BY <1>1, MaxOfTwo
  <2>3. QED
    BY <1>1, <2>1, <2>2
<1>3. e \in start..MaxSize
  BY <1>1
<1>4. Read(n) = Stretch(start, e)
  BY <1>2 DEF Read, Stretch, Positions
<1>5. /\ e - start <= n
      /\ start <= file.length => e <= file.length
      /\ e - start < n => e >= file.length
  BY <1>1
<1>6. Len(Read(n)) = e - start /\ Read(n) \in Seq(0..MaxSize)
  <2> HIDE DEF e
  <2>1. e \in Nat /\ start <= e /\ e <= MaxSize
    BY <1>1, <1>3
  <2>2. QED
    BY <1>1, <1>4, <2>1, Stretches
<1>7. QED
  BY <1>3, <1>4, <1>5, <1>6

-----------------------------------------------------------------------------
(* Lemmas: the ranges of a header, and merging them.                       *)

Bytes(r) == r.start..(r.end - 1)

LEMMA BytesAre ==
  ASSUME NEW rs, NEW b
  PROVE  b \in BytesOf(rs) <=> \E i \in DOMAIN rs : b \in Bytes(rs[i])
BY DEF BytesOf, Bytes

\* One more range among others has its bytes and theirs.
LEMMA SameBytes ==
  ASSUME NEW rs, NEW ts, NEW r,
         \A i \in DOMAIN rs : rs[i] = r \/ \E j \in DOMAIN ts : rs[i] = ts[j],
         \E i \in DOMAIN rs : rs[i] = r,
         \A j \in DOMAIN ts : \E i \in DOMAIN rs : rs[i] = ts[j]
  PROVE  BytesOf(rs) = BytesOf(ts) \union Bytes(r)
<1>1. ASSUME NEW b \in BytesOf(rs)
      PROVE  b \in BytesOf(ts) \/ b \in Bytes(r)
  <2>1. PICK i \in DOMAIN rs : b \in Bytes(rs[i])
    BY BytesAre, Zenon
  <2>2. CASE rs[i] = r
    BY <2>1, <2>2
  <2>3. CASE \E j \in DOMAIN ts : rs[i] = ts[j]
    <3>1. PICK j \in DOMAIN ts : rs[i] = ts[j]
      BY <2>3
    <3>2. b \in Bytes(ts[j])
      BY <2>1, <3>1
    <3>3. QED
      BY <3>2, BytesAre, Zenon
  <2>4. QED
    BY <2>2, <2>3, Zenon
<1>2. ASSUME NEW b \in Bytes(r)
      PROVE  b \in BytesOf(rs)
  <2>1. PICK i \in DOMAIN rs : rs[i] = r
    OBVIOUS
  <2>2. b \in Bytes(rs[i])
    BY <2>1
  <2>3. QED
    BY <2>2, BytesAre, Zenon
<1>3. ASSUME NEW b \in BytesOf(ts)
      PROVE  b \in BytesOf(rs)
  <2>1. PICK j \in DOMAIN ts : b \in Bytes(ts[j])
    BY BytesAre, Zenon
  <2>2. PICK i \in DOMAIN rs : rs[i] = ts[j]
    OBVIOUS
  <2>3. b \in Bytes(rs[i])
    BY <2>1, <2>2
  <2>4. QED
    BY <2>3, BytesAre, Zenon
<1>4. QED
  BY <1>1, <1>2, <1>3, Zenon

\* Ranges that are acted on lie in the file.
LEMMA ParsedGood ==
  ASSUME TypeOK, Verdict = "ranges"
  PROVE  /\ Parsed \in Seq(Spans) /\ Len(Parsed) > 0
         /\ \A i \in DOMAIN Parsed : GoodSpan(Parsed[i])
<1>1. specs \in Seq(RangeSpecs) /\ specs # <<>> /\ size \in 0..MaxSize /\ MaxSize \in Nat
  BY MaxSizeAssumption DEF TypeOK, Verdict
<1>2. /\ \A i \in DOMAIN Parsed : Parsed[i].start \in 0..(size - 1)
      /\ \A i \in DOMAIN Parsed : ~ (Parsed[i].start > Parsed[i].end)
  BY DEF Verdict
<1>3. DOMAIN Parsed = 1..Len(specs) /\ Len(specs) \in Nat
      /\ \A i \in DOMAIN Parsed : specs[i] \in RangeSpecs /\ Parsed[i] = RangeOf(specs[i], size)
  BY <1>1 DEF Parsed
<1>4. ASSUME NEW i \in DOMAIN Parsed
      PROVE  Parsed[i] \in Spans /\ GoodSpan(Parsed[i])
  <2>1. PICK spec \in RangeSpecs : Parsed[i] = RangeOf(spec, size)
    BY <1>3
  <2>2. spec.first \in Numbers /\ spec.last \in Numbers
    BY DEF RangeSpecs
  <2>3. /\ Parsed[i].end \in 0..size
        /\ Parsed[i] = [start |-> Parsed[i].start, end |-> Parsed[i].end]
    BY <1>1, <2>1, <2>2 DEF RangeOf, Numbers, Absent
  <2>4. Parsed[i].start \in 0..MaxSize /\ Parsed[i].end \in 0..MaxSize
        /\ Parsed[i].start <= Parsed[i].end /\ Parsed[i].end <= size
    BY <1>1, <1>2, <2>3
  <2>5. QED
    BY <2>3, <2>4 DEF Spans, GoodSpan
<1>5. Parsed \in Seq(Spans) /\ Len(Parsed) = Len(specs)
  <2>1. Parsed = [i \in 1..Len(specs) |-> Parsed[i]]
    BY <1>3 DEF Parsed
  <2>2. Parsed \in [1..Len(specs) -> Spans]
    BY <1>3, <1>4, <2>1
  <2>3. QED
    BY <1>3, <2>2
<1>6. QED
  BY <1>1, <1>4, <1>5

\* A range that is inserted moves the ones behind it.
LEMMA Inserted ==
  ASSUME NEW s \in Seq(Spans), NEW p \in 1..Len(s), NEW r \in Spans
  PROVE  /\ InsertAt(s, p, r) \in Seq(Spans)
         /\ Len(InsertAt(s, p, r)) = Len(s) + 1
         /\ \A i \in 1..(Len(s) + 1) :
              InsertAt(s, p, r)[i] = IF i < p THEN s[i] ELSE IF i = p THEN r ELSE s[i - 1]
<1> DEFINE before == SubSeq(s, 1, p - 1)  behind == SubSeq(s, p, Len(s))
<1>1. /\ before \in Seq(Spans) /\ Len(before) = p - 1
      /\ \A i \in 1..(p - 1) : before[i] = s[i]
  OBVIOUS
<1>2. /\ behind \in Seq(Spans) /\ Len(behind) = Len(s) - p + 1
      /\ \A i \in 1..(Len(s) - p + 1) : behind[i] = s[p + i - 1]
  OBVIOUS
<1>3. InsertAt(s, p, r) = (before \o <<r>>) \o behind
  BY DEF InsertAt
<1> HIDE DEF before, behind
<1>4. <<r>> \in Seq(Spans) /\ Len(<<r>>) = 1 /\ <<r>>[1] = r
  OBVIOUS
<1>5. /\ before \o <<r>> \in Seq(Spans)
      /\ Len(before \o <<r>>) = p
      /\ \A i \in 1..p : (before \o <<r>>)[i] = IF i <= p - 1 THEN s[i] ELSE r
  BY <1>1, <1>4
<1>6. PICK head : head = before \o <<r>>
  OBVIOUS
<1>7. /\ head \o behind \in Seq(Spans)
      /\ Len(head \o behind) = Len(s) + 1
      /\ \A i \in 1..(Len(s) + 1) :
           (head \o behind)[i] = IF i <= p THEN head[i] ELSE behind[i - p]
  <2>1. head \in Seq(Spans) /\ Len(head) = p /\ behind \in Seq(Spans)
        /\ Len(head) + Len(behind) = Len(s) + 1
    <3>1. head \in Seq(Spans) /\ Len(head) = p
      BY <1>5, <1>6, Zenon
    <3>2. behind \in Seq(Spans) /\ Len(behind) = Len(s) - p + 1 /\ Len(s) \in Nat
      BY <1>2
    <3>3. QED
      BY <3>1, <3>2
  <2>2. /\ head \o behind \in Seq(Spans) /\ Len(head \o behind) = Len(head) + Len(behind)
        /\ \A i \in 1..(Len(head) + Len(behind)) :
             (head \o behind)[i] = IF i <= Len(head) THEN head[i] ELSE behind[i - Len(head)]
    BY <2>1, ConcatProperties, Zenon
  <2>3. QED
    BY <2>1, <2>2, Zenon
<1>8. ASSUME NEW i \in 1..(Len(s) + 1)
      PROVE  (head \o behind)[i] = IF i < p THEN s[i] ELSE IF i = p THEN r ELSE s[i - 1]
  <2>1. CASE i <= p
    BY <1>5, <1>6, <1>7, <2>1
  <2>2. CASE ~ (i <= p)
    <3>1. i - p \in 1..(Len(s) - p + 1) /\ p + (i - p) - 1 = i - 1 /\ ~ (i < p) /\ i # p
      BY <2>2
    <3>2. (head \o behind)[i] = behind[i - p]
      BY <1>7, <2>2
    <3>3. behind[i - p] = s[i - 1]
      BY <1>2, <3>1
    <3>4. QED
      BY <3>1, <3>2, <3>3
  <2>3. QED
    BY <2>1, <2>2, Zenon
<1>9. QED
  BY <1>3, <1>6, <1>7, <1>8, Zenon

\* Two ranges of which neither ends before the other starts have a hull of the same bytes.
LEMMA HullBytes ==
  ASSUME NEW r \in Spans, NEW q \in Spans, GoodSpan(r), GoodSpan(q),
         r.start <= q.end, r.end >= q.start, size \in Nat
  PROVE  /\ Hull(q, r) \in Spans /\ GoodSpan(Hull(q, r))
         /\ Bytes(Hull(q, r)) = Bytes(q) \union Bytes(r)
<1>1. /\ r.start \in 0..MaxSize /\ r.end \in 0..MaxSize /\ q.start \in 0..MaxSize
      /\ q.end \in 0..MaxSize /\ r.start <= r.end /\ q.start <= q.end
      /\ r.end <= size /\ q.end <= size /\ MaxSize \in Nat
  BY MaxSizeAssumption DEF Spans, GoodSpan
<1>2. Hull(q, r) = [start |-> IF q.start <= r.start THEN q.start ELSE r.start,
                    end |-> IF q.end >= r.end THEN q.end ELSE r.end]
  <2>1. q.start \in Int /\ r.start \in Int /\ q.end \in Int /\ r.end \in Int
    BY <1>1
  <2>2. QED
    BY <2>1, MinOfTwo, MaxOfTwo, Zenon DEF Hull
<1>3. PICK a, e : Hull(q, r) = [start |-> a, end |-> e]
                  /\ a = (IF q.start <= r.start THEN q.start ELSE r.start)
                  /\ e = (IF q.end >= r.end THEN q.end ELSE r.end)
  BY <1>2
<1>4. a \in 0..MaxSize /\ e \in 0..MaxSize /\ a <= e /\ e <= size
  BY <1>1, <1>3
<1>5. a..(e - 1) = (q.start..(q.end - 1)) \union (r.start..(r.end - 1))
  BY <1>1, <1>3
<1>6. Hull(q, r).start = a /\ Hull(q, r).end = e
  BY <1>3
<1>7. QED
  BY <1>3, <1>4, <1>5, <1>6 DEF Spans, GoodSpan, Bytes

\* One turn of the merge: the range is among the merged ones, and nothing else has changed.
LEMMA Merged ==
  ASSUME IInv, Merge
  PROVE  /\ ranges' \in Seq(Spans) /\ \A i \in DOMAIN ranges' : GoodSpan(ranges'[i])
         /\ asked' \in Seq(Spans) /\ \A i \in DOMAIN asked' : GoodSpan(asked'[i])
         /\ BytesOf(ranges') \union BytesOf(asked') = BytesOf(ranges) \union BytesOf(asked)
<1>1. /\ ranges \in Seq(Spans) /\ size \in Nat
      /\ asked \in Seq(Spans) /\ asked # <<>> /\ asked' = Tail(asked)
      /\ \A i \in DOMAIN asked : GoodSpan(asked[i])
      /\ \A i \in DOMAIN ranges : GoodSpan(ranges[i])
  BY MaxSizeAssumption DEF IInv, TypeOK, SizeInv, Merge, Spans
<1>2. PICK r : r = Head(asked)
  OBVIOUS
<1>3. /\ r \in Spans /\ GoodSpan(r) /\ r = asked[1] /\ 1 \in DOMAIN asked
      /\ asked' \in Seq(Spans)
      /\ \A i \in DOMAIN asked' : i + 1 \in DOMAIN asked /\ asked'[i] = asked[i + 1]
      /\ \A i \in DOMAIN asked : i = 1 \/ (i - 1 \in DOMAIN asked' /\ asked[i] = asked'[i - 1])
  <2>1. /\ r = asked[1] /\ 1 \in DOMAIN asked /\ asked' \in Seq(Spans)
        /\ Len(asked') = Len(asked) - 1 /\ Len(asked) \in Nat
        /\ \A i \in 1..Len(asked') : asked'[i] = asked[i + 1]
        /\ DOMAIN asked = 1..Len(asked) /\ DOMAIN asked' = 1..Len(asked')
    BY <1>1, <1>2
  <2>2. r \in Spans /\ GoodSpan(r)
    BY <1>1, <2>1
  <2>3. \A i \in DOMAIN asked' : i + 1 \in DOMAIN asked /\ asked'[i] = asked[i + 1]
    BY <2>1
  <2>4. ASSUME NEW i \in DOMAIN asked, i # 1
        PROVE  i - 1 \in DOMAIN asked' /\ asked[i] = asked'[i - 1]
    <3>1. i - 1 \in 1..Len(asked') /\ (i - 1) + 1 = i
      BY <2>1, <2>4
    <3>2. QED
      BY <2>1, <3>1
  <2>5. QED
    BY <2>1, <2>2, <2>3, <2>4
<1>4. BytesOf(asked) = BytesOf(asked') \union Bytes(r)
  <2>1. /\ \A i \in DOMAIN asked : asked[i] = r \/ \E j \in DOMAIN asked' : asked[i] = asked'[j]
        /\ \E i \in DOMAIN asked : asked[i] = r
        /\ \A j \in DOMAIN asked' : \E i \in DOMAIN asked : asked[i] = asked'[j]
    BY <1>3
  <2>2. QED
    BY <2>1, SameBytes
<1>5. /\ ranges' \in Seq(Spans) /\ \A i \in DOMAIN ranges' : GoodSpan(ranges'[i])
      /\ BytesOf(ranges') = BytesOf(ranges) \union Bytes(r)
  <2>1. DOMAIN ranges = 1..Len(ranges) /\ Len(ranges) \in Nat
    BY <1>1
  <2>2. CASE ranges' = Append(ranges, r)
    <3>1. /\ ranges' \in Seq(Spans) /\ DOMAIN ranges' = 1..(Len(ranges) + 1)
          /\ \A i \in 1..Len(ranges) : ranges'[i] = ranges[i]
          /\ ranges'[Len(ranges) + 1] = r
      BY <1>1, <1>3, <2>2
    <3>2. /\ \A i \in DOMAIN ranges' : i \in DOMAIN ranges \/ i = Len(ranges) + 1
          /\ \A i \in DOMAIN ranges : i \in DOMAIN ranges' /\ ranges'[i] = ranges[i]
          /\ Len(ranges) + 1 \in DOMAIN ranges'
      BY <2>1, <3>1
    <3>3. \A i \in DOMAIN ranges' : GoodSpan(ranges'[i])
      BY <1>1, <1>3, <3>1, <3>2, Zenon
    <3>4. BytesOf(ranges') = BytesOf(ranges) \union Bytes(r)
      <4>1. /\ \A i \in DOMAIN ranges' :
                 ranges'[i] = r \/ \E j \in DOMAIN ranges : ranges'[i] = ranges[j]
            /\ \E i \in DOMAIN ranges' : ranges'[i] = r
            /\ \A j \in DOMAIN ranges : \E i \in DOMAIN ranges' : ranges'[i] = ranges[j]
        BY <3>1, <3>2
      <4>2. QED
        BY <4>1, SameBytes
    <3>5. QED
      BY <3>1, <3>3, <3>4
  <2>3. CASE NotBefore(r) # {} /\ ranges' # Append(ranges, r)
    <3>1. NotBefore(r) \in SUBSET Nat /\ NotBefore(r) \subseteq DOMAIN ranges
      BY <2>1 DEF NotBefore
    <3>2. \E i \in NotBefore(r) : \A j \in NotBefore(r) : i <= j
      BY <2>3, <3>1, Smallest
    <3>3. PICK p : p = Min(NotBefore(r))
      OBVIOUS
    <3>4. p \in NotBefore(r)
      BY <3>2, <3>3 DEF Min
    <3>5. /\ p \in 1..Len(ranges) /\ r.start <= ranges[p].end
          /\ ranges[p] \in Spans /\ GoodSpan(ranges[p])
      BY <1>1, <2>1, <3>1, <3>4 DEF NotBefore
    <3>6. \/ ranges' = InsertAt(ranges, p, r)
          \/ r.end >= ranges[p].start /\ ranges' = [ranges EXCEPT ![p] = Hull(@, r)]
      BY <1>2, <2>3, <3>3 DEF Merge
    <3>7. CASE ranges' = InsertAt(ranges, p, r)
      <4>1. /\ ranges' \in Seq(Spans) /\ DOMAIN ranges' = 1..(Len(ranges) + 1)
            /\ \A i \in 1..(Len(ranges) + 1) :
                 ranges'[i] = IF i < p THEN ranges[i] ELSE IF i = p THEN r ELSE ranges[i - 1]
        <5>1. /\ ranges' \in Seq(Spans) /\ Len(ranges') = Len(ranges) + 1
              /\ \A i \in 1..(Len(ranges) + 1) :
                   ranges'[i] = IF i < p THEN ranges[i] ELSE IF i = p THEN r ELSE ranges[i - 1]
          <6>1. PICK s \in Seq(Spans) : s = ranges
            BY <1>1
          <6>2. p \in 1..Len(s) /\ r \in Spans
            BY <1>3, <3>5, <6>1
          <6>3. /\ InsertAt(s, p, r) \in Seq(Spans) /\ Len(InsertAt(s, p, r)) = Len(s) + 1
                /\ \A i \in 1..(Len(s) + 1) :
                     InsertAt(s, p, r)[i] = IF i < p THEN s[i] ELSE IF i = p THEN r ELSE s[i - 1]
            BY <6>2, Inserted
          <6>4. ranges' = InsertAt(s, p, r)
            BY <3>7, <6>1
          <6>5. QED
            BY <6>1, <6>3, <6>4, Zenon
        <5>2. DOMAIN ranges' = 1..Len(ranges')
          BY <5>1
        <5>3. QED
          BY <5>1, <5>2, Zenon
      <4>2. \A i \in DOMAIN ranges' : \/ i = p /\ ranges'[i] = r
                                      \/ \E j \in DOMAIN ranges : ranges'[i] = ranges[j]
        <5>1. ASSUME NEW i \in DOMAIN ranges', i # p
              PROVE  \E j \in DOMAIN ranges : ranges'[i] = ranges[j]
          <6>1. CASE i < p
            <7>1. i \in DOMAIN ranges
              BY <2>1, <3>5, <4>1, <5>1, <6>1
            <7>2. ranges'[i] = ranges[i]
              BY <4>1, <5>1, <6>1
            <7>3. QED
              BY <7>1, <7>2
          <6>2. CASE ~ (i < p)
            <7>1. i - 1 \in DOMAIN ranges
              BY <2>1, <3>5, <4>1, <5>1, <6>2
            <7>2. ranges'[i] = ranges[i - 1]
              BY <4>1, <5>1, <6>2
            <7>3. QED
              BY <7>1, <7>2
          <6>3. QED
            BY <6>1, <6>2, Zenon
        <5>2. ranges'[p] = r
          BY <2>1, <3>5, <4>1
        <5>3. QED
          BY <5>1, <5>2, Zenon
      <4>3. p \in DOMAIN ranges' /\ ranges'[p] = r
        BY <2>1, <3>5, <4>1
      <4>4. \A j \in DOMAIN ranges : \E i \in DOMAIN ranges' : ranges'[i] = ranges[j]
        <5>1. SUFFICES ASSUME NEW j \in DOMAIN ranges
                       PROVE  \E i \in DOMAIN ranges' : ranges'[i] = ranges[j]
          OBVIOUS
        <5>2. CASE j < p
          <6>1. j \in DOMAIN ranges' /\ ranges'[j] = ranges[j]
            BY <2>1, <3>5, <4>1, <5>2
          <6>2. QED
            BY <6>1
        <5>3. CASE ~ (j < p)
          <6>1. j + 1 \in DOMAIN ranges' /\ ~ (j + 1 < p) /\ j + 1 # p /\ (j + 1) - 1 = j
            BY <2>1, <3>5, <4>1, <5>3
          <6>2. ranges'[j + 1] = ranges[j]
            BY <4>1, <6>1
          <6>3. QED
            BY <6>1, <6>2
        <5>4. QED
          BY <5>2, <5>3, Zenon
      <4>5. \A i \in DOMAIN ranges' : GoodSpan(ranges'[i])
        BY <1>1, <1>3, <4>2, Zenon
      <4>6. BytesOf(ranges') = BytesOf(ranges) \union Bytes(r)
        <5>1. /\ \A i \in DOMAIN ranges' :
                   ranges'[i] = r \/ \E j \in DOMAIN ranges : ranges'[i] = ranges[j]
              /\ \E i \in DOMAIN ranges' : ranges'[i] = r
          BY <4>2, <4>3
        <5>2. QED
          BY <4>4, <5>1, SameBytes
      <4>7. QED
        BY <4>1, <4>5, <4>6
    <3>8. CASE r.end >= ranges[p].start /\ ranges' = [ranges EXCEPT ![p] = Hull(@, r)]
      <4>1. PICK h : h = Hull(ranges[p], r)
        OBVIOUS
      <4>2. h \in Spans /\ GoodSpan(h) /\ Bytes(h) = Bytes(ranges[p]) \union Bytes(r)
        BY <1>1, <1>3, <3>5, <3>8, <4>1, HullBytes, Zenon
      <4>3. /\ ranges' \in Seq(Spans) /\ DOMAIN ranges' = DOMAIN ranges
            /\ p \in DOMAIN ranges /\ ranges'[p] = h
            /\ \A i \in DOMAIN ranges : i # p => ranges'[i] = ranges[i]
        BY <1>1, <3>5, <3>8, <4>1, <4>2
      <4>4. \A i \in DOMAIN ranges' : GoodSpan(ranges'[i])
        BY <1>1, <4>2, <4>3, Zenon
      <4>5. BytesOf(ranges') = BytesOf(ranges) \union Bytes(r)
        <5>1. ASSUME NEW b \in BytesOf(ranges')
              PROVE  b \in BytesOf(ranges) \/ b \in Bytes(r)
          <6>1. PICK i \in DOMAIN ranges' : b \in Bytes(ranges'[i])
            BY BytesAre, Zenon
          <6>2. i \in DOMAIN ranges /\ (b \in Bytes(ranges[i]) \/ b \in Bytes(r))
            BY <4>2, <4>3, <6>1
          <6>3. QED
            BY <6>2, BytesAre, Zenon
        <5>2. ASSUME NEW b \in Bytes(r)
              PROVE  b \in BytesOf(ranges')
          <6>1. p \in DOMAIN ranges' /\ b \in Bytes(ranges'[p])
            BY <4>2, <4>3
          <6>2. QED
            BY <6>1, BytesAre, Zenon
        <5>3. ASSUME NEW b \in BytesOf(ranges)
              PROVE  b \in BytesOf(ranges')
          <6>1. PICK i \in DOMAIN ranges : b \in Bytes(ranges[i])
            BY BytesAre, Zenon
          <6>2. i \in DOMAIN ranges' /\ b \in Bytes(ranges'[i])
            BY <4>2, <4>3, <6>1
          <6>3. QED
            BY <6>2, BytesAre, Zenon
        <5>4. QED
          BY <5>1, <5>2, <5>3, Zenon
      <4>6. QED
        BY <4>3, <4>4, <4>5
    <3>9. QED
      BY <3>6, <3>7, <3>8, Zenon
  <2>4. NotBefore(r) # {} \/ ranges' = Append(ranges, r)
    BY <1>2 DEF Merge
  <2>5. QED
    BY <2>2, <2>3, <2>4, Zenon
<1>6. \A i \in DOMAIN asked' : GoodSpan(asked'[i])
  BY <1>1, <1>3, Zenon
<1>7. BytesOf(ranges') \union BytesOf(asked') = BytesOf(ranges) \union BytesOf(asked)
  BY <1>4, <1>5
<1>8. QED
  BY <1>3, <1>5, <1>6, <1>7


-----------------------------------------------------------------------------
(* Steps that send nothing.                                                *)

GoodStep == IInv' /\ (Protocol!Next \/ wire' = wire)

\* What has to be sent depends on the response, the size and the ranges.
LEMMA SameWhole ==
  ASSUME resp' = resp, size' = size, ranges' = ranges
  PROVE  Whole' = Whole
BY DEF Whole, Positions

\* The protocol of messages that are not sent.
LEMMA SameWire ==
  ASSUME wire' = wire
  PROVE  /\ Protocol!Open' <=> Protocol!Open
         /\ Protocol!Complete' <=> Protocol!Complete
         /\ Protocol!LastIs({"pathsend"})' <=> Protocol!LastIs({"pathsend"})
BY DEF Protocol!Open, Protocol!Complete, Protocol!LastIs

\* The types of a state in which the file, the ranges and the response are as before.
LEMMA TypesKept ==
  ASSUME TypeOK, start' \in 0..MaxSize, part' \in Nat, wire' \in Seq(Message),
         body' \in [length : Nat, parts : Seq(Seq(0..MaxSize))],
         pc' \in {"call", "headers", "merge", "start", "last", "pathsend", "open", "read",
                  "header", "part", "background", "done", "raised"},
         UNCHANGED <<request, range, specs, file, gone, size, asked, ranges, resp>>
  PROVE  TypeOK'
BY DEF TypeOK

\* A step that raises leaves what was sent as it is.
LEMMA Broken ==
  ASSUME IInv, pc' = "raised", start' \in 0..MaxSize, part' \in Nat,
         UNCHANGED <<request, range, specs, file, gone, size, asked, ranges, resp, body, wire>>
  PROVE  GoodStep
<1>1. TypeOK /\ SizeInv /\ ChoiceInv /\ WireInv /\ MergeInv /\ WholeInv
  BY DEF IInv
<1>2. TypeOK'
  BY <1>1, TypesKept DEF TypeOK
<1>3. SizeInv'
  BY <1>1 DEF SizeInv, GoodSpan
<1>4. ChoiceInv'
  BY <1>1 DEF ChoiceInv
<1>5. WireInv' /\ MergeInv' /\ ReadInv' /\ PartsInv'
  BY DEF WireInv, MergeInv, MergeKeepsBytes, ReadInv, PartsInv
<1>6. WholeInv'
  BY <1>1, SameWhole DEF WholeInv, Begins
<1>7. QED
  BY <1>2, <1>3, <1>4, <1>5, <1>6 DEF IInv, GoodStep

\* Another process changes the file, the client leaves, or the call is over.
LEMMA OutsideStep ==
  ASSUME IInv, FileChanges \/ ClientLeaves \/ Over \/ UNCHANGED vars
  PROVE  GoodStep
<1>1. TypeOK /\ SizeInv /\ ChoiceInv /\ WireInv /\ MergeInv /\ ReadInv /\ PartsInv /\ WholeInv
  BY DEF IInv
<1>2. /\ UNCHANGED <<request, range, specs, size, pc, asked, ranges, resp, part, start, body, wire>>
      /\ gone' \in BOOLEAN
      /\ \/ file' = file
         \/ /\ file' \in [length : 0..MaxSize, there : BOOLEAN, changes : 0..request.max_changes]
            /\ file'.changes # 0
  <2>1. CASE FileChanges
    <3>1. file.changes + 1 \in 0..request.max_changes /\ file.changes + 1 # 0
      <4>1. request \in Requests /\ file.changes \in 0..request.max_changes
        BY <1>1 DEF TypeOK
      <4>2. request.max_changes \in Nat
        BY <4>1, RequestsAssumption
      <4>3. file.changes < request.max_changes
        BY <2>1 DEF FileChanges
      <4>4. QED
        BY <4>1, <4>2, <4>3
    <3>2. QED
      BY <1>1, <2>1, <3>1 DEF FileChanges, TypeOK
  <2>2. CASE ClientLeaves
    BY <2>2 DEF ClientLeaves
  <2>3. CASE Over \/ UNCHANGED vars
    BY <1>1, <2>3 DEF Over, vars, TypeOK
  <2>4. QED
    BY <2>1, <2>2, <2>3
<1>3. TypeOK'
  BY <1>1, <1>2 DEF TypeOK
<1>4. SizeInv'
  BY <1>1, <1>2 DEF SizeInv, GoodSpan
<1>5. ChoiceInv'
  BY <1>1, <1>2 DEF ChoiceInv
<1>6. WireInv'
  BY <1>1, <1>2, SameWire DEF WireInv
<1>7. MergeInv'
  BY <1>1, <1>2 DEF MergeInv, MergeKeepsBytes, BytesOf, Parsed, RangeOf
<1>8. ReadInv'
  BY <1>1, <1>2 DEF ReadInv, Base, Stretch, Positions
<1>9. PartsInv'
  BY <1>1, <1>2 DEF PartsInv, Stretch, Positions
<1>10. WholeInv'
  BY <1>1, <1>2, SameWhole, SameWire DEF WholeInv, Begins
<1>11. QED
  BY <1>2, <1>3, <1>4, <1>5, <1>6, <1>7, <1>8, <1>9, <1>10 DEF IInv, GoodStep

LEMMA StatStep ==
  ASSUME IInv, Stat
  PROVE  GoodStep
<1>1. TypeOK /\ SizeInv /\ ChoiceInv /\ WireInv /\ MergeInv /\ ReadInv /\ PartsInv /\ WholeInv
  BY DEF IInv
<1>2. /\ pc = "call"
      /\ UNCHANGED <<request, range, specs, file, gone, asked, ranges, resp, part, start, body, wire>>
  BY DEF Stat
<1>3. CASE pc' = "raised"
  <2>1. UNCHANGED size /\ start' \in 0..MaxSize /\ part' \in Nat
    BY <1>1, <1>2, <1>3 DEF Stat, TypeOK
  <2>2. QED
    BY <1>2, <1>3, <2>1, Broken
<1>4. CASE pc' # "raised"
  <2>1. /\ pc' = "headers" /\ size' \in 0..MaxSize
        /\ file.changes = 0 => size' = file.length
    BY <1>1, <1>2, <1>4 DEF Stat, TypeOK, SizeInv
  <2>2. /\ ranges = <<>> /\ asked = <<>> /\ start = 0 /\ resp.kind = "none"
        /\ body.parts = <<>> /\ part = 1 /\ wire = <<>>
    BY <1>1, <1>2 DEF ChoiceInv, ReadInv, WireInv
  <2>3. TypeOK'
    BY <1>1, <1>2, <2>1 DEF TypeOK
  <2>4. SizeInv'
    BY <1>1, <1>2, <2>1, <2>2 DEF SizeInv, GoodSpan
  <2>5. ChoiceInv' /\ WireInv' /\ MergeInv' /\ PartsInv' /\ ReadInv'
    BY <1>2, <2>1, <2>2 DEF ChoiceInv, WireInv, MergeInv, MergeKeepsBytes, PartsInv, ReadInv
  <2>6. WholeInv'
    <3>1. Begins(<<>>, Whole')
      <4>1. Len(Whole') \in Nat
        BY <1>2, <2>2 DEF Whole
      <4>2. QED
        BY <4>1 DEF Begins
    <3>2. QED
      BY <1>1, <1>2, <2>1, <2>2, <3>1 DEF WholeInv
  <2>7. QED
    BY <1>2, <2>3, <2>4, <2>5, <2>6 DEF IInv, GoodStep
<1>5. QED
  BY <1>3, <1>4

LEMMA SpanFacts ==
  ASSUME NEW r \in Spans, GoodSpan(r)
  PROVE  /\ r.start \in 0..MaxSize /\ r.end \in 0..MaxSize
         /\ r.start <= r.end /\ r.end <= size
BY DEF Spans, GoodSpan

\* A response is chosen that fits the ranges; nothing was sent yet.
LEMMA ChoiceMade ==
  ASSUME IInv, pc \in {"headers", "merge"}, pc' = "start",
         UNCHANGED <<request, range, specs, file, gone, size, part, body, wire>>,
         resp' \in [kind : {"simple", "error", "single", "multi"}, length : Nat],
         ranges' \in Seq(Spans), \A i \in DOMAIN ranges' : GoodSpan(ranges'[i]),
         asked' \in Seq(Spans), \A i \in DOMAIN asked' : GoodSpan(asked'[i]),
         start' \in 0..MaxSize,
         resp'.kind = "simple" => resp'.length = size /\ start' = 0,
         resp'.kind = "error" => ranges' = <<>>,
         resp'.kind = "single" =>
           Len(ranges') = 1 /\ resp'.length = ranges'[1].end - ranges'[1].start
           /\ start' = ranges'[1].start,
         resp'.kind \in {"single", "multi"} => BytesOf(ranges') = BytesOf(Parsed)
  PROVE  GoodStep
<1>1. TypeOK /\ SizeInv /\ ChoiceInv /\ WireInv /\ MergeInv /\ ReadInv /\ PartsInv /\ WholeInv
  BY DEF IInv
<1>2. body.parts = <<>> /\ part = 1 /\ wire = <<>> /\ resp.kind = "none"
  BY <1>1 DEF ChoiceInv, ReadInv, WireInv
<1>3. TypeOK'
  <2>1. asked' \in Seq(ByteRange)
    <3>1. Spans \subseteq ByteRange
      BY MaxSizeAssumption DEF Spans, ByteRange
    <3>2. QED
      BY <3>1
  <2>2. resp' \in [kind : Kinds, length : Nat]
    BY DEF Kinds
  <2>3. QED
    BY <1>1, <2>1, <2>2 DEF TypeOK, Spans
<1>4. SizeInv'
  BY <1>1 DEF SizeInv, GoodSpan
<1>5. ChoiceInv'
  BY DEF ChoiceInv
<1>6. WireInv'
  BY <1>2 DEF WireInv
<1>7. MergeInv'
  BY DEF MergeInv, MergeKeepsBytes, BytesOf, Parsed, RangeOf
<1>8. ReadInv' /\ PartsInv'
  BY <1>2 DEF ReadInv, PartsInv
<1>9. WholeInv'
  <2>1. Begins(<<>>, Whole')
    <3>1. Len(Whole') \in Nat
      BY DEF Whole
    <3>2. QED
      BY <3>1 DEF Begins
  <2>2. body'.parts = <<>> /\ body'.length = 0
    BY <1>1, <1>2 DEF WholeInv
  <2>3. QED
    BY <2>1, <2>2 DEF WholeInv
<1>10. QED
  BY <1>3, <1>4, <1>5, <1>6, <1>7, <1>8, <1>9 DEF IInv, GoodStep

LEMMA ChooseStep ==
  ASSUME IInv, Choose
  PROVE  GoodStep
<1>1. TypeOK /\ SizeInv /\ ChoiceInv /\ WireInv /\ MergeInv /\ ReadInv /\ PartsInv /\ WholeInv
  BY DEF IInv
<1>2. /\ pc = "headers"
      /\ UNCHANGED <<request, range, specs, file, gone, size, body, wire>>
  BY DEF Choose
<1>3. /\ ranges = <<>> /\ asked = <<>> /\ start = 0 /\ resp.kind = "none" /\ part = 1
      /\ body.parts = <<>> /\ wire = <<>> /\ size \in 0..MaxSize /\ MaxSize \in Nat
  BY <1>1, <1>2, MaxSizeAssumption DEF ChoiceInv, ReadInv, WireInv, TypeOK
<1>4. CASE Chosen("simple", size) /\ UNCHANGED <<asked, ranges, part, start>>
  <2>1. /\ pc' = "start" /\ resp'.kind = "simple" /\ resp'.length = size
        /\ resp' \in [kind : {"simple", "error", "single", "multi"}, length : Nat]
        /\ ranges' = <<>> /\ asked' = <<>> /\ start' = 0 /\ part' = part
    BY <1>3, <1>4 DEF Chosen
  <2>2. QED
    BY <1>2, <1>3, <2>1, ChoiceMade
<1>5. CASE Chosen("error", 0) /\ UNCHANGED <<asked, ranges, part, start>>
  <2>1. /\ pc' = "start" /\ resp'.kind = "error"
        /\ resp' \in [kind : {"simple", "error", "single", "multi"}, length : Nat]
        /\ ranges' = <<>> /\ asked' = <<>> /\ start' = 0 /\ part' = part
    BY <1>3, <1>5 DEF Chosen
  <2>2. QED
    BY <1>2, <1>3, <2>1, ChoiceMade
<1>6. CASE /\ Verdict = "ranges" /\ Len(Parsed) = 1
           /\ ranges' = Parsed
           /\ start' = Parsed[1].start
           /\ Chosen("single", Parsed[1].end - Parsed[1].start)
           /\ UNCHANGED <<asked, part>>
  <2>1. Parsed \in Seq(Spans) /\ \A i \in DOMAIN Parsed : GoodSpan(Parsed[i])
    BY <1>1, <1>6, ParsedGood
  <2>2. PICK ps : ps = Parsed
    OBVIOUS
  <2>3. /\ ps \in Seq(Spans) /\ Len(ps) = 1 /\ \A i \in DOMAIN ps : GoodSpan(ps[i])
        /\ ranges' = ps /\ start' = ps[1].start
        /\ Chosen("single", ps[1].end - ps[1].start)
    BY <1>6, <2>1, <2>2, Zenon
  <2>4. /\ ps[1] \in Spans /\ ps[1].start <= ps[1].end
        /\ ps[1].start \in 0..MaxSize /\ ps[1].end \in 0..MaxSize
    <3>1. 1 \in DOMAIN ps
      <4>1. \A s \in Seq(Spans) : DOMAIN s = 1..Len(s)
        OBVIOUS
      <4>2. QED
        BY <2>3, <4>1
    <3>2. ps[1] \in Spans /\ GoodSpan(ps[1])
      <4>1. \A s \in Seq(Spans) : \A i \in DOMAIN s : s[i] \in Spans
        OBVIOUS
      <4>2. QED
        BY <2>3, <3>1, <4>1, Zenon
    <3>3. QED
      BY <3>2, SpanFacts
  <2>5. ps[1].end - ps[1].start \in Nat
    BY <1>3, <2>4
  <2>6. /\ pc' = "start" /\ resp'.kind = "single" /\ resp'.length = ps[1].end - ps[1].start
        /\ resp' \in [kind : {"simple", "error", "single", "multi"}, length : Nat]
    BY <2>3, <2>5 DEF Chosen
  <2>7. asked' = <<>> /\ part' = part /\ start' \in 0..MaxSize
    BY <1>3, <1>6, <2>3, <2>4
  <2>8. BytesOf(ranges') = BytesOf(Parsed)
    BY <1>6
  <2>9. QED
    BY <1>2, <2>3, <2>6, <2>7, <2>8, ChoiceMade
<1>7. CASE /\ Verdict = "ranges"
           /\ asked' = Parsed
           /\ pc' = "merge"
           /\ UNCHANGED <<ranges, resp, part, start>>
  <2>1. asked' \in Seq(Spans) /\ \A i \in DOMAIN asked' : GoodSpan(asked'[i])
    BY <1>1, <1>7, ParsedGood
  <2>2. TypeOK'
    <3>1. asked' \in Seq(ByteRange)
      <4>1. Spans \subseteq ByteRange
        BY MaxSizeAssumption DEF Spans, ByteRange
      <4>2. QED
        BY <2>1, <4>1
    <3>2. QED
      BY <1>1, <1>2, <1>7, <3>1 DEF TypeOK
  <2>3. SizeInv'
    BY <1>1, <1>2, <1>3, <1>7, <2>1 DEF SizeInv, GoodSpan
  <2>4. ChoiceInv' /\ WireInv' /\ ReadInv' /\ PartsInv'
    BY <1>2, <1>3, <1>7 DEF ChoiceInv, WireInv, ReadInv, PartsInv
  <2>5. MergeInv'
    <3>1. BytesOf(<<>>) = {}
      BY DEF BytesOf
    <3>2. BytesOf(ranges)' = {} /\ BytesOf(asked)' = BytesOf(Parsed)
      BY <1>3, <1>7, <3>1 DEF BytesOf
    <3>3. BytesOf(Parsed)' = BytesOf(Parsed)
      BY <1>2 DEF BytesOf, Parsed, RangeOf
    <3>4. QED
      BY <1>7, <3>2, <3>3 DEF MergeInv, MergeKeepsBytes
  <2>6. WholeInv'
    BY <1>1, <1>2, <1>7, SameWhole DEF WholeInv, Begins
  <2>7. QED
    BY <1>2, <2>2, <2>3, <2>4, <2>5, <2>6 DEF IInv, GoodStep
<1>8. QED
  BY <1>4, <1>5, <1>6, <1>7 DEF Choose

LEMMA MergeStep ==
  ASSUME IInv, Merge
  PROVE  GoodStep
<1>1. TypeOK /\ SizeInv /\ ChoiceInv /\ WireInv /\ MergeInv /\ ReadInv /\ PartsInv /\ WholeInv
  BY DEF IInv
<1>2. /\ pc = "merge"
      /\ UNCHANGED <<request, range, specs, file, gone, size, pc, resp, part, start, body, wire>>
  BY DEF Merge
<1>3. /\ ranges' \in Seq(Spans) /\ \A i \in DOMAIN ranges' : GoodSpan(ranges'[i])
      /\ asked' \in Seq(Spans) /\ \A i \in DOMAIN asked' : GoodSpan(asked'[i])
      /\ BytesOf(ranges') \union BytesOf(asked') = BytesOf(ranges) \union BytesOf(asked)
  BY Merged
<1>4. body.parts = <<>> /\ part = 1 /\ wire = <<>> /\ resp.kind = "none" /\ start = 0
  BY <1>1, <1>2 DEF ChoiceInv, ReadInv, WireInv
<1>5. TypeOK'
  <2>1. asked' \in Seq(ByteRange)
    <3>1. Spans \subseteq ByteRange
      BY MaxSizeAssumption DEF Spans, ByteRange
    <3>2. QED
      BY <1>3, <3>1
  <2>2. QED
    BY <1>1, <1>2, <1>3, <2>1 DEF TypeOK, Spans
<1>6. SizeInv'
  BY <1>1, <1>2, <1>3 DEF SizeInv, GoodSpan
<1>7. ChoiceInv' /\ WireInv' /\ ReadInv' /\ PartsInv'
  BY <1>2, <1>4 DEF ChoiceInv, WireInv, ReadInv, PartsInv
<1>8. MergeInv'
  <2>1. BytesOf(Parsed)' = BytesOf(Parsed)
    BY <1>2 DEF BytesOf, Parsed, RangeOf
  <2>2. BytesOf(ranges) \union BytesOf(asked) = BytesOf(Parsed)
    BY <1>1, <1>2 DEF MergeInv
  <2>3. BytesOf(ranges)' = BytesOf(ranges') /\ BytesOf(asked)' = BytesOf(asked')
    BY DEF BytesOf
  <2>4. QED
    BY <1>2, <1>3, <2>1, <2>2, <2>3 DEF MergeInv, MergeKeepsBytes
<1>9. WholeInv'
  <2>1. Begins(<<>>, Whole')
    <3>1. Len(Whole') \in Nat
      BY <1>2, <1>3, <1>4 DEF Whole
    <3>2. QED
      BY <3>1 DEF Begins
  <2>2. body'.parts = <<>> /\ body'.length = 0
    BY <1>1, <1>2, <1>4 DEF WholeInv
  <2>3. QED
    BY <1>2, <2>1, <2>2 DEF WholeInv
<1>10. QED
  BY <1>2, <1>5, <1>6, <1>7, <1>8, <1>9 DEF IInv, GoodStep

LEMMA ChooseMergedStep ==
  ASSUME IInv, ChooseMerged
  PROVE  GoodStep
<1>1. TypeOK /\ SizeInv /\ ChoiceInv /\ WireInv /\ MergeInv /\ ReadInv /\ PartsInv /\ WholeInv
  BY DEF IInv
<1>2. /\ pc = "merge" /\ asked = <<>>
      /\ UNCHANGED <<request, range, specs, file, gone, size, asked, ranges, part, body, wire>>
  BY DEF ChooseMerged
<1>3. /\ start = 0 /\ MaxSize \in Nat /\ size \in 0..MaxSize
      /\ ranges \in Seq(Spans) /\ \A i \in DOMAIN ranges : GoodSpan(ranges[i])
  BY <1>1, <1>2, MaxSizeAssumption DEF ChoiceInv, TypeOK, SizeInv, Spans
<1>4. \A i \in DOMAIN ranges :
        /\ ranges[i].start \in 0..MaxSize /\ ranges[i].end \in 0..MaxSize
        /\ ranges[i].start <= ranges[i].end
  <2>1. \A i \in DOMAIN ranges : ranges[i] \in Spans /\ GoodSpan(ranges[i])
    BY <1>3
  <2>2. QED
    BY <2>1, SpanFacts
<1>5. BytesOf(ranges') = BytesOf(Parsed)
  <2>1. BytesOf(<<>>) = {}
    BY DEF BytesOf
  <2>2. BytesOf(ranges) \union BytesOf(asked) = BytesOf(Parsed)
    BY <1>1, <1>2 DEF MergeInv
  <2>3. QED
    BY <1>2, <2>1, <2>2
<1>6. CASE Len(ranges) = 1
  <2>1. ranges[1].end - ranges[1].start \in Nat /\ ranges[1].start \in 0..MaxSize
    BY <1>3, <1>4, <1>6
  <2>2. Chosen("single", ranges[1].end - ranges[1].start) /\ start' = ranges[1].start
    BY <1>6 DEF ChooseMerged
  <2>3. PICK n \in Nat : n = ranges[1].end - ranges[1].start
    BY <2>1
  <2>4. /\ pc' = "start" /\ resp'.kind = "single" /\ resp'.length = n
        /\ resp' \in [kind : {"simple", "error", "single", "multi"}, length : Nat]
    BY <2>2, <2>3 DEF Chosen
  <2>5. /\ Len(ranges') = 1 /\ resp'.length = ranges'[1].end - ranges'[1].start
        /\ start' = ranges'[1].start /\ start' \in 0..MaxSize
    BY <1>2, <1>6, <2>1, <2>2, <2>3, <2>4
  <2>6. /\ ranges' \in Seq(Spans) /\ \A i \in DOMAIN ranges' : GoodSpan(ranges'[i])
        /\ asked' = <<>>
    BY <1>2, <1>3
  <2>7. QED
    BY <1>2, <1>5, <2>4, <2>5, <2>6, ChoiceMade
<1>7. CASE Len(ranges) # 1
  <2>1. MultipartLength \in Nat
    <3>1. ASSUME NEW n PROVE Digits(n) \in Nat
      BY DEF Digits
    <3>2. ASSUME NEW i \in DOMAIN ranges PROVE PartLength(ranges[i]) \in Nat
      <4>1. ranges[i].end - ranges[i].start \in Nat
        BY <1>3, <1>4
      <4>2. PICK a \in Nat, b \in Nat, c \in Nat, d \in Nat :
              /\ a = Digits(ranges[i].start) /\ b = Digits(ranges[i].end - 1)
              /\ c = Digits(size) /\ d = ranges[i].end - ranges[i].start
        BY <3>1, <4>1
      <4>3. PartLength(ranges[i]) = a + b + 44 + 26 + 25 + c + d
        BY <4>2 DEF PartLength, BoundaryLen, ContentTypeLen
      <4>4. QED
        BY <4>3
    <3> DEFINE lengths == [i \in DOMAIN ranges |-> PartLength(ranges[i])]
    <3>3. lengths \in Seq(Nat)
      <4>1. DOMAIN ranges = 1..Len(ranges) /\ Len(ranges) \in Nat
        BY <1>3
      <4>2. QED
        BY <3>2, <4>1
    <3>4. Total(lengths) \in Nat
      <4> HIDE DEF lengths
      <4>1. QED
        BY <3>3, Totals
    <3>5. QED
      BY <3>4 DEF MultipartLength, BoundaryLen
  <2>2. Chosen("multi", MultipartLength) /\ start' = 0
    BY <1>3, <1>7 DEF ChooseMerged
  <2>3. PICK n \in Nat : n = MultipartLength
    BY <2>1
  <2>4. /\ pc' = "start" /\ resp'.kind = "multi"
        /\ resp' \in [kind : {"simple", "error", "single", "multi"}, length : Nat]
    BY <2>2, <2>3 DEF Chosen
  <2>5. /\ ranges' \in Seq(Spans) /\ \A i \in DOMAIN ranges' : GoodSpan(ranges'[i])
        /\ asked' = <<>> /\ start' \in 0..MaxSize
    BY <1>2, <1>3, <2>2
  <2>6. QED
    BY <1>2, <1>5, <2>4, <2>5, ChoiceMade
<1>8. QED
  BY <1>6, <1>7

-----------------------------------------------------------------------------
(* Messages without bytes of the file.                                     *)

\* The server has one more message, which was its turn.
LEMMA Sent ==
  ASSUME wire \in Seq(Message), NEW m \in Message, wire' = Append(wire, m)
  PROVE  /\ wire' \in Seq(Message) /\ wire' # <<>> /\ wire'[Len(wire')] = m
         /\ Protocol!Open' <=> (m.type = "start" \/ (m.type = "body" /\ m.more_body))
         /\ Protocol!Complete' <=> (m.type = "pathsend" \/ (m.type = "body" /\ ~m.more_body))
         /\ Protocol!LastIs({"pathsend"})' <=> m.type = "pathsend"
         /\ (m.type = "start" /\ wire = <<>>) \/ (m.type # "start" /\ Protocol!Open)
              => Protocol!Next
<1>1. /\ wire' \in Seq(Message) /\ wire' # <<>> /\ Len(wire') = Len(wire) + 1
      /\ wire'[Len(wire')] = m /\ wire'[Len(wire) + 1] = m
  OBVIOUS
<1>2. m.type \in {"start", "body", "pathsend"} /\ m.more_body \in BOOLEAN
  BY DEF Message
<1>3. ASSUME NEW types PROVE Protocol!LastIs(types)' <=> m.type \in types
  BY <1>1 DEF Protocol!LastIs
<1>4. /\ Protocol!Open' <=> (m.type = "start" \/ (m.type = "body" /\ m.more_body))
      /\ Protocol!Complete' <=> (m.type = "pathsend" \/ (m.type = "body" /\ ~m.more_body))
      /\ Protocol!LastIs({"pathsend"})' <=> m.type = "pathsend"
  BY <1>1, <1>2 DEF Protocol!Open, Protocol!Complete, Protocol!LastIs
<1>5. (m.type = "start" /\ wire = <<>>) \/ (m.type # "start" /\ Protocol!Open) => Protocol!Next
  BY <1>1, <1>2 DEF Protocol!Next, Protocol!SendStart, Protocol!SendBody, Protocol!Sends
<1>6. QED
  BY <1>1, <1>4, <1>5

\* What a message changes: nothing of the file, the ranges and the choice.
LEMMA SendKeeps ==
  ASSUME IInv, NEW m \in Message, wire' = Append(wire, m),
         pc \notin {"call", "raised"},
         pc' \in {"last", "pathsend", "open", "read", "header", "part", "background", "done"},
         start' \in 0..MaxSize, part' \in Nat,
         body' \in [length : Nat, parts : Seq(Seq(0..MaxSize))],
         UNCHANGED <<request, range, specs, file, gone, size, asked, ranges, resp>>
  PROVE  TypeOK' /\ SizeInv' /\ MergeInv'
<1>1. TypeOK /\ SizeInv
  BY DEF IInv
<1>2. wire' \in Seq(Message)
  BY <1>1 DEF TypeOK
<1>3. TypeOK'
  BY <1>1, <1>2, TypesKept
<1>4. SizeInv'
  BY <1>1 DEF SizeInv, GoodSpan
<1>5. MergeInv'
  BY DEF MergeInv, MergeKeepsBytes
<1>6. QED
  BY <1>3, <1>4, <1>5

\* A message that was sent has its bytes counted.
LEMMA BodyOf ==
  ASSUME TypeOK, NEW m \in Message, NEW parts \in Seq(Seq(0..MaxSize)),
         body' = [length |-> body.length + Len(m.data) + m.framing, parts |-> parts]
  PROVE  /\ body' \in [length : Nat, parts : Seq(Seq(0..MaxSize))]
         /\ body'.parts = parts /\ body'.length = body.length + Len(m.data) + m.framing
<1>1. /\ body.length \in Nat /\ m.framing \in Nat /\ m.data \in Seq(0..MaxSize)
  BY DEF TypeOK, Message
<1>2. Len(m.data) \in Nat
  BY <1>1
<1>3. QED
  BY <1>1, <1>2

LEMMA SendStartStep ==
  ASSUME IInv, SendStart
  PROVE  GoodStep
<1>1. TypeOK /\ SizeInv /\ ChoiceInv /\ WireInv /\ MergeInv /\ ReadInv /\ PartsInv /\ WholeInv
  BY DEF IInv
<1>2. /\ pc = "start"
      /\ UNCHANGED <<request, range, specs, file, gone, size, asked, ranges, resp, part, start>>
  BY DEF SendStart
<1>3. /\ wire = <<>> /\ body.parts = <<>> /\ part = 1 /\ resp.kind # "none"
      /\ start' \in 0..MaxSize /\ part' \in Nat /\ resp.kind \in Kinds
  BY <1>1, <1>2 DEF WireInv, ReadInv, ChoiceInv, TypeOK
<1>4. PICK m : m = M("start", TRUE, <<>>, 0)
  OBVIOUS
<1>5. m \in Message /\ m.type = "start" /\ m.data = <<>> /\ m.framing = 0
  <2>1. <<>> \in Seq(0..MaxSize)
    OBVIOUS
  <2>2. QED
    BY <1>4, <2>1 DEF M, Message
<1>6. CASE pc' = "raised" /\ UNCHANGED <<body, wire>>
  BY <1>2, <1>3, <1>6, Broken
<1>7. CASE /\ wire' = Append(wire, m)
           /\ pc' = IF resp.kind = "error" \/ request.method = "HEAD" THEN "last"
                    ELSE IF resp.kind = "simple" /\ request.pathsend THEN "pathsend" ELSE "open"
           /\ body' = [length |-> body.length + Len(m.data) + m.framing, parts |-> <<>>]
  <2>1. /\ wire' # <<>> /\ wire'[Len(wire')] = m /\ Protocol!Open' /\ Protocol!Next
        /\ ~ Protocol!LastIs({"pathsend"})'
    BY <1>1, <1>3, <1>5, <1>7, Sent DEF TypeOK
  <2>2. /\ body' \in [length : Nat, parts : Seq(Seq(0..MaxSize))]
        /\ body'.parts = <<>> /\ body'.length = body.length
    <3>1. <<>> \in Seq(Seq(0..MaxSize)) /\ Len(<<>>) = 0 /\ body.length \in Nat
      BY <1>1 DEF TypeOK
    <3>2. QED
      BY <1>1, <1>5, <1>7, <3>1, BodyOf
  <2>3. pc' \in {"last", "pathsend", "open"}
    BY <1>7
  <2>4. TypeOK' /\ SizeInv' /\ MergeInv'
    BY <1>2, <1>3, <1>5, <1>7, <2>2, <2>3, SendKeeps
  <2>5. ChoiceInv'
    BY <1>1, <1>2, <1>3, <1>7, <2>3 DEF ChoiceInv
  <2>6. WireInv'
    BY <1>5, <2>1, <2>3 DEF WireInv
  <2>7. ReadInv'
    BY <1>1, <1>2, <1>3, <2>2, <2>3 DEF ReadInv
  <2>8. PartsInv'
    BY <2>3 DEF PartsInv
  <2>9. WholeInv'
    BY <1>1, <1>2, <1>3, <2>2, <2>3, SameWhole DEF WholeInv, Begins
  <2>10. QED
    BY <2>1, <2>4, <2>5, <2>6, <2>7, <2>8, <2>9 DEF IInv, GoodStep
<1>8. QED
  BY <1>4, <1>6, <1>7 DEF SendStart, Send

\* The end of a response that sends no bytes of the file.
LEMMA LastSent ==
  ASSUME IInv, NEW m \in Message, m.data = <<>>, m.framing = 0,
         pc \in {"last", "pathsend"}, wire' = Append(wire, m),
         m.type = "pathsend" \/ (m.type = "body" /\ ~ m.more_body),
         pc' \in {"background", "done"}, resp.kind = "error" => pc' = "done",
         m.type = "pathsend" \/ resp.kind = "error" \/ request.method = "HEAD",
         body' = [length |-> body.length + Len(m.data) + m.framing, parts |-> <<>>],
         UNCHANGED <<request, range, specs, file, gone, size, asked, ranges, resp, part, start>>
  PROVE  GoodStep
<1>1. TypeOK /\ SizeInv /\ ChoiceInv /\ WireInv /\ MergeInv /\ ReadInv /\ PartsInv /\ WholeInv
  BY DEF IInv
<1>2. /\ body.parts = <<>> /\ resp.kind # "none" /\ Protocol!Open
      /\ start' \in 0..MaxSize /\ part' \in Nat
      /\ resp.kind = "error" => ranges = <<>>
  BY <1>1 DEF WireInv, ReadInv, ChoiceInv, TypeOK
<1>3. /\ Protocol!Complete' /\ Protocol!Next
      /\ Protocol!LastIs({"pathsend"})' <=> m.type = "pathsend"
  BY <1>1, <1>2, Sent DEF TypeOK
<1>4. /\ body' \in [length : Nat, parts : Seq(Seq(0..MaxSize))]
      /\ body'.parts = <<>> /\ body'.length = body.length
  <2>1. <<>> \in Seq(Seq(0..MaxSize)) /\ Len(<<>>) = 0 /\ body.length \in Nat
    BY <1>1 DEF TypeOK
  <2>2. PICK parts \in Seq(Seq(0..MaxSize)) : parts = <<>>
    BY <2>1
  <2>3. body' = [length |-> body.length + Len(m.data) + m.framing, parts |-> parts]
    BY <2>2
  <2>4. /\ body' \in [length : Nat, parts : Seq(Seq(0..MaxSize))]
        /\ body'.parts = parts /\ body'.length = body.length + Len(m.data) + m.framing
    BY <1>1, <2>3, BodyOf
  <2>5. QED
    BY <2>1, <2>2, <2>4
<1>5. TypeOK' /\ SizeInv' /\ MergeInv'
  BY <1>2, <1>4, SendKeeps
<1>6. ChoiceInv'
  BY <1>1, <1>2 DEF ChoiceInv
<1>7. WireInv'
  BY <1>3 DEF WireInv
<1>8. ReadInv' /\ PartsInv'
  BY DEF ReadInv, PartsInv
<1>9. WholeInv'
  <2>1. Whole' = Whole
    BY SameWhole
  <2>2. resp.kind = "error" => Whole = <<>>
    <3>1. SUFFICES ASSUME resp.kind = "error"
                   PROVE  Whole = <<>>
      OBVIOUS
    <3>2. Whole = [i \in DOMAIN ranges |-> Positions(ranges[i])]
      BY <3>1 DEF Whole
    <3>3. DOMAIN ranges = 1..0
      BY <1>2, <3>1
    <3>4. Whole = [i \in 1..0 |-> Positions(ranges[i])]
      BY <3>2, <3>3, Zenon
    <3>5. QED
      BY <3>4
  <2>3. m.type = "pathsend" \/ request.method # "GET" \/ Whole' = <<>>
    BY <2>1, <2>2
  <2>4. resp.kind \in {"single", "multi"} \/ file.changes = 0 => Begins(body'.parts, Whole')
    BY <1>1, <1>2, <1>4, <2>1 DEF WholeInv
  <2>5. resp.kind # "multi" => body'.length = 0
    BY <1>1, <1>2, <1>4 DEF WholeInv
  <2>6. QED
    BY <1>3, <1>4, <2>3, <2>4, <2>5 DEF WholeInv
<1>10. QED
  BY <1>3, <1>5, <1>6, <1>7, <1>8, <1>9 DEF IInv, GoodStep

LEMMA SendLastStep ==
  ASSUME IInv, SendLast \/ SendPath
  PROVE  GoodStep
<1>1. TypeOK /\ ChoiceInv
  BY DEF IInv
<1>2. UNCHANGED <<request, range, specs, file, gone, size, asked, ranges, resp, part, start>>
  BY DEF SendLast, SendPath
<1>3. <<>> \in Seq(0..MaxSize) /\ start' \in 0..MaxSize /\ part' \in Nat
  BY <1>1, <1>2 DEF TypeOK
<1>4. CASE pc' = "raised" /\ UNCHANGED <<body, wire>>
  BY <1>2, <1>3, <1>4, Broken
<1>5. CASE SendLast /\ ~ (pc' = "raised" /\ UNCHANGED <<body, wire>>)
  <2>1. PICK m : m = M("body", FALSE, <<>>, 0)
    OBVIOUS
  <2>2. m \in Message /\ m.type = "body" /\ ~ m.more_body /\ m.data = <<>> /\ m.framing = 0
    BY <1>3, <2>1 DEF M, Message
  <2>3. /\ pc = "last" /\ wire' = Append(wire, m)
        /\ pc' = (IF resp.kind = "error" THEN "done" ELSE "background")
        /\ body' = [length |-> body.length + Len(m.data) + m.framing, parts |-> <<>>]
    BY <1>5, <2>1 DEF SendLast, Send
  <2>4. resp.kind = "error" \/ request.method = "HEAD"
    BY <1>1, <2>3 DEF ChoiceInv
  <2>5. QED
    BY <1>2, <2>2, <2>3, <2>4, LastSent
<1>6. CASE SendPath /\ ~ (pc' = "raised" /\ UNCHANGED <<body, wire>>)
  <2>1. PICK m : m = M("pathsend", FALSE, <<>>, 0)
    OBVIOUS
  <2>2. m \in Message /\ m.type = "pathsend" /\ m.data = <<>> /\ m.framing = 0
    BY <1>3, <2>1 DEF M, Message
  <2>3. /\ pc = "pathsend" /\ wire' = Append(wire, m) /\ pc' = "background"
        /\ body' = [length |-> body.length + Len(m.data) + m.framing, parts |-> <<>>]
    BY <1>6, <2>1 DEF SendPath, Send
  <2>4. resp.kind = "simple"
    BY <1>1, <2>3 DEF ChoiceInv
  <2>5. QED
    BY <1>2, <2>2, <2>3, <2>4, LastSent
<1>7. QED
  BY <1>4, <1>5, <1>6

LEMMA BackgroundStep ==
  ASSUME IInv, Background
  PROVE  GoodStep
<1>1. TypeOK /\ SizeInv /\ ChoiceInv /\ WireInv /\ MergeInv /\ ReadInv /\ PartsInv /\ WholeInv
  BY DEF IInv
<1>2. /\ pc = "background"
      /\ UNCHANGED <<request, range, specs, file, gone, size, asked, ranges, resp, part, start, body, wire>>
  BY DEF Background
<1>3. CASE pc' = "raised"
  <2>1. start' \in 0..MaxSize /\ part' \in Nat
    BY <1>1, <1>2 DEF TypeOK
  <2>2. QED
    BY <1>2, <1>3, <2>1, Broken
<1>4. CASE pc' = "done"
  <2>1. TypeOK'
    BY <1>1, <1>2, <1>4 DEF TypeOK
  <2>2. SizeInv'
    BY <1>1, <1>2, <1>4 DEF SizeInv, GoodSpan
  <2>3. ChoiceInv'
    BY <1>1, <1>2, <1>4 DEF ChoiceInv
  <2>4. WireInv'
    BY <1>1, <1>2, <1>4, SameWire DEF WireInv
  <2>5. MergeInv' /\ ReadInv' /\ PartsInv'
    BY <1>4 DEF MergeInv, MergeKeepsBytes, ReadInv, PartsInv
  <2>6. WholeInv'
    BY <1>1, <1>2, <1>4, SameWhole, SameWire DEF WholeInv, Begins
  <2>7. QED
    BY <1>2, <2>1, <2>2, <2>3, <2>4, <2>5, <2>6 DEF IInv, GoodStep
<1>5. QED
  BY <1>3, <1>4 DEF Background

LEMMA OpenStep ==
  ASSUME IInv, Open
  PROVE  GoodStep
<1>1. TypeOK /\ SizeInv /\ ChoiceInv /\ WireInv /\ MergeInv /\ ReadInv /\ PartsInv /\ WholeInv
  BY DEF IInv
<1>2. /\ pc = "open"
      /\ UNCHANGED <<request, range, specs, file, gone, size, asked, ranges, resp, part, start, body, wire>>
  BY DEF Open
<1>3. CASE pc' = "raised"
  <2>1. start' \in 0..MaxSize /\ part' \in Nat
    BY <1>1, <1>2 DEF TypeOK
  <2>2. QED
    BY <1>2, <1>3, <2>1, Broken
<1>4. CASE pc' # "raised"
  <2>1. pc' = (IF resp.kind = "multi" THEN "header" ELSE "read")
    BY <1>4 DEF Open
  <2>2. /\ resp.kind \in {"simple", "single", "multi"} /\ body.parts = <<>> /\ part = 1
        /\ size \in 0..MaxSize /\ start \in 0..MaxSize /\ Protocol!Open
        /\ ranges \in Seq(Spans) /\ \A i \in DOMAIN ranges : GoodSpan(ranges[i])
    BY <1>1, <1>2 DEF ChoiceInv, ReadInv, TypeOK, Kinds, WireInv, SizeInv, Spans
  <2>3. TypeOK'
    BY <1>1, <1>2, <2>1 DEF TypeOK
  <2>4. SizeInv'
    BY <1>1, <1>2, <2>1 DEF SizeInv, GoodSpan
  <2>5. ChoiceInv'
    BY <1>1, <1>2, <2>1, <2>2 DEF ChoiceInv
  <2>6. WireInv'
    BY <1>2, <2>1, <2>2, SameWire DEF WireInv
  <2>7. MergeInv'
    BY <2>1 DEF MergeInv, MergeKeepsBytes
  <2>8. ReadInv'
    <3>1. resp.kind = "single" => start = ranges[1].start /\ start \in ranges[1].start..ranges[1].end
      <4>1. SUFFICES ASSUME resp.kind = "single"
                     PROVE  start = ranges[1].start /\ start \in ranges[1].start..ranges[1].end
        OBVIOUS
      <4>2. Len(ranges) = 1 /\ start = ranges[1].start
        BY <1>1, <1>2, <4>1 DEF ChoiceInv, ReadInv
      <4>3. ranges[1] \in Spans /\ GoodSpan(ranges[1])
        <5>1. 1 \in DOMAIN ranges
          BY <2>2, <4>2
        <5>2. QED
          BY <2>2, <5>1
      <4>4. QED
        BY <4>2, <4>3, SpanFacts
    <3>2. resp.kind = "simple" => start = 0
      BY <1>1, <1>2 DEF ReadInv
    <3>3. QED
      BY <1>2, <2>1, <2>2, <3>1, <3>2 DEF ReadInv, Base
  <2>9. PartsInv'
    <3>1. Len(ranges) \in Nat /\ Len(<<>>) = 0
      BY <2>2
    <3>2. QED
      BY <1>2, <2>1, <2>2, <3>1 DEF PartsInv
  <2>10. WholeInv'
    BY <1>1, <1>2, <2>1, SameWhole DEF WholeInv, Begins
  <2>11. QED
    BY <1>2, <2>3, <2>4, <2>5, <2>6, <2>7, <2>8, <2>9, <2>10 DEF IInv, GoodStep
<1>5. QED
  BY <1>3, <1>4

-----------------------------------------------------------------------------
(* What has to be sent, and beginnings of it.                              *)

\* All of the file.
LEMMA WholeFile ==
  ASSUME resp.kind = "simple"
  PROVE  Whole = <<Stretch(0, size)>>
BY DEF Whole, Stretch

\* The ranges, one after the other.
LEMMA WholeRanges ==
  ASSUME ranges \in Seq(Spans), resp.kind \in {"single", "multi"}
  PROVE  /\ Whole = [i \in 1..Len(ranges) |-> Stretch(ranges[i].start, ranges[i].end)]
         /\ Len(Whole) = Len(ranges)
<1>1. DOMAIN ranges = 1..Len(ranges) /\ Len(ranges) \in Nat
  OBVIOUS
<1>2. Whole = [i \in DOMAIN ranges |-> Positions(ranges[i])]
  BY DEF Whole
<1>3. \A i \in DOMAIN ranges : Positions(ranges[i]) = Stretch(ranges[i].start, ranges[i].end)
  BY DEF Stretch, Positions
<1>4. Whole = [i \in 1..Len(ranges) |-> Stretch(ranges[i].start, ranges[i].end)]
  BY <1>1, <1>2, <1>3
<1>5. QED
  BY <1>1, <1>4

\* The parts before the last are complete, and the last goes up to some position of its range.
LEMMA PartsBegin ==
  ASSUME ranges \in Seq(Spans), \A i \in DOMAIN ranges : GoodSpan(ranges[i]),
         resp.kind \in {"single", "multi"}, size \in Nat,
         NEW parts \in Seq(Seq(0..MaxSize)), NEW n \in 1..Len(ranges), Len(parts) = n,
         NEW e \in ranges[n].start..ranges[n].end,
         parts[n] = Stretch(ranges[n].start, e),
         \A k \in 1..(n - 1) : parts[k] = Positions(ranges[k])
  PROVE  Begins(parts, Whole)
<1>1. DOMAIN ranges = 1..Len(ranges) /\ Len(ranges) \in Nat /\ MaxSize \in Nat
  BY MaxSizeAssumption
<1>2. \A i \in DOMAIN ranges : ranges[i] \in Spans /\ GoodSpan(ranges[i])
  BY <1>1
<1>3. /\ Len(Whole) = Len(ranges)
      /\ \A i \in 1..Len(ranges) : Whole[i] = Stretch(ranges[i].start, ranges[i].end)
  BY WholeRanges
<1>4. /\ ranges[n].start \in Nat /\ ranges[n].end \in Nat /\ e \in Nat
      /\ ranges[n].start <= e /\ e <= ranges[n].end
  <2>1. ranges[n].start \in 0..MaxSize /\ ranges[n].end \in 0..MaxSize
    BY <1>1, <1>2, SpanFacts
  <2>2. QED
    BY <1>1, <2>1
<1>5. IsPrefix(parts[n], Whole[n])
  BY <1>3, <1>4, Beginning
<1>6. ASSUME NEW k \in 1..(n - 1)
      PROVE  parts[k] = Whole[k] /\ IsPrefix(parts[k], Whole[k])
  <2>1. k \in 1..Len(ranges)
    BY <1>1
  <2>2. parts[k] = Stretch(ranges[k].start, ranges[k].end)
    BY DEF Stretch, Positions
  <2>3. ranges[k].start \in Nat /\ ranges[k].end \in Nat /\ ranges[k].start <= ranges[k].end
    <3>1. /\ ranges[k].start \in 0..MaxSize /\ ranges[k].end \in 0..MaxSize
          /\ ranges[k].start <= ranges[k].end
      BY <1>1, <1>2, <2>1, SpanFacts
    <3>2. QED
      BY <1>1, <3>1
  <2>4. PICK a \in Nat, b \in Nat : a = ranges[k].start /\ b = ranges[k].end /\ a <= b
    BY <2>3
  <2>5. IsPrefix(Stretch(a, b), Stretch(a, b))
    BY <2>4, Beginning
  <2>6. Whole[k] = Stretch(a, b) /\ parts[k] = Stretch(a, b)
    BY <1>3, <2>1, <2>2, <2>4
  <2>7. QED
    BY <2>5, <2>6
<1>7. ASSUME NEW k \in DOMAIN parts
      PROVE  IsPrefix(parts[k], Whole[k]) /\ (k < Len(parts) => parts[k] = Whole[k])
  <2>1. k \in 1..n
    OBVIOUS
  <2>2. CASE k = n
    BY <1>5, <2>2
  <2>3. CASE k # n
    <3>1. k \in 1..(n - 1)
      BY <2>1, <2>3
    <3>2. QED
      BY <1>6, <3>1
  <2>4. QED
    BY <2>2, <2>3, Zenon
<1>8. QED
  BY <1>1, <1>3, <1>7 DEF Begins

\* All parts are complete.
LEMMA PartsAll ==
  ASSUME ranges \in Seq(Spans), resp.kind \in {"single", "multi"},
         NEW parts \in Seq(Seq(0..MaxSize)), Len(parts) = Len(ranges),
         \A k \in 1..Len(ranges) : parts[k] = Positions(ranges[k])
  PROVE  parts = Whole
<1>1. Whole = [i \in 1..Len(ranges) |-> Stretch(ranges[i].start, ranges[i].end)]
  BY WholeRanges
<1>2. \A i \in 1..Len(ranges) : parts[i] = Stretch(ranges[i].start, ranges[i].end)
  BY DEF Stretch, Positions
<1>3. parts = [i \in 1..Len(ranges) |-> parts[i]]
  OBVIOUS
<1>4. QED
  BY <1>1, <1>2, <1>3

\* A chunk goes onto the last part.
LEMMA OntoLast ==
  ASSUME TypeOK, NEW a \in Nat, NEW e \in start..MaxSize, a <= start,
         body.parts # <<>>, body.parts[Len(body.parts)] = Stretch(a, start)
  PROVE  /\ Onto(Stretch(start, e)) \in Seq(Seq(0..MaxSize))
         /\ Len(Onto(Stretch(start, e))) = Len(body.parts)
         /\ Onto(Stretch(start, e))[Len(body.parts)] = Stretch(a, e)
         /\ \A k \in 1..(Len(body.parts) - 1) : Onto(Stretch(start, e))[k] = body.parts[k]
<1>1. /\ start \in Nat /\ e \in Nat /\ start <= e /\ e <= MaxSize /\ a <= e
  BY MaxSizeAssumption DEF TypeOK
<1>2. PICK parts : parts = body.parts
  OBVIOUS
<1>3. PICK n : n = Len(parts)
  OBVIOUS
<1>4. parts \in Seq(Seq(0..MaxSize)) /\ n \in Nat /\ n \in 1..n /\ parts[n] = Stretch(a, start)
      /\ DOMAIN parts = 1..n
  BY <1>2, <1>3 DEF TypeOK
<1>5. Stretch(a, start) \o Stretch(start, e) = Stretch(a, e) /\ Stretch(a, e) \in Seq(0..MaxSize)
  BY <1>1, Joined, Stretches
<1>6. Onto(Stretch(start, e)) = [parts EXCEPT ![n] = Stretch(a, e)]
  BY <1>2, <1>3, <1>4, <1>5 DEF Onto
<1>7. PICK s : s = Stretch(a, e)
  OBVIOUS
<1>8. /\ [parts EXCEPT ![n] = s] \in Seq(Seq(0..MaxSize))
      /\ Len([parts EXCEPT ![n] = s]) = n
      /\ [parts EXCEPT ![n] = s][n] = s
      /\ \A k \in 1..(n - 1) : [parts EXCEPT ![n] = s][k] = parts[k]
  BY <1>4, <1>5, <1>7
<1>9. QED
  BY <1>2, <1>3, <1>6, <1>7, <1>8

-----------------------------------------------------------------------------
(* Messages with bytes of the file.                                        *)

\* A chunk of the file, or of the one range that is sent.
LEMMA SendChunkStep ==
  ASSUME IInv, SendChunk
  PROVE  GoodStep
<1>1. TypeOK /\ SizeInv /\ ChoiceInv /\ WireInv /\ MergeInv /\ ReadInv /\ PartsInv /\ WholeInv
  BY DEF IInv
<1>2. /\ pc = "read"
      /\ UNCHANGED <<request, range, specs, file, gone, size, asked, ranges, resp, part>>
  BY DEF SendChunk
<1>3. /\ resp.kind \in {"simple", "single"} /\ size \in Nat /\ size <= MaxSize /\ MaxSize \in Nat
      /\ start \in 0..MaxSize /\ start \in Nat /\ file.length \in 0..MaxSize /\ ChunkSize \in Nat
      /\ part' \in Nat /\ Protocol!Open
      /\ ranges \in Seq(Spans) /\ \A i \in DOMAIN ranges : GoodSpan(ranges[i])
  BY <1>1, <1>2, MaxSizeAssumption, ChunkSizeAssumption
  DEF ChoiceInv, TypeOK, SizeInv, WireInv, Spans
\* Where the sending starts and has to end.
<1>4. PICK z : z = IF resp.kind = "simple" THEN size ELSE ranges[1].end
  OBVIOUS
<1>5. PICK a : a = Base
  OBVIOUS
<1>6. resp.kind = "single" =>
        /\ Len(ranges) = 1 /\ 1 \in DOMAIN ranges /\ ranges[1] \in Spans /\ GoodSpan(ranges[1])
        /\ a = ranges[1].start /\ z = ranges[1].end
        /\ start \in ranges[1].start..ranges[1].end
  <2>1. SUFFICES ASSUME resp.kind = "single"
                 PROVE  /\ Len(ranges) = 1 /\ 1 \in DOMAIN ranges
                        /\ ranges[1] \in Spans /\ GoodSpan(ranges[1])
                        /\ a = ranges[1].start /\ z = ranges[1].end
                        /\ start \in ranges[1].start..ranges[1].end
    OBVIOUS
  <2>2. Len(ranges) = 1 /\ start \in ranges[1].start..ranges[1].end
    BY <1>1, <1>2, <2>1 DEF ChoiceInv, ReadInv
  <2>3. 1 \in DOMAIN ranges
    BY <1>3, <2>2
  <2>4. ranges[1] \in Spans /\ GoodSpan(ranges[1])
    BY <1>3, <2>3
  <2>5. QED
    BY <1>4, <1>5, <2>1, <2>2, <2>3, <2>4 DEF Base
<1>7. /\ a \in Nat /\ z \in Nat /\ a <= start /\ z <= size
      /\ resp.kind = "single" \/ file.changes = 0 => start <= z
  <2>1. CASE resp.kind = "simple"
    <3>1. a = 0 /\ z = size
      BY <1>4, <1>5, <2>1 DEF Base
    <3>2. file.changes = 0 => start <= size
      BY <1>1, <1>2, <2>1 DEF ReadInv
    <3>3. QED
      BY <1>3, <2>1, <3>1, <3>2
  <2>2. CASE resp.kind = "single"
    <3>1. /\ ranges[1].start \in 0..MaxSize /\ ranges[1].end \in 0..MaxSize
          /\ ranges[1].start <= ranges[1].end /\ ranges[1].end <= size
      BY <1>6, <2>2, SpanFacts
    <3>2. QED
      BY <1>3, <1>6, <2>2, <3>1
  <2>3. QED
    BY <1>3, <2>1, <2>2
<1>8. PICK n : n = Wanted
  OBVIOUS
<1>9. /\ n \in Nat /\ n <= ChunkSize
      /\ resp.kind = "simple" => n = ChunkSize
      /\ resp.kind = "single" => n <= z - start /\ (n = ChunkSize \/ n = z - start)
  <2>1. CASE resp.kind = "simple"
    BY <1>3, <1>8, <2>1 DEF Wanted
  <2>2. CASE resp.kind = "single"
    <3>1. n = Min({ChunkSize, z - start})
      BY <1>6, <1>8, <2>2 DEF Wanted, Current
    <3>2. z - start \in Nat /\ z - start \in Int /\ ChunkSize \in Int
      BY <1>3, <1>7, <2>2
    <3>3. n = IF ChunkSize <= z - start THEN ChunkSize ELSE z - start
      BY <3>1, <3>2, MinOfTwo
    <3>4. QED
      BY <1>3, <2>2, <3>2, <3>3
  <2>3. QED
    BY <1>3, <2>1, <2>2
<1>10. PICK e \in start..MaxSize :
         /\ Read(n) = Stretch(start, e)
         /\ Len(Read(n)) = e - start
         /\ Read(n) \in Seq(0..MaxSize)
         /\ e - start <= n
         /\ start <= file.length => e <= file.length
         /\ e - start < n => e >= file.length
  BY <1>3, <1>9, Reads
<1>11. PICK chunk : chunk = Read(n)
  OBVIOUS
<1>12. PICK more \in BOOLEAN : more = MoreAfter(chunk)
  BY DEF MoreAfter
<1>13. /\ e \in Nat /\ e \in 0..MaxSize /\ start <= e /\ a <= e /\ start + (e - start) = e
       /\ chunk \in Seq(0..MaxSize) /\ Len(chunk) = e - start /\ chunk = Stretch(start, e)
       /\ more <=> (e - start = ChunkSize /\ (resp.kind = "single" => e < z))
  <2>1. e \in Nat /\ e \in 0..MaxSize /\ start <= e /\ a <= e /\ start + (e - start) = e
    BY <1>3, <1>7
  <2>2. chunk \in Seq(0..MaxSize) /\ Len(chunk) = e - start /\ chunk = Stretch(start, e)
    BY <1>10, <1>11
  <2>3. more <=> (e - start = ChunkSize /\ (resp.kind = "single" => e < z))
    BY <1>6, <1>12, <2>1, <2>2 DEF MoreAfter, Current
  <2>4. QED
    BY <2>1, <2>2, <2>3
\* As long as nothing changes the file, the chunks end where they have to.
<1>14. file.changes = 0 => file.length = size
  BY <1>1, <1>2 DEF SizeInv
<1>15. /\ resp.kind = "single" \/ file.changes = 0 => e <= z
       /\ file.changes = 0 /\ ~ more => e = z
  <2>1. CASE resp.kind = "single"
    <3>1. e - start <= z - start /\ start <= z
      BY <1>3, <1>7, <1>9, <1>10, <1>13, <2>1
    <3>2. e <= z
      BY <1>3, <1>7, <1>13, <3>1
    <3>3. file.changes = 0 /\ ~ more => e = z
      BY <1>3, <1>7, <1>9, <1>10, <1>13, <1>14, <2>1, <3>2
    <3>4. QED
      BY <3>2, <3>3
  <2>2. CASE resp.kind = "simple"
    <3>1. z = size
      BY <1>4, <2>2
    <3>2. QED
      BY <1>3, <1>7, <1>9, <1>10, <1>13, <1>14, <2>2, <3>1
  <2>3. QED
    BY <1>3, <2>1, <2>2
<1>16. start' = e /\ start' \in 0..MaxSize
  BY <1>8, <1>10, <1>11, <1>13 DEF SendChunk
<1>17. CASE pc' = "raised" /\ UNCHANGED <<body, wire>>
  BY <1>2, <1>3, <1>16, <1>17, Broken
<1>18. CASE ~ (pc' = "raised" /\ UNCHANGED <<body, wire>>)
  <2>1. PICK m : m = M("body", more, chunk, 0)
    OBVIOUS
  <2>2. /\ m \in Message /\ m.type = "body" /\ m.more_body = more /\ m.data = chunk
        /\ m.framing = 0
    BY <1>13, <2>1 DEF M, Message
  <2>3. PICK parts : parts = Onto(chunk)
    OBVIOUS
  <2>4. /\ wire' = Append(wire, m)
        /\ pc' = (IF more THEN "read" ELSE "background")
        /\ body' = [length |-> body.length + Len(m.data) + m.framing, parts |-> parts]
    BY <1>8, <1>11, <1>12, <1>18, <2>1, <2>3 DEF SendChunk, Send
  \* What was sent is the bytes from the start to where the chunk ends.
  <2>5. /\ parts \in Seq(Seq(0..MaxSize)) /\ Len(parts) = 1 /\ parts[1] = Stretch(a, e)
    <3>1. CASE body.parts = <<>>
      <4>1. start = a
        BY <1>1, <1>2, <1>5, <3>1 DEF ReadInv
      <4>2. parts = <<Stretch(a, e)>>
        BY <1>13, <2>3, <3>1, <4>1 DEF Onto
      <4>3. Stretch(a, e) \in Seq(0..MaxSize)
        BY <1>13, <4>1
      <4>4. QED
        BY <4>2, <4>3
    <3>2. CASE body.parts # <<>>
      <4>1. body.parts = <<Stretch(a, start)>>
        BY <1>1, <1>2, <1>5, <3>2 DEF ReadInv
      <4>2. Len(body.parts) = 1 /\ body.parts[Len(body.parts)] = Stretch(a, start)
        BY <4>1
      <4>3. /\ Onto(Stretch(start, e)) \in Seq(Seq(0..MaxSize))
            /\ Len(Onto(Stretch(start, e))) = Len(body.parts)
            /\ Onto(Stretch(start, e))[Len(body.parts)] = Stretch(a, e)
        BY <1>1, <1>7, <3>2, <4>2, OntoLast
      <4>4. QED
        BY <1>13, <2>3, <4>2, <4>3
    <3>3. QED
      BY <3>1, <3>2
  <2>6. Len(Stretch(a, e)) = e - a
    BY <1>7, <1>13, Stretches
  <2>7. body.length + Len(chunk) = e - a
    <3>1. CASE body.parts = <<>>
      <4>1. start = a /\ body.length = 0
        <5>1. start = a
          BY <1>1, <1>2, <1>5, <3>1 DEF ReadInv
        <5>2. body.length = 0
          <6>1. Len(<<>>) # 1
            OBVIOUS
          <6>2. QED
            BY <1>1, <1>3, <3>1, <6>1 DEF WholeInv
        <5>3. QED
          BY <5>1, <5>2
      <4>2. QED
        BY <1>13, <4>1
    <3>2. CASE body.parts # <<>>
      <4>1. body.parts = <<Stretch(a, start)>>
        BY <1>1, <1>2, <1>5, <3>2 DEF ReadInv
      <4>2. body.length = Len(body.parts[1])
        BY <1>1, <1>3, <3>2 DEF WholeInv
      <4>3. body.length = start - a
        BY <1>3, <1>7, <4>1, <4>2, Stretches
      <4>4. QED
        BY <1>3, <1>7, <1>13, <4>3
    <3>3. QED
      BY <3>1, <3>2
  <2>8. /\ body' \in [length : Nat, parts : Seq(Seq(0..MaxSize))]
        /\ body'.parts = parts /\ body'.length = e - a
    <3>1. /\ body' \in [length : Nat, parts : Seq(Seq(0..MaxSize))]
          /\ body'.parts = parts /\ body'.length = body.length + Len(m.data) + m.framing
      BY <1>1, <2>2, <2>4, <2>5, BodyOf
    <3>2. body.length + Len(m.data) + m.framing = e - a
      BY <1>7, <1>13, <2>2, <2>7
    <3>3. QED
      BY <3>1, <3>2
  <2>9. Protocol!Next /\ (more => Protocol!Open') /\ (~ more => Protocol!Complete')
    BY <1>1, <1>3, <2>2, <2>4, Sent DEF TypeOK
  <2>10. pc' \in {"read", "background"}
    BY <2>4
  <2>11. TypeOK' /\ SizeInv' /\ MergeInv'
    BY <1>2, <1>3, <1>16, <2>2, <2>4, <2>8, <2>10, SendKeeps
  <2>12. ChoiceInv'
    BY <1>1, <1>2, <1>3, <2>10 DEF ChoiceInv
  <2>13. WireInv'
    BY <2>4, <2>9 DEF WireInv
  <2>14. ReadInv'
    <3>1. more /\ resp.kind = "single" => e \in ranges[1].start..ranges[1].end
      <4>1. SUFFICES ASSUME resp.kind = "single" PROVE e \in a..z
        BY <1>6
      <4>2. QED
        BY <1>7, <1>13, <1>15, <4>1
    <3>2. body'.parts = <<Stretch(a, e)>>
      BY <2>5, <2>8
    <3>3. Base' = Base
      BY <1>2 DEF Base
    <3>4. more /\ resp.kind = "simple" /\ file.changes = 0 => e <= size
      BY <1>4, <1>15
    <3>5. pc' # "read" \/ more
      BY <2>4
    <3>6. QED
      BY <1>2, <1>5, <1>16, <2>10, <3>1, <3>2, <3>3, <3>4, <3>5 DEF ReadInv, Stretch, Positions
  <2>15. PartsInv'
    BY <2>10 DEF PartsInv
  <2>16. WholeInv'
    <3>1. Whole' = Whole
      BY <1>2, SameWhole
    <3>2. resp.kind = "single" \/ file.changes = 0 => Begins(parts, Whole)
      <4>1. CASE resp.kind = "single"
        <5>1. Len(ranges) = 1 /\ a = ranges[1].start /\ z = ranges[1].end
          BY <1>6, <4>1, Zenon
        <5>2. e \in a..z
          BY <1>7, <1>13, <1>15, <4>1
        <5>3. e \in ranges[1].start..ranges[1].end /\ 1 \in 1..Len(ranges) /\ Len(parts) = 1
          BY <2>5, <5>1, <5>2
        <5>4. parts[1] = Stretch(ranges[1].start, e)
          BY <2>5, <5>1
        <5>5. \A k \in 1..(1 - 1) : parts[k] = Positions(ranges[k])
          OBVIOUS
        <5>6. QED
          BY <1>3, <2>5, <4>1, <5>3, <5>4, <5>5, PartsBegin
      <4>2. CASE resp.kind = "simple"
        <5>1. SUFFICES ASSUME file.changes = 0 PROVE Begins(parts, Whole)
          BY <4>2
        <5>2. z = size /\ a = 0 /\ e <= size
          BY <1>4, <1>5, <1>15, <4>2, <5>1 DEF Base
        <5>3. Whole = <<Stretch(a, size)>>
          BY <4>2, <5>2, WholeFile
        <5>4. IsPrefix(Stretch(a, e), Stretch(a, size))
          BY <1>3, <1>7, <1>13, <5>2, Beginning
        <5>5. QED
          BY <2>5, <5>3, <5>4 DEF Begins
      <4>3. QED
        BY <1>3, <4>1, <4>2
    <3>3. file.changes = 0 /\ ~ more => parts = Whole
      <4>1. SUFFICES ASSUME file.changes = 0, ~ more PROVE parts = Whole
        OBVIOUS
      <4>2. parts = <<Stretch(a, z)>>
        BY <1>15, <2>5, <4>1
      <4>3. CASE resp.kind = "single"
        <5>1. Whole = [i \in 1..Len(ranges) |-> Stretch(ranges[i].start, ranges[i].end)]
              /\ Len(Whole) = Len(ranges)
          BY <1>3, <4>3, WholeRanges
        <5>2. Len(ranges) = 1 /\ a = ranges[1].start /\ z = ranges[1].end
          BY <1>6, <4>3, Zenon
        <5>3. Whole = <<Stretch(a, z)>>
          BY <5>1, <5>2
        <5>4. QED
          BY <4>2, <5>3
      <4>4. CASE resp.kind = "simple"
        <5>1. Whole = <<Stretch(a, z)>>
          BY <1>4, <1>5, <4>4, WholeFile DEF Base
        <5>2. QED
          BY <4>2, <5>1
      <4>5. QED
        BY <1>3, <4>3, <4>4
    <3>4. Len(body'.parts) = 1 /\ body'.length = Len(body'.parts[1])
      BY <2>5, <2>6, <2>8
    <3>5. pc' \in {"background", "done"} => ~ more
      BY <2>4
    <3>6. QED
      BY <1>2, <1>3, <2>8, <3>1, <3>2, <3>3, <3>4, <3>5 DEF WholeInv
  <2>17. QED
    BY <2>9, <2>11, <2>12, <2>13, <2>14, <2>15, <2>16 DEF IInv, GoodStep
<1>19. QED
  BY <1>17, <1>18

\* The part that is sent is a range of the file.
LEMMA PartFacts ==
  ASSUME IInv, pc \in {"header", "part"}, part <= Len(ranges)
  PROVE  /\ part \in 1..Len(ranges) /\ Current = ranges[part]
         /\ ranges[part] \in Spans /\ GoodSpan(ranges[part])
         /\ ranges[part].start \in 0..MaxSize /\ ranges[part].end \in 0..MaxSize
         /\ ranges[part].start <= ranges[part].end /\ ranges[part].end <= size
<1>1. /\ ranges \in Seq(Spans) /\ \A i \in DOMAIN ranges : GoodSpan(ranges[i])
      /\ resp.kind = "multi" /\ part \in 1..Len(ranges)
  <2>1. Len(ranges) \in Nat /\ part \in Nat /\ 1 <= part
    BY DEF IInv, TypeOK, PartsInv
  <2>2. QED
    BY <2>1 DEF IInv, TypeOK, SizeInv, ChoiceInv, Spans
<1>2. part \in DOMAIN ranges
  BY <1>1
<1>3. ranges[part] \in Spans /\ GoodSpan(ranges[part])
  BY <1>1, <1>2
<1>4. Current = ranges[part]
  BY <1>1 DEF Current
<1>5. QED
  BY <1>1, <1>3, <1>4, SpanFacts

\* The header of a part, or the end of a multipart response.
LEMMA SendHeaderStep ==
  ASSUME IInv, SendHeader
  PROVE  GoodStep
<1>1. TypeOK /\ SizeInv /\ ChoiceInv /\ WireInv /\ MergeInv /\ ReadInv /\ PartsInv /\ WholeInv
  BY DEF IInv
<1>2. /\ pc = "header"
      /\ UNCHANGED <<request, range, specs, file, gone, size, asked, ranges, resp, part>>
  BY DEF SendHeader
<1>3. /\ resp.kind = "multi" /\ Protocol!Open /\ size \in Nat /\ part' \in Nat
      /\ start \in 0..MaxSize /\ part \in 1..(Len(ranges) + 1) /\ Len(body.parts) = part - 1
      /\ \A k \in 1..(part - 1) : body.parts[k] = Positions(ranges[k])
      /\ body.parts \in Seq(Seq(0..MaxSize)) /\ <<>> \in Seq(0..MaxSize)
      /\ ranges \in Seq(Spans) /\ \A i \in DOMAIN ranges : GoodSpan(ranges[i])
  BY <1>1, <1>2, MaxSizeAssumption DEF ChoiceInv, TypeOK, SizeInv, WireInv, PartsInv, Spans
<1>4. Len(ranges) \in Nat
  BY <1>3
<1>5. CASE part <= Len(ranges)
  <2>1. /\ part \in 1..Len(ranges) /\ Current = ranges[part]
        /\ ranges[part] \in Spans
        /\ ranges[part].start \in 0..MaxSize /\ ranges[part].end \in 0..MaxSize
        /\ ranges[part].start <= ranges[part].end
    BY <1>2, <1>5, PartFacts
  <2>2. start' = ranges[part].start /\ start' \in 0..MaxSize
    <3>1. ~ (part > Len(ranges))
      BY <1>3, <1>4, <1>5
    <3>2. start' = Current.start
      BY <3>1 DEF SendHeader
    <3>3. QED
      BY <2>1, <3>2
  <2>3. PICK framing : framing = Digits(Current.start) + Digits(Current.end - 1) + 43
                                 + BoundaryLen + ContentTypeLen + Digits(size)
    OBVIOUS
  <2>4. framing \in Nat
    <3>1. ASSUME NEW n PROVE Digits(n) \in Nat
      BY DEF Digits
    <3>2. PICK a \in Nat, b \in Nat, c \in Nat :
            a = Digits(Current.start) /\ b = Digits(Current.end - 1) /\ c = Digits(size)
      BY <3>1
    <3>3. framing = a + b + 43 + 26 + 25 + c
      BY <2>3, <3>2 DEF BoundaryLen, ContentTypeLen
    <3>4. QED
      BY <3>3
  <2>5. PICK m : m = M("body", TRUE, <<>>, framing)
    OBVIOUS
  <2>6. /\ m \in Message /\ m.type = "body" /\ m.more_body /\ m.data = <<>>
        /\ m.framing = framing
    BY <1>3, <2>4, <2>5 DEF M, Message
  <2>7. CASE pc' = "raised" /\ UNCHANGED <<body, wire>>
    BY <1>2, <1>3, <2>2, <2>7, Broken
  <2>8. CASE ~ (pc' = "raised" /\ UNCHANGED <<body, wire>>)
    <3>1. PICK parts : parts = Append(body.parts, <<>>)
      OBVIOUS
    <3>2. /\ wire' = Append(wire, m) /\ pc' = "part"
          /\ body' = [length |-> body.length + Len(m.data) + m.framing, parts |-> parts]
      <4>1. ~ (part > Len(ranges))
        BY <1>3, <1>4, <1>5
      <4>2. Send(m, "part", Append(body.parts, <<>>))
        BY <2>3, <2>5, <4>1 DEF SendHeader
      <4>3. QED
        BY <2>8, <3>1, <4>2 DEF Send
    <3>3. /\ parts \in Seq(Seq(0..MaxSize)) /\ Len(parts) = part /\ parts[part] = <<>>
          /\ \A k \in 1..(part - 1) : parts[k] = body.parts[k]
      <4>1. PICK ps : ps = body.parts
        OBVIOUS
      <4>2. ps \in Seq(Seq(0..MaxSize)) /\ Len(ps) = part - 1 /\ parts = Append(ps, <<>>)
        BY <1>3, <3>1, <4>1
      <4>3. /\ parts \in Seq(Seq(0..MaxSize)) /\ Len(parts) = part /\ parts[part] = <<>>
            /\ \A k \in 1..(part - 1) : parts[k] = ps[k]
        BY <1>3, <2>1, <4>2
      <4>4. QED
        BY <4>1, <4>3
    <3>4. /\ body' \in [length : Nat, parts : Seq(Seq(0..MaxSize))] /\ body'.parts = parts
      BY <1>1, <2>6, <3>2, <3>3, BodyOf
    <3>5. Protocol!Next /\ Protocol!Open'
      BY <1>1, <1>3, <2>6, <3>2, Sent DEF TypeOK
    <3>6. pc' \in {"part"}
      BY <3>2
    <3>7. TypeOK' /\ SizeInv' /\ MergeInv'
      BY <1>2, <1>3, <2>2, <2>6, <3>2, <3>4, SendKeeps
    <3>8. ChoiceInv' /\ WireInv' /\ ReadInv'
      BY <1>1, <1>2, <1>3, <3>2, <3>5 DEF ChoiceInv, WireInv, ReadInv
    <3>9. parts[part] = Stretch(ranges[part].start, ranges[part].start)
      <4>1. PICK a \in 0..MaxSize : a = ranges[part].start
        BY <2>1
      <4>2. a \in Nat /\ a <= a /\ a - a = 0
        BY MaxSizeAssumption
      <4>3. Stretch(a, a) \in Seq(Nat) /\ Len(Stretch(a, a)) = 0
        BY <4>2, Stretches
      <4>4. Stretch(a, a) = <<>>
        BY <4>3
      <4>5. QED
        BY <3>3, <4>1, <4>4
    <3>10. ranges[part].start \in ranges[part].start..ranges[part].end
      BY <2>1, MaxSizeAssumption
    <3>11. \A k \in 1..(part - 1) : parts[k] = Positions(ranges[k])
      BY <1>3, <3>3
    <3>12. PartsInv'
      BY <1>2, <2>1, <2>2, <3>2, <3>3, <3>4, <3>9, <3>10, <3>11 DEF PartsInv, Stretch, Positions
    <3>13. WholeInv'
      <4>1. Begins(parts, Whole)
        BY <1>3, <2>1, <3>3, <3>9, <3>10, <3>11, PartsBegin
      <4>2. Whole' = Whole
        BY <1>2, SameWhole
      <4>3. QED
        BY <1>2, <1>3, <3>2, <3>4, <4>1, <4>2 DEF WholeInv
    <3>14. QED
      BY <3>5, <3>7, <3>8, <3>12, <3>13 DEF IInv, GoodStep
  <2>9. QED
    BY <2>7, <2>8
<1>6. CASE ~ (part <= Len(ranges))
  <2>1. part = Len(ranges) + 1 /\ part > Len(ranges)
    BY <1>3, <1>4, <1>6
  <2>2. start' = start /\ Send(M("body", FALSE, <<>>, 6 + BoundaryLen), "background", body.parts)
    BY <1>6 DEF SendHeader
  <2>3. PICK m : m = M("body", FALSE, <<>>, 6 + BoundaryLen)
    OBVIOUS
  <2>4. /\ m \in Message /\ m.type = "body" /\ ~ m.more_body
    BY <1>3, <2>3 DEF M, Message, BoundaryLen
  <2>5. CASE pc' = "raised" /\ UNCHANGED <<body, wire>>
    BY <1>2, <1>3, <2>2, <2>5, Broken
  <2>6. CASE ~ (pc' = "raised" /\ UNCHANGED <<body, wire>>)
    <3>1. /\ wire' = Append(wire, m) /\ pc' = "background"
          /\ body' = [length |-> body.length + Len(m.data) + m.framing, parts |-> body.parts]
      BY <2>2, <2>3, <2>6 DEF Send
    <3>2. /\ body' \in [length : Nat, parts : Seq(Seq(0..MaxSize))] /\ body'.parts = body.parts
      BY <1>1, <1>3, <2>4, <3>1, BodyOf
    <3>3. Protocol!Next /\ Protocol!Complete'
      BY <1>1, <1>3, <2>4, <3>1, Sent DEF TypeOK
    <3>4. TypeOK' /\ SizeInv' /\ MergeInv'
      BY <1>2, <1>3, <2>2, <2>4, <3>1, <3>2, SendKeeps
    <3>5. ChoiceInv' /\ WireInv' /\ ReadInv' /\ PartsInv'
      BY <1>1, <1>2, <1>3, <3>1, <3>3 DEF ChoiceInv, WireInv, ReadInv, PartsInv
    <3>6. WholeInv'
      <4>1. body.parts = Whole
        <5>1. Len(body.parts) = Len(ranges)
              /\ \A k \in 1..Len(ranges) : body.parts[k] = Positions(ranges[k])
          BY <1>3, <1>4, <2>1
        <5>2. QED
          BY <1>3, <5>1, PartsAll
      <4>2. Whole' = Whole
        BY <1>2, SameWhole
      <4>3. Begins(body'.parts, Whole')
        BY <1>1, <1>3, <3>2, <4>2 DEF WholeInv
      <4>4. QED
        BY <1>2, <1>3, <3>1, <3>2, <4>1, <4>2, <4>3 DEF WholeInv
    <3>7. QED
      BY <3>3, <3>4, <3>5, <3>6 DEF IInv, GoodStep
  <2>7. QED
    BY <2>5, <2>6
<1>7. QED
  BY <1>5, <1>6

\* A chunk of a part.
LEMMA SendPartChunkStep ==
  ASSUME IInv, SendPartChunk
  PROVE  GoodStep
<1>1. TypeOK /\ SizeInv /\ ChoiceInv /\ WireInv /\ MergeInv /\ ReadInv /\ PartsInv /\ WholeInv
  BY DEF IInv
<1>2. /\ pc = "part"
      /\ UNCHANGED <<request, range, specs, file, gone, size, asked, ranges, resp, part>>
  BY DEF SendPartChunk
<1>3. /\ resp.kind = "multi" /\ Protocol!Open /\ size \in Nat /\ part' \in Nat
      /\ start \in 0..MaxSize /\ start \in Nat /\ file.length \in 0..MaxSize
      /\ part \in 1..Len(ranges) /\ Len(body.parts) = part
      /\ start \in ranges[part].start..ranges[part].end
      /\ body.parts[part] = Stretch(ranges[part].start, start)
      /\ \A k \in 1..(part - 1) : body.parts[k] = Positions(ranges[k])
      /\ ranges \in Seq(Spans) /\ \A i \in DOMAIN ranges : GoodSpan(ranges[i])
      /\ ChunkSize \in Nat /\ MaxSize \in Nat
  <2>1. /\ resp.kind = "multi" /\ Protocol!Open /\ size \in Nat /\ part' \in Nat
        /\ start \in 0..MaxSize /\ start \in Nat /\ file.length \in 0..MaxSize
        /\ ranges \in Seq(Spans) /\ ChunkSize \in Nat /\ MaxSize \in Nat
    BY <1>1, <1>2, MaxSizeAssumption, ChunkSizeAssumption
    DEF ChoiceInv, TypeOK, WireInv, Spans
  <2>2. /\ part \in 1..Len(ranges) /\ Len(body.parts) = part
        /\ start \in ranges[part].start..ranges[part].end
        /\ body.parts[part] = Stretch(ranges[part].start, start)
        /\ \A k \in 1..(part - 1) : body.parts[k] = Positions(ranges[k])
    BY <1>1, <1>2, Zenon DEF PartsInv
  <2>3. \A i \in DOMAIN ranges : GoodSpan(ranges[i])
    BY <1>1, Zenon DEF SizeInv
  <2>4. QED
    BY <2>1, <2>2, <2>3, Zenon
<1>4. /\ Current = ranges[part]
      /\ ranges[part].start \in 0..MaxSize /\ ranges[part].end \in 0..MaxSize
      /\ ranges[part].start <= ranges[part].end
  <2>1. Len(ranges) \in Nat /\ part <= Len(ranges)
    BY <1>3
  <2>2. QED
    BY <1>2, <2>1, PartFacts
<1>5. PICK a, z : a = ranges[part].start /\ z = ranges[part].end
  OBVIOUS
<1>6. a \in Nat /\ z \in Nat /\ a <= start /\ start <= z /\ z - start \in Nat
  BY <1>3, <1>4, <1>5
<1>7. PICK n : n = Wanted
  OBVIOUS
<1>8. n \in Nat /\ n <= z - start
  <2>1. n = Min({ChunkSize, z - start})
    BY <1>3, <1>4, <1>5, <1>7 DEF Wanted
  <2>2. z - start \in Int /\ ChunkSize \in Int
    BY <1>3, <1>6
  <2>3. n = IF ChunkSize <= z - start THEN ChunkSize ELSE z - start
    BY <2>1, <2>2, MinOfTwo
  <2>4. QED
    BY <1>3, <1>6, <2>3
<1>9. PICK e \in start..MaxSize :
         /\ Read(n) = Stretch(start, e)
         /\ Len(Read(n)) = e - start
         /\ Read(n) \in Seq(0..MaxSize)
         /\ e - start <= n
  BY <1>3, <1>8, Reads
<1>10. PICK chunk : chunk = Read(n)
  OBVIOUS
<1>11. /\ e \in Nat /\ e \in 0..MaxSize /\ start <= e /\ a <= e /\ e <= z
       /\ start + (e - start) = e
       /\ chunk \in Seq(0..MaxSize) /\ Len(chunk) = e - start /\ chunk = Stretch(start, e)
  <2>1. e \in Nat /\ e \in 0..MaxSize /\ start <= e /\ a <= e /\ e <= z /\ start + (e - start) = e
    BY <1>3, <1>6, <1>8, <1>9
  <2>2. QED
    BY <1>9, <1>10, <2>1
<1>12. start' = e /\ start' \in 0..MaxSize
  BY <1>7, <1>9, <1>10, <1>11 DEF SendPartChunk
<1>13. PICK m : m = M("body", TRUE, chunk, 0)
  OBVIOUS
<1>14. /\ m \in Message /\ m.type = "body" /\ m.more_body /\ m.data = chunk /\ m.framing = 0
  BY <1>11, <1>13 DEF M, Message
<1>15. PICK parts : parts = Onto(chunk)
  OBVIOUS
<1>16. IF m = wire[Len(wire)] /\ chunk = <<>>
       THEN UNCHANGED <<body, wire>> /\ (UNCHANGED pc \/ pc' = "raised")
       ELSE Send(m, "part", parts)
  BY <1>7, <1>10, <1>13, <1>15 DEF SendPartChunk
<1>17. CASE m = wire[Len(wire)] /\ chunk = <<>> /\ pc' = pc
  <2>1. start' = start
    <3>1. Len(chunk) = 0
      BY <1>17
    <3>2. QED
      BY <1>3, <1>11, <1>12, <3>1
  <2>2. UNCHANGED vars
    BY <1>2, <1>16, <1>17, <2>1 DEF vars
  <2>3. QED
    BY <2>2, OutsideStep
<1>18. CASE pc' = "raised" /\ UNCHANGED <<body, wire>>
  BY <1>2, <1>3, <1>12, <1>18, Broken
<1>19. CASE ~ (m = wire[Len(wire)] /\ chunk = <<>> /\ pc' = pc)
            /\ ~ (pc' = "raised" /\ UNCHANGED <<body, wire>>)
  <2>1. /\ wire' = Append(wire, m) /\ pc' = "part"
        /\ body' = [length |-> body.length + Len(m.data) + m.framing, parts |-> parts]
    BY <1>16, <1>19 DEF Send
  <2>2. /\ parts \in Seq(Seq(0..MaxSize)) /\ Len(parts) = part
        /\ parts[part] = Stretch(a, e)
        /\ \A k \in 1..(part - 1) : parts[k] = body.parts[k]
    <3>1. /\ body.parts # <<>>
          /\ body.parts[Len(body.parts)] = Stretch(a, start)
      BY <1>3, <1>5
    <3>2. /\ Onto(Stretch(start, e)) \in Seq(Seq(0..MaxSize))
          /\ Len(Onto(Stretch(start, e))) = Len(body.parts)
          /\ Onto(Stretch(start, e))[Len(body.parts)] = Stretch(a, e)
          /\ \A k \in 1..(Len(body.parts) - 1) : Onto(Stretch(start, e))[k] = body.parts[k]
      BY <1>1, <1>6, <3>1, OntoLast
    <3>3. QED
      BY <1>3, <1>11, <1>15, <3>2
  <2>3. /\ body' \in [length : Nat, parts : Seq(Seq(0..MaxSize))] /\ body'.parts = parts
    BY <1>1, <1>14, <2>1, <2>2, BodyOf
  <2>4. Protocol!Next /\ Protocol!Open'
    BY <1>1, <1>3, <1>14, <2>1, Sent DEF TypeOK
  <2>5. TypeOK' /\ SizeInv' /\ MergeInv'
    BY <1>2, <1>3, <1>12, <1>14, <2>1, <2>3, SendKeeps
  <2>6. ChoiceInv' /\ WireInv' /\ ReadInv'
    BY <1>1, <1>2, <1>3, <2>1, <2>4 DEF ChoiceInv, WireInv, ReadInv
  <2>7. /\ e \in ranges[part].start..ranges[part].end
        /\ parts[part] = Stretch(ranges[part].start, e)
        /\ \A k \in 1..(part - 1) : parts[k] = Positions(ranges[k])
    BY <1>3, <1>5, <1>6, <1>11, <2>2
  <2>8. PartsInv'
    <3>1. Stretch(ranges[part].start, start)' = Stretch(ranges[part].start, e)
      BY <1>2, <1>12 DEF Stretch, Positions
    <3>2. \A k \in 1..(part - 1) : Positions(ranges[k])' = Positions(ranges[k])
      BY <1>2 DEF Positions
    <3>3. /\ part' \in 1..Len(ranges') /\ Len(body'.parts) = part'
          /\ start' \in ranges'[part'].start..ranges'[part'].end
      BY <1>2, <1>3, <1>12, <2>2, <2>3, <2>7, Zenon
    <3>4. body'.parts[part'] = Stretch(ranges[part].start, start)'
      BY <1>2, <2>3, <2>7, <3>1, Zenon
    <3>5. \A k \in 1..(part' - 1) : body'.parts[k] = Positions(ranges[k])'
      BY <1>2, <2>3, <2>7, <3>2
    <3>6. pc' # "header"
      BY <2>1
    <3>7. QED
      BY <3>3, <3>4, <3>5, <3>6, Zenon DEF PartsInv
  <2>9. WholeInv'
    <3>1. Begins(parts, Whole)
      BY <1>3, <2>2, <2>7, PartsBegin
    <3>2. Whole' = Whole
      BY <1>2, SameWhole
    <3>3. QED
      BY <1>2, <1>3, <2>1, <2>3, <3>1, <3>2 DEF WholeInv
  <2>10. QED
    BY <2>4, <2>5, <2>6, <2>8, <2>9 DEF IInv, GoodStep
<1>20. QED
  BY <1>17, <1>18, <1>19

\* The end of a part: all of its range was sent.
LEMMA EndPartStep ==
  ASSUME IInv, EndPart
  PROVE  GoodStep
<1>1. TypeOK /\ SizeInv /\ ChoiceInv /\ WireInv /\ MergeInv /\ ReadInv /\ PartsInv /\ WholeInv
  BY DEF IInv
<1>2. /\ pc = "part" /\ part' = part + 1 /\ ~ PartGoesOn
      /\ UNCHANGED <<request, range, specs, file, gone, size, asked, ranges, resp, start>>
  BY DEF EndPart
<1>3. /\ resp.kind = "multi" /\ Protocol!Open /\ part \in Nat /\ part' \in Nat
      /\ start' \in 0..MaxSize /\ start \in Nat /\ Len(ranges) \in Nat
      /\ part \in 1..Len(ranges) /\ Len(body.parts) = part
      /\ start \in ranges[part].start..ranges[part].end
      /\ body.parts[part] = Stretch(ranges[part].start, start)
      /\ \A k \in 1..(part - 1) : body.parts[k] = Positions(ranges[k])
      /\ body.parts \in Seq(Seq(0..MaxSize)) /\ <<>> \in Seq(0..MaxSize)
  <2>1. resp.kind = "multi" /\ Protocol!Open
    BY <1>1, <1>2 DEF ChoiceInv, WireInv
  <2>2. /\ part \in 1..Len(ranges) /\ Len(body.parts) = part
        /\ start \in ranges[part].start..ranges[part].end
        /\ body.parts[part] = Stretch(ranges[part].start, start)
        /\ \A k \in 1..(part - 1) : body.parts[k] = Positions(ranges[k])
    BY <1>1, <1>2 DEF PartsInv
  <2>3. ranges \in Seq([start : 0..MaxSize, end : 0..MaxSize]) /\ start \in 0..MaxSize /\ part \in Nat
    BY <1>1 DEF TypeOK
  <2>4. Len(ranges) \in Nat /\ part' \in Nat
    BY <1>2, <2>3
  <2>5. start \in Nat /\ start' \in 0..MaxSize
    BY <1>2, <2>3, MaxSizeAssumption
  <2>6. body.parts \in Seq(Seq(0..MaxSize)) /\ <<>> \in Seq(0..MaxSize)
    BY <1>1 DEF TypeOK
  <2>7. QED
    BY <2>1, <2>2, <2>3, <2>4, <2>5, <2>6
<1>4. /\ Current = ranges[part]
      /\ ranges[part].start \in 0..MaxSize /\ ranges[part].end \in 0..MaxSize
  BY <1>2, <1>3, PartFacts
<1>5. start = ranges[part].end
  BY <1>2, <1>3, <1>4, MaxSizeAssumption DEF PartGoesOn
<1>6. PICK m : m = M("body", TRUE, <<>>, 1)
  OBVIOUS
<1>7. m \in Message /\ m.type = "body" /\ m.more_body
  BY <1>3, <1>6 DEF M, Message
<1>8. CASE pc' = "raised" /\ UNCHANGED <<body, wire>>
  BY <1>2, <1>3, <1>8, Broken
<1>9. CASE ~ (pc' = "raised" /\ UNCHANGED <<body, wire>>)
  <2>1. /\ wire' = Append(wire, m) /\ pc' = "header"
        /\ body' = [length |-> body.length + Len(m.data) + m.framing, parts |-> body.parts]
    BY <1>6, <1>9 DEF EndPart, Send
  <2>2. /\ body' \in [length : Nat, parts : Seq(Seq(0..MaxSize))] /\ body'.parts = body.parts
    BY <1>1, <1>3, <1>7, <2>1, BodyOf
  <2>3. Protocol!Next /\ Protocol!Open'
    BY <1>1, <1>3, <1>7, <2>1, Sent DEF TypeOK
  <2>4. TypeOK' /\ SizeInv' /\ MergeInv'
    BY <1>2, <1>3, <1>7, <2>1, <2>2, SendKeeps
  <2>5. ChoiceInv' /\ WireInv' /\ ReadInv'
    BY <1>1, <1>2, <1>3, <2>1, <2>3 DEF ChoiceInv, WireInv, ReadInv
  <2>6. PartsInv'
    <3>1. body.parts[part] = Positions(ranges[part])
      BY <1>3, <1>5 DEF Stretch, Positions
    <3>2. \A k \in 1..part : body.parts[k] = Positions(ranges[k])
      <4>1. \A k \in 1..part : k = part \/ k \in 1..(part - 1)
        BY <1>3
      <4>2. QED
        BY <1>3, <3>1, <4>1
    <3>3. part' \in 1..(Len(ranges) + 1) /\ part' - 1 = part
      BY <1>2, <1>3
    <3>4. \A k \in 1..part : Positions(ranges[k])' = Positions(ranges[k])
      BY <1>2 DEF Positions
    <3>5. \A k \in 1..(part' - 1) : body'.parts[k] = Positions(ranges[k])'
      BY <2>2, <3>2, <3>3, <3>4
    <3>6. part' \in 1..(Len(ranges') + 1) /\ Len(body'.parts) = part' - 1
      BY <1>2, <1>3, <2>2, <3>3
    <3>7. pc' # "part"
      BY <2>1
    <3>8. QED
      BY <3>5, <3>6, <3>7, Zenon DEF PartsInv
  <2>7. WholeInv'
    <3>1. Whole' = Whole
      BY <1>2, SameWhole
    <3>2. Begins(body'.parts, Whole')
      BY <1>1, <1>3, <2>2, <3>1 DEF WholeInv
    <3>3. QED
      BY <1>2, <1>3, <2>1, <3>2 DEF WholeInv
  <2>8. QED
    BY <2>3, <2>4, <2>5, <2>6, <2>7 DEF IInv, GoodStep
<1>10. QED
  BY <1>8, <1>9

-----------------------------------------------------------------------------
(* The inductive invariant of StaticFiles.                                 *)

\* Directories that were passed by have nothing at the place, and the index and the page for
\* what is missing are looked for when there is reason to.
WalkInv ==
  /\ lookup.pc \in {"call", "lookup"} => lookup.stat.kind = "missing"
  /\ lookup.pc = "lookup" /\ lookup.quiet =>
       /\ \A d \in 1..(lookup.directory - 1) : tree[d][lookup.place].kind = "missing"
       /\ lookup.place = "index" => html /\ Static!First("path") = "directory"
       /\ lookup.place = "404" =>
            /\ html /\ Static!First("path") \in {"missing", "directory"}
            /\ Static!First("path") = "directory" =>
                 Static!First("index") \notin {"file", "denied"}

\* The stat is of a file that was there, and is there yet when nothing has changed.
SendInv ==
  lookup.pc = "body" =>
    /\ lookup.stat.kind = "file" /\ lookup.status \in {200, 404}
    /\ lookup.file = <<lookup.directory, lookup.place, lookup.file[3]>>
    /\ lookup.file[3] <= changes
    /\ lookup.quiet =>
         /\ tree[lookup.directory][lookup.place].kind = "file"
         /\ lookup.status = Static!Expected
         /\ lookup.status = 404 => Static!First("404") = "file"

\* The file of a stat, if that is not the one the client has, is gone for good.
Gone(version) == tree[version[1]][version[2]].kind # "file" \/ tree[version[1]][version[2]].version # version[3]
CopyInv ==
  /\ \A d \in 1..Directories, place \in Static!Places : tree[d][place].version <= changes
  /\ \A slash \in BOOLEAN :
       /\ copies[slash].of[3] <= changes
       /\ copies[slash].body = copies[slash].of \/ Gone(copies[slash].of)

SInv ==
  /\ Static!TypeOK /\ WalkInv /\ SendInv /\ CopyInv
  /\ Static!RightFile /\ Static!NotModifiedTrue

-----------------------------------------------------------------------------
(* Lemmas: what the directories have.                                      *)

Here(place) == {d \in 1..Directories : tree[d][place].kind # "missing"}

\* The first directory that has something is the one that was come to.
LEMMA FirstIs ==
  ASSUME NEW place, NEW d \in 1..Directories, tree[d][place].kind # "missing",
         \A e \in 1..(d - 1) : tree[e][place].kind = "missing"
  PROVE  Static!First(place) = tree[d][place].kind
<1>1. d \in Here(place) /\ d \in Nat /\ Directories \in Nat
  BY DirectoriesAssumption DEF Here
<1>2. \A other \in Here(place) : d <= other
  <2>1. SUFFICES ASSUME NEW other \in 1..Directories, tree[other][place].kind # "missing"
                 PROVE  d <= other
    BY DEF Here
  <2>2. other \notin 1..(d - 1)
    BY <2>1
  <2>3. QED
    BY <1>1, <2>2
<1>3. \A e \in Here(place) : (\A other \in Here(place) : e <= other) => e = d
  <2>1. SUFFICES ASSUME NEW e \in Here(place), \A other \in Here(place) : e <= other
                 PROVE  e = d
    OBVIOUS
  <2>2. e <= d /\ d <= e /\ e \in Nat
    BY <1>1, <1>2, <2>1 DEF Here
  <2>3. QED
    BY <1>1, <2>2
<1> DEFINE least == CHOOSE e \in Here(place) : \A other \in Here(place) : e <= other
<1>4. least \in Here(place) /\ \A other \in Here(place) : least <= other
  BY <1>1, <1>2, Zenon
<1>5. least = d
  <2> HIDE DEF least
  <2>1. QED
    BY <1>3, <1>4, Zenon
<1>6. Static!First(place) = tree[least][place].kind
  BY <1>1, Zenon DEF Static!First, Here
<1>7. QED
  BY <1>5, <1>6, Zenon

LEMMA FirstMissing ==
  ASSUME NEW place, \A d \in 1..Directories : tree[d][place].kind = "missing"
  PROVE  Static!First(place) = "missing"
<1>1. Here(place) = {}
  BY DEF Here
<1>2. QED
  BY <1>1, Zenon DEF Static!First, Here

\* Where the walk stops is what the first directory has.
LEMMA WalkEnds ==
  ASSUME Static!TypeOK, WalkInv, lookup.pc = "lookup", lookup.quiet,
         Static!Found.kind # "missing" \/ lookup.directory = Directories
  PROVE  Static!First(lookup.place) = Static!Found.kind
<1>1. /\ lookup.directory \in 1..Directories /\ Directories \in Nat
      /\ Static!Found = tree[lookup.directory][lookup.place]
      /\ \A d \in 1..(lookup.directory - 1) : tree[d][lookup.place].kind = "missing"
  <2>1. lookup.directory \in 1..Directories /\ Directories \in Nat
    BY DirectoriesAssumption DEF Static!TypeOK, Static!Request
  <2>2. QED
    BY <2>1, Zenon DEF WalkInv, Static!Found
<1>2. CASE Static!Found.kind # "missing"
  BY <1>1, <1>2, FirstIs
<1>3. CASE Static!Found.kind = "missing"
  <2>1. ASSUME NEW d \in 1..Directories
        PROVE  tree[d][lookup.place].kind = "missing"
    <3>1. d = lookup.directory \/ d \in 1..(lookup.directory - 1)
      BY <1>1, <1>3
    <3>2. QED
      BY <1>1, <1>3, <3>1
  <2>2. QED
    BY <1>3, <2>1, FirstMissing
<1>4. QED
  BY <1>2, <1>3

\* What has to be answered depends on the site and the slash of the URL.
LEMMA SameSite ==
  ASSUME tree' = tree
  PROVE  \A place : Static!First(place)' = Static!First(place)
BY DEF Static!First

LEMMA SameAnswer ==
  ASSUME tree' = tree, html' = html, lookup'.slash = lookup.slash
  PROVE  Static!Expected' = Static!Expected
<1>1. /\ Static!First("path")' = Static!First("path")
      /\ Static!First("index")' = Static!First("index")
      /\ Static!First("404")' = Static!First("404")
  BY SameSite
<1>2. QED
  BY <1>1 DEF Static!Expected

\* What is missing is an entry like others.
LEMMA NothingThere ==
  /\ Static!Nothing \in Static!Entry /\ Static!Nothing.version = 0
  /\ Static!Nothing.kind = "missing"
<1>1. Static!ASize \in Sizes
  BY StatsAssumption DEF Static!ASize
<1>2. 0 \in Static!Times /\ 0 \in 0..MaxChanges
  BY StatsAssumption, ChangesAssumption DEF Static!Times
<1>3. QED
  BY <1>1, <1>2 DEF Static!Nothing, Static!Entry, Static!Kinds

-----------------------------------------------------------------------------
(* Steps of StaticFiles, of other processes and of the client.             *)

\* Nothing but the request changes, and it is not one that sends a file.
LEMMA OtherRequest ==
  ASSUME SInv, UNCHANGED <<html, tree, changes, copies>>
  PROVE  CopyInv'
BY DEF SInv, CopyInv, Gone

\* A request that a change overlaps is the same but for that.
LEMMA Overlapped ==
  ASSUME NEW r \in Static!Request, NEW q, q = [r EXCEPT !.quiet = FALSE]
  PROVE  /\ q \in Static!Request /\ q.pc = r.pc /\ q.status = r.status
         /\ q.slash = r.slash /\ q.if_none_match = r.if_none_match
         /\ q.if_modified_since = r.if_modified_since /\ q.place = r.place
         /\ q.directory = r.directory /\ q.stat = r.stat /\ q.file = r.file /\ ~ q.quiet
BY DEF Static!Request

LEMMA FilesChangeStep ==
  ASSUME SInv, Static!FilesChange
  PROVE  SInv'
<1>1. Static!TypeOK /\ WalkInv /\ SendInv /\ CopyInv /\ Static!RightFile /\ Static!NotModifiedTrue
  BY DEF SInv
<1>2. /\ changes < MaxChanges /\ changes' = changes + 1
      /\ lookup' = [lookup EXCEPT !.quiet = FALSE]
      /\ UNCHANGED <<html, config_checked, copies, asks>>
  BY <1>1 DEF Static!FilesChange
<1>3. /\ changes \in Nat /\ MaxChanges \in Nat
      /\ changes' \in 0..MaxChanges /\ changes < changes'
  <2>1. changes \in Nat /\ MaxChanges \in Nat
    BY <1>1, ChangesAssumption DEF Static!TypeOK
  <2>2. QED
    BY <1>2, <2>1
<1>4. PICK edit \in Edits, mtime \in Static!Times, length \in Sizes :
        LET d == edit.directory
            entry == [kind |-> edit.kind, version |-> changes + 1, mtime |-> mtime,
                      size |-> length]
            places == [tree[d] EXCEPT ![edit.place] = entry]
        IN  tree' = [tree EXCEPT ![d] =
              IF Static!Sound(places) THEN places ELSE [places EXCEPT !["index"] = Static!Nothing]]
  BY DEF Static!FilesChange
<1>5. /\ edit.directory \in 1..Directories /\ edit.place \in Static!Places
      /\ edit.kind \in Static!Kinds
  BY EditsAssumption
<1>6. PICK entry : entry = [kind |-> edit.kind, version |-> changes + 1, mtime |-> mtime,
                           size |-> length]
  OBVIOUS
<1>7. entry \in Static!Entry /\ entry.version = changes'
  BY <1>2, <1>3, <1>5, <1>6 DEF Static!Entry
<1>8. Static!Nothing \in Static!Entry /\ Static!Nothing.version = 0
      /\ Static!Nothing.kind = "missing"
  BY NothingThere
<1>9. tree \in [1..Directories -> [Static!Places -> Static!Entry]]
  BY <1>1 DEF Static!TypeOK
<1>10. PICK places : places = [tree[edit.directory] EXCEPT ![edit.place] = entry]
  OBVIOUS
<1>11. /\ places \in [Static!Places -> Static!Entry]
       /\ \A place \in Static!Places :
            places[place] = IF place = edit.place THEN entry ELSE tree[edit.directory][place]
  BY <1>5, <1>7, <1>9, <1>10
<1>12. PICK after \in [Static!Places -> Static!Entry] :
         /\ tree' = [tree EXCEPT ![edit.directory] = after]
         /\ \A place \in Static!Places :
              after[place] \in {entry, Static!Nothing, tree[edit.directory][place]}
  <2>1. CASE Static!Sound(places)
    <3>1. tree' = [tree EXCEPT ![edit.directory] = places]
      BY <1>4, <1>6, <1>10, <2>1
    <3>2. \A place \in Static!Places :
            places[place] \in {entry, Static!Nothing, tree[edit.directory][place]}
      BY <1>11
    <3>3. QED
      BY <1>11, <3>1, <3>2
  <2>2. CASE ~ Static!Sound(places)
    <3>1. PICK emptied : emptied = [places EXCEPT !["index"] = Static!Nothing]
      OBVIOUS
    <3>2. tree' = [tree EXCEPT ![edit.directory] = emptied]
      BY <1>4, <1>6, <1>10, <2>2, <3>1
    <3>3. emptied \in [Static!Places -> Static!Entry]
      BY <1>8, <1>11, <3>1
    <3>4. \A place \in Static!Places :
            emptied[place] = IF place = "index" THEN Static!Nothing ELSE places[place]
      BY <1>11, <3>1
    <3>5. \A place \in Static!Places :
            emptied[place] \in {entry, Static!Nothing, tree[edit.directory][place]}
      BY <1>11, <3>4
    <3>6. QED
      BY <3>2, <3>3, <3>5
  <2>3. QED
    BY <2>1, <2>2
<1>13. /\ tree' \in [1..Directories -> [Static!Places -> Static!Entry]]
       /\ \A d \in 1..Directories, place \in Static!Places :
            tree'[d][place] \in {entry, Static!Nothing, tree[d][place]}
  <2>1. tree' \in [1..Directories -> [Static!Places -> Static!Entry]]
    BY <1>5, <1>9, <1>12
  <2>2. ASSUME NEW d \in 1..Directories, NEW place \in Static!Places
        PROVE  tree'[d][place] \in {entry, Static!Nothing, tree[d][place]}
    <3>1. CASE d = edit.directory
      <4>1. tree'[d] = after
        BY <1>5, <1>9, <1>12, <3>1
      <4>2. QED
        BY <1>12, <3>1, <4>1
    <3>2. CASE d # edit.directory
      <4>1. tree'[d] = tree[d]
        BY <1>5, <1>9, <1>12, <3>2
      <4>2. QED
        BY <4>1
    <3>3. QED
      BY <3>1, <3>2
  <2>3. QED
    BY <2>1, <2>2
<1>14. /\ lookup'.pc = lookup.pc /\ lookup'.stat = lookup.stat /\ lookup'.status = lookup.status
       /\ lookup'.file = lookup.file /\ lookup'.directory = lookup.directory
       /\ lookup'.place = lookup.place /\ lookup'.slash = lookup.slash /\ ~ lookup'.quiet
       /\ lookup'.if_modified_since = lookup.if_modified_since
       /\ lookup'.if_none_match = lookup.if_none_match
  <2>1. lookup \in Static!Request
    BY <1>1 DEF Static!TypeOK
  <2>2. QED
    BY <1>2, <2>1, Overlapped
<1>15. Static!TypeOK'
  <2>1. lookup' \in Static!Request
    <3>1. lookup \in Static!Request
      BY <1>1 DEF Static!TypeOK
    <3>2. QED
      BY <1>2, <3>1, Overlapped
  <2>2. QED
    BY <1>1, <1>2, <1>3, <1>13, <2>1 DEF Static!TypeOK
<1>16. WalkInv'
  BY <1>1, <1>14 DEF WalkInv
<1>17. \A slash \in BOOLEAN :
         /\ copies[slash].of[1] \in 1..Directories /\ copies[slash].of[2] \in Static!Places
         /\ copies[slash].of[3] \in 0..MaxChanges
  <2>1. \A slash \in BOOLEAN : copies[slash] \in Static!Copy
    BY <1>1 DEF Static!TypeOK
  <2>2. \A slash \in BOOLEAN : copies[slash].of \in Static!Versions
    BY <2>1 DEF Static!Copy
  <2>3. QED
    BY <2>2 DEF Static!Versions
<1>18. SendInv'
  <2>1. lookup.file[3] \in Nat
    BY <1>1, ChangesAssumption DEF Static!TypeOK, Static!Request, Static!Versions
  <2>2. lookup.file[3] <= changes => lookup.file[3] <= changes'
    BY <1>3, <2>1
  <2>3. QED
    BY <1>1, <1>14, <2>2 DEF SendInv
<1>19. CopyInv'
  <2>1. ASSUME NEW d \in 1..Directories, NEW place \in Static!Places
        PROVE  tree'[d][place].version <= changes'
    <3>1. tree[d][place].version <= changes /\ tree[d][place].version \in Nat
      BY <1>1, <1>9, ChangesAssumption DEF CopyInv, Static!Entry
    <3>2. tree[d][place].version <= changes'
      BY <1>3, <3>1
    <3>3. QED
      BY <1>3, <1>7, <1>8, <1>13, <3>2
  <2>2. ASSUME NEW slash \in BOOLEAN
        PROVE  /\ copies[slash].of[3] <= changes'
               /\ copies[slash].body = copies[slash].of \/ Gone(copies[slash].of)'
    <3>1. PICK version : version = copies[slash].of
      OBVIOUS
    <3>2. /\ version[1] \in 1..Directories /\ version[2] \in Static!Places /\ version[3] \in Nat
          /\ version[3] <= changes
          /\ copies[slash].body = version \/ Gone(version)
      BY <1>1, <1>17, <3>1, ChangesAssumption DEF CopyInv
    <3>3. version[3] <= changes' /\ version[3] # changes'
      BY <1>3, <3>2
    <3>4. tree'[version[1]][version[2]] \in {entry, Static!Nothing, tree[version[1]][version[2]]}
      BY <1>13, <3>2
    <3>5. Gone(version) => Gone(version)'
      BY <1>7, <1>8, <3>3, <3>4 DEF Gone
    <3>6. Gone(copies[slash].of)' <=> Gone(version)'
      BY <1>2, <3>1 DEF Gone
    <3>7. QED
      BY <3>1, <3>2, <3>3, <3>5, <3>6
  <2>3. QED
    BY <1>2, <1>3, <2>1, <2>2 DEF CopyInv
<1>20. Static!RightFile'
  BY <1>14, <1>15 DEF Static!RightFile
<1>21. Static!NotModifiedTrue'
  BY <1>1, <1>2, <1>14 DEF Static!NotModifiedTrue
<1>22. QED
  BY <1>15, <1>16, <1>18, <1>19, <1>20, <1>21 DEF SInv

\* An answer that is right for directories that nobody changed.
RightAnswer(status) ==
  lookup.quiet /\ config_checked' /\ status # 405 =>
    /\ status = Static!Expected
    /\ status = 404 /\ html => (lookup.stat.kind = "file" <=> Static!First("404") = "file")
LEMMA AnswerGiven ==
  ASSUME SInv, UNCHANGED <<html, tree, changes, asks>>, config_checked' \in BOOLEAN,
         copies' \in [BOOLEAN -> Static!Copy], CopyInv',
         NEW status \in Static!Statuses, status # 304,
         lookup' = [lookup EXCEPT !.pc = "answered", !.status = status],
         RightAnswer(status)
  PROVE  SInv'
<1>1. Static!TypeOK /\ lookup \in Static!Request
  BY DEF SInv, Static!TypeOK
<1>2. "answered" \in Static!Stages
  BY DEF Static!Stages
<1>3. /\ lookup' \in Static!Request /\ lookup'.pc = "answered" /\ lookup'.status = status
      /\ lookup'.slash = lookup.slash /\ lookup'.stat = lookup.stat
      /\ lookup'.quiet = lookup.quiet
  BY <1>1, <1>2 DEF Static!Request
<1>4. Static!TypeOK'
  BY <1>1, <1>3 DEF Static!TypeOK
<1>5. WalkInv' /\ SendInv' /\ Static!NotModifiedTrue'
  BY <1>3 DEF WalkInv, SendInv, Static!NotModifiedTrue
<1>6. Static!RightFile'
  <2>1. Static!Expected' = Static!Expected /\ Static!First("404")' = Static!First("404")
    BY <1>3, SameAnswer, SameSite
  <2>2. QED
    BY <1>3, <1>4, <2>1 DEF Static!RightFile, RightAnswer
<1>7. QED
  BY <1>4, <1>5, <1>6 DEF SInv

\* A place is looked for in the first directory.
LEMMA LooksFor ==
  ASSUME SInv, UNCHANGED <<html, tree, changes, asks, copies>>,
         config_checked' \in BOOLEAN, lookup.pc \in {"call", "lookup"},
         NEW place \in Static!Places,
         lookup' = [lookup EXCEPT !.pc = "lookup", !.place = place, !.directory = 1],
         lookup.quiet /\ place = "index" => html /\ Static!First("path") = "directory",
         lookup.quiet /\ place = "404" =>
            /\ html /\ Static!First("path") \in {"missing", "directory"}
            /\ Static!First("path") = "directory" =>
                 Static!First("index") \notin {"file", "denied"}
  PROVE  SInv'
<1>1. Static!TypeOK /\ lookup \in Static!Request /\ WalkInv
  BY DEF SInv, Static!TypeOK
<1>2. "lookup" \in Static!Stages /\ 1 \in 1..Directories
  BY DirectoriesAssumption DEF Static!Stages
<1>3. /\ lookup' \in Static!Request /\ lookup'.pc = "lookup" /\ lookup'.place = place
      /\ lookup'.directory = 1 /\ lookup'.stat = lookup.stat /\ lookup'.quiet = lookup.quiet
  BY <1>1, <1>2 DEF Static!Request
<1>4. Static!TypeOK'
  BY <1>1, <1>3 DEF Static!TypeOK
<1>5. SendInv' /\ Static!NotModifiedTrue' /\ Static!RightFile'
  BY <1>3, <1>4 DEF SendInv, Static!NotModifiedTrue, Static!RightFile
<1>6. WalkInv'
  <2>1. /\ Static!First("path")' = Static!First("path")
        /\ Static!First("index")' = Static!First("index")
    BY SameSite
  <2>2. \A d \in 1..(1 - 1) : FALSE
    OBVIOUS
  <2>3. QED
    BY <1>1, <1>3, <2>1, <2>2 DEF WalkInv
<1>7. QED
  BY <1>4, <1>5, <1>6, OtherRequest DEF SInv

LEMMA ClientStep ==
  ASSUME SInv, Static!Ask \/ Static!Receive
  PROVE  SInv'
<1>1. Static!TypeOK /\ asks \in Nat /\ MaxRequests \in Nat
  BY ChangesAssumption DEF SInv, Static!TypeOK
<1>2. UNCHANGED <<html, config_checked, tree, changes, copies>>
  BY DEF Static!Ask, Static!Receive
<1>3. asks' \in 0..MaxRequests
  <2>1. CASE Static!Ask
    <3>1. asks < MaxRequests /\ asks' = asks + 1
      BY <2>1 DEF Static!Ask
    <3>2. QED
      BY <1>1, <3>1
  <2>2. CASE Static!Receive
    BY <1>1, <2>2 DEF Static!Receive, Static!TypeOK
  <2>3. QED
    BY <2>1, <2>2
<1>4. /\ Static!Idle \in Static!Request /\ Static!Idle.pc = "idle"
      /\ Static!Idle.stat.kind = "missing" /\ "call" \in Static!Stages
  <2>1. "idle" \in Static!Stages /\ "call" \in Static!Stages /\ 0 \in Static!Statuses
    BY DEF Static!Stages, Static!Statuses
  <2>2. "path" \in Static!Places /\ 1 \in 1..Directories
    BY DirectoriesAssumption DEF Static!Places
  <2>3. Static!Nothing \in Static!Entry /\ Static!Nothing.kind = "missing"
    BY NothingThere
  <2>4. <<1, "path", 0>> \in Static!Versions
    BY <2>2, ChangesAssumption DEF Static!Versions
  <2>5. QED
    BY <2>1, <2>2, <2>3, <2>4 DEF Static!Idle, Static!Request
<1>5. lookup' \in Static!Request /\ lookup'.pc \in {"idle", "call"} /\ lookup'.stat.kind = "missing"
  <2>1. CASE Static!Receive
    BY <1>4, <2>1 DEF Static!Receive
  <2>2. CASE Static!Ask
    <3>1. PICK idle \in Static!Request : idle = Static!Idle
      BY <1>4
    <3>2. PICK slash \in BOOLEAN, match \in BOOLEAN, since \in BOOLEAN :
            lookup' = [idle EXCEPT !.pc = "call", !.slash = slash, !.if_none_match = match,
                                   !.if_modified_since = since]
      BY <2>2, <3>1, Zenon DEF Static!Ask
    <3>3. lookup' \in Static!Request /\ lookup'.pc = "call" /\ lookup'.stat = idle.stat
      BY <1>4, <3>2 DEF Static!Request
    <3>4. QED
      BY <1>4, <3>1, <3>3
  <2>3. QED
    BY <2>1, <2>2
<1>6. Static!TypeOK'
  BY <1>1, <1>2, <1>3, <1>5 DEF Static!TypeOK
<1>7. WalkInv' /\ SendInv' /\ Static!NotModifiedTrue' /\ Static!RightFile'
  BY <1>5, <1>6 DEF WalkInv, SendInv, Static!NotModifiedTrue, Static!RightFile
<1>8. QED
  BY <1>2, <1>6, <1>7, OtherRequest DEF SInv

LEMMA CallStep ==
  ASSUME SInv, Static!Call
  PROVE  SInv'
<1>1. /\ lookup.pc = "call" /\ config_checked \in BOOLEAN /\ CopyInv
      /\ copies \in [BOOLEAN -> Static!Copy]
      /\ UNCHANGED <<html, tree, changes, copies, asks>>
  BY DEF SInv, Static!TypeOK, Static!Call
<1>2. CopyInv' /\ copies' \in [BOOLEAN -> Static!Copy] /\ config_checked' \in BOOLEAN
  BY <1>1, OtherRequest DEF Static!Call
<1>3. CASE lookup' = [lookup EXCEPT !.pc = "lookup", !.place = "path", !.directory = 1]
  <2>1. "path" \in Static!Places
    BY DEF Static!Places
  <2>2. QED
    BY <1>1, <1>2, <1>3, <2>1, LooksFor
<1>4. CASE /\ lookup' = [lookup EXCEPT !.pc = "answered", !.status = 500]
           /\ ~ config_checked'
  <2>1. PICK status \in Static!Statuses : status = 500
    BY DEF Static!Statuses
  <2>2. lookup' = [lookup EXCEPT !.pc = "answered", !.status = status]
    BY <1>4, <2>1
  <2>3. RightAnswer(status) /\ status # 304
    BY <1>4, <2>1 DEF RightAnswer
  <2>4. QED
    BY <1>1, <1>2, <2>2, <2>3, AnswerGiven
<1>5. CASE lookup' = [lookup EXCEPT !.pc = "answered", !.status = 405]
  <2>1. PICK status \in Static!Statuses : status = 405
    BY DEF Static!Statuses
  <2>2. lookup' = [lookup EXCEPT !.pc = "answered", !.status = status]
    BY <1>5, <2>1
  <2>3. RightAnswer(status) /\ status # 304
    BY <1>5, <2>1 DEF RightAnswer
  <2>4. QED
    BY <1>1, <1>2, <2>2, <2>3, AnswerGiven
<1>6. QED
  BY <1>3, <1>4, <1>5 DEF Static!Call, Static!Looks, Static!Answers

LEMMA TryNextStep ==
  ASSUME SInv, Static!TryNext
  PROVE  SInv'
<1>1. /\ Static!TypeOK /\ WalkInv /\ lookup \in Static!Request /\ lookup.pc = "lookup"
      /\ UNCHANGED <<html, config_checked, tree, changes, copies, asks>>
  BY DEF SInv, Static!TypeOK, Static!TryNext
<1>2. PICK d : d = lookup.directory
  OBVIOUS
<1>3. /\ d \in 1..Directories /\ d < Directories /\ Directories \in Nat
      /\ tree[d][lookup.place].kind = "missing"
      /\ lookup' = [lookup EXCEPT !.directory = d + 1]
  <2>1. d \in 1..Directories /\ Directories \in Nat
    BY <1>1, <1>2, DirectoriesAssumption DEF Static!Request
  <2>2. QED
    BY <1>1, <1>2, <2>1 DEF Static!TryNext, Static!Found
<1>4. /\ lookup' \in Static!Request /\ lookup'.pc = "lookup" /\ lookup'.place = lookup.place
      /\ lookup'.directory = d + 1 /\ lookup'.stat = lookup.stat /\ lookup'.quiet = lookup.quiet
  <2>1. d + 1 \in 1..Directories
    BY <1>3
  <2>2. QED
    BY <1>1, <1>3, <2>1 DEF Static!Request
<1>5. Static!TypeOK'
  BY <1>1, <1>4 DEF Static!TypeOK
<1>6. SendInv' /\ Static!NotModifiedTrue' /\ Static!RightFile'
  BY <1>4, <1>5 DEF SendInv, Static!NotModifiedTrue, Static!RightFile
<1>7. WalkInv'
  <2>1. /\ Static!First("path")' = Static!First("path")
        /\ Static!First("index")' = Static!First("index")
    BY <1>1, SameSite
  <2>2. \A e \in 1..((d + 1) - 1) : e = d \/ e \in 1..(d - 1)
    BY <1>3
  <2>3. lookup.quiet => \A e \in 1..((d + 1) - 1) : tree[e][lookup.place].kind = "missing"
    BY <1>1, <1>2, <1>3, <2>2 DEF WalkInv
  <2>4. QED
    BY <1>1, <1>4, <2>1, <2>3 DEF WalkInv
<1>8. QED
  BY <1>1, <1>5, <1>6, <1>7, OtherRequest DEF SInv

\* A file that was found is served, or the client has it.
LEMMA FileServed ==
  ASSUME SInv, UNCHANGED <<html, config_checked, tree, changes, copies, asks>>,
         lookup.pc = "lookup", Static!Found.kind = "file", NEW status \in {200, 404},
         Static!FileResponse(status),
         lookup.quiet =>
           status = Static!Expected /\ (status = 404 => Static!First("404") = "file")
  PROVE  SInv'
<1>1. /\ Static!TypeOK /\ CopyInv /\ lookup \in Static!Request
      /\ tree \in [1..Directories -> [Static!Places -> Static!Entry]]
      /\ copies \in [BOOLEAN -> Static!Copy]
  BY DEF SInv, Static!TypeOK
<1>2. PICK d, p : d = lookup.directory /\ p = lookup.place
  OBVIOUS
<1>3. d \in 1..Directories /\ p \in Static!Places /\ lookup.slash \in BOOLEAN
  BY <1>1, <1>2 DEF Static!Request
<1>4. PICK f \in Static!Entry : f = Static!Found /\ f = tree[d][p] /\ f.kind = "file"
  BY <1>1, <1>2, <1>3 DEF Static!Found
<1>5. f.version \in 0..MaxChanges /\ f.version <= changes
  BY <1>1, <1>3, <1>4 DEF Static!Entry, CopyInv
<1>6. PICK version : version = <<d, p, f.version>>
  OBVIOUS
<1>7. /\ version \in Static!Versions /\ version[1] = d /\ version[2] = p /\ version[3] = f.version
      /\ version = <<d, p, version[3]>>
  BY <1>3, <1>5, <1>6 DEF Static!Versions
<1>8. PICK fresh \in BOOLEAN : fresh = (status = 200 /\ Static!IsNotModified(f))
  OBVIOUS
<1>9. PICK answer : answer = (IF fresh THEN 304 ELSE status)
  OBVIOUS
<1>10. PICK stage : stage = (IF fresh THEN "answered" ELSE "body")
  OBVIOUS
<1>11. lookup' = [lookup EXCEPT !.stat = f, !.file = version, !.status = answer, !.pc = stage]
  <2>1. Static!Version(lookup.directory, lookup.place, Static!Found) = version
    BY <1>2, <1>4, <1>6 DEF Static!Version
  <2>2. Static!Found = f
    BY <1>4
  <2>3. CASE fresh
    <3>1. status = 200 /\ Static!IsNotModified(f)
      BY <1>8, <2>3
    <3>2. lookup' = [lookup EXCEPT !.stat = f, !.file = version, !.status = 304, !.pc = "answered"]
      BY <2>1, <2>2, <3>1, Zenon DEF Static!FileResponse
    <3>3. QED
      BY <1>9, <1>10, <2>3, <3>2, Zenon
  <2>4. CASE ~ fresh
    <3>1. ~ (status = 200 /\ Static!IsNotModified(f))
      BY <1>8, <2>4
    <3>2. lookup' = [lookup EXCEPT !.stat = f, !.file = version, !.status = status, !.pc = "body"]
      BY <2>1, <2>2, <3>1, Zenon DEF Static!FileResponse
    <3>3. QED
      BY <1>9, <1>10, <2>4, <3>2, Zenon
  <2>5. QED
    BY <2>3, <2>4
<1>12. answer \in Static!Statuses /\ stage \in Static!Stages
  BY <1>9, <1>10 DEF Static!Statuses, Static!Stages
<1>13. /\ lookup' \in Static!Request /\ lookup'.stat = f /\ lookup'.file = version
       /\ lookup'.status = answer /\ lookup'.pc = stage /\ lookup'.directory = d
       /\ lookup'.place = p /\ lookup'.slash = lookup.slash /\ lookup'.quiet = lookup.quiet
       /\ lookup'.if_modified_since = lookup.if_modified_since
       /\ lookup'.if_none_match = lookup.if_none_match
  <2>1. lookup' \in Static!Request
    BY <1>1, <1>7, <1>11, <1>12 DEF Static!Request
  <2>2. DOMAIN lookup = {"pc", "slash", "if_none_match", "if_modified_since", "place",
                         "directory", "stat", "file", "status", "quiet"}
    BY <1>1 DEF Static!Request
  <2>3. lookup'.stat = f /\ lookup'.file = version /\ lookup'.status = answer /\ lookup'.pc = stage
    BY <1>11, <2>2
  <2>4. /\ lookup'.directory = lookup.directory /\ lookup'.place = lookup.place
        /\ lookup'.slash = lookup.slash /\ lookup'.quiet = lookup.quiet
        /\ lookup'.if_modified_since = lookup.if_modified_since
        /\ lookup'.if_none_match = lookup.if_none_match
    BY <1>11, <2>2
  <2>5. QED
    BY <1>2, <2>1, <2>3, <2>4
<1>14. Static!TypeOK'
  BY <1>1, <1>13 DEF Static!TypeOK
<1>15. WalkInv'
  BY <1>10, <1>13 DEF WalkInv
<1>16. Static!Expected' = Static!Expected /\ Static!First("404")' = Static!First("404")
  BY <1>13, SameAnswer, SameSite
<1>17. SendInv'
  <2>1. CASE fresh
    BY <1>10, <1>13, <2>1 DEF SendInv
  <2>2. CASE ~ fresh
    <3>1. lookup'.status = status /\ lookup'.status \in {200, 404}
      BY <1>9, <1>13, <2>2
    <3>2. /\ lookup'.file = <<lookup'.directory, lookup'.place, lookup'.file[3]>>
          /\ lookup'.file[3] <= changes'
      BY <1>5, <1>7, <1>13
    <3>3. tree'[lookup'.directory][lookup'.place].kind = "file"
      BY <1>4, <1>13
    <3>4. QED
      BY <1>4, <1>13, <1>16, <3>1, <3>2, <3>3 DEF SendInv
  <2>3. QED
    BY <2>1, <2>2
<1>18. Static!RightFile'
  <2>1. CASE ~ fresh
    BY <1>10, <1>13, <1>14, <2>1 DEF Static!RightFile
  <2>2. CASE fresh
    <3>1. lookup'.status = 304 /\ status = 200
      BY <1>8, <1>9, <1>13, <2>2
    <3>2. lookup.quiet => Static!Expected' = 200
      BY <1>16, <3>1
    <3>3. QED
      BY <1>13, <1>14, <3>1, <3>2 DEF Static!RightFile
  <2>3. QED
    BY <2>1, <2>2
<1>19. Static!NotModifiedTrue'
  <2>1. CASE ~ fresh
    BY <1>10, <1>13, <2>1 DEF Static!NotModifiedTrue
  <2>2. CASE fresh
    <3>1. PICK copy : copy = copies[lookup.slash]
      OBVIOUS
    <3>2. \/ lookup.if_none_match /\ Static!ETag(copy.stat) = Static!ETag(f)
          \/ /\ lookup.if_modified_since
             /\ Static!LastModified(copy.stat) >= Static!LastModified(f)
      BY <1>8, <2>2, <3>1 DEF Static!IsNotModified
    <3>3. copy.body = copy.of \/ Gone(copy.of)
      BY <1>1, <1>3, <3>1 DEF CopyInv
    <3>4. ~ Gone(version)
      BY <1>4, <1>7 DEF Gone
    <3>5. copy.body = version \/ copy.of # version
      BY <3>3, <3>4
    <3>6. QED
      BY <1>13, <3>1, <3>2, <3>5 DEF Static!NotModifiedTrue
  <2>3. QED
    BY <2>1, <2>2
<1>20. QED
  BY <1>14, <1>15, <1>17, <1>18, <1>19, OtherRequest DEF SInv

\* Every outcome of the walk is what the directories say.
LEMMA LookupStep ==
  ASSUME SInv, Static!Lookup
  PROVE  SInv'
<1>1. /\ Static!TypeOK /\ WalkInv /\ CopyInv /\ lookup \in Static!Request
      /\ tree \in [1..Directories -> [Static!Places -> Static!Entry]]
      /\ copies \in [BOOLEAN -> Static!Copy] /\ html \in BOOLEAN /\ config_checked \in BOOLEAN
  BY DEF SInv, Static!TypeOK
<1>2. /\ lookup.pc = "lookup" /\ (Static!Found.kind # "missing" \/ lookup.directory = Directories)
      /\ UNCHANGED <<html, config_checked, tree, changes, copies, asks>>
  BY DEF Static!Lookup
<1>3. /\ CopyInv' /\ copies' \in [BOOLEAN -> Static!Copy] /\ config_checked' \in BOOLEAN
  BY <1>1, <1>2, OtherRequest
<1>4. PICK kind, place : kind = Static!Found.kind /\ place = lookup.place
  OBVIOUS
<1>5. /\ kind \in Static!Kinds /\ place \in Static!Places
  <2>1. lookup.directory \in 1..Directories /\ place \in Static!Places
    BY <1>1, <1>4 DEF Static!Request
  <2>2. Static!Found \in Static!Entry
    BY <1>1, <1>4, <2>1 DEF Static!Found
  <2>3. QED
    BY <1>4, <2>1, <2>2 DEF Static!Entry
<1>6. place \in {"path", "index", "404"} /\ kind \in {"missing", "file", "directory", "denied"}
  BY <1>5 DEF Static!Places, Static!Kinds
<1>7. lookup.quiet => Static!First(place) = kind
  BY <1>1, <1>2, <1>4, WalkEnds
<1>8. PICK path, index, page : /\ path = Static!First("path") /\ index = Static!First("index")
                               /\ page = Static!First("404")
  OBVIOUS
<1>9. lookup.quiet =>
        /\ place = "path" => path = kind
        /\ place = "index" => html /\ path = "directory" /\ index = kind
        /\ place = "404" => /\ html /\ path \in {"missing", "directory"} /\ page = kind
                            /\ path = "directory" => index \notin {"file", "denied"}
  BY <1>1, <1>2, <1>4, <1>7, <1>8 DEF WalkInv
<1>10. Static!Expected =
         IF path = "file" THEN 200
         ELSE IF path = "denied" THEN 401
         ELSE IF path = "directory" /\ html /\ index = "file"
              THEN IF lookup.slash THEN 200 ELSE 307
         ELSE IF path = "directory" /\ html /\ index = "denied" THEN 500
         ELSE IF html /\ page = "denied" THEN 500 ELSE 404
  BY <1>8 DEF Static!Expected
<1>11. lookup.stat.kind = "missing"
  BY <1>1, <1>2 DEF WalkInv
<1>12. ASSUME NEW status \in Static!Statuses, status # 304, Static!Answers(status),
              lookup.quiet => status = Static!Expected /\ (status = 404 /\ html => page # "file")
       PROVE  SInv'
  <2>1. RightAnswer(status)
    BY <1>8, <1>11, <1>12 DEF RightAnswer
  <2>2. lookup' = [lookup EXCEPT !.pc = "answered", !.status = status]
    BY <1>12 DEF Static!Answers
  <2>3. QED
    BY <1>2, <1>3, <1>12, <2>1, <2>2, AnswerGiven
<1>13. ASSUME NEW next \in Static!Places, Static!Looks(next),
              lookup.quiet /\ next = "index" => html /\ path = "directory",
              lookup.quiet /\ next = "404" =>
                /\ html /\ path \in {"missing", "directory"}
                /\ path = "directory" => index \notin {"file", "denied"}
       PROVE  SInv'
  <2>1. lookup' = [lookup EXCEPT !.pc = "lookup", !.place = next, !.directory = 1]
    BY <1>13 DEF Static!Looks
  <2>2. QED
    BY <1>2, <1>3, <1>8, <1>13, <2>1, LooksFor
<1>14. {200, 307, 401, 404, 500} \subseteq Static!Statuses
       /\ "index" \in Static!Places /\ "404" \in Static!Places
  BY DEF Static!Statuses, Static!Places
<1>15. CASE kind = "denied"
  <2>1. CASE place = "path"
    <3>1. Static!Answers(401)
      BY <1>4, <1>15, <2>1 DEF Static!Lookup
    <3>2. lookup.quiet => 401 = Static!Expected
      BY <1>9, <1>10, <1>15, <2>1
    <3>3. QED
      BY <1>12, <1>14, <3>1, <3>2
  <2>2. CASE place # "path"
    <3>1. Static!Answers(500)
      BY <1>4, <1>15, <2>2 DEF Static!Lookup
    <3>2. lookup.quiet => 500 = Static!Expected
      BY <1>6, <1>9, <1>10, <1>15, <2>2
    <3>3. QED
      BY <1>12, <1>14, <3>1, <3>2
  <2>3. QED
    BY <2>1, <2>2
<1>16. CASE kind = "file" /\ (place = "path" \/ (place = "index" /\ lookup.slash))
  <2>1. Static!FileResponse(200)
    BY <1>4, <1>16 DEF Static!Lookup
  <2>2. lookup.quiet => 200 = Static!Expected
    BY <1>9, <1>10, <1>16
  <2>3. QED
    BY <1>2, <1>4, <1>16, <2>1, <2>2, FileServed
<1>17. CASE kind = "file" /\ place = "index" /\ ~ lookup.slash
  <2>1. Static!Answers(307)
    BY <1>4, <1>17 DEF Static!Lookup
  <2>2. lookup.quiet => 307 = Static!Expected
    BY <1>9, <1>10, <1>17
  <2>3. QED
    BY <1>12, <1>14, <2>1, <2>2
<1>18. CASE kind = "file" /\ place = "404"
  <2>1. Static!FileResponse(404)
    BY <1>4, <1>18 DEF Static!Lookup
  <2>2. lookup.quiet => 404 = Static!Expected /\ page = "file"
    BY <1>9, <1>10, <1>18
  <2>3. QED
    BY <1>2, <1>4, <1>8, <1>18, <2>1, <2>2, FileServed
<1>19. CASE kind = "directory" /\ place = "path" /\ html
  <2>1. Static!Looks("index")
    BY <1>4, <1>19 DEF Static!Lookup
  <2>2. lookup.quiet => path = "directory"
    BY <1>9, <1>19
  <2>3. QED
    BY <1>13, <1>14, <1>19, <2>1, <2>2
<1>20. CASE kind \in {"missing", "directory"} /\ ~ (kind = "directory" /\ place = "path" /\ html)
  <2>1. Static!NotThere
    BY <1>4, <1>20 DEF Static!Lookup
  <2>2. CASE html /\ place # "404"
    <3>1. Static!Looks("404")
      BY <1>4, <2>1, <2>2 DEF Static!NotThere
    <3>2. lookup.quiet =>
            /\ html /\ path \in {"missing", "directory"}
            /\ path = "directory" => index \notin {"file", "denied"}
      BY <1>6, <1>9, <1>20, <2>2
    <3>3. QED
      BY <1>13, <1>14, <3>1, <3>2
  <2>3. CASE ~ (html /\ place # "404")
    <3>1. Static!Answers(404)
      BY <1>4, <2>1, <2>3 DEF Static!NotThere
    <3>2. lookup.quiet => 404 = Static!Expected /\ (html => page # "file")
      BY <1>6, <1>9, <1>10, <1>20, <2>3
    <3>3. QED
      BY <1>12, <1>14, <3>1, <3>2
  <2>4. QED
    BY <2>2, <2>3
<1>21. QED
  BY <1>6, <1>15, <1>16, <1>17, <1>18, <1>19, <1>20

LEMMA SendFileStep ==
  ASSUME SInv, Static!SendFile
  PROVE  SInv'
<1>1. /\ Static!TypeOK /\ SendInv /\ CopyInv /\ lookup \in Static!Request
      /\ tree \in [1..Directories -> [Static!Places -> Static!Entry]]
      /\ copies \in [BOOLEAN -> Static!Copy] /\ config_checked \in BOOLEAN
  BY DEF SInv, Static!TypeOK
<1>2. /\ lookup.pc = "body"
      /\ UNCHANGED <<html, config_checked, tree, changes, asks>>
  BY DEF Static!SendFile
<1>3. PICK d, p : d = lookup.directory /\ p = lookup.place
  OBVIOUS
<1>4. /\ d \in 1..Directories /\ p \in Static!Places /\ lookup.slash \in BOOLEAN
      /\ lookup.file \in Static!Versions /\ lookup.stat \in Static!Entry
  BY <1>1, <1>3 DEF Static!Request
<1>5. PICK f \in Static!Entry : f = Static!Found /\ f = tree[d][p]
  BY <1>1, <1>3, <1>4 DEF Static!Found
<1>6. /\ lookup.stat.kind = "file" /\ lookup.status \in {200, 404}
      /\ lookup.file = <<d, p, lookup.file[3]>> /\ lookup.file[3] <= changes
      /\ lookup.quiet =>
           /\ f.kind = "file" /\ lookup.status = Static!Expected
           /\ lookup.status = 404 => Static!First("404") = "file"
  BY <1>1, <1>2, <1>3, <1>5 DEF SendInv
<1>7. PICK status : status = IF f.kind = "file" THEN lookup.status ELSE 500
  OBVIOUS
<1>8. status \in Static!Statuses /\ status # 304
  BY <1>6, <1>7 DEF Static!Statuses
<1>9. lookup' = [lookup EXCEPT !.pc = "answered", !.status = status]
  BY <1>5, <1>7 DEF Static!SendFile, Static!Answers
<1>10. RightAnswer(status)
  BY <1>6, <1>7 DEF RightAnswer
<1>11. copies' \in [BOOLEAN -> Static!Copy] /\ CopyInv'
  <2>1. CASE copies' = copies
    BY <1>1, <1>2, <2>1, OtherRequest
  <2>2. CASE copies' # copies
    <3>1. PICK copy : copy = [body |-> Static!Version(d, p, f), of |-> lookup.file,
                              stat |-> lookup.stat, valid |-> TRUE]
      OBVIOUS
    <3>2. copies' = [copies EXCEPT ![lookup.slash] = copy]
      BY <1>3, <1>5, <2>2, <3>1 DEF Static!SendFile
    <3>3. PICK version : version = lookup.file
      OBVIOUS
    <3>4. copy.body = <<d, p, f.version>> /\ copy.of = version
      BY <3>1, <3>3 DEF Static!Version
    <3>5. copy \in Static!Copy
      <4>1. f.version \in 0..MaxChanges
        BY <1>4 DEF Static!Entry
      <4>2. Static!Version(d, p, f) \in Static!Versions
        BY <1>4, <4>1 DEF Static!Version, Static!Versions
      <4>3. QED
        BY <1>4, <3>1, <4>1, <4>2 DEF Static!Copy
    <3>6. version = <<d, p, version[3]>> /\ version[1] = d /\ version[2] = p /\ version[3] <= changes
      BY <1>6, <3>3
    <3>7. copy.body = copy.of \/ Gone(copy.of)
      <4>1. CASE f.version = version[3]
        BY <3>4, <3>6, <4>1
      <4>2. CASE f.version # version[3]
        BY <1>5, <3>4, <3>6, <4>2 DEF Gone
      <4>3. QED
        BY <4>1, <4>2
    <3>8. copies' \in [BOOLEAN -> Static!Copy]
      BY <1>1, <1>4, <3>2, <3>5
    <3>9. \A slash \in BOOLEAN : copies'[slash] \in {copies[slash], copy}
      BY <1>1, <1>4, <3>2
    <3>10. \A slash \in BOOLEAN :
             /\ copies'[slash].of[3] <= changes
             /\ copies'[slash].body = copies'[slash].of \/ Gone(copies'[slash].of)
      <4>1. SUFFICES ASSUME NEW slash \in BOOLEAN, NEW c, c = copies'[slash]
                     PROVE  c.of[3] <= changes /\ (c.body = c.of \/ Gone(c.of))
        OBVIOUS
      <4>2. c = copies[slash] \/ c = copy
        BY <3>9, <4>1
      <4>3. CASE c = copies[slash]
        BY <1>1, <4>3 DEF CopyInv
      <4>4. CASE c = copy
        BY <3>4, <3>6, <3>7, <4>4
      <4>5. QED
        BY <4>2, <4>3, <4>4
    <3>11. CopyInv'
      BY <1>1, <1>2, <3>10 DEF CopyInv, Gone
    <3>12. QED
      BY <3>8, <3>11
  <2>3. QED
    BY <2>1, <2>2
<1>12. QED
  BY <1>1, <1>2, <1>8, <1>9, <1>10, <1>11, AnswerGiven

LEMMA FindingStep ==
  ASSUME SInv, Static!Next \/ UNCHANGED lookups
  PROVE  SInv'
<1>1. CASE UNCHANGED lookups
  <2>1. /\ UNCHANGED <<html, config_checked, tree, changes, copies, asks>>
        /\ lookup' = lookup
    BY <1>1 DEF lookups
  <2>2. CopyInv' /\ Static!TypeOK'
    BY <2>1, OtherRequest DEF SInv, Static!TypeOK
  <2>3. /\ Static!Expected' = Static!Expected
        /\ Static!First("path")' = Static!First("path")
        /\ Static!First("index")' = Static!First("index")
        /\ Static!First("404")' = Static!First("404")
    BY <2>1, SameAnswer, SameSite
  <2>4. WalkInv'
    BY <2>1, <2>3 DEF SInv, WalkInv
  <2>5. SendInv'
    BY <2>1, <2>3 DEF SInv, SendInv
  <2>6. Static!RightFile'
    BY <2>1, <2>2, <2>3 DEF SInv, Static!RightFile
  <2>7. Static!NotModifiedTrue'
    BY <2>1 DEF SInv, Static!NotModifiedTrue
  <2>8. QED
    BY <2>2, <2>4, <2>5, <2>6, <2>7 DEF SInv
<1>2. CASE Static!Next
  BY <1>2, FilesChangeStep, ClientStep, CallStep, TryNextStep, LookupStep, SendFileStep
  DEF Static!Next
<1>3. QED
  BY <1>1, <1>2

-----------------------------------------------------------------------------
(* The theorems.                                                           *)

LEMMA ResponseStarts ==
  ASSUME Init \/ NotFollowed
  PROVE  IInv /\ wire = <<>>
<1>1. /\ request \in Requests /\ file \in [length : 0..MaxSize, there : {TRUE}, changes : {0}]
      /\ range \in {"absent", "bytes", "other"} /\ specs \in Seq(RangeSpecs)
      /\ gone = FALSE /\ pc \in {"call", "raised"} /\ (request.given => size = file.length)
      /\ size \in 0..MaxSize
      /\ asked = <<>> /\ ranges = <<>> /\ resp = [kind |-> "none", length |-> 0]
      /\ part = 1 /\ start = 0 /\ body = [length |-> 0, parts |-> <<>>] /\ wire = <<>>
  <2>1. CASE Init
    <3>1. specs \in Seq(RangeSpecs)
      <4>1. PICK n \in Nat : n = request.max_ranges
        BY <2>1, RequestsAssumption DEF Init, Constructed
      <4>2. specs \in BoundedSeq(RangeSpecs, n)
        BY <2>1, <4>1 DEF Init
      <4>3. PICK m \in 0..n : specs \in [1..m -> RangeSpecs]
        BY <4>2 DEF BoundedSeq, SeqOf
      <4>4. QED
        BY <4>1, <4>3
    <3>2. request \in Requests /\ (request.given => size = file.length) /\ size \in 0..MaxSize
      BY <2>1, MaxSizeAssumption DEF Init, Constructed
    <3>3. QED
      BY <2>1, <3>1, <3>2 DEF Init
  <2>2. CASE NotFollowed
    BY <2>2, MaxSizeAssumption DEF NotFollowed
  <2>3. QED
    BY <2>1, <2>2
<1>2. request.max_changes \in Nat
  BY <1>1, RequestsAssumption
<1>3. TypeOK
  <2>1. file \in [length : 0..MaxSize, there : BOOLEAN, changes : 0..request.max_changes]
    <3>1. 0 \in 0..request.max_changes
      BY <1>2
    <3>2. file.there \in BOOLEAN /\ file.changes \in 0..request.max_changes
          /\ file.length \in 0..MaxSize
          /\ file = [length |-> file.length, there |-> file.there, changes |-> file.changes]
      BY <1>1, <3>1
    <3>3. QED
      BY <3>2
  <2>2. start \in 0..MaxSize
    BY <1>1, MaxSizeAssumption
  <2>3. part \in Nat
    BY <1>1
  <2>4. resp \in [kind : Kinds, length : Nat]
    BY <1>1 DEF Kinds
  <2>5. body \in [length : Nat, parts : Seq(Seq(0..MaxSize))] /\ wire \in Seq(Message)
    BY <1>1
  <2>6. asked \in Seq(ByteRange) /\ ranges \in Seq([start : 0..MaxSize, end : 0..MaxSize])
    BY <1>1
  <2>7. request \in Requests /\ range \in {"absent", "bytes", "other"} /\ specs \in Seq(RangeSpecs)
        /\ gone \in BOOLEAN /\ size \in 0..MaxSize
        /\ pc \in {"call", "headers", "merge", "start", "last", "pathsend", "open", "read",
                  "header", "part", "background", "done", "raised"}
    BY <1>1
  <2>8. QED
    BY <2>1, <2>2, <2>3, <2>4, <2>5, <2>6, <2>7 DEF TypeOK
<1>4. SizeInv
  <2>1. file.there = TRUE
    BY <1>1
  <2>2. asked \in Seq(Spans) /\ DOMAIN asked = {} /\ DOMAIN ranges = {}
    BY <1>1
  <2>3. pc \in {"call", "raised"} /\ (request.given => size = file.length)
    BY <1>1
  <2>4. QED
    BY <2>1, <2>2, <2>3 DEF SizeInv
<1>5. ChoiceInv /\ WireInv /\ MergeInv /\ PartsInv
  BY <1>1 DEF ChoiceInv, WireInv, MergeInv, MergeKeepsBytes, PartsInv
<1>6. ReadInv
  BY <1>1 DEF ReadInv
<1>7. WholeInv
  <2>1. Begins(<<>>, Whole)
    <3>1. Len(Whole) \in Nat
      BY <1>1 DEF Whole
    <3>2. QED
      BY <3>1 DEF Begins
  <2>2. QED
    BY <1>1, <2>1 DEF WholeInv
<1>8. QED
  BY <1>1, <1>3, <1>4, <1>5, <1>6, <1>7 DEF IInv

LEMMA SiteStarts ==
  ASSUME Static!Init
  PROVE  SInv
<1>1. /\ html \in BOOLEAN /\ config_checked = FALSE
      /\ changes = 0 /\ asks = 0 /\ lookup = Static!Idle
      /\ copies = [slash \in BOOLEAN |-> Static!NoCopy]
  BY DEF Static!Init
<1>2. /\ "idle" \in Static!Stages /\ 0 \in Static!Statuses /\ "path" \in Static!Places
      /\ 1 \in 1..Directories /\ 0 \in 0..MaxChanges /\ 0 \in 0..MaxRequests
  BY DirectoriesAssumption, ChangesAssumption DEF Static!Stages, Static!Statuses, Static!Places
<1>3. Static!Nothing \in Static!Entry /\ Static!Nothing.version = 0
  BY NothingThere
<1>4. <<1, "path", 0>> \in Static!Versions
  BY <1>2 DEF Static!Versions
<1>5. lookup \in Static!Request /\ lookup.pc = "idle"
  BY <1>1, <1>2, <1>3, <1>4 DEF Static!Idle, Static!Request
<1>6. Static!NoCopy \in Static!Copy
  BY <1>3, <1>4 DEF Static!NoCopy, Static!Copy
<1>7. PICK kinds \in Trees : tree = Static!TreeOf(kinds)
  BY DEF Static!Init
<1>8. kinds \in [1..Directories -> [Static!Places -> Static!Kinds]]
  BY TreesAssumption
<1>9. ASSUME NEW d \in 1..Directories, NEW place \in Static!Places
      PROVE  /\ tree[d][place] = [Static!Nothing EXCEPT !.kind = kinds[d][place]]
             /\ tree[d][place] \in Static!Entry /\ tree[d][place].version = 0
  <2>1. tree[d][place] = [Static!Nothing EXCEPT !.kind = kinds[d][place]]
    BY <1>7 DEF Static!TreeOf
  <2>2. kinds[d][place] \in Static!Kinds
    BY <1>8
  <2>3. QED
    BY <1>2, <1>3, <2>1, <2>2 DEF Static!Entry, Static!Nothing
<1>10. tree \in [1..Directories -> [Static!Places -> Static!Entry]]
  <2>1. tree = [d \in 1..Directories |-> [place \in Static!Places |->
                  [Static!Nothing EXCEPT !.kind = kinds[d][place]]]]
    BY <1>7 DEF Static!TreeOf
  <2>2. \A d \in 1..Directories, place \in Static!Places :
          [Static!Nothing EXCEPT !.kind = kinds[d][place]] \in Static!Entry
    BY <1>9
  <2>3. QED
    BY <2>1, <2>2
<1>11. Static!TypeOK
  BY <1>1, <1>2, <1>5, <1>6, <1>10 DEF Static!TypeOK
<1>12. WalkInv /\ SendInv /\ Static!RightFile /\ Static!NotModifiedTrue
  BY <1>5, <1>11 DEF WalkInv, SendInv, Static!RightFile, Static!NotModifiedTrue
<1>13. CopyInv
  <2>1. /\ Static!NoCopy.of[3] = 0 /\ Static!NoCopy.body = Static!NoCopy.of
    BY DEF Static!NoCopy
  <2>2. \A slash \in BOOLEAN : copies[slash] = Static!NoCopy
    BY <1>1
  <2>3. 0 <= 0
    OBVIOUS
  <2>4. QED
    BY <1>1, <1>9, <2>1, <2>2, <2>3 DEF CopyInv
<1>14. QED
  BY <1>11, <1>12, <1>13 DEF SInv

\* Both sides keep their invariant, and messages are sent in turn.
LEMMA AnswersStep ==
  ASSUME IInv, SInv, [AnswersNext]_answersVars
  PROVE  IInv' /\ SInv' /\ (Protocol!Next \/ wire' = wire)
<1>1. CASE Sending
  <2>1. SInv'
    <3>1. UNCHANGED lookups
      BY <1>1 DEF Sending, lookups
    <3>2. QED
      BY <3>1, FindingStep
  <2>2. Next
    BY <1>1 DEF Sending
  <2>3. GoodStep
    BY <2>2, OutsideStep, StatStep, ChooseStep, MergeStep, ChooseMergedStep, SendStartStep,
       SendLastStep, OpenStep, SendChunkStep, SendHeaderStep, SendPartChunkStep, EndPartStep,
       BackgroundStep
    DEF Next, Call
  <2>4. QED
    BY <2>1, <2>3 DEF GoodStep
<1>2. CASE Finding \/ UNCHANGED answersVars
  <2>1. UNCHANGED vars
    BY <1>2 DEF Finding, answersVars
  <2>2. Static!Next \/ UNCHANGED lookups
    BY <1>2 DEF Finding, answersVars
  <2>3. QED
    BY <2>1, <2>2, OutsideStep, FindingStep DEF GoodStep
<1>3. QED
  BY <1>1, <1>2 DEF AnswersNext

\* The invariants of FileResponse and of StaticFiles hold of every file that is served.
THEOREM Invariant == AnswersSpec => [](IInv /\ SInv)
<1>1. AnswersInit => IInv /\ SInv
  BY ResponseStarts, SiteStarts DEF AnswersInit
<1>2. IInv /\ SInv /\ [AnswersNext]_answersVars => (IInv /\ SInv)'
  BY AnswersStep
<1>3. QED
  BY <1>1, <1>2, PTL DEF AnswersSpec

\* The body of an answer with the whole file or with one range is as long as announced.
LEMMA AsLongAsAnnounced ==
  ASSUME IInv
  PROVE  LengthAnnounced
<1>1. SUFFICES ASSUME file.changes = 0, pc = "done", request.method = "GET",
                      resp.kind \in {"simple", "single"}, ~ Protocol!LastIs({"pathsend"})
               PROVE  body.length = resp.length
  BY DEF LengthAnnounced
<1>2. TypeOK /\ SizeInv /\ ChoiceInv /\ WholeInv
  BY DEF IInv
<1>3. body.parts = Whole
  BY <1>1, <1>2 DEF WholeInv
<1>4. \/ body.parts = <<>>
      \/ Len(body.parts) = 1 /\ body.length = Len(body.parts[1])
  BY <1>1, <1>2 DEF WholeInv
<1>5. CASE resp.kind = "simple"
  <2>1. Whole = <<Stretch(0, size)>>
    BY <1>5, WholeFile
  <2>2. size \in Nat /\ 0 <= size /\ size - 0 = size
    BY <1>2, MaxSizeAssumption DEF TypeOK
  <2>3. Len(Stretch(0, size)) = size
    BY <2>2, Stretches
  <2>4. resp.length = size
    BY <1>2, <1>5 DEF ChoiceInv
  <2>5. body.parts # <<>> /\ body.parts[1] = Stretch(0, size)
    BY <1>3, <2>1
  <2>6. QED
    BY <1>4, <2>3, <2>4, <2>5
<1>6. CASE resp.kind = "single"
  <2>1. /\ Len(ranges) = 1 /\ resp.length = ranges[1].end - ranges[1].start
        /\ ranges \in Seq(Spans) /\ \A i \in DOMAIN ranges : GoodSpan(ranges[i])
    BY <1>2, <1>6 DEF ChoiceInv, TypeOK, SizeInv, Spans
  <2>2. 1 \in DOMAIN ranges
    BY <2>1
  <2>3. /\ ranges[1].start \in 0..MaxSize /\ ranges[1].end \in 0..MaxSize
        /\ ranges[1].start <= ranges[1].end
    <3>1. ranges[1] \in Spans /\ GoodSpan(ranges[1])
      BY <2>1, <2>2
    <3>2. QED
      BY <3>1, SpanFacts
  <2>4. /\ Whole = [i \in 1..Len(ranges) |-> Stretch(ranges[i].start, ranges[i].end)]
        /\ Len(Whole) = Len(ranges)
    BY <1>6, <2>1, WholeRanges
  <2>5. PICK a \in Nat, b \in Nat : a = ranges[1].start /\ b = ranges[1].end /\ a <= b
    BY <2>3, MaxSizeAssumption
  <2>6. Whole[1] = Stretch(a, b) /\ Len(Whole) = 1
    BY <2>1, <2>4, <2>5
  <2>7. Len(Stretch(a, b)) = b - a
    BY <2>5, Stretches
  <2>8. body.length = Len(body.parts[1])
    <3>1. Len(<<>>) # 1
      OBVIOUS
    <3>2. QED
      BY <1>3, <1>4, <2>6, <3>1
  <2>9. QED
    BY <1>3, <2>1, <2>5, <2>6, <2>7, <2>8
<1>7. QED
  BY <1>1, <1>5, <1>6

\* The body is the file or the ranges that were asked for, merged or not, for every file,
\* every header and every chunk size; it is as long as announced unless it has several
\* ranges: generate_multipart() announces too little, as MultipartLengthAnnounced shows.
THEOREM Announced == AnswersSpec => []BodyAsAnnounced
<1>1. IInv => BodyAsAnnounced
  <2>1. IInv => TypeOK /\ MergeKeepsBytes
    BY DEF IInv, MergeInv
  <2>2. IInv => ChunksAddUp /\ NoMoreThanAsked
    BY DEF IInv, WholeInv, WireInv, ChunksAddUp, NoMoreThanAsked
  <2>3. QED
    BY <2>1, <2>2, AsLongAsAnnounced DEF BodyAsAnnounced
<1>2. QED
  BY <1>1, Invariant, PTL

\* The server sees the messages of the response in order, however the file changes.
THEOREM FileInOrder == AnswersSpec => WireInOrder
<1>1. AnswersInit => Protocol!Init
  BY ResponseStarts DEF AnswersInit, Protocol!Init
<1>2. IInv /\ SInv /\ [AnswersNext]_answersVars => [Protocol!Next]_wire
  BY AnswersStep
<1>3. QED
  BY <1>1, <1>2, Invariant, PTL DEF AnswersSpec, WireInOrder, Protocol!Spec

\* StaticFiles answers what its directories have, for any directories and any changes, and
\* a copy that the client may go on with is the file, or one that is told from it neither by
\* the mtime and size in its ETag nor, if the client sent it, by the time in seconds.
THEOREM Right == AnswersSpec => []RightFile
<1>1. SInv => RightFile
  BY DEF SInv, RightFile
<1>2. QED
  BY <1>1, Invariant, PTL

=============================================================================
