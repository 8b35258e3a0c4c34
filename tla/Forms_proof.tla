------------------------------ MODULE Forms_proof ------------------------------
(***************************************************************************)
(* Forms are true: what form() returns is what the body has sent, whatever *)
(* the chunks and the limits, no file is left open, the disk is touched in *)
(* a thread, and the MultiDict that is made of a form agrees with itself.  *)
(*                                                                         *)
(* The invariant has a part for each kind of form, which the steps of the  *)
(* other leave alone, and one for the MultiDict.                           *)
(***************************************************************************)
EXTENDS Forms, WellFoundedInduction, SequenceTheorems, FiniteSetTheorems, TLAPS

-----------------------------------------------------------------------------
(* Lemmas: sequences, and the parts of a kind.                             *)

\* What is cut of a sequence, when it is longer, and when cuts are joined.
LEMMA Cuts ==
  ASSUME NEW S, NEW s \in Seq(S)
  PROVE  /\ SubSeq(s, 1, Len(s)) = s
         /\ \A a \in 0..Len(s), b \in 0..Len(s) : a <= b =>
              /\ SubSeq(s, a + 1, b) \in Seq(S) /\ Len(SubSeq(s, a + 1, b)) = b - a
              /\ \A i \in 1..(b - a) : SubSeq(s, a + 1, b)[i] = s[a + i]
<1>1. ASSUME NEW a \in 0..Len(s), NEW b \in 0..Len(s), a <= b
      PROVE  /\ SubSeq(s, a + 1, b) \in Seq(S) /\ Len(SubSeq(s, a + 1, b)) = b - a
             /\ \A i \in 1..(b - a) : SubSeq(s, a + 1, b)[i] = s[a + i]
  <2>1. \A i \in (a + 1)..b : s[i] \in S
    OBVIOUS
  <2>2. /\ SubSeq(s, a + 1, b) \in Seq(S)
        /\ Len(SubSeq(s, a + 1, b)) = IF a + 1 <= b THEN b - (a + 1) + 1 ELSE 0
        /\ \A i \in 1..(b - (a + 1) + 1) : SubSeq(s, a + 1, b)[i] = s[(a + 1) + i - 1]
    BY <2>1, SubSeqProperties
  <2>3. QED
    BY <2>2, <1>1
<1>2. SubSeq(s, 1, Len(s)) = s
  <2>1. 0 \in 0..Len(s) /\ Len(s) \in 0..Len(s) /\ 0 <= Len(s)
    OBVIOUS
  <2>2. /\ SubSeq(s, 0 + 1, Len(s)) \in Seq(S) /\ Len(SubSeq(s, 0 + 1, Len(s))) = Len(s) - 0
        /\ \A i \in 1..(Len(s) - 0) : SubSeq(s, 0 + 1, Len(s))[i] = s[0 + i]
    BY <1>1, <2>1
  <2>3. /\ SubSeq(s, 1, Len(s)) \in Seq(S) /\ Len(SubSeq(s, 1, Len(s))) = Len(s)
        /\ \A i \in 1..Len(s) : SubSeq(s, 1, Len(s))[i] = s[i]
    BY <2>2
  <2>4. QED
    BY <2>3, SeqEqual
<1>3. QED
  BY <1>1, <1>2

\* Two cuts that meet are one.
LEMMA CutsJoin ==
  ASSUME NEW S, NEW s \in Seq(S), NEW a \in 0..Len(s), NEW b \in 0..Len(s), a <= b
  PROVE  SubSeq(s, 1, a) \o SubSeq(s, a + 1, b) = SubSeq(s, 1, b)
<1> DEFINE x == SubSeq(s, 1, a)
           y == SubSeq(s, a + 1, b)
           z == SubSeq(s, 1, b)
<1>1. 0 \in 0..Len(s) /\ 0 <= a /\ 0 <= b
  OBVIOUS
<1>2. /\ SubSeq(s, 0 + 1, a) \in Seq(S) /\ Len(SubSeq(s, 0 + 1, a)) = a - 0
      /\ \A i \in 1..(a - 0) : SubSeq(s, 0 + 1, a)[i] = s[0 + i]
  BY <1>1, Cuts
<1>3. /\ SubSeq(s, 0 + 1, b) \in Seq(S) /\ Len(SubSeq(s, 0 + 1, b)) = b - 0
      /\ \A i \in 1..(b - 0) : SubSeq(s, 0 + 1, b)[i] = s[0 + i]
  BY <1>1, Cuts
<1>4. y \in Seq(S) /\ Len(y) = b - a /\ \A i \in 1..(b - a) : y[i] = s[a + i]
  BY Cuts
<1>5. x \in Seq(S) /\ Len(x) = a /\ \A i \in 1..a : x[i] = s[i]
  BY <1>2
<1>6. z \in Seq(S) /\ Len(z) = b /\ \A i \in 1..b : z[i] = s[i]
  BY <1>3
<1> HIDE DEF x, y, z
<1>7. /\ x \o y \in Seq(S) /\ Len(x \o y) = b
      /\ \A i \in 1..b : (x \o y)[i] = IF i <= a THEN x[i] ELSE y[i - a]
  <2>1. /\ x \o y \in Seq(S) /\ Len(x \o y) = Len(x) + Len(y)
        /\ \A i \in 1..(Len(x) + Len(y)) : (x \o y)[i] = IF i <= Len(x) THEN x[i] ELSE y[i - Len(x)]
    BY <1>4, <1>5, ConcatProperties
  <2>2. Len(x) = a /\ Len(x) + Len(y) = b
    BY <1>4, <1>5
  <2>3. QED
    BY <2>1, <2>2
<1>8. ASSUME NEW i \in 1..b PROVE (x \o y)[i] = z[i]
  <2>1. CASE i <= a
    <3>1. i \in 1..a
      BY <2>1
    <3>2. x[i] = z[i]
      BY <3>1, <1>5, <1>6
    <3>3. QED
      BY <2>1, <3>2, <1>7
  <2>2. CASE ~(i <= a)
    <3>1. i - a \in 1..(b - a) /\ a + (i - a) = i
      BY <2>2
    <3>2. y[i - a] = s[i]
      BY <3>1, <1>4
    <3>3. QED
      BY <2>2, <3>2, <1>6, <1>7
  <2>3. QED
    BY <2>1, <2>2
<1>9. x \o y = z
  BY <1>6, <1>7, <1>8, SeqEqual
<1>10. QED
  BY <1>9 DEF x, y, z

\* What is cut of a sequence that got longer.
LEMMA CutsLonger ==
  ASSUME NEW S, NEW s \in Seq(S), NEW t \in Seq(S)
  PROVE  /\ s \o t \in Seq(S) /\ Len(s \o t) = Len(s) + Len(t)
         /\ SubSeq(s \o t, Len(s) + 1, Len(s) + Len(t)) = t
         /\ \A a \in 0..Len(s), b \in 0..Len(s) : a <= b =>
              SubSeq(s \o t, a + 1, b) = SubSeq(s, a + 1, b)
<1> DEFINE u == s \o t
<1>1. /\ u \in Seq(S) /\ Len(u) = Len(s) + Len(t)
      /\ \A i \in 1..(Len(s) + Len(t)) : u[i] = IF i <= Len(s) THEN s[i] ELSE t[i - Len(s)]
      /\ Len(s) \in Nat /\ Len(t) \in Nat
  BY ConcatProperties
<1> HIDE DEF u
<1>2. SubSeq(u, Len(s) + 1, Len(s) + Len(t)) = t
  <2> DEFINE x == SubSeq(u, Len(s) + 1, Len(s) + Len(t))
             n == Len(s)
             l == Len(s) + Len(t)
  <2>1. n \in 0..Len(u) /\ l \in 0..Len(u) /\ n <= l /\ l - n = Len(t) /\ n \in Nat
    BY <1>1
  <2> HIDE DEF n, l
  <2>2. /\ SubSeq(u, n + 1, l) \in Seq(S) /\ Len(SubSeq(u, n + 1, l)) = l - n
        /\ \A i \in 1..(l - n) : SubSeq(u, n + 1, l)[i] = u[n + i]
    BY <2>1, <1>1, Cuts
  <2>3. x \in Seq(S) /\ Len(x) = Len(t) /\ \A i \in 1..Len(t) : x[i] = u[n + i]
    BY <2>1, <2>2 DEF n, l
  <2>4. ASSUME NEW i \in 1..Len(t) PROVE u[n + i] = t[i]
    <3>1. n + i \in 1..(Len(s) + Len(t)) /\ ~(n + i <= Len(s)) /\ (n + i) - Len(s) = i
      BY <1>1 DEF n
    <3>2. u[n + i] = t[(n + i) - Len(s)]
      BY <3>1, <1>1
    <3>3. QED
      BY <3>1, <3>2
  <2> HIDE DEF x
  <2>5. x = t
    BY <2>3, <2>4, SeqEqual
  <2>6. QED
    BY <2>5 DEF x
<1>3. ASSUME NEW a \in 0..Len(s), NEW b \in 0..Len(s), a <= b
      PROVE  SubSeq(u, a + 1, b) = SubSeq(s, a + 1, b)
  <2> DEFINE x == SubSeq(u, a + 1, b)
             y == SubSeq(s, a + 1, b)
  <2>1. a \in 0..Len(u) /\ b \in 0..Len(u)
    BY <1>1
  <2>2. x \in Seq(S) /\ Len(x) = b - a /\ \A i \in 1..(b - a) : x[i] = u[a + i]
    BY <2>1, <1>1, <1>3, Cuts
  <2>3. y \in Seq(S) /\ Len(y) = b - a /\ \A i \in 1..(b - a) : y[i] = s[a + i]
    BY <1>3, Cuts
  <2>4. ASSUME NEW i \in 1..(b - a) PROVE u[a + i] = s[a + i]
    <3>1. a + i \in 1..(Len(s) + Len(t)) /\ a + i <= Len(s)
      BY <1>1, <1>3
    <3>2. QED
      BY <3>1, <1>1
  <2> HIDE DEF x, y
  <2>5. x = y
    BY <2>2, <2>3, <2>4, SeqEqual
  <2>6. QED
    BY <2>5 DEF x, y
<1>4. QED
  BY <1>1, <1>2, <1>3 DEF u

\* How many parts of a kind there are up to one of them.
CountIn(s, n, kind) == Cardinality({q \in 1..n : s[q].kind = kind})

\* How often a kind occurs among the first elements of a sequence.
LEMMA Counts ==
  ASSUME NEW s, NEW kind
  PROVE  /\ \A n \in Nat : CountIn(s, n, kind) \in Nat
         /\ CountIn(s, 0, kind) = 0
         /\ \A n \in Nat : CountIn(s, n + 1, kind) =
                           CountIn(s, n, kind) + (IF s[n + 1].kind = kind THEN 1 ELSE 0)
         /\ \A m, n \in Nat : m <= n => CountIn(s, m, kind) <= CountIn(s, n, kind)
<1> DEFINE In(n) == {q \in 1..n : s[q].kind = kind}
<1>1. \A n \in Nat : IsFiniteSet(In(n))
  <2>1. TAKE n \in Nat
  <2>2. IsFiniteSet(1..n) /\ In(n) \subseteq 1..n
    BY FS_Interval
  <2>3. QED
    BY <2>2, FS_Subset
<1>2. \A n \in Nat : In(n + 1) = IF s[n + 1].kind = kind THEN In(n) \cup {n + 1} ELSE In(n)
  <2>1. TAKE n \in Nat
  <2>2. 1..(n + 1) = 1..n \cup {n + 1}
    OBVIOUS
  <2>3. QED
    BY <2>2
<1>3. \A n \in Nat : n + 1 \notin In(n)
  OBVIOUS
<1>4. \A m, n \in Nat : m <= n => In(m) \subseteq In(n)
  OBVIOUS
<1>5. In(0) = {}
  OBVIOUS
<1>6. \A n : CountIn(s, n, kind) = Cardinality(In(n))
  BY DEF CountIn
<1> HIDE DEF In
<1>7. \A n \in Nat : Cardinality(In(n)) \in Nat
  BY <1>1, FS_CardinalityType
<1>8. \A n \in Nat : Cardinality(In(n) \cup {n + 1}) = Cardinality(In(n)) + 1
  BY <1>1, <1>3, FS_AddElement
<1>9. \A m, n \in Nat : m <= n => Cardinality(In(m)) <= Cardinality(In(n))
  BY <1>1, <1>4, FS_Subset
<1>10. Cardinality(In(0)) = 0
  BY <1>5, FS_EmptySet
<1>11. \A n \in Nat : Cardinality(In(n + 1)) =
                      Cardinality(In(n)) + (IF s[n + 1].kind = kind THEN 1 ELSE 0)
  <2>1. TAKE n \in Nat
  <2>2. CASE s[n + 1].kind = kind
    BY <2>2, <1>2, <1>8
  <2>3. CASE s[n + 1].kind # kind
    <3>1. In(n + 1) = In(n) /\ Cardinality(In(n)) \in Nat
      BY <2>3, <1>2, <1>7
    <3>2. QED
      BY <2>3, <3>1
  <2>4. QED
    BY <2>2, <2>3
<1>12. QED
  BY <1>6, <1>7, <1>9, <1>10, <1>11

\* A sequence that has the same kinds has the same numbers.
LEMMA SameCounts ==
  ASSUME NEW s, NEW t, NEW n, \A q \in 1..n : s[q].kind = t[q].kind
  PROVE  \A kind : CountIn(s, n, kind) = CountIn(t, n, kind)
<1>1. \A kind : {q \in 1..n : s[q].kind = kind} = {q \in 1..n : t[q].kind = kind}
  OBVIOUS
<1>2. QED
  BY <1>1 DEF CountIn

-----------------------------------------------------------------------------
(* A multipart form: types.                                                *)

Item == [file : 0..MaxParts, data : Seq(1..MaxData)]

\* What TypeOK says, piece by piece.
LEMMA FormTypes ==
  ASSUME TypeOK
  PROVE  /\ limits \in Limits /\ limits.files \in Nat /\ limits.fields \in Nat /\ limits.size \in Nat
         /\ MaxParts \in Nat /\ MaxData \in Nat
         /\ pc \in {"stream", "parsing", "writing", "seeking", "returned", "closing", "closed",
                    "rejected", "failed"}
         /\ at \in 1..(MaxParts + MaxData + 1)
         /\ body \in Seq(Part) /\ seen \in 0..MaxData
         /\ current \in Item
         /\ counts \in [files : 0..MaxParts, fields : 0..MaxParts]
         /\ items \in Seq(Item)
         /\ toWrite \in Seq((1..MaxParts) \X Seq(1..MaxData))
         /\ toFinish \in Seq(1..MaxParts)
         /\ files \in Seq(File)
         /\ thread \in BOOLEAN
BY LimitsAssumption, BoundsAssumption DEF TypeOK, Item

\* What a part is made of.
LEMMA Parts ==
  /\ \A kind \in Kinds, data \in Seq(1..MaxData), ended \in BOOLEAN :
       [kind |-> kind, data |-> data, ended |-> ended] \in Part
  /\ \A part \in Part : /\ part.kind \in Kinds /\ part.data \in Seq(1..MaxData) /\ part.ended \in BOOLEAN
                        /\ \A data \in Seq(1..MaxData) :
                             /\ [part EXCEPT !.data = data] \in Part
                             /\ [part EXCEPT !.data = data].kind = part.kind
                             /\ [part EXCEPT !.data = data].data = data
                             /\ [part EXCEPT !.data = data].ended = part.ended
                        /\ [part EXCEPT !.ended = TRUE] \in Part
                        /\ [part EXCEPT !.ended = TRUE].kind = part.kind
                        /\ [part EXCEPT !.ended = TRUE].data = part.data
                        /\ [part EXCEPT !.ended = TRUE].ended
BY DEF Part

\* What an item is made of.
LEMMA Items ==
  /\ \A file \in 0..MaxParts, data \in Seq(1..MaxData) : [file |-> file, data |-> data] \in Item
  /\ \A item \in Item : /\ item.file \in 0..MaxParts /\ item.data \in Seq(1..MaxData)
                        /\ item = [file |-> item.file, data |-> item.data]
BY DEF Item

\* Count and Nth are such numbers.
LEMMA KindCounts ==
  /\ \A kind : body \in Seq(Part) => Count(kind) = CountIn(body, Len(body), kind)
  /\ \A p : Nth(p) = CountIn(body, p, "file")
<1>1. body \in Seq(Part) => DOMAIN body = 1..Len(body)
  OBVIOUS
<1>2. QED
  BY <1>1 DEF Count, Nth, CountIn

\* The same after a step.
LEMMA KindCountsNext ==
  /\ \A kind : body' \in Seq(Part) => Count(kind)' = CountIn(body', Len(body'), kind)
  /\ \A p : Nth(p)' = CountIn(body', p, "file")
<1>1. body' \in Seq(Part) => DOMAIN body' = 1..Len(body')
  OBVIOUS
<1>2. QED
  BY <1>1 DEF Count, Nth, CountIn

\* The numbers of the files are different, and the last is that of the last part.
LEMMA Numbers ==
  ASSUME body \in Seq(Part)
  PROVE  /\ \A p \in DOMAIN body : body[p].kind = "file" =>
              Nth(p) \in 1..Count("file") /\ Nth(p) \in Nat
         /\ \A p, q \in DOMAIN body : body[q].kind = "file" /\ p < q => Nth(p) < Nth(q)
         /\ Count("file") \in Nat /\ Count("field") \in Nat
         /\ body # <<>> => Nth(Len(body)) = Count("file")
         /\ Count("file") <= Len(body) /\ Count("field") <= Len(body)
<1>1. Len(body) \in Nat /\ DOMAIN body = 1..Len(body) /\ (body # <<>> => Len(body) \in 1..Len(body))
  OBVIOUS
<1>2. /\ \A n \in Nat : CountIn(body, n, "file") \in Nat
      /\ CountIn(body, 0, "file") = 0
      /\ \A n \in Nat : CountIn(body, n + 1, "file") =
                        CountIn(body, n, "file") + (IF body[n + 1].kind = "file" THEN 1 ELSE 0)
      /\ \A m, n \in Nat : m <= n => CountIn(body, m, "file") <= CountIn(body, n, "file")
  BY Counts
<1>3. ASSUME NEW q \in 1..Len(body), body[q].kind = "file", NEW p \in Nat, p < q
      PROVE  CountIn(body, p, "file") < CountIn(body, q, "file")
  <2>1. q - 1 \in Nat /\ (q - 1) + 1 = q /\ p <= q - 1
    BY <1>3
  <2>2. CountIn(body, (q - 1) + 1, "file") = CountIn(body, q - 1, "file") + 1
    BY <1>2, <1>3, <2>1
  <2>3. CountIn(body, p, "file") <= CountIn(body, q - 1, "file")
    BY <1>2, <1>3, <2>1
  <2>4. CountIn(body, p, "file") \in Nat /\ CountIn(body, q - 1, "file") \in Nat
    BY <1>2, <1>3, <2>1
  <2>5. QED
    BY <2>1, <2>2, <2>3, <2>4
<1>4. ASSUME NEW p \in 1..Len(body), body[p].kind = "file"
      PROVE  CountIn(body, p, "file") \in 1..CountIn(body, Len(body), "file")
  <2>1. CountIn(body, 0, "file") < CountIn(body, p, "file")
    BY <1>3, <1>4
  <2>2. CountIn(body, p, "file") <= CountIn(body, Len(body), "file")
    BY <1>1, <1>2, <1>4
  <2>3. CountIn(body, p, "file") \in Nat /\ CountIn(body, Len(body), "file") \in Nat
    BY <1>1, <1>2
  <2>4. QED
    BY <2>1, <2>2, <2>3, <1>2
<1>5. ASSUME NEW kind PROVE CountIn(body, Len(body), kind) \in 0..Len(body)
  <2>1. {q \in 1..Len(body) : body[q].kind = kind} \in SUBSET (1..Len(body))
    OBVIOUS
  <2>2. IsFiniteSet(1..Len(body)) /\ Cardinality(1..Len(body)) = Len(body)
    BY <1>1, FS_Interval, SMTT(30)
  <2>3. CountIn(body, Len(body), kind) <= Len(body)
    BY <2>1, <2>2, FS_Subset DEF CountIn
  <2>4. CountIn(body, Len(body), kind) \in Nat
    BY <1>1, Counts
  <2>5. QED
    BY <1>1, <2>3, <2>4
<1>6. /\ Count("file") = CountIn(body, Len(body), "file") /\ Count("field") = CountIn(body, Len(body), "field")
      /\ \A p : Nth(p) = CountIn(body, p, "file")
  BY KindCounts
<1>7. \A p \in DOMAIN body : body[p].kind = "file" => Nth(p) \in 1..Count("file") /\ Nth(p) \in Nat
  BY <1>1, <1>4, <1>6
<1>8. \A p, q \in DOMAIN body : body[q].kind = "file" /\ p < q => Nth(p) < Nth(q)
  BY <1>1, <1>3, <1>6
<1>9. Count("file") \in 0..Len(body) /\ Count("field") \in 0..Len(body)
  BY <1>5, <1>6
<1>10. QED
  BY <1>1, <1>6, <1>7, <1>8, <1>9

-----------------------------------------------------------------------------
(* A multipart form.  While nothing has failed, the parts that the parser  *)
(* has seen tell what parse() holds: how many there are of a kind, which   *)
(* of them has which file, and, with the lists of what is to be written    *)
(* and to be rewound, what is in each file and where it stands.            *)

Live == pc \notin {"rejected", "failed"}

\* What a part becomes: its item, when it has ended.
ItemOf(p) == IF body[p].kind = "file" THEN [file |-> Nth(p), data |-> <<>>]
             ELSE [file |-> 0, data |-> body[p].data]

\* All parts but the last have ended; each file has a part.
PartsInv ==
  /\ \A p \in DOMAIN body : body[p].kind # "nameless" /\ Len(body[p].data) <= seen
  /\ \A p \in 1..(Len(body) - 1) : body[p].ended
  /\ counts.files = Count("file") /\ counts.files = Len(files)
  /\ counts.fields = Count("field") /\ counts.fields <= limits.fields
  /\ \A f \in DOMAIN files : \E p \in DOMAIN body : body[p].kind = "file" /\ Nth(p) = f

ItemsInv ==
  /\ InPart => current = ItemOf(Len(body))
  /\ Len(items) = IF InPart THEN Len(body) - 1 ELSE Len(body)
  /\ \A i \in DOMAIN items : items[i] = ItemOf(i)

\* The loops of parse() and of the block are within their lists.
ListsInv ==
  /\ Len(toWrite) <= seen /\ Len(toFinish) <= Len(items)
  /\ \A i \in DOMAIN toWrite : toWrite[i][1] \in DOMAIN files
  /\ \A j \in DOMAIN toFinish : toFinish[j] \in DOMAIN files
  /\ pc = "stream" \/ Succeeded => toWrite = <<>> /\ toFinish = <<>>
  /\ pc = "writing" => at <= Len(toWrite) + 1
  /\ pc = "seeking" => at <= Len(toFinish) + 1
  /\ pc = "closing" => at <= Len(items) + 1

FilesInv ==
  /\ \A f \in DOMAIN files : /\ files[f].size = Len(files[f].data)
                             /\ pc \notin {"closing", "closed"} => files[f].open
  /\ \A i \in DOMAIN items :
       items[i].file # 0 /\ (pc = "closed" \/ (pc = "closing" /\ i < at)) => ~files[items[i].file].open

\* Where a file stands, that a part p has.
Writes(f) == \E i \in DOMAIN toWrite : toWrite[i][1] = f
Finishes(f) == \E j \in DOMAIN toFinish : toFinish[j] = f
PlaceInv(p, f) ==
  /\ Finishes(f) => body[p].ended
  /\ Writes(f) /\ body[p].ended => Finishes(f)
  /\ ~body[p].ended \/ (Finishes(f) /\ pc # "seeking") => files[f].pos = Len(files[f].data)
  /\ body[p].ended /\ ~Finishes(f) => files[f].pos = 0
  /\ pc = "seeking" => \A j \in 1..(at - 1) : toFinish[j] = f => files[f].pos = 0

\* How long the file gets with each element of _file_parts_to_write, up to the length of what
\* the part has sent; the loop is at one of them.
Reached == IF pc = "writing" THEN at ELSE IF pc = "seeking" THEN Len(toWrite) + 1 ELSE 1
Lengthens(p, f, length) ==
  /\ length[Len(toWrite) + 1] = Len(body[p].data)
  /\ \A i \in DOMAIN toWrite :
       IF toWrite[i][1] = f
       THEN /\ length[i] <= length[i + 1] /\ length[i + 1] <= Len(body[p].data)
            /\ toWrite[i][2] = SubSeq(body[p].data, length[i] + 1, length[i + 1])
       ELSE length[i + 1] = length[i]
  /\ length[Reached] <= Len(body[p].data)
  /\ files[f].data = SubSeq(body[p].data, 1, length[Reached])
DataInv(p, f) ==
  \E length \in [1..(Len(toWrite) + 1) -> 0..MaxData] : Lengthens(p, f, length)

UploadInv ==
  \A p \in DOMAIN body : body[p].kind = "file" => PlaceInv(p, Nth(p)) /\ DataInv(p, Nth(p))

\* The limits that hold also of a form that was rejected or failed.
SizeInv ==
  /\ Len(body) <= MaxParts /\ Len(items) <= MaxParts
  /\ Len(files) <= limits.files /\ Len(files) <= MaxParts
  /\ Len(current.data) <= limits.size
  /\ \A i \in DOMAIN items : Len(items[i].data) <= limits.size

IInv ==
  /\ TypeOK /\ SizeInv /\ RejectedForCause /\ RejectedClosed
  /\ Live => PartsInv /\ ItemsInv /\ ListsInv /\ FilesInv /\ UploadInv

\* Steps that begin no part and end none.
LEMMA SameParts ==
  ASSUME PartsInv, ItemsInv, UNCHANGED <<limits, body, seen, current, counts, items>>,
         Len(files') = Len(files), DOMAIN files' = DOMAIN files
  PROVE  /\ PartsInv' /\ ItemsInv'
         /\ \A p : Nth(p)' = Nth(p)
<1>1. UNCHANGED <<Count("file"), Count("field"), InPart>> /\ \A p : Nth(p)' = Nth(p)
  BY DEF Count, Nth, InPart, Last
<1>2. \A p : ItemOf(p)' = ItemOf(p)
  BY <1>1 DEF ItemOf
<1>3. PartsInv'
  BY <1>1 DEF PartsInv
<1>4. ItemsInv'
  BY <1>1, <1>2 DEF ItemsInv
<1>5. QED
  BY <1>1, <1>3, <1>4

\* What the invariant says of a form that has not failed.
LEMMA LiveSteps ==
  ASSUME IInv
  PROVE  /\ TypeOK /\ SizeInv
         /\ Live => PartsInv /\ ItemsInv /\ ListsInv /\ FilesInv /\ UploadInv
BY DEF IInv

\* The steps of parse() and of the block that only go on.
LEMMA SilentSteps ==
  ASSUME IInv,
         Chunk \/ Malformed \/ ChunkEnd \/ WritesDone \/ EndOfBody \/ Disconnect \/ LeaveBlock \/ CloseDone
  PROVE  IInv'
<1>1. TypeOK /\ SizeInv /\ PartsInv /\ ItemsInv /\ ListsInv /\ FilesInv /\ UploadInv
  BY LiveSteps DEF Live, Chunk, Malformed, ChunkEnd, WritesDone, EndOfBody, Disconnect, LeaveBlock, CloseDone
<1>2. UNCHANGED <<limits, body, seen, current, counts, items, toWrite, toFinish, files, thread>>
  BY DEF Chunk, Malformed, ChunkEnd, WritesDone, EndOfBody, Disconnect, LeaveBlock, CloseDone
<1>3. /\ DOMAIN toWrite = 1..Len(toWrite) /\ Len(toWrite) \in Nat /\ DOMAIN toFinish = 1..Len(toFinish)
      /\ Len(toFinish) \in Nat /\ DOMAIN items = 1..Len(items) /\ Len(items) \in Nat
      /\ at \in Nat /\ 1 \in 1..(MaxParts + MaxData + 1)
  <2>1. /\ toWrite \in Seq((1..MaxParts) \X Seq(1..MaxData)) /\ toFinish \in Seq(1..MaxParts)
        /\ items \in Seq(Item) /\ MaxParts \in Nat /\ MaxData \in Nat
        /\ at \in 1..(MaxParts + MaxData + 1)
    BY <1>1, FormTypes
  <2>2. at \in Nat /\ 1 \in 1..(MaxParts + MaxData + 1)
    BY <2>1
  <2>3. QED
    BY <2>1, <2>2
<1>4. /\ pc' \in {"parsing", "failed", "writing", "seeking", "returned", "closing", "closed"}
      /\ at' \in 1..(MaxParts + MaxData + 1)
  BY <1>1, <1>3 DEF TypeOK, Chunk, Malformed, ChunkEnd, WritesDone, EndOfBody, Disconnect, LeaveBlock, CloseDone
<1>5. TypeOK'
  BY <1>1, <1>2, <1>4 DEF TypeOK
<1>6. SizeInv' /\ RejectedForCause' /\ RejectedClosed'
  BY <1>1, <1>2, <1>4 DEF SizeInv, RejectedForCause, RejectedClosed
<1>7. PartsInv' /\ ItemsInv' /\ \A p : Nth(p)' = Nth(p)
  BY <1>1, <1>2, SameParts
<1>8. ASSUME pc' # "failed" PROVE Reached' = Reached
  BY <1>1, <1>2, <1>3, <1>8 DEF ListsInv, Reached, Chunk, Malformed, ChunkEnd, WritesDone, EndOfBody,
                               Disconnect, LeaveBlock, CloseDone
<1>9. ASSUME pc' # "failed" PROVE ListsInv'
  BY <1>1, <1>2, <1>3, <1>9 DEF ListsInv, Succeeded, Chunk, Malformed, ChunkEnd, WritesDone, EndOfBody,
                               Disconnect, LeaveBlock, CloseDone
<1>10. ASSUME pc' # "failed" PROVE FilesInv'
  <2>1. \A f \in DOMAIN files' : /\ files'[f].size = Len(files'[f].data)
                                 /\ pc' \notin {"closing", "closed"} => files'[f].open
    BY <1>1, <1>2, <1>10 DEF FilesInv, Chunk, Malformed, ChunkEnd, WritesDone, EndOfBody,
                               Disconnect, LeaveBlock, CloseDone
  <2>2. ASSUME NEW i \in DOMAIN items, items[i].file # 0,
               pc' = "closed" \/ (pc' = "closing" /\ i < at')
        PROVE  ~files[items[i].file].open
    <3>1. CloseDone /\ i < at
      BY <1>3, <2>2 DEF Chunk, Malformed, ChunkEnd, WritesDone, EndOfBody, Disconnect, LeaveBlock, CloseDone
    <3>2. QED
      BY <1>1, <2>2, <3>1 DEF FilesInv, CloseDone
  <2>3. QED
    BY <1>2, <2>1, <2>2 DEF FilesInv
<1>11. ASSUME pc' # "failed" PROVE UploadInv'
  <2>1. SUFFICES ASSUME NEW p \in DOMAIN body, body[p].kind = "file"
                 PROVE  PlaceInv(p, Nth(p))' /\ DataInv(p, Nth(p))'
    BY <1>2 DEF UploadInv
  <2>2. PlaceInv(p, Nth(p)) /\ DataInv(p, Nth(p)) /\ Nth(p)' = Nth(p)
    BY <1>1, <1>7, <2>1 DEF UploadInv
  <2>3. pc # "seeking" /\ (pc' = "seeking" => at' = 1)
    BY <1>11 DEF Chunk, Malformed, ChunkEnd, WritesDone, EndOfBody, Disconnect, LeaveBlock, CloseDone
  <2>4. PlaceInv(p, Nth(p))'
    BY <1>2, <2>2, <2>3 DEF PlaceInv, Finishes, Writes
  <2>5. DataInv(p, Nth(p))'
    BY <1>2, <1>8, <1>11, <2>2 DEF DataInv, Lengthens
  <2>6. QED
    BY <2>4, <2>5
<1>12. QED
  BY <1>4, <1>5, <1>6, <1>7, <1>9, <1>10, <1>11 DEF IInv, Live

\* A function of one argument.
LEMMA Constantly ==
  ASSUME NEW S, NEW v \in S
  PROVE  \E f \in [1..1 -> S] : f[1] = v
<1>1. [i \in 1..1 |-> v] \in [1..1 -> S] /\ [i \in 1..1 |-> v][1] = v
  OBVIOUS
<1>2. QED
  BY <1>1

\* The lists are cleared when all files stand at their ends or beginnings.
LEMMA SeeksDoneStep ==
  ASSUME IInv, SeeksDone
  PROVE  IInv'
<1>1. TypeOK /\ SizeInv /\ PartsInv /\ ItemsInv /\ ListsInv /\ FilesInv /\ UploadInv
  BY LiveSteps DEF Live, SeeksDone
<1>2. /\ pc = "seeking" /\ at > Len(toFinish) /\ toWrite' = <<>> /\ toFinish' = <<>>
      /\ pc' = "stream" /\ at' = 1
      /\ UNCHANGED <<limits, body, seen, current, counts, items, files, thread>>
  BY DEF SeeksDone
<1>3. /\ DOMAIN toFinish = 1..Len(toFinish) /\ Len(toFinish) \in Nat /\ at \in Nat
      /\ seen \in 0..MaxData /\ MaxData \in Nat /\ Len(items) \in Nat /\ MaxParts \in Nat
      /\ body \in Seq(Part) /\ Len(toWrite) \in Nat
  BY <1>1, FormTypes, SMTT(30)
<1>4. TypeOK'
  <2>1. 1 \in 1..(MaxParts + MaxData + 1)
    BY <1>3
  <2>2. QED
    BY <1>1, <1>2, <2>1 DEF TypeOK
<1>5. SizeInv' /\ RejectedForCause' /\ RejectedClosed'
  BY <1>1, <1>2 DEF SizeInv, RejectedForCause, RejectedClosed
<1>6. PartsInv' /\ ItemsInv' /\ \A p : Nth(p)' = Nth(p)
  BY <1>1, <1>2, SameParts
<1>7. ListsInv'
  BY <1>2, <1>3 DEF ListsInv
<1>8. FilesInv'
  BY <1>1, <1>2 DEF FilesInv
<1>9. UploadInv'
  <2>1. SUFFICES ASSUME NEW p \in DOMAIN body, body[p].kind = "file"
                 PROVE  PlaceInv(p, Nth(p))' /\ DataInv(p, Nth(p))'
    BY <1>2 DEF UploadInv
  <2> DEFINE f == Nth(p)
  <2>2. PlaceInv(p, f) /\ DataInv(p, f) /\ Nth(p)' = f
    BY <1>1, <1>6, <2>1 DEF UploadInv
  <2> HIDE DEF f
  <2>3. \A j \in DOMAIN toFinish : j \in 1..(at - 1)
    BY <1>2, <1>3
  <2>4. body[p].ended => files[f].pos = 0
    BY <1>2, <2>2, <2>3 DEF PlaceInv, Finishes
  <2>5. ~body[p].ended => files[f].pos = Len(files[f].data)
    BY <2>2 DEF PlaceInv
  <2>6. PlaceInv(p, Nth(p))'
    BY <1>2, <2>2, <2>4, <2>5 DEF PlaceInv, Finishes, Writes
  <2>7. Len(body[p].data) \in 0..MaxData /\ files[f].data = SubSeq(body[p].data, 1, Len(body[p].data))
    <3>1. Len(body[p].data) <= seen /\ Len(body[p].data) \in Nat
      BY <1>1, <1>3, <2>1, Parts DEF PartsInv
    <3>2. QED
      BY <1>2, <1>3, <2>2, <3>1 DEF DataInv, Lengthens, Reached
  <2>8. PICK length \in [1..(Len(toWrite') + 1) -> 0..MaxData] : length[1] = Len(body[p].data)
    <3>1. 1..(Len(toWrite') + 1) = 1..1
      BY <1>2
    <3>2. \E length \in [1..1 -> 0..MaxData] : length[1] = Len(body[p].data)
      BY <2>7, Constantly
    <3>3. QED
      BY <3>1, <3>2
  <2>9. Lengthens(p, Nth(p), length)'
    BY <1>2, <2>2, <2>7, <2>8 DEF Lengthens, Reached
  <2>10. DataInv(p, Nth(p))'
    BY <2>8, <2>9 DEF DataInv
  <2>11. QED
    BY <2>6, <2>10
<1>10. QED
  BY <1>4, <1>5, <1>6, <1>7, <1>8, <1>9 DEF IInv

\* What UploadFile changes of a file.
LEMMA Filed ==
  ASSUME NEW file \in File
  PROVE  /\ file.data \in Seq(1..MaxData) /\ file.pos \in 0..MaxData /\ file.size \in 0..MaxData
         /\ file.rolled \in BOOLEAN /\ file.open \in BOOLEAN
         /\ \A n \in 0..MaxData :
              /\ [file EXCEPT !.pos = n] \in File
              /\ [file EXCEPT !.pos = n].data = file.data /\ [file EXCEPT !.pos = n].pos = n
              /\ [file EXCEPT !.pos = n].size = file.size /\ [file EXCEPT !.pos = n].open = file.open
              /\ [file EXCEPT !.pos = n].rolled = file.rolled
              /\ [file EXCEPT !.size = n] \in File
              /\ [file EXCEPT !.size = n].open = file.open
              /\ [file EXCEPT !.size = n].rolled = file.rolled
         /\ [file EXCEPT !.open = FALSE] \in File
         /\ [file EXCEPT !.open = FALSE].data = file.data /\ [file EXCEPT !.open = FALSE].pos = file.pos
         /\ [file EXCEPT !.open = FALSE].size = file.size /\ [file EXCEPT !.open = FALSE].open = FALSE
         /\ [file EXCEPT !.open = FALSE].rolled = file.rolled
BY DEF File

\* One file of the list is changed.
LEMMA OneFile ==
  ASSUME files \in Seq(File), NEW f \in DOMAIN files, NEW file \in File,
         files' = [files EXCEPT ![f] = file]
  PROVE  /\ files' \in Seq(File) /\ Len(files') = Len(files) /\ DOMAIN files' = DOMAIN files
         /\ files'[f] = file /\ \A g \in DOMAIN files : g # f => files'[g] = files[g]
BY ExceptSeq

\* A file that is rewound had all of its part.
LEMMA SeekStep ==
  ASSUME IInv, Seek
  PROVE  IInv'
<1>1. TypeOK /\ SizeInv /\ PartsInv /\ ItemsInv /\ ListsInv /\ FilesInv /\ UploadInv
  BY LiveSteps DEF Live, Seek
<1> DEFINE f == toFinish[at]
<1>2. /\ pc = "seeking" /\ at <= Len(toFinish)
      /\ UNCHANGED <<limits, body, seen, current, counts, items, toWrite, toFinish>>
      /\ thread' = files[f].rolled
      /\ \/ files' = [files EXCEPT ![f].pos = 0] /\ at' = at + 1 /\ pc' = pc
         \/ pc' = "failed" /\ files' = files /\ at' = at
  BY DEF Seek
<1>3. /\ DOMAIN toFinish = 1..Len(toFinish) /\ Len(toFinish) \in Nat /\ at \in Nat /\ at >= 1
      /\ files \in Seq(File) /\ body \in Seq(Part) /\ MaxData \in Nat /\ MaxParts \in Nat
      /\ Len(items) \in Nat /\ Len(toWrite) \in Nat
  <2>1. /\ toFinish \in Seq(1..MaxParts) /\ at \in 1..(MaxParts + MaxData + 1)
        /\ items \in Seq(Item) /\ toWrite \in Seq((1..MaxParts) \X Seq(1..MaxData))
        /\ MaxParts \in Nat /\ MaxData \in Nat /\ files \in Seq(File) /\ body \in Seq(Part)
    BY <1>1, FormTypes
  <2>2. at \in Nat /\ at >= 1
    BY <2>1
  <2>3. QED
    BY <2>1, <2>2
<1>4. at \in DOMAIN toFinish /\ f \in DOMAIN files
  BY <1>1, <1>2, <1>3 DEF ListsInv
<1>5. files[f] \in File
  BY <1>3, <1>4
<1> HIDE DEF f
<1>6. thread' \in BOOLEAN
  BY <1>2, <1>5, Filed
<1>7. CASE pc' = "failed" /\ files' = files /\ at' = at
  BY <1>1, <1>2, <1>6, <1>7 DEF IInv, Live, TypeOK, SizeInv, RejectedForCause, RejectedClosed
<1>8. CASE files' = [files EXCEPT ![f].pos = 0] /\ at' = at + 1 /\ pc' = pc
  <2> DEFINE file == [files[f] EXCEPT !.pos = 0]
  <2>1. /\ file \in File /\ file.data = files[f].data /\ file.pos = 0
        /\ file.size = files[f].size /\ file.open = files[f].open
    <3>1. 0 \in 0..MaxData
      BY <1>3
    <3>2. QED
      BY <1>5, <3>1, Filed
  <2>2. files' = [files EXCEPT ![f] = file]
    BY <1>8
  <2> HIDE DEF file
  <2>3. /\ files' \in Seq(File) /\ Len(files') = Len(files) /\ DOMAIN files' = DOMAIN files
        /\ files'[f] = file /\ \A g \in DOMAIN files : g # f => files'[g] = files[g]
    BY <1>3, <1>4, <2>1, <2>2, OneFile
  <2>4. TypeOK'
    <3>1. at' \in 1..(MaxParts + MaxData + 1)
      BY <1>1, <1>2, <1>3, <1>8 DEF ListsInv, SizeInv
    <3>2. QED
      BY <1>1, <1>2, <1>6, <1>8, <2>3, <3>1 DEF TypeOK
  <2>5. SizeInv' /\ RejectedForCause' /\ RejectedClosed'
    BY <1>1, <1>2, <1>8, <2>3 DEF SizeInv, RejectedForCause, RejectedClosed
  <2>6. PartsInv' /\ ItemsInv' /\ \A p : Nth(p)' = Nth(p)
    BY <1>1, <1>2, <2>3, SameParts
  <2>7. ListsInv'
    BY <1>1, <1>2, <1>3, <1>8, <2>3 DEF ListsInv, Succeeded
  <2>8. FilesInv'
    BY <1>1, <1>2, <1>8, <2>1, <2>3 DEF FilesInv
  <2>9. UploadInv'
    <3>1. SUFFICES ASSUME NEW p \in DOMAIN body, body[p].kind = "file"
                   PROVE  PlaceInv(p, Nth(p))' /\ DataInv(p, Nth(p))'
      BY <1>2 DEF UploadInv
    <3> DEFINE g == Nth(p)
    <3>2. PlaceInv(p, g) /\ DataInv(p, g) /\ Nth(p)' = g
      BY <1>1, <2>6, <3>1 DEF UploadInv
    <3>3. g \in DOMAIN files
      BY <1>1, <1>3, <3>1, Numbers DEF PartsInv
    <3> HIDE DEF g
    <3>4. files'[g].data = files[g].data
      BY <2>1, <2>3, <3>3
    <3>5. DataInv(p, Nth(p))'
      BY <1>2, <1>8, <3>2, <3>4 DEF DataInv, Lengthens, Reached
    <3>6. CASE g = f
      <4>1. Finishes(g)
        BY <1>4, <3>6 DEF Finishes, f
      <4>2. PlaceInv(p, Nth(p))'
        BY <1>2, <1>8, <2>1, <2>3, <3>2, <3>6, <4>1 DEF PlaceInv, Finishes, Writes
      <4>3. QED
        BY <3>5, <4>2
    <3>7. CASE g # f
      <4>1. \A j \in 1..(at' - 1) : toFinish[j] = g => j \in 1..(at - 1)
        BY <1>3, <1>8, <3>7 DEF f
      <4>2. files'[g] = files[g]
        BY <2>3, <3>3, <3>7
      <4>3. PlaceInv(p, Nth(p))'
        BY <1>2, <1>8, <3>2, <4>1, <4>2 DEF PlaceInv, Finishes, Writes
      <4>4. QED
        BY <3>5, <4>3
    <3>8. QED
      BY <3>6, <3>7
  <2>10. QED
    BY <2>4, <2>5, <2>6, <2>7, <2>8, <2>9 DEF IInv
<1>9. QED
  BY <1>2, <1>7, <1>8

\* The block closes one file more.
LEMMA CloseItemStep ==
  ASSUME IInv, CloseItem
  PROVE  IInv'
<1>1. TypeOK /\ SizeInv /\ PartsInv /\ ItemsInv /\ ListsInv /\ FilesInv /\ UploadInv
  BY LiveSteps DEF Live, CloseItem
<1> DEFINE f == items[at].file
<1>2. /\ pc = "closing" /\ at <= Len(items)
      /\ UNCHANGED <<limits, body, seen, current, counts, items, toWrite, toFinish>>
      /\ \/ f = 0 /\ at' = at + 1 /\ pc' = pc /\ files' = files /\ thread' = thread
         \/ /\ f # 0 /\ thread' = files[f].rolled
            /\ files' = [files EXCEPT ![f].open = FALSE] /\ at' = at + 1 /\ pc' = pc
         \/ f # 0 /\ thread' = files[f].rolled /\ pc' = "failed" /\ files' = files /\ at' = at
  BY DEF CloseItem
<1>3. /\ DOMAIN items = 1..Len(items) /\ Len(items) \in Nat /\ at \in Nat /\ at >= 1
      /\ files \in Seq(File) /\ body \in Seq(Part) /\ MaxData \in Nat /\ MaxParts \in Nat
      /\ items \in Seq(Item) /\ thread \in BOOLEAN /\ DOMAIN body = 1..Len(body) /\ Len(body) \in Nat
  <2>1. /\ at \in 1..(MaxParts + MaxData + 1) /\ items \in Seq(Item) /\ thread \in BOOLEAN
        /\ MaxParts \in Nat /\ MaxData \in Nat /\ files \in Seq(File) /\ body \in Seq(Part)
    BY <1>1, FormTypes
  <2>2. at \in Nat /\ at >= 1
    BY <2>1
  <2>3. QED
    BY <2>1, <2>2
<1>4. at \in DOMAIN items
  BY <1>2, <1>3
<1>5. ASSUME NEW i \in DOMAIN items, items[i].file # 0 PROVE items[i].file \in DOMAIN files
  <2>1. items[i] = ItemOf(i) /\ i \in DOMAIN body
    <3>1. Len(items) = Len(body) \/ Len(items) = Len(body) - 1
      BY <1>1 DEF ItemsInv
    <3>2. i \in 1..Len(items) /\ Len(items) \in Nat /\ Len(body) \in Nat
      BY <1>3
    <3>3. i \in 1..Len(body)
      BY <3>1, <3>2
    <3>4. QED
      BY <1>1, <1>3, <3>3 DEF ItemsInv
  <2>2. body[i].kind = "file" /\ items[i].file = Nth(i)
    BY <1>5, <2>1 DEF ItemOf
  <2>3. QED
    BY <1>1, <1>3, <2>1, <2>2, Numbers DEF PartsInv
<1>6. f # 0 => f \in DOMAIN files /\ files[f] \in File
  BY <1>3, <1>4, <1>5
<1> HIDE DEF f
<1>7. thread' \in BOOLEAN
  BY <1>2, <1>3, <1>6, Filed
<1>8. CASE pc' = "failed" /\ files' = files /\ at' = at
  BY <1>1, <1>2, <1>7, <1>8 DEF IInv, Live, TypeOK, SizeInv, RejectedForCause, RejectedClosed
<1>9. ASSUME at' = at + 1, pc' = pc, files' \in Seq(File), Len(files') = Len(files),
             DOMAIN files' = DOMAIN files, f # 0 => ~files'[f].open,
             \A g \in DOMAIN files : /\ files'[g].data = files[g].data /\ files'[g].pos = files[g].pos
                                     /\ files'[g].size = files[g].size
                                     /\ files'[g].open => files[g].open
      PROVE  IInv'
  <2>1. TypeOK'
    <3>1. at' \in 1..(MaxParts + MaxData + 1)
      BY <1>1, <1>2, <1>3, <1>9 DEF SizeInv
    <3>2. QED
      BY <1>1, <1>2, <1>7, <1>9, <3>1 DEF TypeOK
  <2>2. SizeInv' /\ RejectedForCause' /\ RejectedClosed'
    BY <1>1, <1>2, <1>9 DEF SizeInv, RejectedForCause, RejectedClosed
  <2>3. PartsInv' /\ ItemsInv' /\ \A p : Nth(p)' = Nth(p)
    BY <1>1, <1>2, <1>9, SameParts
  <2>4. ListsInv'
    BY <1>1, <1>2, <1>3, <1>9 DEF ListsInv, Succeeded
  <2>5. FilesInv'
    <3>1. ASSUME NEW i \in DOMAIN items, items[i].file # 0, i < at + 1
          PROVE  ~files'[items[i].file].open
      <4>1. CASE i = at
        BY <1>9, <3>1, <4>1 DEF f
      <4>2. CASE i # at
        <5>1. i < at
          BY <1>3, <3>1, <4>2
        <5>2. ~files[items[i].file].open
          BY <1>1, <1>2, <3>1, <5>1 DEF FilesInv
        <5>3. QED
          BY <1>5, <1>9, <3>1, <5>2
      <4>3. QED
        BY <4>1, <4>2
    <3>2. QED
      BY <1>1, <1>2, <1>9, <3>1 DEF FilesInv
  <2>6. UploadInv'
    <3>1. SUFFICES ASSUME NEW p \in DOMAIN body, body[p].kind = "file"
                   PROVE  PlaceInv(p, Nth(p))' /\ DataInv(p, Nth(p))'
      BY <1>2 DEF UploadInv
    <3>2. PlaceInv(p, Nth(p)) /\ DataInv(p, Nth(p)) /\ Nth(p)' = Nth(p)
      BY <1>1, <2>3, <3>1 DEF UploadInv
    <3>3. Nth(p) \in DOMAIN files
      BY <1>1, <1>3, <3>1, Numbers DEF PartsInv
    <3>4. PlaceInv(p, Nth(p))'
      BY <1>2, <1>9, <3>2, <3>3 DEF PlaceInv, Finishes, Writes
    <3>5. DataInv(p, Nth(p))'
      <4>1. files'[Nth(p)].data = files[Nth(p)].data /\ Reached' = Reached
        BY <1>2, <1>9, <3>3 DEF Reached
      <4>2. QED
        BY <1>2, <3>2, <4>1 DEF DataInv, Lengthens
    <3>6. QED
      BY <3>4, <3>5
  <2>7. QED
    BY <2>1, <2>2, <2>3, <2>4, <2>5, <2>6 DEF IInv
<1>10. CASE f = 0 /\ at' = at + 1 /\ pc' = pc /\ files' = files
  BY <1>3, <1>9, <1>10
<1>11. CASE f # 0 /\ files' = [files EXCEPT ![f].open = FALSE] /\ at' = at + 1 /\ pc' = pc
  <2> DEFINE file == [files[f] EXCEPT !.open = FALSE]
  <2>1. /\ file \in File /\ file.data = files[f].data /\ file.pos = files[f].pos
        /\ file.size = files[f].size /\ file.open = FALSE
    BY <1>6, <1>11, Filed
  <2>2. files' = [files EXCEPT ![f] = file]
    BY <1>11
  <2> HIDE DEF file
  <2>3. /\ files' \in Seq(File) /\ Len(files') = Len(files) /\ DOMAIN files' = DOMAIN files
        /\ files'[f] = file /\ \A g \in DOMAIN files : g # f => files'[g] = files[g]
    BY <1>3, <1>6, <1>11, <2>1, <2>2, OneFile
  <2>4. \A g \in DOMAIN files : /\ files'[g].data = files[g].data /\ files'[g].pos = files[g].pos
                                /\ files'[g].size = files[g].size
                                /\ files'[g].open => files[g].open
    <3>1. TAKE g \in DOMAIN files
    <3>2. CASE g = f
      BY <2>1, <2>3, <3>2
    <3>3. CASE g # f
      BY <2>3, <3>3
    <3>4. QED
      BY <3>2, <3>3
  <2>5. QED
    BY <1>9, <1>11, <2>1, <2>3, <2>4
<1>12. QED
  BY <1>2, <1>8, <1>10, <1>11

\* A write where the file ends.
LEMMA WrittenAtEnd ==
  ASSUME NEW file \in File, NEW data \in Seq(1..MaxData), file.pos = Len(file.data),
         file.size = Len(file.data), Len(file.data) + Len(data) <= MaxData
  PROVE  /\ Written(file, data) \in File
         /\ Written(file, data).data = file.data \o data
         /\ Written(file, data).pos = Len(file.data) + Len(data)
         /\ Written(file, data).size = Len(file.data) + Len(data)
         /\ Written(file, data).open = file.open
<1> DEFINE w == file.data \o data
           n == Len(file.data) + Len(data)
           rolled == file.rolled \/ n > SpoolMax
<1>1. /\ file.data \in Seq(1..MaxData) /\ file.pos \in 0..MaxData /\ file.rolled \in BOOLEAN
      /\ file.open \in BOOLEAN
  BY Filed
<1>2. w \in Seq(1..MaxData) /\ n \in Nat
  BY <1>1
<1>3. w \o <<>> = w /\ SubSeq(file.data, 1, Len(file.data)) = file.data
  BY <1>1, <1>2, Cuts, ConcatEmptySeq
<1>4. ~(n < Len(file.data))
  BY <1>1
<1>5. rolled \in BOOLEAN
  BY <1>1
<1>6. (file.rolled \/ file.pos + Len(data) > SpoolMax) = rolled
  OBVIOUS
<1>7. Written(file, data) = [file EXCEPT !.data = w, !.pos = n, !.size = n, !.rolled = rolled]
  <2>1. Written(file, data) =
          [file EXCEPT !.data = SubSeq(file.data, 1, Len(file.data)) \o data \o <<>>,
                       !.pos = n, !.size = n, !.rolled = rolled]
    BY <1>4, <1>6 DEF Written
  <2>2. QED
    BY <1>3, <2>1
<1> HIDE DEF w, rolled
<1>8. n \in 0..MaxData
  BY <1>2
<1> HIDE DEF n
<1>9. QED
  BY <1>1, <1>2, <1>5, <1>7, <1>8 DEF File, w, n

\* What is written is what the part has sent next.
LEMMA WriteStep ==
  ASSUME IInv, Write
  PROVE  IInv'
<1>1. TypeOK /\ SizeInv /\ PartsInv /\ ItemsInv /\ ListsInv /\ FilesInv /\ UploadInv
  BY LiveSteps DEF Live, Write
<1> DEFINE f == toWrite[at][1]
           data == toWrite[at][2]
<1>2. /\ pc = "writing" /\ at <= Len(toWrite)
      /\ UNCHANGED <<limits, body, seen, current, counts, items, toWrite, toFinish>>
      /\ thread' = WillRoll(files[f], Len(data))
      /\ \/ files' = [files EXCEPT ![f] = Written(files[f], data)] /\ at' = at + 1 /\ pc' = pc
         \/ files' = [files EXCEPT ![f].size = files[f].size + Len(data)] /\ pc' = "failed" /\ at' = at
  BY DEF Write
<1>3. /\ DOMAIN toWrite = 1..Len(toWrite) /\ Len(toWrite) \in Nat /\ at \in Nat /\ at >= 1
      /\ files \in Seq(File) /\ body \in Seq(Part) /\ MaxData \in Nat /\ MaxParts \in Nat
      /\ toWrite \in Seq((1..MaxParts) \X Seq(1..MaxData)) /\ seen \in 0..MaxData
  <2>1. /\ at \in 1..(MaxParts + MaxData + 1) /\ MaxParts \in Nat /\ MaxData \in Nat /\ files \in Seq(File)
        /\ body \in Seq(Part) /\ toWrite \in Seq((1..MaxParts) \X Seq(1..MaxData)) /\ seen \in 0..MaxData
    BY <1>1, FormTypes
  <2>2. at \in Nat /\ at >= 1
    BY <2>1
  <2>3. QED
    BY <2>1, <2>2
<1>4. at \in DOMAIN toWrite /\ f \in DOMAIN files /\ data \in Seq(1..MaxData) /\ at + 1 \in 1..(Len(toWrite) + 1)
  <2>1. at \in DOMAIN toWrite /\ at + 1 \in 1..(Len(toWrite) + 1)
    BY <1>2, <1>3, SMTT(30)
  <2>2. toWrite[at] \in (1..MaxParts) \X Seq(1..MaxData)
    BY <1>3, <2>1
  <2>3. QED
    BY <1>1, <2>1, <2>2 DEF ListsInv
<1>5. files[f] \in File
  BY <1>3, <1>4
<1>6. thread' \in BOOLEAN
  BY <1>2, <1>5, Filed DEF WillRoll
\* What the write does to the file of a part.
<1>7. ASSUME NEW p \in DOMAIN body, body[p].kind = "file", Nth(p) = f
      PROVE  /\ files[f].pos = Len(files[f].data) /\ Len(files[f].data) + Len(data) <= MaxData
             /\ \A length \in [1..(Len(toWrite) + 1) -> 0..MaxData] :
                  Lengthens(p, f, length) =>
                    /\ files[f].data \o data = SubSeq(body[p].data, 1, length[at + 1])
                    /\ length[at + 1] <= Len(body[p].data)
  <2>1. PlaceInv(p, f) /\ DataInv(p, f)
    BY <1>1, <1>7 DEF UploadInv
  <2>2. Writes(f)
    BY <1>4 DEF Writes
  <2>3. files[f].pos = Len(files[f].data)
    BY <1>2, <2>1, <2>2 DEF PlaceInv
  <2>4. body[p].data \in Seq(1..MaxData)
    <3>1. body[p] \in Part
      BY <1>3, <1>7
    <3>2. QED
      BY <3>1, Parts
  <2> HIDE DEF f, data
  <2>5. ASSUME NEW length \in [1..(Len(toWrite) + 1) -> 0..MaxData], Lengthens(p, f, length)
        PROVE  /\ files[f].data \o data = SubSeq(body[p].data, 1, length[at + 1])
               /\ length[at + 1] <= Len(body[p].data)
               /\ Len(files[f].data) + Len(data) <= MaxData
    <3>1. /\ length[at] <= length[at + 1] /\ length[at + 1] <= Len(body[p].data)
          /\ data = SubSeq(body[p].data, length[at] + 1, length[at + 1])
          /\ files[f].data = SubSeq(body[p].data, 1, length[at])
      BY <1>2, <1>4, <2>5 DEF Lengthens, Reached, f, data
    <3>2. length[at] \in 0..MaxData /\ length[at + 1] \in 0..MaxData
      <4>1. at \in 1..(Len(toWrite) + 1) /\ at + 1 \in 1..(Len(toWrite) + 1)
        BY <1>2, <1>3, <1>4
      <4>2. QED
        BY <4>1
    <3>3. length[at] \in 0..Len(body[p].data) /\ length[at + 1] \in 0..Len(body[p].data)
      BY <2>4, <3>1, <3>2
    <3>4. files[f].data \o data = SubSeq(body[p].data, 1, length[at + 1])
      BY <2>4, <3>1, <3>3, CutsJoin
    <3>5. 0 \in 0..Len(body[p].data) /\ 0 <= length[at]
      BY <2>4, <3>3
    <3>6. Len(data) = length[at + 1] - length[at]
      BY <2>4, <3>1, <3>3, Cuts, SMTT(30)
    <3>7. Len(SubSeq(body[p].data, 0 + 1, length[at])) = length[at] - 0
      BY <2>4, <3>3, <3>5, Cuts
    <3>8. Len(files[f].data) = length[at]
      BY <3>1, <3>2, <3>7
    <3>9. Len(files[f].data) + Len(data) <= MaxData
      <4>1. length[at] \in Nat /\ length[at + 1] \in Nat /\ length[at + 1] <= MaxData
        BY <1>3, <3>2
      <4>2. Len(files[f].data) + Len(data) = length[at] + (length[at + 1] - length[at])
        BY <3>6, <3>8
      <4>3. QED
        BY <4>1, <4>2
    <3>10. QED
      BY <3>1, <3>4, <3>9
  <2>6. QED
    BY <2>1, <2>3, <2>5 DEF DataInv
<1>8. files[f].pos = Len(files[f].data) /\ Len(files[f].data) + Len(data) <= MaxData
  <2>1. PICK p \in DOMAIN body : body[p].kind = "file" /\ Nth(p) = f
    BY <1>1, <1>4 DEF PartsInv
  <2>2. QED
    BY <1>7, <2>1
<1>9. files[f].size = Len(files[f].data)
  BY <1>1, <1>4 DEF FilesInv
<1> HIDE DEF f, data
<1>10. CASE files' = [files EXCEPT ![f].size = files[f].size + Len(data)] /\ pc' = "failed" /\ at' = at
  <2>1. files[f].size + Len(data) \in 0..MaxData
    BY <1>4, <1>5, <1>8, <1>9, Filed
  <2>2. [files[f] EXCEPT !.size = files[f].size + Len(data)] \in File
    BY <1>5, <2>1, Filed
  <2>3. files' = [files EXCEPT ![f] = [files[f] EXCEPT !.size = files[f].size + Len(data)]]
    BY <1>10
  <2>4. files' \in Seq(File) /\ Len(files') = Len(files)
    BY <1>3, <1>4, <2>2, <2>3, OneFile
  <2>5. TypeOK'
    BY <1>1, <1>2, <1>6, <1>10, <2>4 DEF TypeOK
  <2>6. QED
    BY <1>1, <1>2, <1>10, <2>4, <2>5 DEF IInv, Live, SizeInv, RejectedForCause, RejectedClosed
<1>11. CASE files' = [files EXCEPT ![f] = Written(files[f], data)] /\ at' = at + 1 /\ pc' = pc
  <2> DEFINE file == Written(files[f], data)
  <2>1. /\ file \in File /\ file.data = files[f].data \o data
        /\ file.pos = Len(files[f].data) + Len(data) /\ file.size = Len(files[f].data) + Len(data)
        /\ file.open = files[f].open
    BY <1>4, <1>5, <1>8, <1>9, WrittenAtEnd
  <2>2. files' = [files EXCEPT ![f] = file]
    BY <1>11
  <2> HIDE DEF file
  <2>3. /\ files' \in Seq(File) /\ Len(files') = Len(files) /\ DOMAIN files' = DOMAIN files
        /\ files'[f] = file /\ \A g \in DOMAIN files : g # f => files'[g] = files[g]
    BY <1>3, <1>4, <2>1, <2>2, OneFile
  <2>4. file.pos = Len(file.data) /\ file.size = Len(file.data)
    <3>1. files[f].data \in Seq(1..MaxData)
      BY <1>5, Filed
    <3>2. QED
      BY <1>4, <2>1, <3>1
  <2>5. TypeOK'
    <3>1. at' \in 1..(MaxParts + MaxData + 1)
      <4>1. Len(toWrite) <= seen /\ seen <= MaxData /\ at <= Len(toWrite)
        BY <1>1, <1>2, <1>3 DEF ListsInv
      <4>2. QED
        BY <1>3, <1>11, <4>1
    <3>2. QED
      BY <1>1, <1>2, <1>6, <1>11, <2>3, <3>1 DEF TypeOK
  <2>6. SizeInv' /\ RejectedForCause' /\ RejectedClosed'
    BY <1>1, <1>2, <1>11, <2>3 DEF SizeInv, RejectedForCause, RejectedClosed
  <2>7. PartsInv' /\ ItemsInv' /\ \A p : Nth(p)' = Nth(p)
    BY <1>1, <1>2, <2>3, SameParts
  <2>8. ListsInv'
    BY <1>1, <1>2, <1>3, <1>11, <2>3 DEF ListsInv, Succeeded
  <2>9. FilesInv'
    <3>1. ASSUME NEW g \in DOMAIN files'
          PROVE  files'[g].size = Len(files'[g].data) /\ files'[g].open
      <4>1. CASE g = f
        BY <1>1, <1>2, <1>4, <2>1, <2>3, <2>4, <4>1 DEF FilesInv
      <4>2. CASE g # f
        BY <1>1, <1>2, <2>3, <4>2 DEF FilesInv
      <4>3. QED
        BY <4>1, <4>2
    <3>2. QED
      BY <1>2, <1>11, <3>1 DEF FilesInv
  <2>10. UploadInv'
    <3>1. SUFFICES ASSUME NEW p \in DOMAIN body, body[p].kind = "file"
                   PROVE  PlaceInv(p, Nth(p))' /\ DataInv(p, Nth(p))'
      BY <1>2 DEF UploadInv
    <3> DEFINE g == Nth(p)
    <3>2. PlaceInv(p, g) /\ DataInv(p, g) /\ Nth(p)' = g
      BY <1>1, <2>7, <3>1 DEF UploadInv
    <3>3. g \in DOMAIN files
      BY <1>1, <1>3, <3>1, Numbers DEF PartsInv
    <3> HIDE DEF g
    <3>4. PICK length \in [1..(Len(toWrite) + 1) -> 0..MaxData] : Lengthens(p, g, length)
      BY <3>2 DEF DataInv
    <3>5. Reached = at /\ Reached' = at + 1
      BY <1>2, <1>11 DEF Reached
    <3>6. CASE g = f
      <4>1. Writes(g)
        BY <1>4, <3>6 DEF Writes, f
      <4>2. PlaceInv(p, Nth(p))'
        BY <1>2, <1>11, <2>3, <2>4, <3>2, <3>6, <4>1 DEF PlaceInv, Finishes, Writes
      <4>3. /\ files[f].data \o data = SubSeq(body[p].data, 1, length[at + 1])
            /\ length[at + 1] <= Len(body[p].data)
        BY <1>7, <3>1, <3>4, <3>6 DEF g
      <4>4. Lengthens(p, Nth(p), length)'
        BY <1>2, <2>1, <2>3, <3>2, <3>4, <3>5, <3>6, <4>3 DEF Lengthens
      <4>5. DataInv(p, Nth(p))'
        BY <1>2, <4>4 DEF DataInv
      <4>6. QED
        BY <4>2, <4>5
    <3>7. CASE g # f
      <4>1. files'[g] = files[g]
        BY <2>3, <3>3, <3>7
      <4>2. PlaceInv(p, Nth(p))'
        BY <1>2, <1>11, <3>2, <4>1 DEF PlaceInv, Finishes, Writes
      <4>3. length[at + 1] = length[at]
        BY <1>4, <3>4, <3>7 DEF Lengthens, f
      <4>4. Lengthens(p, Nth(p), length)'
        BY <1>2, <3>2, <3>4, <3>5, <4>1, <4>3 DEF Lengthens
      <4>5. DataInv(p, Nth(p))'
        BY <1>2, <4>4 DEF DataInv
      <4>6. QED
        BY <4>2, <4>5
    <3>8. QED
      BY <3>6, <3>7
  <2>11. QED
    BY <2>5, <2>6, <2>7, <2>8, <2>9, <2>10 DEF IInv
<1>12. QED
  BY <1>2, <1>10, <1>11

-----------------------------------------------------------------------------
(* The callbacks of the parser.                                            *)

\* The numbers of the parts when none begins, and when one does.
LEMMA SameKinds ==
  ASSUME body \in Seq(Part), body' \in Seq(Part), Len(body') = Len(body),
         \A p \in DOMAIN body : body'[p].kind = body[p].kind
  PROVE  /\ UNCHANGED <<Count("file"), Count("field")>>
         /\ \A p \in DOMAIN body : Nth(p)' = Nth(p)
<1>1. DOMAIN body = 1..Len(body) /\ Len(body) \in Nat
  OBVIOUS
<1>2. ASSUME NEW n \in 0..Len(body), NEW kind PROVE CountIn(body', n, kind) = CountIn(body, n, kind)
  <2>1. \A q \in 1..n : body'[q].kind = body[q].kind
    BY <1>1
  <2>2. QED
    BY <2>1, SameCounts
<1>3. Len(body) \in 0..Len(body) /\ \A p \in DOMAIN body : p \in 0..Len(body)
  BY <1>1
<1>4. /\ Count("file")' = CountIn(body', Len(body'), "file") /\ Count("file") = CountIn(body, Len(body), "file")
      /\ Count("field")' = CountIn(body', Len(body'), "field") /\ Count("field") = CountIn(body, Len(body), "field")
      /\ \A p : Nth(p)' = CountIn(body', p, "file") /\ Nth(p) = CountIn(body, p, "file")
  BY KindCounts, KindCountsNext
<1>5. UNCHANGED <<Count("file"), Count("field")>>
  BY <1>2, <1>3, <1>4
<1>6. \A p \in DOMAIN body : Nth(p)' = Nth(p)
  BY <1>2, <1>3, <1>4
<1>7. QED
  BY <1>5, <1>6

\* The same when one element is appended.
LEMMA AddedCounts ==
  ASSUME NEW s \in Seq(Part), NEW t, NEW part, \A p \in 1..Len(s) : t[p] = s[p], t[Len(s) + 1] = part
  PROVE  /\ \A n \in 0..Len(s) : \A kind : CountIn(t, n, kind) = CountIn(s, n, kind)
         /\ \A kind : CountIn(t, Len(s) + 1, kind) =
              CountIn(s, Len(s), kind) + (IF part.kind = kind THEN 1 ELSE 0)
<1>1. Len(s) \in Nat /\ Len(s) \in 0..Len(s)
  OBVIOUS
<1>2. ASSUME NEW n \in 0..Len(s), NEW kind PROVE CountIn(t, n, kind) = CountIn(s, n, kind)
  <2>1. \A q \in 1..n : t[q].kind = s[q].kind
    BY <1>1, <1>2
  <2>2. QED
    BY <2>1, SameCounts
<1>3. ASSUME NEW kind
      PROVE  CountIn(t, Len(s) + 1, kind) = CountIn(s, Len(s), kind) + (IF part.kind = kind THEN 1 ELSE 0)
  <2>1. CountIn(t, Len(s) + 1, kind) =
        CountIn(t, Len(s), kind) + (IF t[Len(s) + 1].kind = kind THEN 1 ELSE 0)
    BY <1>1, Counts
  <2>2. QED
    BY <1>1, <1>2, <2>1
<1>4. QED
  BY <1>2, <1>3

\* The new part has its own number, the others keep theirs.
LEMMA NewKind ==
  ASSUME body \in Seq(Part), NEW part \in Part, body' = Append(body, part)
  PROVE  /\ body' \in Seq(Part) /\ Len(body') = Len(body) + 1 /\ body'[Len(body) + 1] = part
         /\ \A p \in DOMAIN body : body'[p] = body[p] /\ Nth(p)' = Nth(p)
         /\ Count("file")' = Count("file") + (IF part.kind = "file" THEN 1 ELSE 0)
         /\ Count("field")' = Count("field") + (IF part.kind = "field" THEN 1 ELSE 0)
         /\ part.kind = "file" => Nth(Len(body))' = Count("file") + 1
<1>1. /\ body' \in Seq(Part) /\ Len(body') = Len(body) + 1 /\ body'[Len(body) + 1] = part
      /\ \A p \in 1..Len(body) : body'[p] = body[p]
      /\ DOMAIN body = 1..Len(body) /\ Len(body) \in Nat
  BY AppendProperties
<1>2. /\ \A n \in 0..Len(body) : \A kind : CountIn(body', n, kind) = CountIn(body, n, kind)
      /\ \A kind : CountIn(body', Len(body) + 1, kind) =
           CountIn(body, Len(body), kind) + (IF part.kind = kind THEN 1 ELSE 0)
  <2> HIDE DEF CountIn
  <2>1. PICK s, t : s = body /\ t = body'
    OBVIOUS
  <2>2. s \in Seq(Part) /\ (\A p \in 1..Len(s) : t[p] = s[p]) /\ t[Len(s) + 1] = part
    BY <1>1, <2>1
  <2>3. /\ \A n \in 0..Len(s) : \A kind : CountIn(t, n, kind) = CountIn(s, n, kind)
        /\ \A kind : CountIn(t, Len(s) + 1, kind) =
             CountIn(s, Len(s), kind) + (IF part.kind = kind THEN 1 ELSE 0)
    BY <2>2, AddedCounts, SMTT(30)
  <2>4. QED
    BY <2>1, <2>3
<1>3. Len(body) \in 0..Len(body) /\ \A p \in DOMAIN body : p \in 0..Len(body)
  BY <1>1
<1>4. /\ Count("file")' = CountIn(body', Len(body'), "file") /\ Count("file") = CountIn(body, Len(body), "file")
      /\ Count("field")' = CountIn(body', Len(body'), "field") /\ Count("field") = CountIn(body, Len(body), "field")
      /\ \A p : Nth(p)' = CountIn(body', p, "file") /\ Nth(p) = CountIn(body, p, "file")
  BY <1>1, KindCounts, KindCountsNext
<1>5. \A p \in DOMAIN body : Nth(p)' = Nth(p)
  <2>1. TAKE p \in DOMAIN body
  <2>2. CountIn(body', p, "file") = CountIn(body, p, "file")
    BY <1>2, <1>3
  <2>3. QED
    BY <1>4, <2>2
<1>6. /\ Count("file")' = Count("file") + (IF part.kind = "file" THEN 1 ELSE 0)
      /\ Count("field")' = Count("field") + (IF part.kind = "field" THEN 1 ELSE 0)
      /\ part.kind = "file" => Nth(Len(body))' = Count("file") + 1
  <2> HIDE DEF CountIn
  <2>1. PICK k : k = Len(body') /\ k = Len(body) + 1
    BY <1>1
  <2>2. /\ CountIn(body', k, "file") =
           CountIn(body, Len(body), "file") + (IF part.kind = "file" THEN 1 ELSE 0)
        /\ CountIn(body', k, "field") =
           CountIn(body, Len(body), "field") + (IF part.kind = "field" THEN 1 ELSE 0)
    BY <1>2, <2>1
  <2>3. Count("file")' = CountIn(body', k, "file") /\ Count("field")' = CountIn(body', k, "field")
    BY <1>4, <2>1
  <2>4. Nth(Len(body))' = CountIn(body', k, "file")
    BY <1>4, <2>1
  <2>5. Count("file")' = Count("file") + (IF part.kind = "file" THEN 1 ELSE 0)
    BY <1>4, <2>2, <2>3
  <2>6. Count("field")' = Count("field") + (IF part.kind = "field" THEN 1 ELSE 0)
    BY <1>4, <2>2, <2>3
  <2>7. ASSUME part.kind = "file" PROVE Nth(Len(body))' = Count("file") + 1
    BY <1>4, <2>2, <2>4, <2>7
  <2>8. QED
    BY <2>5, <2>6, <2>7
<1>7. QED
  BY <1>1, <1>5, <1>6

\* The item of a part that is open is what is held of it.
LEMMA Current ==
  ASSUME IInv, Live, InPart
  PROVE  /\ Len(body) \in DOMAIN body /\ body[Len(body)] \in Part /\ ~body[Len(body)].ended
         /\ body[Len(body)].kind \in {"file", "field"}
         /\ body[Len(body)].kind = "file" =>
              /\ current = [file |-> Nth(Len(body)), data |-> <<>>]
              /\ current.file # 0 /\ current.file = Len(files) /\ current.file \in DOMAIN files
         /\ body[Len(body)].kind = "field" => current = [file |-> 0, data |-> body[Len(body)].data]
<1>1. TypeOK /\ PartsInv /\ ItemsInv
  BY LiveSteps
<1>2. body \in Seq(Part) /\ files \in Seq(File)
  BY <1>1, FormTypes
<1>3. Len(body) \in DOMAIN body /\ body[Len(body)] \in Part /\ ~body[Len(body)].ended /\ body # <<>>
  <2>1. body # <<>> /\ ~body[Len(body)].ended
    BY DEF InPart, Last
  <2>2. QED
    BY <1>2, <2>1
<1>4. body[Len(body)].kind \in {"file", "field"}
  BY <1>1, <1>3, Parts DEF PartsInv, Kinds
<1>5. current = ItemOf(Len(body))
  BY <1>1 DEF ItemsInv
<1>6. ASSUME body[Len(body)].kind = "file"
      PROVE  /\ current = [file |-> Nth(Len(body)), data |-> <<>>]
             /\ current.file # 0 /\ current.file = Len(files) /\ current.file \in DOMAIN files
  <2>1. current = [file |-> Nth(Len(body)), data |-> <<>>] /\ current.file = Nth(Len(body))
    BY <1>5, <1>6 DEF ItemOf
  <2>2. Nth(Len(body)) \in 1..Count("file") /\ Nth(Len(body)) = Count("file") /\ Count("file") = Len(files)
    BY <1>1, <1>2, <1>3, <1>6, Numbers DEF PartsInv
  <2>3. QED
    BY <1>2, <2>1, <2>2
<1>7. body[Len(body)].kind = "field" => current = [file |-> 0, data |-> body[Len(body)].data]
  BY <1>5 DEF ItemOf
<1>8. QED
  BY <1>3, <1>4, <1>6, <1>7

\* A part that ends becomes an item.
LEMMA PartEndStep ==
  ASSUME IInv, PartEnd
  PROVE  IInv'
<1>1. TypeOK /\ SizeInv /\ PartsInv /\ ItemsInv /\ ListsInv /\ FilesInv /\ UploadInv /\ Live
  BY LiveSteps DEF Live, PartEnd
<1> DEFINE n == Len(body)
           part == [body[n] EXCEPT !.ended = TRUE]
<1>2. /\ pc = "parsing" /\ InPart /\ body' = [body EXCEPT ![n].ended = TRUE]
      /\ items' = Append(items, current)
      /\ toFinish' = IF current.file = 0 THEN toFinish ELSE Append(toFinish, current.file)
      /\ UNCHANGED <<limits, pc, at, seen, current, counts, toWrite, files, thread>>
  BY DEF PartEnd
<1>3. /\ body \in Seq(Part) /\ items \in Seq(Item) /\ toFinish \in Seq(1..MaxParts) /\ files \in Seq(File)
      /\ current \in Item /\ MaxParts \in Nat /\ limits.size \in Nat
  BY <1>1, FormTypes
<1>4. /\ n \in DOMAIN body /\ body[n] \in Part /\ ~body[n].ended
      /\ body[n].kind \in {"file", "field"}
      /\ body[n].kind = "file" =>
           /\ current = [file |-> Nth(n), data |-> <<>>]
           /\ current.file # 0 /\ current.file = Len(files) /\ current.file \in DOMAIN files
      /\ body[n].kind = "field" => current = [file |-> 0, data |-> body[n].data]
  BY <1>1, <1>2, Current
<1>5. part \in Part /\ part.kind = body[n].kind /\ part.data = body[n].data /\ part.ended
  BY <1>4, Parts
<1>6. body' = [body EXCEPT ![n] = part]
  BY <1>2
<1>7. current = ItemOf(n)
  BY <1>1, <1>2 DEF ItemsInv
<1> HIDE DEF part
<1>8. /\ body' \in Seq(Part) /\ Len(body') = n /\ DOMAIN body' = DOMAIN body /\ body'[n] = part
      /\ \A p \in DOMAIN body : p # n => body'[p] = body[p]
  BY <1>3, <1>4, <1>5, <1>6, ExceptSeq
<1>9. \A p \in DOMAIN body : body'[p].kind = body[p].kind /\ body'[p].data = body[p].data
  BY <1>5, <1>8
<1>10. UNCHANGED <<Count("file"), Count("field")>> /\ \A p \in DOMAIN body : Nth(p)' = Nth(p)
  BY <1>3, <1>8, <1>9, SameKinds
<1>11. /\ items' \in Seq(Item) /\ Len(items') = Len(items) + 1 /\ items'[Len(items) + 1] = current
       /\ \A i \in 1..Len(items) : items'[i] = items[i]
       /\ Len(items) = n - 1 /\ n \in Nat /\ DOMAIN body = 1..n /\ DOMAIN items' = 1..n
       /\ DOMAIN items = 1..(n - 1)
  <2>1. Len(items) = n - 1
    BY <1>1, <1>2 DEF ItemsInv
  <2>2. /\ items' \in Seq(Item) /\ Len(items') = Len(items) + 1 /\ items'[Len(items) + 1] = current
        /\ \A i \in 1..Len(items) : items'[i] = items[i]
    BY <1>2, <1>3, AppendProperties
  <2>3. n \in Nat /\ DOMAIN body = 1..n /\ DOMAIN items' = 1..Len(items') /\ DOMAIN items = 1..Len(items)
    BY <1>3, <2>2
  <2>4. QED
    BY <2>1, <2>2, <2>3
<1>12. /\ toFinish' \in Seq(1..MaxParts) /\ Len(toFinish') <= Len(items) + 1
       /\ \A j \in DOMAIN toFinish' : \/ j \in DOMAIN toFinish /\ toFinish'[j] = toFinish[j]
                                      \/ toFinish'[j] = current.file /\ current.file # 0
       /\ \A j \in DOMAIN toFinish : j \in DOMAIN toFinish' /\ toFinish'[j] = toFinish[j]
       /\ current.file # 0 => \E j \in DOMAIN toFinish' : toFinish'[j] = current.file
  <2>1. Len(toFinish) <= Len(items) /\ Len(toFinish) \in Nat /\ DOMAIN toFinish = 1..Len(toFinish)
    BY <1>1, <1>3 DEF ListsInv
  <2>2. CASE current.file = 0
    BY <1>2, <1>3, <1>11, <2>1, <2>2
  <2>3. CASE current.file # 0
    <3>1. current.file \in 1..MaxParts
      BY <1>3, <2>3, Items
    <3>2. /\ toFinish' \in Seq(1..MaxParts) /\ Len(toFinish') = Len(toFinish) + 1
          /\ \A j \in 1..Len(toFinish) : toFinish'[j] = toFinish[j]
          /\ toFinish'[Len(toFinish) + 1] = current.file
      BY <1>2, <1>3, <2>3, <3>1, AppendProperties
    <3>3. DOMAIN toFinish' = 1..(Len(toFinish) + 1)
      BY <3>2
    <3>4. Len(toFinish') <= Len(items) + 1
      BY <1>11, <2>1, <3>2
    <3>5. QED
      BY <2>1, <2>3, <3>2, <3>3, <3>4
  <2>4. QED
    BY <2>2, <2>3
<1> HIDE DEF n
<1>13. TypeOK'
  BY <1>1, <1>2, <1>8, <1>11, <1>12 DEF TypeOK, Item
<1>14. SizeInv'
  <2>1. Len(items') <= MaxParts /\ Len(body') <= MaxParts
    BY <1>1, <1>8, <1>11 DEF SizeInv, n
  <2>2. \A i \in DOMAIN items' : Len(items'[i].data) <= limits.size
    <3>1. TAKE i \in DOMAIN items'
    <3>2. CASE i = n
      BY <1>1, <1>11, <3>2 DEF SizeInv
    <3>3. CASE i # n
      <4>1. i \in 1..Len(items) /\ i \in DOMAIN items
        BY <1>11, <3>3
      <4>2. QED
        BY <1>1, <1>11, <4>1 DEF SizeInv
    <3>4. QED
      BY <3>2, <3>3
  <2>3. QED
    BY <1>1, <1>2, <2>1, <2>2 DEF SizeInv
<1>15. RejectedForCause' /\ RejectedClosed'
  BY <1>2 DEF RejectedForCause, RejectedClosed
<1>16. PartsInv'
  <2>1. \A p \in DOMAIN body' : body'[p].kind # "nameless" /\ Len(body'[p].data) <= seen'
    BY <1>1, <1>2, <1>8, <1>9 DEF PartsInv
  <2>2. \A p \in 1..(Len(body') - 1) : body'[p].ended
    BY <1>1, <1>8, <1>11 DEF PartsInv, n
  <2>3. \A f \in DOMAIN files' : \E p \in DOMAIN body' : body'[p].kind = "file" /\ Nth(p)' = f
    BY <1>1, <1>2, <1>8, <1>9, <1>10 DEF PartsInv
  <2>4. QED
    BY <1>1, <1>2, <1>10, <2>1, <2>2, <2>3 DEF PartsInv
<1>17. ItemsInv'
  <2>1. ~InPart'
    BY <1>5, <1>8 DEF InPart, Last
  <2>2. \A p \in DOMAIN body : ItemOf(p)' = ItemOf(p)
    BY <1>9, <1>10 DEF ItemOf
  <2>3. ASSUME NEW i \in DOMAIN items' PROVE items'[i] = ItemOf(i)'
    <3>1. CASE i = n
      BY <1>4, <1>7, <1>11, <2>2, <3>1
    <3>2. CASE i # n
      <4>1. i \in 1..Len(items) /\ i \in DOMAIN items /\ i \in DOMAIN body
        BY <1>11, <3>2
      <4>2. QED
        BY <1>1, <1>11, <2>2, <4>1 DEF ItemsInv
    <3>3. QED
      BY <3>1, <3>2
  <2>4. QED
    BY <1>8, <1>11, <2>1, <2>3 DEF ItemsInv
<1>18. ListsInv'
  BY <1>1, <1>2, <1>4, <1>11, <1>12 DEF ListsInv, Succeeded
<1>19. FilesInv'
  BY <1>1, <1>2 DEF FilesInv
<1>20. UploadInv'
  <2>1. SUFFICES ASSUME NEW p \in DOMAIN body, body[p].kind = "file"
                 PROVE  PlaceInv(p, Nth(p))' /\ DataInv(p, Nth(p))'
    BY <1>8, <1>9 DEF UploadInv
  <2>2. PICK g : g = Nth(p) /\ Nth(p)' = g /\ PlaceInv(p, g) /\ DataInv(p, g)
    BY <1>1, <1>10, <2>1 DEF UploadInv
  <2>3. DataInv(p, Nth(p))'
    <3>1. Reached' = Reached /\ body'[p].data = body[p].data
      BY <1>2, <1>9 DEF Reached
    <3>2. QED
      BY <1>2, <2>2, <3>1 DEF DataInv, Lengthens
  <2>4. CASE p = n
    <3>1. body'[p].ended /\ Finishes(g)' /\ current.file = g
      BY <1>4, <1>5, <1>8, <1>12, <2>1, <2>2, <2>4 DEF Finishes
    <3>2. files[g].pos = Len(files[g].data)
      BY <1>4, <2>2, <2>4 DEF PlaceInv
    <3>3. PlaceInv(p, Nth(p))'
      BY <1>2, <2>2, <3>1, <3>2 DEF PlaceInv, Finishes
    <3>4. QED
      BY <2>3, <3>3
  <2>5. CASE p # n
    <3>1. current.file # g
      <4>1. CASE body[n].kind = "file"
        <5>1. p < n
          BY <1>11, <2>5
        <5>2. Nth(p) < Nth(n) /\ current.file = Nth(n) /\ Nth(p) \in Nat
          BY <1>3, <1>4, <2>1, <4>1, <5>1, Numbers
        <5>3. QED
          BY <2>2, <5>2
      <4>2. CASE body[n].kind = "field"
        <5>1. current.file = 0 /\ Nth(p) \in 1..Count("file") /\ Count("file") \in Nat
          BY <1>3, <1>4, <2>1, <4>2, Numbers
        <5>2. QED
          BY <2>2, <5>1
      <4>3. QED
        BY <1>4, <4>1, <4>2
    <3>2. Finishes(g)' <=> Finishes(g)
      BY <1>12, <3>1 DEF Finishes
    <3>3. PlaceInv(p, Nth(p))'
      BY <1>2, <1>8, <2>2, <2>5, <3>2 DEF PlaceInv, Writes
    <3>4. QED
      BY <2>3, <3>3
  <2>6. QED
    BY <2>4, <2>5
<1>21. QED
  BY <1>13, <1>14, <1>15, <1>16, <1>17, <1>18, <1>19, <1>20 DEF IInv

\* A rejected form keeps its files, and none is open.
LEMMA RejectedFiles ==
  ASSUME files \in Seq(File), Reject
  PROVE  /\ files' \in Seq(File) /\ Len(files') = Len(files) /\ RejectedClosed' /\ ~Live' /\ pc' = "rejected"
<1> DEFINE Closed(f) == [files[f] EXCEPT !.open = FALSE]
<1>1. pc' = "rejected" /\ files' = [f \in 1..Len(files) |-> Closed(f)] /\ Len(files) \in Nat
  BY DEF Reject
<1>2. \A f \in 1..Len(files) : Closed(f) \in File /\ Closed(f).open = FALSE
  <2>1. TAKE f \in 1..Len(files)
  <2>2. files[f] \in File
    OBVIOUS
  <2>3. QED
    BY <2>2, Filed
<1> HIDE DEF Closed
<1>3. files' \in Seq(File) /\ Len(files') = Len(files) /\ DOMAIN files' = 1..Len(files)
  BY <1>1, <1>2
<1>4. \A f \in DOMAIN files' : ~files'[f].open
  BY <1>1, <1>2, <1>3
<1>5. QED
  BY <1>1, <1>3, <1>4 DEF RejectedClosed, Live

\* Data are kept, wait to be written, or are too many.
LEMMA PartDataStep ==
  ASSUME IInv, NEW n \in 1..MaxPiece, PartData(n)
  PROVE  IInv'
<1>1. TypeOK /\ SizeInv /\ PartsInv /\ ItemsInv /\ ListsInv /\ FilesInv /\ UploadInv /\ Live
  BY LiveSteps DEF Live, PartData
<1>a. PICK m, piece : m = Len(body) /\ piece = [i \in 1..n |-> seen + i]
  OBVIOUS
<1>b. PICK data : data = body[m].data \o piece
  OBVIOUS
<1>c. PICK part : part = [body[m] EXCEPT !.data = data]
  OBVIOUS
<1>2. /\ pc = "parsing" /\ InPart /\ seen + n <= MaxData /\ seen' = seen + n
      /\ body' = [body EXCEPT ![m].data = @ \o piece]
      /\ \/ /\ current.file = 0 /\ toWrite' = toWrite /\ Len(current.data) + n > limits.size
            /\ Reject /\ current' = current
         \/ /\ current.file = 0 /\ toWrite' = toWrite /\ ~(Len(current.data) + n > limits.size)
            /\ current' = [current EXCEPT !.data = @ \o piece] /\ pc' = pc /\ files' = files
         \/ /\ current.file # 0 /\ toWrite' = Append(toWrite, <<current.file, piece>>)
            /\ pc' = pc /\ files' = files /\ current' = current
      /\ UNCHANGED <<limits, at, counts, items, toFinish, thread>>
  BY <1>a DEF PartData
<1>3. /\ body \in Seq(Part) /\ items \in Seq(Item) /\ files \in Seq(File) /\ seen \in Nat
      /\ current \in Item /\ MaxParts \in Nat /\ MaxData \in Nat /\ limits.size \in Nat /\ n \in Nat /\ n >= 1
      /\ toWrite \in Seq((1..MaxParts) \X Seq(1..MaxData)) /\ Len(toWrite) \in Nat
      /\ DOMAIN toWrite = 1..Len(toWrite) /\ DOMAIN body = 1..m /\ m \in Nat
      /\ DOMAIN items = 1..Len(items) /\ Len(items) \in Nat
  BY <1>1, <1>a, FormTypes, BoundsAssumption, SMTT(30)
<1>4. /\ m \in DOMAIN body /\ body[m] \in Part /\ ~body[m].ended
      /\ body[m].kind \in {"file", "field"}
      /\ body[m].kind = "file" =>
           /\ current = [file |-> Nth(m), data |-> <<>>]
           /\ current.file # 0 /\ current.file = Len(files) /\ current.file \in DOMAIN files
      /\ body[m].kind = "field" => current = [file |-> 0, data |-> body[m].data]
  BY <1>1, <1>2, <1>a, Current
<1>5. piece \in Seq(1..MaxData) /\ Len(piece) = n
  <2>1. seen \in Nat /\ n \in Nat /\ MaxData \in Nat /\ seen + n <= MaxData
    BY <1>2, <1>3
  <2>2. \A i \in 1..n : seen + i \in 1..MaxData
    BY <2>1
  <2>3. QED
    BY <1>3, <1>a, <2>2
<1>6. /\ body[m].data \in Seq(1..MaxData) /\ Len(body[m].data) \in Nat /\ Len(body[m].data) <= seen
      /\ data \in Seq(1..MaxData) /\ Len(data) = Len(body[m].data) + n
      /\ SubSeq(data, Len(body[m].data) + 1, Len(data)) = piece
      /\ \A a \in 0..Len(body[m].data), b \in 0..Len(body[m].data) : a <= b =>
           SubSeq(data, a + 1, b) = SubSeq(body[m].data, a + 1, b)
  <2>1. body[m].data \in Seq(1..MaxData) /\ Len(body[m].data) \in Nat /\ Len(body[m].data) <= seen
    <3>1. body[m].data \in Seq(1..MaxData)
      BY <1>4, Parts
    <3>2. Len(body[m].data) <= seen
      BY <1>1, <1>4 DEF PartsInv
    <3>3. QED
      BY <3>1, <3>2
  <2>2. PICK S, s, t : S = 1..MaxData /\ s = body[m].data /\ t = piece /\ s \in Seq(S) /\ t \in Seq(S)
    BY <1>5, <2>1
  <2>3. s \in Seq(S) /\ t \in Seq(S)
    BY <2>2
  <2>4. /\ s \o t \in Seq(S) /\ Len(s \o t) = Len(s) + Len(t)
        /\ SubSeq(s \o t, Len(s) + 1, Len(s) + Len(t)) = t
        /\ \A a \in 0..Len(s), b \in 0..Len(s) : a <= b =>
             SubSeq(s \o t, a + 1, b) = SubSeq(s, a + 1, b)
    BY <2>3, CutsLonger
  <2>5. data = s \o t
    BY <1>b, <2>2
  <2>6. QED
    BY <1>5, <2>1, <2>2, <2>4, <2>5
<1>7. /\ part \in Part /\ part.kind = body[m].kind /\ part.data = data /\ part.ended = body[m].ended
  <2>1. body[m] \in Part /\ data \in Seq(1..MaxData)
    BY <1>4, <1>6
  <2>2. /\ [body[m] EXCEPT !.data = data] \in Part
        /\ [body[m] EXCEPT !.data = data].kind = body[m].kind
        /\ [body[m] EXCEPT !.data = data].data = data
        /\ [body[m] EXCEPT !.data = data].ended = body[m].ended
    BY <2>1, Parts
  <2>3. QED
    BY <1>c, <2>2
<1>8. body' = [body EXCEPT ![m] = part]
  BY <1>2, <1>b, <1>c
<1>9. /\ body' \in Seq(Part) /\ Len(body') = m /\ DOMAIN body' = DOMAIN body /\ body'[m] = part
      /\ \A p \in DOMAIN body : p # m => body'[p] = body[p]
  BY <1>a, <1>3, <1>4, <1>7, <1>8, ExceptSeq
<1>10. \A p \in DOMAIN body : body'[p].kind = body[p].kind /\ body'[p].ended = body[p].ended
  BY <1>7, <1>9
<1>11. UNCHANGED <<Count("file"), Count("field")>> /\ \A p \in DOMAIN body : Nth(p)' = Nth(p)
  BY <1>a, <1>3, <1>9, <1>10, SameKinds
<1>12. seen' \in 0..MaxData /\ Len(data) \in 0..MaxData /\ Len(data) <= seen'
  <2>1. seen \in Nat /\ n \in Nat /\ MaxData \in Nat /\ seen + n <= MaxData
    BY <1>2, <1>3
  <2>2. seen + n \in 0..MaxData
    BY <2>1
  <2>3. PICK l : l = Len(body[m].data) /\ l \in Nat /\ l <= seen /\ Len(data) = l + n
    BY <1>6
  <2>4. l + n \in 0..MaxData /\ l + n <= seen + n
    BY <1>3, <2>2, <2>3
  <2>5. QED
    BY <1>2, <2>2, <2>3, <2>4
\* A field that gets too long.
<1>13. CASE current.file = 0 /\ toWrite' = toWrite /\ Len(current.data) + n > limits.size
            /\ Reject /\ current' = current
  <2>1. files' \in Seq(File) /\ Len(files') = Len(files) /\ RejectedClosed' /\ ~Live' /\ pc' = "rejected"
    BY <1>3, <1>13, RejectedFiles
  <2>2. TypeOK'
    BY <1>1, <1>2, <1>9, <1>12, <1>13, <2>1 DEF TypeOK
  <2>3. SizeInv'
    BY <1>a, <1>1, <1>2, <1>9, <1>13, <2>1 DEF SizeInv
  <2>4. body[m].kind = "field" /\ Len(current.data) = Len(body[m].data)
    BY <1>4, <1>13
  <2>5. Last(body') = part /\ Len(part.data) > limits.size /\ part.kind = "field"
    BY <1>6, <1>7, <1>9, <1>13, <2>4 DEF Last
  <2>6. RejectedForCause'
    BY <1>2, <2>5 DEF RejectedForCause
  <2>7. QED
    BY <2>1, <2>2, <2>3, <2>6 DEF IInv
\* Otherwise the parser goes on.
<1>14. ASSUME files' = files, pc' = pc
       PROVE  PartsInv' /\ FilesInv' /\ RejectedForCause' /\ RejectedClosed' /\ Reached' = Reached
  <2>1. \A p \in DOMAIN body' : body'[p].kind # "nameless" /\ Len(body'[p].data) <= seen'
    <3>1. TAKE p \in DOMAIN body'
    <3>2. p \in DOMAIN body /\ body'[p].kind # "nameless"
      BY <1>1, <1>9, <1>10 DEF PartsInv
    <3>3. CASE p = m
      BY <1>7, <1>9, <1>12, <3>2, <3>3
    <3>4. CASE p # m
      <4>1. body'[p].data = body[p].data /\ Len(body[p].data) <= seen /\ Len(body[p].data) \in Nat
        <5>1. body[p].data \in Seq(1..MaxData)
          <6>1. body[p] \in Part
            BY <1>3, <3>2
          <6>2. QED
            BY <6>1, Parts
        <5>2. QED
          BY <1>1, <1>9, <3>2, <3>4, <5>1 DEF PartsInv
      <4>2. Len(body[p].data) <= seen'
        BY <1>2, <1>3, <4>1
      <4>3. QED
        BY <3>2, <4>1, <4>2
    <3>5. QED
      BY <3>3, <3>4
  <2>2. \A p \in 1..(Len(body') - 1) : body'[p].ended
    <3>1. \A p \in 1..(m - 1) : p \in DOMAIN body
      BY <1>3
    <3>2. \A p \in 1..(m - 1) : body[p].ended
      BY <1>1, <1>a DEF PartsInv
    <3>3. \A p \in 1..(m - 1) : body'[p].ended
      BY <1>10, <3>1, <3>2
    <3>4. QED
      BY <1>9, <3>3
  <2>3. \A f \in DOMAIN files' : \E p \in DOMAIN body' : body'[p].kind = "file" /\ Nth(p)' = f
    BY <1>1, <1>9, <1>10, <1>11, <1>14 DEF PartsInv
  <2>4. PartsInv'
    BY <1>1, <1>2, <1>11, <1>14, <2>1, <2>2, <2>3 DEF PartsInv
  <2>5. FilesInv' /\ RejectedForCause' /\ RejectedClosed' /\ Reached' = Reached
    BY <1>1, <1>2, <1>14 DEF FilesInv, RejectedForCause, RejectedClosed, Reached
  <2>6. QED
    BY <2>4, <2>5
<1>15. ASSUME current' = IF body[m].kind = "file" THEN current ELSE [file |-> 0, data |-> data]
       PROVE  ItemsInv'
  <2>1. InPart' = InPart
    BY <1>a, <1>2, <1>3, <1>7, <1>9 DEF InPart, Last
  <2>2. Len(items) = m - 1
    BY <1>a, <1>1, <1>2 DEF ItemsInv
  <2>3. current' = ItemOf(m)'
    <3>1. body'[m].kind = body[m].kind /\ body'[m].data = data /\ Nth(m)' = Nth(m)
      BY <1>4, <1>7, <1>9, <1>11
    <3>2. QED
      BY <1>4, <1>15, <3>1 DEF ItemOf
  <2>4. \A i \in DOMAIN items : items[i] = ItemOf(i)'
    <3>1. TAKE i \in DOMAIN items
    <3>2. i \in DOMAIN body /\ i # m
      BY <1>3, <2>2
    <3>3. QED
      BY <1>1, <1>9, <1>11, <3>2 DEF ItemsInv, ItemOf
  <2>5. QED
    BY <1>2, <1>9, <2>1, <2>2, <2>3, <2>4 DEF ItemsInv
\* A part with data of its own, other than this one.
<1>16. ASSUME NEW p \in DOMAIN body, p # m, body[p].kind = "file"
       PROVE  current.file # Nth(p)
  <2>1. p < m
    BY <1>3, <1>16
  <2>2. Nth(p) \in 1..Count("file") /\ Count("file") \in Nat /\ Nth(p) \in Nat
    BY <1>3, <1>16, Numbers
  <2>3. CASE body[m].kind = "file"
    <3>1. current.file = Nth(m)
      <4>1. current = [file |-> Nth(m), data |-> <<>>]
        BY <1>4, <2>3
      <4>2. QED
        BY <4>1
    <3>2. Nth(p) < Nth(m)
      BY <1>3, <1>4, <2>1, <2>3, Numbers
    <3>3. QED
      BY <2>2, <3>1, <3>2
  <2>4. CASE body[m].kind = "field"
    BY <1>4, <2>2, <2>4
  <2>5. QED
    BY <1>4, <2>3, <2>4
<1>17. CASE current.file = 0 /\ toWrite' = toWrite /\ ~(Len(current.data) + n > limits.size)
            /\ current' = [current EXCEPT !.data = @ \o piece] /\ pc' = pc /\ files' = files
  <2>1. body[m].kind = "field" /\ current = [file |-> 0, data |-> body[m].data]
    BY <1>4, <1>17
  <2>2. current' = [file |-> 0, data |-> data] /\ current' \in Item /\ Len(current'.data) <= limits.size
    <3>1. current' = [file |-> 0, data |-> data] /\ Len(current.data) = Len(body[m].data)
      <4>1. current' = [current EXCEPT !.data = current.data \o piece]
        BY <1>17
      <4>2. QED
        BY <1>b, <2>1, <4>1
    <3>2. 0 \in 0..MaxParts
      BY <1>3
    <3>3. QED
      <4>1. current' \in Item
        BY <1>6, <3>1, <3>2, Items
      <4>2. ~(Len(current.data) + n > limits.size) /\ Len(current'.data) = Len(body[m].data) + n
        <5>1. current'.data = data /\ Len(data) = Len(body[m].data) + n
          BY <1>6, <3>1
        <5>2. QED
          BY <1>17, <5>1
      <4>3. PICK l : l = Len(body[m].data) /\ l \in Nat
        BY <1>6
      <4>4. l + n <= limits.size
        BY <1>3, <3>1, <4>2, <4>3
      <4>5. QED
        BY <3>1, <4>1, <4>2, <4>3, <4>4
  <2>3. TypeOK'
    BY <1>1, <1>2, <1>9, <1>12, <1>17, <2>2 DEF TypeOK, Item
  <2>4. SizeInv'
    BY <1>a, <1>1, <1>2, <1>9, <1>17, <2>2 DEF SizeInv
  <2>5. PartsInv' /\ FilesInv' /\ RejectedForCause' /\ RejectedClosed' /\ Reached' = Reached
    BY <1>14, <1>17
  <2>6. ItemsInv'
    BY <1>15, <2>1, <2>2
  <2>7. ListsInv'
    BY <1>1, <1>2, <1>3, <1>17 DEF ListsInv, Succeeded
  <2>8. UploadInv'
    <3>1. SUFFICES ASSUME NEW p \in DOMAIN body, body[p].kind = "file"
                   PROVE  PlaceInv(p, Nth(p))' /\ DataInv(p, Nth(p))'
      BY <1>9, <1>10 DEF UploadInv
    <3>2. PICK g : g = Nth(p) /\ Nth(p)' = g /\ PlaceInv(p, g) /\ DataInv(p, g)
      BY <1>1, <1>11, <3>1 DEF UploadInv
    <3>3. body'[p] = body[p]
      BY <1>9, <2>1, <3>1
    <3>4. QED
      <4>1. PlaceInv(p, Nth(p))'
        BY <1>2, <1>17, <3>2, <3>3 DEF PlaceInv, Finishes, Writes
      <4>2. DataInv(p, Nth(p))'
        <5>1. PICK length \in [1..(Len(toWrite) + 1) -> 0..MaxData] : Lengthens(p, g, length)
          BY <3>2 DEF DataInv
        <5>2. Lengthens(p, Nth(p), length)'
          BY <1>17, <2>5, <3>2, <3>3, <5>1 DEF Lengthens
        <5>3. QED
          BY <1>17, <5>2 DEF DataInv
      <4>3. QED
        BY <4>1, <4>2
  <2>9. QED
    BY <2>3, <2>4, <2>5, <2>6, <2>7, <2>8 DEF IInv
<1>18. CASE current.file # 0 /\ toWrite' = Append(toWrite, <<current.file, piece>>)
            /\ pc' = pc /\ files' = files /\ current' = current
  <2> DEFINE k == Len(toWrite)
  <2>1. /\ body[m].kind = "file" /\ current.file = Nth(m) /\ current.file \in DOMAIN files
        /\ current.file \in 1..MaxParts
    <3>1. body[m].kind = "file" /\ current.file \in DOMAIN files
      BY <1>4, <1>18
    <3>2. current.file = Nth(m)
      BY <1>4, <3>1
    <3>3. current.file \in 0..MaxParts
      BY <1>3, Items
    <3>4. QED
      BY <1>18, <3>1, <3>2, <3>3
  <2>2. /\ toWrite' \in Seq((1..MaxParts) \X Seq(1..MaxData)) /\ Len(toWrite') = k + 1
        /\ \A i \in 1..k : toWrite'[i] = toWrite[i]
        /\ toWrite'[k + 1][1] = current.file /\ toWrite'[k + 1][2] = piece
        /\ DOMAIN toWrite' = 1..(k + 1)
    <3>1. <<current.file, piece>> \in (1..MaxParts) \X Seq(1..MaxData)
      BY <1>5, <2>1
    <3>2. /\ toWrite' \in Seq((1..MaxParts) \X Seq(1..MaxData)) /\ Len(toWrite') = k + 1
          /\ \A i \in 1..k : toWrite'[i] = toWrite[i]
          /\ toWrite'[k + 1] = <<current.file, piece>>
      BY <1>3, <1>18, <3>1, AppendProperties
    <3>3. DOMAIN toWrite' = 1..(k + 1)
      BY <3>2
    <3>4. QED
      BY <3>2, <3>3
  <2>3. k \in Nat /\ DOMAIN toWrite = 1..k
    BY <1>3
  <2> HIDE DEF k
  <2>4. TypeOK'
    BY <1>1, <1>2, <1>9, <1>12, <1>18, <2>2 DEF TypeOK
  <2>5. SizeInv'
    BY <1>a, <1>1, <1>2, <1>9, <1>18 DEF SizeInv
  <2>6. PartsInv' /\ FilesInv' /\ RejectedForCause' /\ RejectedClosed' /\ Reached' = Reached
    BY <1>14, <1>18
  <2>7. ItemsInv'
    BY <1>15, <1>18, <2>1
  <2>8. ListsInv'
    <3>1. Len(toWrite') <= seen'
      BY <1>1, <1>2, <1>3, <2>2, <2>3 DEF ListsInv, k
    <3>2. \A i \in DOMAIN toWrite' : toWrite'[i][1] \in DOMAIN files
      <4>1. TAKE i \in DOMAIN toWrite'
      <4>2. i = k + 1 \/ i \in 1..k
        BY <2>2, <2>3
      <4>3. QED
        BY <1>1, <2>1, <2>2, <2>3, <4>2 DEF ListsInv
    <3>3. QED
      BY <1>1, <1>2, <1>18, <3>1, <3>2 DEF ListsInv, Succeeded
  <2>9. UploadInv'
    <3>1. SUFFICES ASSUME NEW p \in DOMAIN body, body[p].kind = "file"
                   PROVE  PlaceInv(p, Nth(p))' /\ DataInv(p, Nth(p))'
      BY <1>9, <1>10 DEF UploadInv
    <3>2. PICK g : g = Nth(p) /\ Nth(p)' = g /\ PlaceInv(p, g) /\ DataInv(p, g)
      BY <1>1, <1>11, <3>1 DEF UploadInv
    <3>3. PICK length \in [1..(k + 1) -> 0..MaxData] : Lengthens(p, g, length)
      BY <3>2 DEF DataInv, k
    <3>4. Reached = 1 /\ Reached' = 1
      BY <1>2, <2>6 DEF Reached
    <3>5. /\ length[k + 1] = Len(body[p].data)
          /\ \A i \in 1..k :
               IF toWrite[i][1] = g
               THEN /\ length[i] <= length[i + 1] /\ length[i + 1] <= Len(body[p].data)
                    /\ toWrite[i][2] = SubSeq(body[p].data, length[i] + 1, length[i + 1])
               ELSE length[i + 1] = length[i]
          /\ length[1] <= Len(body[p].data) /\ files[g].data = SubSeq(body[p].data, 1, length[1])
      BY <2>3, <3>3, <3>4 DEF Lengthens, k
    <3>6. ASSUME NEW d \in 0..MaxData
          PROVE  \E longer \in [1..(k + 2) -> 0..MaxData] :
                   longer[k + 2] = d /\ \A i \in 1..(k + 1) : longer[i] = length[i]
      <4> DEFINE longer == [i \in 1..(k + 2) |-> IF i = k + 2 THEN d ELSE length[i]]
      <4>1. /\ longer \in [1..(k + 2) -> 0..MaxData] /\ longer[k + 2] = d
            /\ \A i \in 1..(k + 1) : longer[i] = length[i]
        BY <2>3, <3>3, <3>6
      <4>2. QED
        BY <4>1
    <3>7. CASE p = m
      <4>1. g = current.file /\ body'[p].data = data /\ ~body'[p].ended /\ ~body[p].ended
        BY <1>4, <1>7, <1>9, <2>1, <3>2, <3>7
      <4>2. PlaceInv(p, Nth(p))'
        BY <1>2, <1>18, <3>2, <4>1 DEF PlaceInv, Finishes
      <4>3. PICK longer \in [1..(k + 2) -> 0..MaxData] :
              longer[k + 2] = Len(data) /\ \A i \in 1..(k + 1) : longer[i] = length[i]
        BY <1>12, <3>6
      <4>4. \A i \in 1..k : i \in 1..(k + 1) /\ i + 1 \in 1..(k + 1) /\ length[i] \in Nat /\ length[i + 1] \in Nat
        BY <2>3, <3>3
      <4>5. ASSUME NEW i \in 1..k, toWrite[i][1] = g
            PROVE  /\ length[i] <= length[i + 1] /\ length[i + 1] <= Len(data)
                   /\ toWrite[i][2] = SubSeq(data, length[i] + 1, length[i + 1])
        <5>1. /\ length[i] <= length[i + 1] /\ length[i + 1] <= Len(body[m].data)
              /\ toWrite[i][2] = SubSeq(body[m].data, length[i] + 1, length[i + 1])
          BY <3>5, <3>7, <4>5
        <5>2. length[i] \in 0..Len(body[m].data) /\ length[i + 1] \in 0..Len(body[m].data)
          BY <1>6, <4>4, <5>1
        <5>3. SubSeq(data, length[i] + 1, length[i + 1]) = SubSeq(body[m].data, length[i] + 1, length[i + 1])
          BY <1>6, <5>1, <5>2
        <5>4. length[i + 1] <= Len(data)
          <6>1. PICK l : l = Len(body[m].data) /\ l \in Nat /\ Len(data) = l + n
            BY <1>6
          <6>2. length[i + 1] \in 0..l
            BY <5>2, <6>1
          <6>3. QED
            BY <1>3, <6>1, <6>2
        <5>5. QED
          BY <5>1, <5>3, <5>4
      <4>6. ASSUME NEW i \in 1..(k + 1)
            PROVE  IF toWrite'[i][1] = g
                   THEN /\ longer[i] <= longer[i + 1] /\ longer[i + 1] <= Len(data)
                        /\ toWrite'[i][2] = SubSeq(data, longer[i] + 1, longer[i + 1])
                   ELSE longer[i + 1] = longer[i]
        <5>1. CASE i \in 1..k
          <6>1. longer[i] = length[i] /\ longer[i + 1] = length[i + 1] /\ toWrite'[i] = toWrite[i]
            BY <2>2, <4>3, <4>4, <5>1
          <6>2. QED
            BY <3>5, <4>5, <5>1, <6>1
        <5>2. CASE i = k + 1
          <6>1. longer[i] = Len(body[m].data) /\ longer[i + 1] = Len(data)
            <7>1. i + 1 = k + 2 /\ k + 1 \in 1..(k + 1)
              BY <2>3, <5>2
            <7>2. QED
              BY <3>5, <3>7, <4>3, <5>2, <7>1
          <6>2. toWrite'[i][2] = SubSeq(data, longer[i] + 1, longer[i + 1])
            BY <1>6, <2>2, <5>2, <6>1
          <6>3. Len(body[m].data) <= Len(data) /\ Len(data) <= Len(data)
            BY <1>3, <1>6
          <6>4. longer[i] <= longer[i + 1] /\ longer[i + 1] <= Len(data) /\ toWrite'[i][1] = g
            BY <2>2, <4>1, <5>2, <6>1, <6>3
          <6>5. QED
            BY <6>2, <6>4
        <5>3. QED
          BY <2>3, <5>1, <5>2
      <4>7. longer[1] <= Len(data) /\ files[g].data = SubSeq(data, 1, longer[1])
        <5>1. longer[1] = length[1] /\ length[1] \in Nat /\ 1 \in 1..(k + 1)
          BY <2>3, <3>3, <4>3
        <5>2. length[1] \in 0..Len(body[m].data) /\ 0 \in 0..Len(body[m].data) /\ 0 <= length[1]
          BY <1>6, <3>5, <3>7, <5>1
        <5>3. SubSeq(data, 0 + 1, length[1]) = SubSeq(body[m].data, 0 + 1, length[1])
          BY <1>6, <5>2
        <5>4. length[1] <= Len(data)
          <6>1. PICK l : l = Len(body[m].data) /\ l \in Nat /\ Len(data) = l + n
            BY <1>6
          <6>2. length[1] \in 0..l
            BY <5>2, <6>1
          <6>3. QED
            BY <1>3, <6>1, <6>2
        <5>5. QED
          BY <3>5, <3>7, <5>1, <5>3, <5>4
      <4>8. Len(toWrite') + 1 = k + 2
        BY <2>2, <2>3
      <4>9. Lengthens(p, Nth(p), longer)'
        BY <1>18, <2>2, <3>2, <3>4, <4>1, <4>3, <4>6, <4>7, <4>8 DEF Lengthens
      <4>10. DataInv(p, Nth(p))'
        BY <4>3, <4>8, <4>9 DEF DataInv
      <4>11. QED
        BY <4>2, <4>10
    <3>8. CASE p # m
      <4>1. g # current.file /\ body'[p] = body[p]
        BY <1>9, <1>16, <3>1, <3>2, <3>8
      <4>2. Writes(g)' => Writes(g)
        <5>1. ASSUME NEW i \in DOMAIN toWrite', toWrite'[i][1] = g PROVE i \in 1..k /\ toWrite[i][1] = g
          <6>1. i = k + 1 \/ i \in 1..k
            BY <2>2, <2>3
          <6>2. QED
            BY <2>2, <4>1, <5>1, <6>1
        <5>2. Writes(g)' => \E i \in DOMAIN toWrite' : toWrite'[i][1] = g
          BY DEF Writes
        <5>3. QED
          BY <2>3, <5>1, <5>2 DEF Writes
      <4>3. PlaceInv(p, Nth(p))'
        BY <1>2, <1>18, <3>2, <4>1, <4>2 DEF PlaceInv, Finishes
      <4>4. PICK longer \in [1..(k + 2) -> 0..MaxData] :
              longer[k + 2] = length[k + 1] /\ \A i \in 1..(k + 1) : longer[i] = length[i]
        <5>1. length[k + 1] \in 0..MaxData
          BY <2>3, <3>3
        <5>2. QED
          BY <3>6, <5>1
      <4>5. ASSUME NEW i \in 1..(k + 1)
            PROVE  IF toWrite'[i][1] = g
                   THEN /\ longer[i] <= longer[i + 1] /\ longer[i + 1] <= Len(body[p].data)
                        /\ toWrite'[i][2] = SubSeq(body[p].data, longer[i] + 1, longer[i + 1])
                   ELSE longer[i + 1] = longer[i]
        <5>1. CASE i \in 1..k
          <6>1. i \in 1..(k + 1) /\ i + 1 \in 1..(k + 1)
            BY <2>3, <5>1
          <6>2. longer[i] = length[i] /\ longer[i + 1] = length[i + 1] /\ toWrite'[i] = toWrite[i]
            BY <2>2, <4>4, <5>1, <6>1
          <6>3. QED
            BY <3>5, <5>1, <6>2
        <5>2. CASE i = k + 1
          <6>1. longer[i] = length[k + 1] /\ longer[i + 1] = length[k + 1]
            BY <2>3, <4>4, <5>2
          <6>2. toWrite'[i][1] # g
            BY <2>2, <4>1, <5>2
          <6>3. QED
            BY <6>1, <6>2
        <5>3. QED
          BY <2>3, <5>1, <5>2
      <4>6. longer[1] = length[1] /\ Len(toWrite') + 1 = k + 2 /\ longer[k + 2] = Len(body[p].data)
        BY <2>2, <2>3, <3>5, <4>4
      <4>7. longer[1] <= Len(body[p].data) /\ files[g].data = SubSeq(body[p].data, 1, longer[1])
        BY <3>5, <4>6
      <4>8. body'[p].data = body[p].data /\ files' = files
        BY <1>18, <4>1
      <4>9. Lengthens(p, Nth(p), longer)'
        BY <2>2, <3>2, <3>4, <4>5, <4>6, <4>7, <4>8 DEF Lengthens
      <4>10. DataInv(p, Nth(p))'
        BY <4>4, <4>6, <4>9 DEF DataInv
      <4>11. QED
        BY <4>3, <4>10
    <3>9. QED
      BY <3>7, <3>8
  <2>10. QED
    BY <2>4, <2>5, <2>6, <2>7, <2>8, <2>9 DEF IInv
<1>19. QED
  BY <1>2, <1>13, <1>17, <1>18

\* A part begins, or the form is rejected because of it.
LEMMA PartBeginStep ==
  ASSUME IInv, NEW kind \in Kinds, PartBegin(kind)
  PROVE  IInv'
<1>1. TypeOK /\ SizeInv /\ PartsInv /\ ItemsInv /\ ListsInv /\ FilesInv /\ UploadInv /\ Live
  BY LiveSteps DEF Live, PartBegin
<1>a. PICK m, part : m = Len(body) /\ part = [kind |-> kind, data |-> <<>>, ended |-> FALSE]
  OBVIOUS
<1>2. /\ pc = "parsing" /\ ~InPart /\ m < MaxParts /\ body' = Append(body, part)
      /\ UNCHANGED <<limits, at, seen, items, toWrite, toFinish, thread>>
  BY <1>a DEF PartBegin
<1>3. \/ kind = "file" /\ BeginFile
      \/ kind = "field" /\ BeginField
      \/ kind = "nameless" /\ Reject /\ current' = [file |-> 0, data |-> <<>>] /\ counts' = counts
  BY DEF PartBegin
<1>4. /\ body \in Seq(Part) /\ items \in Seq(Item) /\ files \in Seq(File) /\ seen \in Nat
      /\ MaxParts \in Nat /\ MaxData \in Nat
      /\ limits.size \in Nat /\ limits.files \in Nat /\ limits.fields \in Nat
      /\ DOMAIN body = 1..m /\ m \in Nat /\ DOMAIN files = 1..Len(files) /\ Len(files) \in Nat
      /\ DOMAIN items = 1..Len(items) /\ Len(items) \in Nat
      /\ counts \in [files : 0..MaxParts, fields : 0..MaxParts]
  BY <1>1, <1>a, FormTypes, SMTT(30)
<1>5. /\ part \in Part /\ part.kind = kind /\ part.data = <<>> /\ Len(part.data) = 0 /\ ~part.ended
  <2>1. <<>> \in Seq(1..MaxData) /\ FALSE \in BOOLEAN
    OBVIOUS
  <2>2. part \in Part
    BY <1>a, <2>1, Parts
  <2>3. QED
    BY <1>a, <2>2
<1>6. /\ body' \in Seq(Part) /\ Len(body') = m + 1 /\ body'[m + 1] = part
      /\ \A p \in DOMAIN body : body'[p] = body[p] /\ Nth(p)' = Nth(p)
      /\ Count("file")' = Count("file") + (IF kind = "file" THEN 1 ELSE 0)
      /\ Count("field")' = Count("field") + (IF kind = "field" THEN 1 ELSE 0)
      /\ kind = "file" => Nth(Len(body))' = Count("file") + 1
  BY <1>a, <1>2, <1>4, <1>5, NewKind
<1>7. Last(body') = part /\ InPart' /\ DOMAIN body' = 1..(m + 1)
  <2>1. body' # <<>> /\ DOMAIN body' = 1..(m + 1)
    BY <1>4, <1>6
  <2>2. QED
    BY <1>5, <1>6, <2>1 DEF InPart, Last
<1>8. \A p \in DOMAIN body : body[p].ended
  <2>1. TAKE p \in DOMAIN body
  <2>2. CASE p = m
    <3>1. body # <<>>
      BY <1>4
    <3>2. QED
      BY <1>2, <1>a, <2>2, <3>1 DEF InPart, Last
  <2>3. CASE p # m
    <3>1. p \in 1..(m - 1)
      BY <1>4, <2>3
    <3>2. QED
      BY <1>1, <1>a, <3>1 DEF PartsInv
  <2>4. QED
    BY <2>2, <2>3
<1>9. /\ Count("file") = counts.files /\ Count("file") = Len(files) /\ Count("file") <= m
      /\ Count("field") = counts.fields /\ Count("field") <= m /\ counts.fields <= limits.fields
      /\ Len(items) = m
  <2>1. Count("file") = counts.files /\ Count("field") = counts.fields /\ counts.files = Len(files)
        /\ counts.fields <= limits.fields
    BY <1>1 DEF PartsInv
  <2>2. Count("file") <= m /\ Count("field") <= m
    BY <1>4, <1>a, Numbers
  <2>3. Len(items) = m
    BY <1>1, <1>2, <1>a DEF ItemsInv
  <2>4. QED
    BY <2>1, <2>2, <2>3
<1>10. /\ counts.files \in Nat /\ counts.fields \in Nat
       /\ counts.files + 1 \in 0..MaxParts /\ counts.fields + 1 \in 0..MaxParts
       /\ Len(files) + 1 \in 0..MaxParts
  <2>1. counts.files \in Nat /\ counts.fields \in Nat
    BY <1>4
  <2>2. counts.files <= m /\ counts.fields <= m
    BY <1>9
  <2>3. counts.files + 1 \in 0..MaxParts /\ counts.fields + 1 \in 0..MaxParts
    <3>1. m \in Nat /\ MaxParts \in Nat /\ m < MaxParts
      BY <1>2, <1>4
    <3>2. QED
      BY <2>1, <2>2, <3>1
  <2>4. QED
    BY <1>9, <2>1, <2>3
<1>11. /\ [counts EXCEPT !.files = counts.files + 1] \in [files : 0..MaxParts, fields : 0..MaxParts]
       /\ [counts EXCEPT !.files = counts.files + 1].files = counts.files + 1
       /\ [counts EXCEPT !.files = counts.files + 1].fields = counts.fields
       /\ [counts EXCEPT !.fields = counts.fields + 1] \in [files : 0..MaxParts, fields : 0..MaxParts]
       /\ [counts EXCEPT !.fields = counts.fields + 1].fields = counts.fields + 1
       /\ [counts EXCEPT !.fields = counts.fields + 1].files = counts.files
  BY <1>4, <1>10
<1>12. ASSUME NEW f \in 0..MaxParts
       PROVE  [file |-> f, data |-> <<>>] \in Item /\ Len([file |-> f, data |-> <<>>].data) = 0
  <2>1. <<>> \in Seq(1..MaxData)
    OBVIOUS
  <2>2. QED
    BY <1>12, <2>1, Items
<1>13. Len(files) <= limits.files /\ Len(body') <= MaxParts
  BY <1>1, <1>2, <1>4, <1>6 DEF SizeInv
\* The form is rejected.
<1>14. ASSUME Reject, current' = [file |-> 0, data |-> <<>>],
              counts' \in [files : 0..MaxParts, fields : 0..MaxParts],
              \/ kind = "nameless"
              \/ kind = "file" /\ Count("file")' = limits.files + 1
              \/ kind = "field" /\ Count("field")' = limits.fields + 1
       PROVE  IInv'
  <2>1. files' \in Seq(File) /\ Len(files') = Len(files) /\ RejectedClosed' /\ ~Live' /\ pc' = "rejected"
    BY <1>4, <1>14, RejectedFiles
  <2>2. current' \in Item /\ Len(current'.data) = 0
    <3>1. 0 \in 0..MaxParts
      BY <1>4
    <3>2. QED
      BY <1>12, <1>14, <3>1
  <2>3. TypeOK'
    BY <1>1, <1>2, <1>6, <1>14, <2>1, <2>2 DEF TypeOK, Item
  <2>4. SizeInv'
    BY <1>1, <1>2, <1>4, <1>13, <2>1, <2>2 DEF SizeInv
  <2>5. RejectedForCause'
    BY <1>2, <1>5, <1>7, <1>14 DEF RejectedForCause
  <2>6. QED
    BY <2>1, <2>3, <2>4, <2>5 DEF IInv
\* The part is begun, and what was there stays as it was.
<1>15. ASSUME pc' = pc, current' = ItemOf(Len(body))', DOMAIN files \subseteq DOMAIN files',
              \A f \in DOMAIN files : files'[f] = files[f]
       PROVE  /\ ItemsInv' /\ ListsInv' /\ RejectedForCause' /\ RejectedClosed'
              /\ \A p \in DOMAIN body' : body'[p].kind # "nameless" \/ kind = "nameless"
              /\ \A p \in DOMAIN body' : Len(body'[p].data) <= seen
              /\ \A p \in 1..m : body'[p].ended
              /\ \A p \in DOMAIN body : body[p].kind = "file" =>
                   PlaceInv(p, Nth(p))' /\ DataInv(p, Nth(p))'
  <2>1. \A i \in DOMAIN items : i \in DOMAIN body /\ items[i] = ItemOf(i)'
    BY <1>1, <1>4, <1>6, <1>9 DEF ItemsInv, ItemOf
  <2>2. ItemsInv'
    BY <1>2, <1>4, <1>6, <1>7, <1>9, <1>15, <2>1 DEF ItemsInv
  <2>3. ListsInv'
    BY <1>1, <1>2, <1>15 DEF ListsInv, Succeeded
  <2>4. RejectedForCause' /\ RejectedClosed'
    BY <1>2, <1>15 DEF RejectedForCause, RejectedClosed
  <2>5. \A p \in DOMAIN body' : p \in DOMAIN body \/ p = m + 1
    BY <1>4, <1>7
  <2>6. \A p \in DOMAIN body' : body'[p].kind # "nameless" \/ kind = "nameless"
    BY <1>1, <1>5, <1>6, <2>5 DEF PartsInv
  <2>7. \A p \in DOMAIN body' : Len(body'[p].data) <= seen
    BY <1>1, <1>4, <1>5, <1>6, <2>5, SMTT(30) DEF PartsInv
  <2>8. \A p \in 1..m : body'[p].ended
    BY <1>4, <1>6, <1>8
  <2>9. ASSUME NEW p \in DOMAIN body, body[p].kind = "file"
        PROVE  PlaceInv(p, Nth(p))' /\ DataInv(p, Nth(p))'
    <3>1. PICK g : g = Nth(p) /\ Nth(p)' = g /\ PlaceInv(p, g) /\ DataInv(p, g)
      BY <1>1, <1>6, <2>9 DEF UploadInv
    <3>2. g \in DOMAIN files
      <4>1. Nth(p) \in 1..Count("file")
        BY <1>4, <2>9, Numbers
      <4>2. QED
        BY <1>4, <1>9, <3>1, <4>1
    <3>3. files'[g] = files[g] /\ body'[p] = body[p] /\ Reached' = Reached
      BY <1>2, <1>6, <1>15, <3>2 DEF Reached
    <3>4. PlaceInv(p, Nth(p))'
      BY <1>2, <1>15, <3>1, <3>3 DEF PlaceInv, Finishes, Writes
    <3>5. PICK length \in [1..(Len(toWrite) + 1) -> 0..MaxData] : Lengthens(p, g, length)
      BY <3>1 DEF DataInv
    <3>6. Lengthens(p, Nth(p), length)'
      BY <1>2, <3>1, <3>3, <3>5 DEF Lengthens
    <3>7. DataInv(p, Nth(p))'
      BY <1>2, <3>6 DEF DataInv
    <3>8. QED
      BY <3>4, <3>7
  <2>10. QED
    BY <2>2, <2>3, <2>4, <2>6, <2>7, <2>8, <2>9
<1>16. CASE kind = "nameless" /\ Reject /\ current' = [file |-> 0, data |-> <<>>] /\ counts' = counts
  BY <1>4, <1>14, <1>16
<1>17. CASE kind = "field" /\ BeginField
  <2>1. /\ counts' = [counts EXCEPT !.fields = counts.fields + 1] /\ current' = [file |-> 0, data |-> <<>>]
        /\ \/ counts'.fields > limits.fields /\ Reject
           \/ ~(counts'.fields > limits.fields) /\ pc' = pc /\ files' = files
    BY <1>17 DEF BeginField
  <2>2. /\ counts' \in [files : 0..MaxParts, fields : 0..MaxParts]
        /\ counts'.fields = counts.fields + 1 /\ counts'.files = counts.files
    BY <1>11, <2>1
  <2>3. Count("field")' = counts.fields + 1 /\ Count("file")' = counts.files
    BY <1>6, <1>9, <1>10, <1>17
  <2>4. CASE counts'.fields > limits.fields /\ Reject
    <3>1. counts.fields + 1 = limits.fields + 1
      BY <1>4, <1>9, <1>10, <2>2, <2>4
    <3>2. QED
      BY <1>14, <1>17, <2>1, <2>2, <2>3, <2>4, <3>1
  <2>5. CASE ~(counts'.fields > limits.fields) /\ pc' = pc /\ files' = files
    <3>1. counts'.fields <= limits.fields
      BY <1>4, <1>10, <2>2, <2>5
    <3>2. current' = ItemOf(Len(body))'
      BY <1>5, <1>6, <1>17, <2>1 DEF ItemOf
    <3>3. /\ ItemsInv' /\ ListsInv' /\ RejectedForCause' /\ RejectedClosed'
          /\ \A p \in DOMAIN body' : body'[p].kind # "nameless" \/ kind = "nameless"
          /\ \A p \in DOMAIN body' : Len(body'[p].data) <= seen
          /\ \A p \in 1..m : body'[p].ended
          /\ \A p \in DOMAIN body : body[p].kind = "file" =>
               PlaceInv(p, Nth(p))' /\ DataInv(p, Nth(p))'
      BY <1>15, <2>5, <3>2
    <3>4. current' \in Item /\ Len(current'.data) = 0
      <4>1. 0 \in 0..MaxParts
        BY <1>4
      <4>2. QED
        BY <1>12, <2>1, <4>1
    <3>5. TypeOK'
      BY <1>1, <1>2, <1>6, <2>2, <2>5, <3>4 DEF TypeOK, Item
    <3>6. SizeInv'
      BY <1>1, <1>2, <1>4, <1>13, <2>5, <3>4 DEF SizeInv
    <3>7. PartsInv'
      <4>1. \A f \in DOMAIN files' : \E p \in DOMAIN body' : body'[p].kind = "file" /\ Nth(p)' = f
        <5>1. TAKE f \in DOMAIN files'
        <5>2. PICK p \in DOMAIN body : body[p].kind = "file" /\ Nth(p) = f
          BY <1>1, <2>5 DEF PartsInv
        <5>3. p \in DOMAIN body' /\ body'[p].kind = "file" /\ Nth(p)' = f
          BY <1>4, <1>6, <1>7, <5>2
        <5>4. QED
          BY <5>3
      <4>2. Len(body') - 1 = m
        BY <1>4, <1>6
      <4>3. counts'.files = Count("file")' /\ counts'.files = Len(files') /\ counts'.fields = Count("field")'
        BY <1>9, <2>2, <2>3, <2>5
      <4>4. QED
        BY <1>2, <1>17, <3>1, <3>3, <4>1, <4>2, <4>3 DEF PartsInv
    <3>8. FilesInv'
      BY <1>1, <1>2, <2>5 DEF FilesInv
    <3>9. UploadInv'
      <4>1. ASSUME NEW p \in DOMAIN body', body'[p].kind = "file" PROVE p \in DOMAIN body /\ body[p].kind = "file"
        <5>1. p # m + 1
          BY <1>5, <1>6, <1>17, <4>1
        <5>2. QED
          BY <1>4, <1>6, <1>7, <4>1, <5>1
      <4>2. QED
        BY <3>3, <4>1 DEF UploadInv
    <3>10. QED
      BY <3>3, <3>5, <3>6, <3>7, <3>8, <3>9 DEF IInv
  <2>6. QED
    BY <2>1, <2>4, <2>5
<1>18. CASE kind = "file" /\ BeginFile
  <2>a. PICK file, k : /\ file = [data |-> <<>>, pos |-> 0, size |-> 0, rolled |-> FALSE, open |-> TRUE]
                       /\ k = Len(files)
    OBVIOUS
  <2>1. /\ counts' = [counts EXCEPT !.files = counts.files + 1]
        /\ \/ counts'.files > limits.files /\ Reject /\ current' = [file |-> 0, data |-> <<>>]
           \/ /\ ~(counts'.files > limits.files) /\ pc' = pc /\ files' = Append(files, file)
              /\ current' = [file |-> k + 1, data |-> <<>>]
    BY <1>18, <2>a DEF BeginFile
  <2>2. /\ counts' \in [files : 0..MaxParts, fields : 0..MaxParts]
        /\ counts'.files = counts.files + 1 /\ counts'.fields = counts.fields
    BY <1>11, <2>1
  <2>3. Count("file")' = counts.files + 1 /\ Count("field")' = counts.fields
    BY <1>6, <1>9, <1>10, <1>18
  <2>4. CASE counts'.files > limits.files /\ Reject /\ current' = [file |-> 0, data |-> <<>>]
    <3>1. counts.files + 1 = limits.files + 1
      BY <1>4, <1>9, <1>10, <1>13, <2>2, <2>4
    <3>2. QED
      BY <1>14, <1>18, <2>2, <2>3, <2>4, <3>1
  <2>5. CASE /\ ~(counts'.files > limits.files) /\ pc' = pc /\ files' = Append(files, file)
             /\ current' = [file |-> k + 1, data |-> <<>>]
    <3>a. /\ file \in File /\ file.data = <<>> /\ Len(file.data) = 0 /\ file.pos = 0 /\ file.size = 0
          /\ file.open
      <4>1. 0 \in 0..MaxData /\ <<>> \in Seq(1..MaxData)
        BY <1>4
      <4>2. QED
        BY <2>a, <4>1 DEF File
    <3>b. /\ files' \in Seq(File) /\ Len(files') = k + 1 /\ files'[k + 1] = file
          /\ \A f \in 1..k : files'[f] = files[f]
          /\ DOMAIN files = 1..k /\ DOMAIN files' = 1..(k + 1) /\ k \in Nat
      <4>1. /\ files' \in Seq(File) /\ Len(files') = k + 1 /\ files'[k + 1] = file
            /\ \A f \in 1..k : files'[f] = files[f]
        BY <1>4, <2>5, <2>a, <3>a, AppendProperties
      <4>2. DOMAIN files = 1..k /\ k \in Nat
        BY <1>4, <2>a
      <4>3. DOMAIN files' = 1..(k + 1)
        BY <4>1
      <4>4. QED
        BY <4>1, <4>2, <4>3
    <3>c. counts.files = k /\ k + 1 <= limits.files /\ Count("file") = k /\ Nth(Len(body))' = k + 1
      <4>1. counts.files = k /\ Count("file") = k /\ Nth(Len(body))' = k + 1
        BY <1>6, <1>9, <1>18, <2>a
      <4>2. QED
        BY <1>4, <1>10, <2>2, <2>5, <4>1
    <3>1. current' = ItemOf(Len(body))'
      BY <1>5, <1>6, <1>18, <2>5, <3>c DEF ItemOf
    <3>2. /\ ItemsInv' /\ ListsInv' /\ RejectedForCause' /\ RejectedClosed'
          /\ \A p \in DOMAIN body' : body'[p].kind # "nameless" \/ kind = "nameless"
          /\ \A p \in DOMAIN body' : Len(body'[p].data) <= seen
          /\ \A p \in 1..m : body'[p].ended
          /\ \A p \in DOMAIN body : body[p].kind = "file" =>
               PlaceInv(p, Nth(p))' /\ DataInv(p, Nth(p))'
      <4>1. DOMAIN files \subseteq DOMAIN files' /\ \A f \in DOMAIN files : files'[f] = files[f]
        BY <3>b
      <4>2. QED
        BY <1>15, <2>5, <3>1, <4>1
    <3>3. current' \in Item /\ Len(current'.data) = 0
      <4>1. k + 1 \in 0..MaxParts
        BY <1>10, <2>a
      <4>2. QED
        BY <1>12, <2>5, <4>1
    <3>4. TypeOK'
      BY <1>1, <1>2, <1>6, <2>2, <2>5, <3>3, <3>b DEF TypeOK, Item
    <3>5. SizeInv'
      <4>1. Len(files') <= limits.files /\ Len(files') <= MaxParts
        BY <1>10, <2>a, <3>b, <3>c
      <4>2. QED
        BY <1>1, <1>2, <1>4, <1>13, <3>3, <4>1 DEF SizeInv
    <3>6. PartsInv'
      <4>1. \A f \in DOMAIN files' : \E p \in DOMAIN body' : body'[p].kind = "file" /\ Nth(p)' = f
        <5>1. TAKE f \in DOMAIN files'
        <5>2. CASE f \in 1..k
          <6>1. PICK p \in DOMAIN body : body[p].kind = "file" /\ Nth(p) = f
            BY <1>1, <3>b, <5>2 DEF PartsInv
          <6>2. p \in DOMAIN body' /\ body'[p].kind = "file" /\ Nth(p)' = f
            BY <1>4, <1>6, <1>7, <6>1
          <6>3. QED
            BY <6>2
        <5>3. CASE f = k + 1
          <6>1. PICK p : p = Len(body') /\ Nth(p)' = k + 1
            BY <3>c
          <6>2. p \in DOMAIN body' /\ body'[p].kind = "file"
            BY <1>4, <1>5, <1>6, <1>7, <1>18, <6>1
          <6>3. QED
            BY <5>3, <6>1, <6>2
        <5>4. QED
          BY <3>b, <5>2, <5>3
      <4>2. Len(body') - 1 = m
        BY <1>4, <1>6
      <4>3. counts'.files = Count("file")' /\ counts'.files = Len(files') /\ counts'.fields = Count("field")'
        BY <2>2, <2>3, <3>b, <3>c
      <4>4. QED
        BY <1>2, <1>9, <1>18, <2>2, <3>2, <4>1, <4>2, <4>3 DEF PartsInv
    <3>7. FilesInv'
      <4>1. \A f \in DOMAIN files' : files'[f].size = Len(files'[f].data) /\ files'[f].open
        <5>1. TAKE f \in DOMAIN files'
        <5>2. CASE f \in 1..k
          BY <1>1, <1>2, <3>b, <5>2 DEF FilesInv
        <5>3. CASE f = k + 1
          BY <3>a, <3>b, <5>3
        <5>4. QED
          BY <3>b, <5>2, <5>3
      <4>2. QED
        BY <1>2, <2>5, <4>1 DEF FilesInv
    <3>8. UploadInv'
      <4>1. ASSUME NEW p \in DOMAIN body', body'[p].kind = "file", p # m + 1
            PROVE  PlaceInv(p, Nth(p))' /\ DataInv(p, Nth(p))'
        <5>1. p \in DOMAIN body /\ body[p].kind = "file"
          BY <1>4, <1>6, <1>7, <4>1
        <5>2. QED
          BY <3>2, <5>1
      <4>2. PICK n : n = m + 1 /\ n = Len(body') /\ Nth(n)' = k + 1
        BY <1>6, <3>c
      <4>3. ~Finishes(k + 1) /\ ~Writes(k + 1)
        BY <1>1, <3>b DEF ListsInv, Finishes, Writes
      <4>4. ~Finishes(Nth(n))' /\ ~Writes(Nth(n))'
        BY <1>2, <4>2, <4>3 DEF Finishes, Writes
      <4>5. body'[n] = part /\ files'[k + 1] = file /\ pc' = "parsing" /\ Reached' = 1
        BY <1>2, <1>6, <2>5, <3>b, <4>2 DEF Reached
      <4>6. PlaceInv(n, Nth(n))'
        BY <1>5, <3>a, <4>2, <4>4, <4>5 DEF PlaceInv
      <4>7. DataInv(n, Nth(n))'
        <5>1. Len(toWrite) \in Nat /\ DOMAIN toWrite = 1..Len(toWrite)
          BY <1>1, FormTypes
        <5>2. PICK length \in [1..(Len(toWrite) + 1) -> 0..MaxData] :
                \A i \in 1..(Len(toWrite) + 1) : length[i] = 0
          <6> DEFINE length == [i \in 1..(Len(toWrite) + 1) |-> 0]
          <6>1. length \in [1..(Len(toWrite) + 1) -> 0..MaxData] /\ \A i \in 1..(Len(toWrite) + 1) : length[i] = 0
            BY <1>4
          <6>2. QED
            BY <6>1
        <5>3. /\ \A i \in DOMAIN toWrite : toWrite[i][1] # k + 1 /\ length[i + 1] = length[i]
              /\ length[1] = 0 /\ length[Len(toWrite) + 1] = 0
          BY <4>3, <5>1, <5>2 DEF Writes
        <5>4. SubSeq(<<>>, 1, 0) = <<>>
          <6>1. <<>> \in Seq(Nat) /\ Len(<<>>) = 0
            OBVIOUS
          <6>2. SubSeq(<<>>, 1, Len(<<>>)) = <<>>
            BY <6>1, Cuts
          <6>3. QED
            BY <6>1, <6>2
        <5>5. Lengthens(n, Nth(n), length)'
          <6>1. /\ body'[n].data = <<>> /\ Len(body'[n].data) = 0 /\ files'[Nth(n)'].data = <<>>
                /\ length[Reached'] = 0
            BY <1>5, <3>a, <4>2, <4>5, <5>3
          <6>2. \A i \in DOMAIN toWrite : toWrite[i][1] # Nth(n)' /\ length[i + 1] = length[i]
            BY <4>2, <5>3
          <6>3. 0 <= 0
            OBVIOUS
          <6>4. QED
            BY <1>2, <5>3, <5>4, <6>1, <6>2, <6>3 DEF Lengthens
        <5>6. QED
          BY <1>2, <5>2, <5>5 DEF DataInv
      <4>8. QED
        BY <4>1, <4>2, <4>6, <4>7 DEF UploadInv
    <3>9. QED
      BY <3>2, <3>4, <3>5, <3>6, <3>7, <3>8 DEF IInv
  <2>6. QED
    BY <2>1, <2>4, <2>5
<1>19. QED
  BY <1>3, <1>16, <1>17, <1>18

\* The invariant holds of a form that has not begun,
LEMMA FormInit ==
  ASSUME Init
  PROVE  IInv
<1>1. /\ limits \in [files : Nat, fields : Nat, size : Nat] /\ MaxParts \in Nat /\ MaxData \in Nat
      /\ pc = "stream" /\ at = 1 /\ body = <<>> /\ seen = 0 /\ items = <<>> /\ toWrite = <<>>
      /\ toFinish = <<>> /\ files = <<>>
      /\ current = [file |-> 0, data |-> <<>>] /\ counts = [files |-> 0, fields |-> 0] /\ thread = FALSE
  BY LimitsAssumption, BoundsAssumption DEF Init
<1>2. /\ body \in Seq(Part) /\ Len(body) = 0 /\ DOMAIN body = {} /\ Len(items) = 0 /\ DOMAIN items = {}
      /\ Len(toWrite) = 0 /\ DOMAIN toWrite = {} /\ Len(toFinish) = 0 /\ DOMAIN toFinish = {}
      /\ Len(files) = 0 /\ DOMAIN files = {} /\ ~InPart
  BY <1>1 DEF InPart
<1>3. TypeOK
  <2>1. current \in [file : 0..MaxParts, data : Seq(1..MaxData)]
    BY <1>1
  <2>2. counts \in [files : 0..MaxParts, fields : 0..MaxParts]
    BY <1>1
  <2>3. QED
    <3>1. limits \in Limits /\ 1 \in 1..(MaxParts + MaxData + 1) /\ 0 \in 0..MaxData
      BY <1>1 DEF Init
    <3>2. /\ body \in Seq(Part) /\ toWrite \in Seq((1..MaxParts) \X Seq(1..MaxData))
          /\ items \in Seq([file : 0..MaxParts, data : Seq(1..MaxData)])
          /\ toFinish \in Seq(1..MaxParts) /\ files \in Seq(File) /\ thread \in BOOLEAN
      <4>1. /\ body = <<>> /\ toWrite = <<>> /\ items = <<>> /\ toFinish = <<>> /\ files = <<>>
            /\ thread = FALSE
        BY <1>1
      <4>2. \A S : <<>> \in Seq(S)
        OBVIOUS
      <4>3. QED
        BY <4>1, <4>2
    <3>3. QED
      <4>1. at \in 1..(MaxParts + MaxData + 1) /\ seen \in 0..MaxData
        BY <1>1, <3>1
      <4>2. pc = "stream"
        BY <1>1
      <4>3. QED
        BY <2>1, <2>2, <3>1, <3>2, <4>1, <4>2 DEF TypeOK
<1>4. Count("file") = 0 /\ Count("field") = 0
  <2>1. Count("file") <= Len(body) /\ Count("field") <= Len(body) /\ Count("file") \in Nat /\ Count("field") \in Nat
    BY <1>2, Numbers
  <2>2. QED
    BY <1>2, <2>1
<1>5. PartsInv
  BY <1>1, <1>2, <1>4 DEF PartsInv
<1>6. SizeInv /\ RejectedForCause /\ RejectedClosed
  BY <1>1, <1>2 DEF SizeInv, RejectedForCause, RejectedClosed
<1>7. ItemsInv /\ ListsInv /\ FilesInv /\ UploadInv
  BY <1>1, <1>2 DEF ItemsInv, ListsInv, FilesInv, UploadInv
<1>8. QED
  BY <1>3, <1>5, <1>6, <1>7 DEF IInv

\* and when nothing happens to it,
LEMMA FormStutters ==
  ASSUME IInv, UNCHANGED vars
  PROVE  IInv'
<1>1. UNCHANGED <<limits, pc, at, body, seen, current, counts, items, toWrite, toFinish, files, thread>>
  BY DEF vars
<1>2. UNCHANGED <<TypeOK, SizeInv, RejectedForCause, RejectedClosed, Live>>
  BY <1>1 DEF TypeOK, SizeInv, RejectedForCause, RejectedClosed, Live, Count
<1>3. UNCHANGED <<PartsInv, ItemsInv, ListsInv, FilesInv, UploadInv>>
  BY <1>1 DEF PartsInv, ItemsInv, ListsInv, FilesInv, UploadInv, ItemOf, PlaceInv, DataInv, Lengthens,
              Finishes, Writes, Reached, InPart, Count, Nth, Succeeded
<1>4. QED
  BY <1>2, <1>3 DEF IInv

\* and each step keeps it.
LEMMA FormStep ==
  ASSUME IInv, [Next]_vars
  PROVE  IInv'
<1>1. CASE \E kind \in Kinds : PartBegin(kind)
  BY <1>1, PartBeginStep
<1>2. CASE \E n \in 1..MaxPiece : PartData(n)
  BY <1>2, PartDataStep
<1>3. CASE PartEnd
  BY <1>3, PartEndStep
<1>4. CASE Write
  BY <1>4, WriteStep
<1>5. CASE Seek
  BY <1>5, SeekStep
<1>6. CASE SeeksDone
  BY <1>6, SeeksDoneStep
<1>7. CASE CloseItem
  BY <1>7, CloseItemStep
<1>8. CASE Chunk \/ Malformed \/ ChunkEnd \/ WritesDone \/ EndOfBody \/ Disconnect \/ LeaveBlock \/ CloseDone
  BY <1>8, SilentSteps
<1>9. CASE UNCHANGED vars
  BY <1>9, FormStutters
<1>10. QED
  BY <1>1, <1>2, <1>3, <1>4, <1>5, <1>6, <1>7, <1>8, <1>9 DEF Next, Callback

\* What the invariant says of the runs' properties.
LEMMA FormHolds ==
  ASSUME IInv
  PROVE  ResourcesBounded /\ FormIntact
<1>1. /\ TypeOK /\ SizeInv /\ RejectedForCause /\ RejectedClosed
      /\ Live => PartsInv /\ ItemsInv /\ ListsInv /\ FilesInv /\ UploadInv
  BY DEF IInv
<1>2. /\ body \in Seq(Part) /\ items \in Seq(Item) /\ files \in Seq(File) /\ toFinish \in Seq(1..MaxParts)
      /\ limits.fields \in Nat
      /\ DOMAIN body = 1..Len(body) /\ DOMAIN items = 1..Len(items) /\ Len(body) \in Nat /\ Len(items) \in Nat
  BY <1>1, FormTypes, SMTT(30)
<1>3. Succeeded \/ pc = "stream" => Live /\ pc \notin {"writing", "seeking"}
  BY DEF Succeeded, Live
\* An item of a form that lives is that of a part that has ended.
<1>4. ASSUME Live, NEW i \in DOMAIN items
      PROVE  /\ i \in DOMAIN body /\ items[i] = ItemOf(i) /\ body[i].ended
             /\ body[i].kind \in {"file", "field"}
  <2>1. /\ InPart => Len(items) = Len(body) - 1
        /\ ~InPart => Len(items) = Len(body)
        /\ items[i] = ItemOf(i)
    BY <1>1, <1>4 DEF ItemsInv
  <2>2. i \in DOMAIN body
    <3>1. Len(items) = Len(body) - 1 \/ Len(items) = Len(body)
      BY <2>1
    <3>2. PICK a, b : /\ a = Len(items) /\ b = Len(body) /\ a \in Nat /\ b \in Nat /\ i \in 1..a
                      /\ a = b - 1 \/ a = b
      BY <1>2, <3>1
    <3>3. i \in 1..b
      BY <3>2
    <3>4. QED
      BY <1>2, <3>2, <3>3
  <2>3. body[i].ended
    <3>1. CASE i \in 1..(Len(body) - 1)
      BY <1>1, <1>4, <3>1 DEF PartsInv
    <3>2. CASE i = Len(body)
      <4>1. ~InPart
        <5>1. PICK a, b : a = Len(items) /\ b = Len(body) /\ a \in Nat /\ b \in Nat /\ i \in 1..a /\ i = b
          BY <1>2, <3>2
        <5>2. ~(a = b - 1)
          BY <5>1
        <5>3. ~(Len(items) = Len(body) - 1)
          BY <5>1, <5>2
        <5>4. QED
          BY <2>1, <5>3
      <4>2. body # <<>>
        BY <2>2
      <4>3. QED
        BY <3>2, <4>1, <4>2 DEF InPart, Last
    <3>3. QED
      BY <1>2, <2>2, <3>1, <3>2
  <2>4. body[i].kind \in {"file", "field"}
    <3>1. body[i] \in Part
      BY <1>2, <2>2
    <3>2. QED
      BY <1>1, <1>4, <2>2, <3>1, Parts DEF PartsInv, Kinds
  <2>5. QED
    BY <2>1, <2>2, <2>3, <2>4
<1>5. LimitsKept
  <2>1. ASSUME Succeeded PROVE Cardinality({i \in DOMAIN items : items[i].file = 0}) <= limits.fields
    <3> DEFINE A == {i \in DOMAIN items : items[i].file = 0}
               B == {p \in DOMAIN body : body[p].kind = "field"}
    <3>1. Live
      BY <1>3, <2>1
    <3>2. ASSUME NEW i \in DOMAIN items, items[i].file = 0 PROVE i \in B
      <4>1. /\ i \in DOMAIN body /\ items[i] = ItemOf(i) /\ body[i].kind \in {"file", "field"}
        BY <1>4, <3>1
      <4>2. CASE body[i].kind = "file"
        <5>1. Nth(i) \in 1..Count("file") /\ items[i].file = Nth(i) /\ Count("file") \in Nat
          BY <1>2, <4>1, <4>2, Numbers DEF ItemOf
        <5>2. QED
          BY <3>2, <5>1
      <4>3. QED
        BY <4>1, <4>2
    <3>3. IsFiniteSet(DOMAIN body)
      BY <1>2, FS_Interval
    <3>4. IsFiniteSet(B) /\ A \subseteq B
      BY <3>2, <3>3, FS_Subset
    <3>5. Cardinality(A) <= Cardinality(B) /\ IsFiniteSet(A)
      BY <3>4, FS_Subset
    <3>6. Cardinality(A) \in Nat /\ Cardinality(B) \in Nat
      BY <3>4, <3>5, FS_CardinalityType
    <3>7. Cardinality(B) = Count("field") /\ Count("field") = counts.fields /\ counts.fields <= limits.fields
      BY <1>1, <3>1 DEF PartsInv, Count
    <3> HIDE DEF A, B
    <3>8. Cardinality(A) <= limits.fields
      BY <1>2, <3>5, <3>6, <3>7
    <3>9. QED
      BY <3>8 DEF A
  <2>2. QED
    BY <1>1, <2>1 DEF LimitsKept, SizeInv
<1>6. BlockCloses
  <2>1. ASSUME pc = "closed" PROVE FilesInv
    BY <1>1, <2>1 DEF Live
  <2>2. QED
    BY <2>1 DEF BlockCloses, FilesInv
\* Between two chunks, and at the end, nothing waits: a file has all its part has sent.
<1>7. ASSUME pc = "stream" \/ Succeeded
      PROVE  /\ toWrite = <<>> /\ toFinish = <<>>
             /\ \A p \in DOMAIN body : body[p].kind = "file" => files[Nth(p)].data = body[p].data
  <2>1. ListsInv /\ UploadInv /\ Reached = 1
    BY <1>1, <1>3, <1>7 DEF Reached
  <2>2. toWrite = <<>> /\ toFinish = <<>>
    BY <1>7, <2>1 DEF ListsInv
  <2>3. ASSUME NEW p \in DOMAIN body, body[p].kind = "file" PROVE files[Nth(p)].data = body[p].data
    <3>1. PICK length : Lengthens(p, Nth(p), length)
      BY <2>1, <2>3 DEF UploadInv, DataInv
    <3>2. Len(toWrite) + 1 = 1
      BY <2>2
    <3>3. length[1] = Len(body[p].data) /\ files[Nth(p)].data = SubSeq(body[p].data, 1, length[1])
      BY <2>1, <3>1, <3>2 DEF Lengthens
    <3>4. body[p].data \in Seq(1..MaxData)
      <4>1. body[p] \in Part
        BY <1>2, <2>3
      <4>2. QED
        BY <4>1, Parts
    <3>5. SubSeq(body[p].data, 1, Len(body[p].data)) = body[p].data
      BY <3>4, Cuts
    <3>6. QED
      BY <3>3, <3>5
  <2>4. QED
    BY <2>2, <2>3
<1>8. UploadsIntact
  BY <1>7 DEF UploadsIntact
<1>9. ASSUME pc = "returned" PROVE FormComplete
  <2>1. Succeeded /\ Live
    BY <1>3, <1>9 DEF Succeeded
  <2>2. PartsInv /\ ItemsInv /\ FilesInv /\ UploadInv
    BY <1>1, <2>1
  <2>3. {p \in DOMAIN body : body[p].ended} = 1..Len(items)
    <3>1. CASE InPart
      <4>1. Len(items) = Len(body) - 1 /\ Len(body) \in DOMAIN body /\ ~body[Len(body)].ended
        BY <1>2, <2>2, <3>1 DEF ItemsInv, InPart, Last
      <4>2. \A p \in DOMAIN body : body[p].ended <=> p \in 1..(Len(body) - 1)
        <5>1. TAKE p \in DOMAIN body
        <5>2. p \in 1..(Len(body) - 1) \/ p = Len(body)
          BY <1>2
        <5>3. ~(Len(body) \in 1..(Len(body) - 1))
          BY <1>2
        <5>4. QED
          BY <2>2, <4>1, <5>2, <5>3 DEF PartsInv
      <4>3. \A p \in 1..(Len(body) - 1) : p \in DOMAIN body
        BY <1>2
      <4>4. QED
        BY <4>1, <4>2, <4>3
    <3>2. CASE ~InPart
      <4>1. Len(items) = Len(body)
        BY <2>2, <3>2 DEF ItemsInv
      <4>2. \A p \in DOMAIN body : body[p].ended
        BY <1>2, <1>4, <2>1, <4>1
      <4>3. QED
        BY <1>2, <4>1, <4>2
    <3>3. QED
      BY <3>1, <3>2
  <2>4. Len(items) = Cardinality({p \in DOMAIN body : body[p].ended})
    <3>1. PICK l : l = Len(items) /\ l \in Nat
      BY <1>2
    <3>2. Cardinality(1..l) = l
      <4>1. 1 \in Int /\ l \in Int
        BY <3>1
      <4>2. Cardinality(1..l) = IF 1 > l THEN 0 ELSE l - 1 + 1
        BY <4>1, FS_Interval
      <4>3. QED
        BY <3>1, <4>2
    <3>3. QED
      BY <2>3, <3>1, <3>2
  <2>5. ASSUME NEW i \in DOMAIN items
        PROVE  /\ body[i].ended
               /\ (items[i].file = 0) = (body[i].kind = "field")
               /\ items[i].file = 0 => items[i].data = body[i].data
               /\ items[i].file # 0 =>
                    /\ files[items[i].file].data = body[i].data
                    /\ files[items[i].file].open /\ files[items[i].file].pos = 0
                    /\ files[items[i].file].size = Len(files[items[i].file].data)
    <3>1. /\ i \in DOMAIN body /\ items[i] = ItemOf(i) /\ body[i].ended
          /\ body[i].kind \in {"file", "field"}
      BY <1>4, <2>1, <2>5
    <3>2. CASE body[i].kind = "field"
      BY <3>1, <3>2 DEF ItemOf
    <3>3. CASE body[i].kind = "file"
      <4>1. Nth(i) \in 1..Count("file") /\ Count("file") \in Nat /\ Count("file") = Len(files)
        BY <1>2, <2>2, <3>1, <3>3, Numbers DEF PartsInv
      <4>2. items[i].file = Nth(i) /\ items[i].file # 0 /\ Nth(i) \in DOMAIN files
        BY <1>2, <3>1, <3>3, <4>1 DEF ItemOf
      <4>3. files[Nth(i)].data = body[i].data
        BY <1>7, <2>1, <3>1, <3>3
      <4>4. files[Nth(i)].open /\ files[Nth(i)].size = Len(files[Nth(i)].data)
        BY <1>9, <2>2, <4>2 DEF FilesInv
      <4>5. ~Finishes(Nth(i))
        BY <1>7, <2>1 DEF Finishes
      <4>6. files[Nth(i)].pos = 0
        BY <2>2, <3>1, <3>3, <4>5 DEF UploadInv, PlaceInv
      <4>7. QED
        BY <3>1, <3>3, <4>2, <4>3, <4>4, <4>6
    <3>4. QED
      BY <3>1, <3>2, <3>3
  <2>6. QED
    BY <2>4, <2>5 DEF FormComplete
<1>10. FormComplete
  BY <1>9 DEF FormComplete
<1>11. QED
  BY <1>1, <1>5, <1>6, <1>8, <1>10 DEF ResourcesBounded, FormIntact

\* A file changes on the disk only by a step that runs in a worker thread.
LEMMA DiskStep ==
  ASSUME IInv, [Next]_vars
  PROVE  \A f \in DOMAIN files :
           files'[f] # files[f] /\ files'[f].rolled /\ pc' # "rejected" => thread'
<1>1. TypeOK /\ files \in Seq(File) /\ (Live => ListsInv /\ PartsInv /\ ItemsInv)
  <2>1. TypeOK /\ (Live => ListsInv /\ PartsInv /\ ItemsInv)
    BY DEF IInv
  <2>2. QED
    BY <2>1, FormTypes
<1>2. CASE files' = files \/ pc' = "rejected"
  BY <1>2
<1>3. CASE \E file : files' = Append(files, file)
  <2>1. \A f \in DOMAIN files : files'[f] = files[f]
    BY <1>1, <1>3
  <2>2. QED
    BY <2>1
<1>4. CASE \E f, file : files' = [files EXCEPT ![f] = file] /\ (f \in DOMAIN files /\ file.rolled => thread')
  <2>1. PICK f, file : files' = [files EXCEPT ![f] = file] /\ (f \in DOMAIN files /\ file.rolled => thread')
    BY <1>4
  <2>2. \A g \in DOMAIN files : g # f => files'[g] = files[g]
    BY <1>1, <2>1
  <2>3. f \in DOMAIN files => files'[f] = file
    BY <1>1, <2>1
  <2>4. QED
    BY <2>1, <2>2, <2>3
<1>5. CASE Write
  <2>1. PICK f, n, data : /\ f = toWrite[at][1] /\ data = toWrite[at][2] /\ n = Len(data)
                          /\ thread' = WillRoll(files[f], n)
                          /\ \/ files' = [files EXCEPT ![f] = Written(files[f], data)]
                             \/ files' = [files EXCEPT ![f].size = files[f].size + n]
    BY <1>5 DEF Write
  <2>2. CASE files' = [files EXCEPT ![f] = Written(files[f], data)]
    <3>1. ASSUME f \in DOMAIN files, Written(files[f], data).rolled PROVE thread'
      <4>1. files[f] \in File
        BY <1>1, <3>1
      <4>2. Written(files[f], data).rolled = (files[f].rolled \/ files[f].pos + Len(data) > SpoolMax)
        BY <4>1 DEF Written, File
      <4>3. QED
        BY <2>1, <3>1, <4>2 DEF WillRoll
    <3>2. QED
      BY <1>4, <2>2, <3>1
  <2>3. CASE files' = [files EXCEPT ![f].size = files[f].size + n]
    <3>1. PICK file : file = [files[f] EXCEPT !.size = files[f].size + n]
      OBVIOUS
    <3>2. ASSUME f \in DOMAIN files, file.rolled PROVE thread'
      <4>1. files[f] \in File
        BY <1>1, <3>2
      <4>2. file.rolled = files[f].rolled
        BY <3>1, <4>1 DEF File
      <4>3. QED
        BY <2>1, <3>2, <4>2 DEF WillRoll
    <3>3. files' = [files EXCEPT ![f] = file]
      BY <2>3, <3>1
    <3>4. QED
      BY <1>4, <3>2, <3>3
  <2>4. QED
    BY <2>1, <2>2, <2>3
<1>6. CASE Seek
  <2>1. PICK f : /\ f = toFinish[at] /\ thread' = files[f].rolled
                 /\ files' = [files EXCEPT ![f].pos = 0] \/ files' = files
    BY <1>6 DEF Seek
  <2>2. CASE files' = [files EXCEPT ![f].pos = 0]
    <3>1. PICK file : file = [files[f] EXCEPT !.pos = 0]
      OBVIOUS
    <3>2. ASSUME f \in DOMAIN files, file.rolled PROVE thread'
      <4>1. files[f] \in File
        BY <1>1, <3>2
      <4>2. file.rolled = files[f].rolled
        BY <3>1, <4>1 DEF File
      <4>3. QED
        BY <2>1, <3>2, <4>2
    <3>3. files' = [files EXCEPT ![f] = file]
      BY <2>2, <3>1
    <3>4. QED
      BY <1>4, <3>2, <3>3
  <2>3. QED
    BY <1>2, <2>1, <2>2
<1>7. CASE CloseItem
  <2>1. PICK f : /\ f = items[at].file
                 /\ \/ files' = files
                    \/ thread' = files[f].rolled /\ files' = [files EXCEPT ![f].open = FALSE]
    BY <1>7 DEF CloseItem
  <2>2. CASE thread' = files[f].rolled /\ files' = [files EXCEPT ![f].open = FALSE]
    <3>1. PICK file : file = [files[f] EXCEPT !.open = FALSE]
      OBVIOUS
    <3>2. ASSUME f \in DOMAIN files, file.rolled PROVE thread'
      <4>1. files[f] \in File
        BY <1>1, <3>2
      <4>2. file.rolled = files[f].rolled
        BY <3>1, <4>1 DEF File
      <4>3. QED
        BY <2>2, <3>2, <4>2
    <3>3. files' = [files EXCEPT ![f] = file]
      BY <2>2, <3>1
    <3>4. QED
      BY <1>4, <3>2, <3>3
  <2>3. QED
    BY <1>2, <2>1, <2>2
<1>8. CASE \E kind \in Kinds : PartBegin(kind)
  <2>1. pc' = "rejected" \/ files' = files \/ \E file : files' = Append(files, file)
    BY <1>8 DEF PartBegin, BeginFile, BeginField, Reject
  <2>2. QED
    BY <1>2, <1>3, <2>1
<1>9. CASE \E n \in 1..MaxPiece : PartData(n)
  <2>1. pc' = "rejected" \/ files' = files
    BY <1>9 DEF PartData, Reject
  <2>2. QED
    BY <1>2, <2>1
<1>10. CASE PartEnd
  BY <1>2, <1>10 DEF PartEnd
<1>11. CASE SeeksDone
  BY <1>2, <1>11 DEF SeeksDone
<1>12. CASE Chunk \/ Malformed \/ ChunkEnd \/ WritesDone \/ EndOfBody \/ Disconnect \/ LeaveBlock \/ CloseDone
  BY <1>2, <1>12 DEF Chunk, Malformed, ChunkEnd, WritesDone, EndOfBody, Disconnect, LeaveBlock, CloseDone
<1>13. CASE UNCHANGED vars
  BY <1>2, <1>13 DEF vars
<1>14. QED
  BY <1>5, <1>6, <1>7, <1>8, <1>9, <1>10, <1>11, <1>12, <1>13 DEF Next, Callback

-----------------------------------------------------------------------------
(* An urlencoded form.  The messages that are not handled yet, handled one *)
(* after the other, lead from what parse() has to what the parser has seen.*)

Message == [type : {"start", "name", "data", "end"}, data : Texts]
Locals == [name : Texts, value : Texts, items : Seq(Field)]

Matches(locals) ==
  IF parser = "between" THEN locals.items = sent
  ELSE /\ sent # <<>> /\ locals.items = Front(sent)
       /\ locals.name = Last(sent).key /\ locals.value = Last(sent).value

\* What parse() has after each of the messages.
Leads(after) ==
  /\ after[0] = parse
  /\ \A i \in DOMAIN messages : after[i] = Handled(after[i - 1], messages[i])
  /\ Matches(after[Len(messages)])

EncodedInv ==
  /\ EncodedTypeOK /\ parse \in Locals
  /\ phase \notin {"parsing", "handling"} => messages = <<>>
  /\ phase \in {"parsed", "copied"} => parser = "between"
  /\ \E after \in [0..Len(messages) -> Locals] : Leads(after)

\* The sequences of bounded length.
LEMMA Bounded ==
  ASSUME NEW S, NEW n \in Nat
  PROVE  \A s : s \in BoundedSeq(S, n) <=> s \in Seq(S) /\ Len(s) \in 0..n
<1>1. ASSUME NEW s, s \in BoundedSeq(S, n) PROVE s \in Seq(S) /\ Len(s) \in 0..n
  <2>1. PICK k \in 0..n : s \in [1..k -> S]
    BY <1>1 DEF BoundedSeq, SeqOf
  <2>2. k \in Nat
    BY <2>1
  <2>3. s \in Seq(S) /\ Len(s) = k
    BY <2>1, <2>2
  <2>4. QED
    BY <2>1, <2>3
<1>2. ASSUME NEW s \in Seq(S), Len(s) \in 0..n PROVE s \in BoundedSeq(S, n)
  <2>1. s \in [1..Len(s) -> S]
    OBVIOUS
  <2>2. QED
    BY <1>2, <2>1 DEF BoundedSeq, SeqOf
<1>3. QED
  BY <1>1, <1>2

\* Names and values, and what they are joined of.
LEMMA TextsBounded ==
  /\ \A s : s \in Texts <=> s \in Seq(Units) /\ Len(s) \in 0..MaxLength
  /\ <<>> \in Texts
  /\ \A s, t \in Texts : Len(s) + Len(t) <= MaxLength => s \o t \in Texts
<1>1. \A s : s \in Texts <=> s \in Seq(Units) /\ Len(s) \in 0..MaxLength
  BY Bounded, FieldsAssumption DEF Texts
<1>2. <<>> \in Texts
  <2>1. <<>> \in Seq(Units) /\ Len(<<>>) = 0 /\ 0 \in 0..MaxLength
    BY FieldsAssumption
  <2>2. QED
    BY <1>1, <2>1
<1>3. ASSUME NEW s \in Texts, NEW t \in Texts, Len(s) + Len(t) <= MaxLength PROVE s \o t \in Texts
  <2>1. s \in Seq(Units) /\ t \in Seq(Units) /\ Len(s) \in Nat /\ Len(t) \in Nat
    BY <1>1
  <2>2. s \o t \in Seq(Units) /\ Len(s \o t) = Len(s) + Len(t)
    BY <2>1, ConcatProperties
  <2>3. Len(s \o t) \in 0..MaxLength
    BY <1>3, <2>1, <2>2
  <2>4. QED
    BY <1>1, <2>2, <2>3
<1>4. QED
  BY <1>1, <1>2, <1>3

\* All but the last element of a sequence.
LEMMA Fronts ==
  ASSUME NEW s \in Seq(Field)
  PROVE  /\ s # <<>> => /\ Front(s) \in Seq(Field) /\ Len(Front(s)) = Len(s) - 1 /\ Last(s) \in Field
                        /\ s = Append(Front(s), Last(s))
         /\ \A e \in Field :
              /\ Front(Append(s, e)) = s /\ Last(Append(s, e)) = e
              /\ s # <<>> =>
                        /\ [s EXCEPT ![Len(s)] = e] \in Seq(Field) /\ Len([s EXCEPT ![Len(s)] = e]) = Len(s)
                        /\ Front([s EXCEPT ![Len(s)] = e]) = Front(s)
                        /\ Last([s EXCEPT ![Len(s)] = e]) = e
<1>1. ASSUME NEW t \in Seq(Field), t # <<>>
      PROVE  /\ Front(t) \in Seq(Field) /\ Len(Front(t)) = Len(t) - 1 /\ Last(t) \in Field
             /\ \A i \in 1..(Len(t) - 1) : Front(t)[i] = t[i]
  <2>1. \A i \in 1..(Len(t) - 1) : t[i] \in Field
    OBVIOUS
  <2>2. /\ SubSeq(t, 1, Len(t) - 1) \in Seq(Field)
        /\ Len(SubSeq(t, 1, Len(t) - 1)) = IF 1 <= Len(t) - 1 THEN Len(t) - 1 - 1 + 1 ELSE 0
        /\ \A i \in 1..(Len(t) - 1 - 1 + 1) : SubSeq(t, 1, Len(t) - 1)[i] = t[1 + i - 1]
    BY <2>1, SubSeqProperties
  <2>3. Len(t) \in Nat /\ Len(t) >= 1
    BY <1>1
  <2>4. Last(t) \in Field
    BY <1>1, <2>3 DEF Last
  <2>5. PICK n : n = Len(t) /\ n \in Nat /\ n >= 1
    BY <2>3
  <2>6. (IF 1 <= n - 1 THEN n - 1 - 1 + 1 ELSE 0) = n - 1 /\ n - 1 - 1 + 1 = n - 1
    BY <2>5
  <2>7. \A i \in 1..(n - 1) : 1 + i - 1 = i
    BY <2>5
  <2>8. /\ SubSeq(t, 1, n - 1) \in Seq(Field) /\ Len(SubSeq(t, 1, n - 1)) = n - 1
        /\ \A i \in 1..(n - 1) : SubSeq(t, 1, n - 1)[i] = t[i]
    BY <2>2, <2>5, <2>6, <2>7
  <2>9. QED
    BY <2>4, <2>5, <2>8 DEF Front
<1>2. ASSUME NEW e \in Field PROVE Front(Append(s, e)) = s /\ Last(Append(s, e)) = e
  <2> DEFINE t == Append(s, e)
  <2>1. /\ t \in Seq(Field) /\ Len(t) = Len(s) + 1 /\ t[Len(s) + 1] = e /\ \A i \in 1..Len(s) : t[i] = s[i]
        /\ Len(s) \in Nat
    BY <1>2, AppendProperties
  <2> HIDE DEF t
  <2>2. t # <<>>
    BY <2>1
  <2>3. /\ Front(t) \in Seq(Field) /\ Len(Front(t)) = Len(t) - 1
        /\ \A i \in 1..(Len(t) - 1) : Front(t)[i] = t[i]
    BY <1>1, <2>1, <2>2
  <2>4. Len(Front(t)) = Len(s) /\ \A i \in 1..Len(s) : Front(t)[i] = s[i]
    BY <2>1, <2>3
  <2>5. Front(t) = s
    BY <2>3, <2>4, SeqEqual
  <2>6. Last(t) = e
    BY <2>1 DEF Last
  <2>7. QED
    BY <2>5, <2>6 DEF t
<1>3. ASSUME s # <<>>
      PROVE  /\ Front(s) \in Seq(Field) /\ Len(Front(s)) = Len(s) - 1 /\ Last(s) \in Field
             /\ s = Append(Front(s), Last(s))
  <2>1. /\ Front(s) \in Seq(Field) /\ Len(Front(s)) = Len(s) - 1 /\ Last(s) \in Field
        /\ \A i \in 1..(Len(s) - 1) : Front(s)[i] = s[i]
        /\ Len(s) \in Nat /\ Len(s) >= 1
    BY <1>1, <1>3
  <2> DEFINE t == Append(Front(s), Last(s))
  <2>2. /\ t \in Seq(Field) /\ Len(t) = Len(Front(s)) + 1 /\ t[Len(Front(s)) + 1] = Last(s)
        /\ \A i \in 1..Len(Front(s)) : t[i] = Front(s)[i]
    BY <2>1, AppendProperties
  <2> HIDE DEF t
  <2>3. Len(t) = Len(s)
    BY <2>1, <2>2
  <2>4. \A i \in 1..Len(s) : t[i] = s[i]
    <3>1. TAKE i \in 1..Len(s)
    <3>2. CASE i = Len(s)
      BY <2>1, <2>2, <3>2 DEF Last
    <3>3. CASE i # Len(s)
      <4>1. i \in 1..(Len(s) - 1)
        BY <2>1, <3>3
      <4>2. QED
        BY <2>1, <2>2, <4>1
    <3>4. QED
      BY <3>2, <3>3
  <2>5. t = s
    BY <2>2, <2>3, <2>4, SeqEqual
  <2>6. QED
    BY <2>1, <2>5 DEF t
<1>4. ASSUME NEW e \in Field, s # <<>>
      PROVE  /\ [s EXCEPT ![Len(s)] = e] \in Seq(Field) /\ Len([s EXCEPT ![Len(s)] = e]) = Len(s)
             /\ Front([s EXCEPT ![Len(s)] = e]) = Front(s)
             /\ Last([s EXCEPT ![Len(s)] = e]) = e
  <2> DEFINE t == [s EXCEPT ![Len(s)] = e]
  <2>1. Len(s) \in 1..Len(s) /\ Len(s) \in Nat
    BY <1>4
  <2>2. /\ t \in Seq(Field) /\ Len(t) = Len(s) /\ t[Len(s)] = e
        /\ \A i \in 1..Len(s) : i # Len(s) => t[i] = s[i]
    BY <1>4, <2>1, ExceptSeq
  <2> HIDE DEF t
  <2>3. t # <<>>
    BY <2>1, <2>2
  <2>4. /\ Front(t) \in Seq(Field) /\ Len(Front(t)) = Len(s) - 1 /\ \A i \in 1..(Len(s) - 1) : Front(t)[i] = t[i]
        /\ Front(s) \in Seq(Field) /\ Len(Front(s)) = Len(s) - 1 /\ \A i \in 1..(Len(s) - 1) : Front(s)[i] = s[i]
    BY <1>1, <1>4, <2>2, <2>3
  <2>5. \A i \in 1..(Len(s) - 1) : Front(t)[i] = Front(s)[i]
    BY <2>1, <2>2, <2>4
  <2>6. Front(t) = Front(s)
    BY <2>4, <2>5, SeqEqual
  <2>7. Last(t) = e
    BY <2>2 DEF Last
  <2>8. QED
    BY <2>2, <2>6, <2>7 DEF t
<1>5. QED
  BY <1>2, <1>3, <1>4

\* What a message does.
LEMMA HandledAs ==
  ASSUME NEW locals \in Locals
  PROVE  /\ locals.name \in Texts /\ locals.value \in Texts /\ locals.items \in Seq(Field)
         /\ \A message : message.type = "start" =>
              Handled(locals, message) = [name |-> <<>>, value |-> <<>>, items |-> locals.items]
         /\ \A message : message.type = "name" =>
              Handled(locals, message) =
                [name |-> locals.name \o message.data, value |-> locals.value, items |-> locals.items]
         /\ \A message : message.type = "data" =>
              Handled(locals, message) =
                [name |-> locals.name, value |-> locals.value \o message.data, items |-> locals.items]
         /\ \A message : message.type = "end" =>
              /\ Handled(locals, message) =
                   [name |-> locals.name, value |-> locals.value,
                    items |-> Append(locals.items, [key |-> locals.name, value |-> locals.value])]
              /\ Handled(locals, message) \in Locals
<1>1. /\ locals.name \in Texts /\ locals.value \in Texts /\ locals.items \in Seq(Field)
      /\ locals = [name |-> locals.name, value |-> locals.value, items |-> locals.items]
  BY DEF Locals
<1>2. PICK n, v, s : /\ n = locals.name /\ v = locals.value /\ s = locals.items
                     /\ n \in Texts /\ v \in Texts /\ s \in Seq(Field)
                     /\ locals = [name |-> n, value |-> v, items |-> s]
  BY <1>1
<1>3. ASSUME NEW message, message.type = "start"
      PROVE  Handled(locals, message) = [name |-> <<>>, value |-> <<>>, items |-> s]
  BY <1>2, <1>3 DEF Handled
<1>4. ASSUME NEW message, message.type = "name"
      PROVE  Handled(locals, message) = [name |-> n \o message.data, value |-> v, items |-> s]
  BY <1>2, <1>4 DEF Handled
<1>5. ASSUME NEW message, message.type = "data"
      PROVE  Handled(locals, message) = [name |-> n, value |-> v \o message.data, items |-> s]
  BY <1>2, <1>5 DEF Handled
<1>6. ASSUME NEW message, message.type = "end"
      PROVE  Handled(locals, message) = [name |-> n, value |-> v, items |-> Append(s, [key |-> n, value |-> v])]
  BY <1>2, <1>6 DEF Handled
<1>7. [name |-> n, value |-> v, items |-> Append(s, [key |-> n, value |-> v])] \in Locals
  <2>1. [key |-> n, value |-> v] \in Field
    BY <1>2 DEF Field
  <2>2. Append(s, [key |-> n, value |-> v]) \in Seq(Field)
    BY <1>2, <2>1
  <2>3. QED
    BY <1>2, <2>2 DEF Locals
<1>8. QED
  BY <1>1, <1>2, <1>3, <1>4, <1>5, <1>6, <1>7

\* What EncodedTypeOK says, piece by piece,
LEMMA EncodedTypes ==
  ASSUME EncodedInv
  PROVE  /\ phase \in {"stream", "parsing", "handling", "parsed", "gone", "copied"}
         /\ parser \in {"between", "name", "value"}
         /\ sent \in Seq(Field) /\ Len(sent) \in 0..MaxFields /\ MaxFields \in Nat
         /\ messages \in Seq(Message) /\ DOMAIN messages = 1..Len(messages) /\ Len(messages) \in Nat
         /\ parse \in Locals
<1>1. \A s : s \in BoundedSeq(Field, MaxFields) <=> s \in Seq(Field) /\ Len(s) \in 0..MaxFields
  BY Bounded, FieldsAssumption
<1>2. /\ phase \in {"stream", "parsing", "handling", "parsed", "gone", "copied"}
      /\ parser \in {"between", "name", "value"}
      /\ sent \in BoundedSeq(Field, MaxFields) /\ messages \in Seq(Message) /\ parse \in Locals
  BY DEF EncodedInv, EncodedTypeOK, Message
<1>3. QED
  BY <1>1, <1>2, FieldsAssumption

\* and what it takes after a step.
LEMMA EncodedTyped ==
  ASSUME phase' \in {"stream", "parsing", "handling", "parsed", "gone", "copied"},
         parser' \in {"between", "name", "value"}, sent' \in Seq(Field), Len(sent') \in 0..MaxFields,
         messages' \in Seq(Message), parse' \in Locals
  PROVE  EncodedTypeOK'
<1>1. \A s : s \in BoundedSeq(Field, MaxFields) <=> s \in Seq(Field) /\ Len(s) \in 0..MaxFields
  BY Bounded, FieldsAssumption
<1>2. sent' \in BoundedSeq(Field, MaxFields)
  BY <1>1
<1>3. parse'.name \in Texts /\ parse'.value \in Texts /\ parse'.items \in Seq(Field)
  BY DEF Locals
<1>4. QED
  BY <1>2, <1>3 DEF EncodedTypeOK, Message

\* A message is noted: what it leads to must be what the parser has seen then.
LEMMA Noted ==
  ASSUME EncodedInv, NEW message \in Message, messages' = Append(messages, message), parse' = parse,
         phase = "parsing", phase' = phase,
         parser' \in {"between", "name", "value"}, sent' \in Seq(Field), Len(sent') \in 0..MaxFields,
         \A locals \in Locals : Matches(locals) =>
           Handled(locals, message) \in Locals /\ Matches(Handled(locals, message))'
  PROVE  EncodedInv'
<1>1. messages \in Seq(Message) /\ DOMAIN messages = 1..Len(messages) /\ Len(messages) \in Nat /\ parse \in Locals
  BY EncodedTypes
<1>2. PICK k : k = Len(messages) /\ k \in Nat
  BY <1>1
<1>3. /\ messages' \in Seq(Message) /\ Len(messages') = k + 1 /\ messages'[k + 1] = message
      /\ \A i \in 1..k : messages'[i] = messages[i]
      /\ DOMAIN messages' = 1..(k + 1)
  <2>1. /\ messages' \in Seq(Message) /\ Len(messages') = k + 1 /\ messages'[k + 1] = message
        /\ \A i \in 1..k : messages'[i] = messages[i]
    BY <1>1, <1>2, AppendProperties
  <2>2. DOMAIN messages' = 1..Len(messages')
    BY <2>1
  <2>3. QED
    BY <2>1, <2>2
<1>4. EncodedTypeOK'
  BY <1>1, <1>3, EncodedTyped
<1>5. PICK after \in [0..k -> Locals] :
        /\ after[0] = parse /\ \A i \in 1..k : after[i] = Handled(after[i - 1], messages[i])
        /\ Matches(after[k])
  BY <1>1, <1>2 DEF EncodedInv, Leads
<1>6. PICK new : new = Handled(after[k], message) /\ new \in Locals /\ Matches(new)'
  <2>1. after[k] \in Locals
    BY <1>2, <1>5
  <2>2. Handled(after[k], message) \in Locals /\ Matches(Handled(after[k], message))'
    BY <1>5, <2>1
  <2>3. PICK new : new = Handled(after[k], message)
    OBVIOUS
  <2>4. QED
    BY <2>2, <2>3
<1> DEFINE longer == [i \in 0..(k + 1) |-> IF i = k + 1 THEN new ELSE after[i]]
<1>7. /\ longer \in [0..(k + 1) -> Locals] /\ longer[k + 1] = new
      /\ \A i \in 0..k : longer[i] = after[i]
  BY <1>2, <1>5, <1>6
<1> HIDE DEF longer
<1>8. \A i \in 1..(k + 1) : longer[i] = Handled(longer[i - 1], messages'[i])
  <2>1. TAKE i \in 1..(k + 1)
  <2>2. CASE i = k + 1
    <3>1. i - 1 = k /\ k \in 0..k
      BY <1>2, <2>2
    <3>2. QED
      BY <1>3, <1>6, <1>7, <2>2, <3>1
  <2>3. CASE i # k + 1
    <3>1. i \in 1..k /\ i \in 0..k /\ i - 1 \in 0..k
      BY <1>2, <2>3
    <3>2. QED
      BY <1>3, <1>5, <1>7, <3>1
  <2>4. QED
    BY <2>2, <2>3
<1>9. longer[0] = parse'
  BY <1>2, <1>5, <1>7
<1>10. Leads(longer)'
  BY <1>3, <1>6, <1>7, <1>8, <1>9 DEF Leads
<1>11. QED
  BY <1>1, <1>3, <1>4, <1>7, <1>10 DEF EncodedInv

\* The field that has begun is a field.
LEMMA LastField ==
  ASSUME EncodedInv, NEW locals, Matches(locals), parser # "between"
  PROVE  sent # <<>> /\ Last(sent) \in Field /\ Last(sent).key \in Texts /\ Last(sent).value \in Texts
<1>1. sent # <<>> /\ sent \in Seq(Field)
  BY EncodedTypes DEF Matches
<1>2. Last(sent) \in Field
  BY <1>1 DEF Last
<1>3. QED
  BY <1>1, <1>2 DEF Field

\* A field begins.
LEMMA FieldStartStep ==
  ASSUME EncodedInv, FieldStart
  PROVE  EncodedInv'
<1>a. PICK field, message : /\ field = [key |-> <<>>, value |-> <<>>]
                            /\ message = [type |-> "start", data |-> <<>>]
  OBVIOUS
<1>1. /\ phase = "parsing" /\ parser = "between" /\ Len(sent) < MaxFields
      /\ parser' = "name" /\ sent' = Append(sent, field) /\ messages' = Append(messages, message)
      /\ phase' = phase /\ parse' = parse
  BY <1>a DEF FieldStart, Notes
<1>2. sent \in Seq(Field) /\ Len(sent) \in 0..MaxFields /\ MaxFields \in Nat
  BY EncodedTypes
<1>3. field \in Field /\ message \in Message /\ field.key = <<>> /\ field.value = <<>> /\ message.type = "start"
  BY <1>a, TextsBounded DEF Field, Message
<1>4. /\ sent' \in Seq(Field) /\ Len(sent') = Len(sent) + 1 /\ sent' # <<>>
      /\ Front(sent') = sent /\ Last(sent') = field
  <2>1. sent' \in Seq(Field) /\ Len(sent') = Len(sent) + 1
    BY <1>1, <1>2, <1>3, AppendProperties
  <2>2. Front(Append(sent, field)) = sent /\ Last(Append(sent, field)) = field
    BY <1>2, <1>3, Fronts
  <2>3. sent' # <<>>
    BY <1>2, <2>1
  <2>4. QED
    BY <1>1, <2>1, <2>2, <2>3
<1>5. Len(sent') \in 0..MaxFields
  BY <1>1, <1>2, <1>4
<1>6. ASSUME NEW locals \in Locals, Matches(locals)
      PROVE  Handled(locals, message) \in Locals /\ Matches(Handled(locals, message))'
  <2>1. /\ Handled(locals, message) = [name |-> <<>>, value |-> <<>>, items |-> locals.items]
        /\ locals.items \in Seq(Field)
    BY <1>3, <1>6, HandledAs
  <2>2. locals.items = sent
    BY <1>1, <1>6 DEF Matches
  <2>3. Handled(locals, message) \in Locals
    BY <2>1, TextsBounded DEF Locals
  <2>4. PICK new : new = [name |-> <<>>, value |-> <<>>, items |-> sent]
    OBVIOUS
  <2>5. Matches(new)'
    BY <1>1, <1>3, <1>4, <2>4 DEF Matches
  <2>6. Handled(locals, message) = new
    BY <2>1, <2>2, <2>4
  <2>7. QED
    BY <2>3, <2>5, <2>6
<1>7. QED
  BY <1>1, <1>3, <1>4, <1>5, <1>6, Noted

\* A piece of a name is noted, and sent.
LEMMA FieldNameStep ==
  ASSUME EncodedInv, NEW piece \in Pieces, FieldName(piece)
  PROVE  EncodedInv'
<1>a. PICK n, field, message : /\ n = Len(sent) /\ message = [type |-> "name", data |-> piece]
                               /\ field = [key |-> Last(sent).key \o piece, value |-> Last(sent).value]
  OBVIOUS
<1>1. /\ phase = "parsing" /\ parser = "name" /\ Len(Last(sent).key) + Len(piece) <= MaxLength
      /\ parser' = parser /\ sent' = [sent EXCEPT ![n].key = @ \o piece]
      /\ messages' = Append(messages, message)
      /\ phase' = phase /\ parse' = parse
  BY <1>a DEF FieldName, Notes
<1>2. sent \in Seq(Field) /\ Len(sent) \in 0..MaxFields
  BY EncodedTypes
<1>3. piece \in Texts /\ message \in Message /\ message.type = "name" /\ message.data = piece
  BY <1>a DEF Pieces, Message
<1>4. sent # <<>>
  BY <1>1 DEF EncodedInv, Leads, Matches
<1>5. Last(sent) \in Field /\ Last(sent).key \in Texts /\ Last(sent).value \in Texts
  <2>1. Last(sent) \in Field
    BY <1>2, <1>4 DEF Last
  <2>2. QED
    BY <2>1 DEF Field
<1>6. field \in Field /\ field.key = Last(sent).key \o piece /\ field.value = Last(sent).value
  <2>1. Last(sent).key \o piece \in Texts
    BY <1>1, <1>3, <1>5, TextsBounded
  <2>2. QED
    BY <1>a, <1>5, <2>1 DEF Field
<1>7. sent' = [sent EXCEPT ![n] = field]
  <2>1. PICK r, k, v : r = sent[n] /\ k = Last(sent).key /\ v = Last(sent).value /\ r = [key |-> k, value |-> v]
    BY <1>a, <1>5 DEF Field, Last
  <2>2. [r EXCEPT !.key = r.key \o piece] = [key |-> k \o piece, value |-> v]
    <3>1. r.key = k
      BY <2>1
    <3>2. \A x : [r EXCEPT !.key = x] = [key |-> x, value |-> v]
      BY <2>1
    <3>3. QED
      BY <3>1, <3>2
  <2>3. sent' = [sent EXCEPT ![n] = [r EXCEPT !.key = r.key \o piece]]
    BY <1>1, <2>1
  <2>4. QED
    BY <1>a, <2>1, <2>2, <2>3
<1>8. /\ sent' \in Seq(Field) /\ Len(sent') = Len(sent) /\ Front(sent') = Front(sent) /\ Last(sent') = field
      /\ sent' # <<>>
  <2>1. PICK s : s = sent /\ s \in Seq(Field) /\ s # <<>>
    BY <1>2, <1>4
  <2>2. /\ [s EXCEPT ![Len(s)] = field] \in Seq(Field) /\ Len([s EXCEPT ![Len(s)] = field]) = Len(s)
        /\ Front([s EXCEPT ![Len(s)] = field]) = Front(s)
        /\ Last([s EXCEPT ![Len(s)] = field]) = field
    BY <1>6, <2>1, Fronts
  <2>3. sent' = [s EXCEPT ![Len(s)] = field]
    BY <1>a, <1>7, <2>1
  <2>4. Len(sent') # 0
    BY <2>1, <2>2, <2>3
  <2>5. QED
    BY <2>1, <2>2, <2>3, <2>4
<1>9. ASSUME NEW locals \in Locals, Matches(locals)
      PROVE  Handled(locals, message) \in Locals /\ Matches(Handled(locals, message))'
  <2>1. PICK v, s : /\ v = locals.value /\ s = locals.items /\ v \in Texts /\ s \in Seq(Field)
                    /\ Handled(locals, message) = [name |-> locals.name \o piece, value |-> v, items |-> s]
    <3>1. /\ Handled(locals, message) =
               [name |-> locals.name \o message.data, value |-> locals.value, items |-> locals.items]
          /\ locals.value \in Texts /\ locals.items \in Seq(Field)
      BY <1>3, <1>9, HandledAs
    <3>2. QED
      BY <1>3, <3>1
  <2>2. s = Front(sent) /\ locals.name = Last(sent).key /\ v = Last(sent).value
    BY <1>1, <1>9, <2>1 DEF Matches
  <2>3. PICK new : new = [name |-> field.key, value |-> field.value, items |-> s]
    OBVIOUS
  <2>4. Handled(locals, message) = new /\ new \in Locals
    BY <1>6, <2>1, <2>2, <2>3 DEF Locals, Field
  <2>5. Matches(new)'
    BY <1>1, <1>8, <2>2, <2>3 DEF Matches
  <2>6. QED
    BY <2>4, <2>5
<1>10. QED
  BY <1>1, <1>2, <1>3, <1>8, <1>9, EncodedTypes, Noted

\* A piece of a value is noted, and sent.
LEMMA FieldDataStep ==
  ASSUME EncodedInv, NEW piece \in Pieces, FieldData(piece)
  PROVE  EncodedInv'
<1>a. PICK n, field, message : /\ n = Len(sent) /\ message = [type |-> "data", data |-> piece]
                               /\ field = [key |-> Last(sent).key, value |-> Last(sent).value \o piece]
  OBVIOUS
<1>1. /\ phase = "parsing" /\ parser = "value" /\ Len(Last(sent).value) + Len(piece) <= MaxLength
      /\ parser' = parser /\ sent' = [sent EXCEPT ![n].value = @ \o piece]
      /\ messages' = Append(messages, message)
      /\ phase' = phase /\ parse' = parse
  BY <1>a DEF FieldData, Notes
<1>2. sent \in Seq(Field) /\ Len(sent) \in 0..MaxFields
  BY EncodedTypes
<1>3. piece \in Texts /\ message \in Message /\ message.type = "data" /\ message.data = piece
  BY <1>a DEF Pieces, Message
<1>4. sent # <<>>
  BY <1>1 DEF EncodedInv, Leads, Matches
<1>5. Last(sent) \in Field /\ Last(sent).key \in Texts /\ Last(sent).value \in Texts
  <2>1. Last(sent) \in Field
    BY <1>2, <1>4 DEF Last
  <2>2. QED
    BY <2>1 DEF Field
<1>6. field \in Field /\ field.key = Last(sent).key /\ field.value = Last(sent).value \o piece
  <2>1. Last(sent).value \o piece \in Texts
    BY <1>1, <1>3, <1>5, TextsBounded
  <2>2. QED
    BY <1>a, <1>5, <2>1 DEF Field
<1>7. sent' = [sent EXCEPT ![n] = field]
  <2>1. PICK r, k, v : r = sent[n] /\ k = Last(sent).key /\ v = Last(sent).value /\ r = [key |-> k, value |-> v]
    BY <1>a, <1>5 DEF Field, Last
  <2>2. [r EXCEPT !.value = r.value \o piece] = [key |-> k, value |-> v \o piece]
    <3>1. r.value = v
      BY <2>1
    <3>2. \A x : [r EXCEPT !.value = x] = [key |-> k, value |-> x]
      BY <2>1
    <3>3. QED
      BY <3>1, <3>2
  <2>3. sent' = [sent EXCEPT ![n] = [r EXCEPT !.value = r.value \o piece]]
    BY <1>1, <2>1
  <2>4. QED
    BY <1>a, <2>1, <2>2, <2>3
<1>8. /\ sent' \in Seq(Field) /\ Len(sent') = Len(sent) /\ Front(sent') = Front(sent) /\ Last(sent') = field
      /\ sent' # <<>>
  <2>1. PICK s : s = sent /\ s \in Seq(Field) /\ s # <<>>
    BY <1>2, <1>4
  <2>2. /\ [s EXCEPT ![Len(s)] = field] \in Seq(Field) /\ Len([s EXCEPT ![Len(s)] = field]) = Len(s)
        /\ Front([s EXCEPT ![Len(s)] = field]) = Front(s)
        /\ Last([s EXCEPT ![Len(s)] = field]) = field
    BY <1>6, <2>1, Fronts
  <2>3. sent' = [s EXCEPT ![Len(s)] = field]
    BY <1>a, <1>7, <2>1
  <2>4. Len(sent') # 0
    BY <2>1, <2>2, <2>3
  <2>5. QED
    BY <2>1, <2>2, <2>3, <2>4
<1>9. ASSUME NEW locals \in Locals, Matches(locals)
      PROVE  Handled(locals, message) \in Locals /\ Matches(Handled(locals, message))'
  <2>1. PICK n2, s : /\ n2 = locals.name /\ s = locals.items /\ n2 \in Texts /\ s \in Seq(Field)
                     /\ Handled(locals, message) = [name |-> n2, value |-> locals.value \o piece, items |-> s]
    <3>1. /\ Handled(locals, message) =
               [name |-> locals.name, value |-> locals.value \o message.data, items |-> locals.items]
          /\ locals.name \in Texts /\ locals.items \in Seq(Field)
      BY <1>3, <1>9, HandledAs
    <3>2. QED
      BY <1>3, <3>1
  <2>2. s = Front(sent) /\ n2 = Last(sent).key /\ locals.value = Last(sent).value
    BY <1>1, <1>9, <2>1 DEF Matches
  <2>3. PICK new : new = [name |-> field.key, value |-> field.value, items |-> s]
    OBVIOUS
  <2>4. Handled(locals, message) = new /\ new \in Locals
    BY <1>6, <2>1, <2>2, <2>3 DEF Locals, Field
  <2>5. Matches(new)'
    BY <1>1, <1>8, <2>2, <2>3 DEF Matches
  <2>6. QED
    BY <2>4, <2>5
<1>10. QED
  BY <1>1, <1>2, <1>3, <1>8, <1>9, EncodedTypes, Noted

\* A field that ends is an item from then on.
LEMMA Ended ==
  ASSUME EncodedInv, NEW locals \in Locals, Matches(locals), parser # "between", NEW message,
         message.type = "end"
  PROVE  Handled(locals, message) \in Locals /\ Handled(locals, message).items = sent
<1>1. /\ Handled(locals, message) \in Locals
      /\ Handled(locals, message).items =
           Append(locals.items, [key |-> locals.name, value |-> locals.value])
  <2>1. /\ Handled(locals, message) \in Locals
        /\ Handled(locals, message) =
             [name |-> locals.name, value |-> locals.value,
              items |-> Append(locals.items, [key |-> locals.name, value |-> locals.value])]
    BY HandledAs
  <2>2. QED
    BY <2>1
<1>2. sent # <<>> /\ Last(sent) \in Field /\ sent \in Seq(Field)
  BY LastField, EncodedTypes
<1>3. locals.items = Front(sent) /\ Last(sent) = [key |-> locals.name, value |-> locals.value]
  <2>1. Last(sent) = [key |-> Last(sent).key, value |-> Last(sent).value]
    BY <1>2 DEF Field
  <2>2. QED
    BY <2>1 DEF Matches
<1>4. sent = Append(Front(sent), Last(sent))
  BY <1>2, Fronts
<1>5. QED
  BY <1>1, <1>3, <1>4

\* A field ends.
LEMMA FieldEndStep ==
  ASSUME EncodedInv, FieldEnd
  PROVE  EncodedInv'
<1>a. PICK message : message = [type |-> "end", data |-> <<>>]
  OBVIOUS
<1>1. /\ phase = "parsing" /\ parser # "between" /\ parser' = "between" /\ messages' = Append(messages, message)
      /\ phase' = phase /\ sent' = sent /\ parse' = parse
  BY <1>a DEF FieldEnd, Notes
<1>2. sent \in Seq(Field) /\ Len(sent) \in 0..MaxFields
  BY EncodedTypes
<1>3. message \in Message /\ message.type = "end"
  BY <1>a, TextsBounded DEF Message
<1>4. ASSUME NEW locals \in Locals, Matches(locals)
      PROVE  Handled(locals, message) \in Locals /\ Matches(Handled(locals, message))'
  <2>1. PICK new : new = Handled(locals, message) /\ new \in Locals /\ new.items = sent
    BY <1>1, <1>3, <1>4, Ended
  <2>2. Matches(new)'
    BY <1>1, <2>1 DEF Matches
  <2>3. QED
    BY <2>1, <2>2
<1>5. QED
  BY <1>1, <1>2, <1>3, <1>4, Noted

\* The first message is handled: the others lead on.
LEMMA HandleMessageStep ==
  ASSUME EncodedInv, HandleMessage
  PROVE  EncodedInv'
<1>1. /\ phase = "handling" /\ messages # <<>> /\ parse' = Handled(parse, Head(messages))
      /\ messages' = Tail(messages) /\ phase' = phase /\ parser' = parser /\ sent' = sent
  BY DEF HandleMessage
<1>2. /\ messages \in Seq(Message) /\ DOMAIN messages = 1..Len(messages)
      /\ parser \in {"between", "name", "value"} /\ sent \in Seq(Field) /\ Len(sent) \in 0..MaxFields
  BY EncodedTypes
<1>3. PICK k : k \in Nat /\ Len(messages) = k + 1 /\ k + 1 >= 1
  <2>1. Len(messages) \in Nat /\ Len(messages) # 0
    BY <1>1, <1>2
  <2>2. PICK k : k = Len(messages) - 1
    OBVIOUS
  <2>3. k \in Nat /\ Len(messages) = k + 1 /\ k + 1 >= 1
    BY <2>1, <2>2
  <2>4. QED
    BY <2>3
<1>4. /\ Head(messages) = messages[1] /\ messages' \in Seq(Message) /\ Len(messages') = k
      /\ \A i \in 1..k : messages'[i] = messages[i + 1]
      /\ DOMAIN messages' = 1..k
  <2>1. /\ Head(messages) = messages[1] /\ Tail(messages) \in Seq(Message) /\ Len(Tail(messages)) = Len(messages) - 1
        /\ \A i \in 1..Len(Tail(messages)) : Tail(messages)[i] = messages[i + 1]
    BY <1>1, <1>2, HeadTailProperties
  <2>2. Len(messages') = k
    BY <1>1, <1>3, <2>1
  <2>3. DOMAIN messages' = 1..Len(messages')
    BY <1>1, <2>1
  <2>4. QED
    BY <1>1, <2>1, <2>2, <2>3
<1>5. PICK after \in [0..(k + 1) -> Locals] :
        /\ after[0] = parse /\ \A i \in 1..(k + 1) : after[i] = Handled(after[i - 1], messages[i])
        /\ Matches(after[k + 1])
  BY <1>2, <1>3 DEF EncodedInv, Leads
<1> DEFINE left == [i \in 0..k |-> after[i + 1]]
<1>6. left \in [0..k -> Locals] /\ \A i \in 0..k : left[i] = after[i + 1]
  BY <1>3, <1>5
<1> HIDE DEF left
<1>7. left[0] = parse' /\ parse' \in Locals
  <2>1. 1 \in 1..(k + 1) /\ 1 - 1 = 0 /\ 0 \in 0..k /\ 0 + 1 = 1 /\ 1 \in 0..(k + 1)
    BY <1>3
  <2>2. after[1] = Handled(after[0], messages[1]) /\ left[0] = after[1]
    BY <1>5, <1>6, <2>1
  <2>3. left[0] \in Locals
    BY <1>6, <2>1
  <2>4. QED
    BY <1>1, <1>4, <1>5, <2>2, <2>3
<1>8. \A i \in 1..k : left[i] = Handled(left[i - 1], messages'[i])
  <2>1. TAKE i \in 1..k
  <2>2. i \in 0..k /\ i - 1 \in 0..k /\ i + 1 \in 1..(k + 1) /\ (i - 1) + 1 = i /\ (i + 1) - 1 = i
    BY <1>3
  <2>3. after[i + 1] = Handled(after[(i + 1) - 1], messages[i + 1])
    BY <1>5, <2>2
  <2>4. left[i] = after[i + 1] /\ left[i - 1] = after[i] /\ messages'[i] = messages[i + 1]
    BY <1>4, <1>6, <2>2
  <2>5. QED
    BY <2>2, <2>3, <2>4
<1>9. Matches(left[k])'
  <2>1. PICK new : new = after[k + 1] /\ left[k] = new
    BY <1>3, <1>6
  <2>2. QED
    BY <1>1, <1>5, <2>1 DEF Matches
<1>10. EncodedTypeOK'
  BY <1>1, <1>2, <1>4, <1>7, EncodedTyped
<1>11. Leads(left)'
  BY <1>4, <1>7, <1>8, <1>9 DEF Leads
<1>12. QED
  BY <1>1, <1>4, <1>6, <1>7, <1>10, <1>11 DEF EncodedInv

\* The steps of the parser and of parse() that leave the messages and the fields as they are.
LEMMA EncodedSilent ==
  ASSUME EncodedInv, FieldEquals \/ EncodedChunk \/ EncodedChunkEnd \/ MessagesDone \/ EncodedDisconnect
  PROVE  EncodedInv'
<1>1. /\ UNCHANGED <<sent, messages, parse>>
      /\ \/ parser' = parser
         \/ parser = "name" /\ parser' = "value"
      /\ phase' \in {"stream", "parsing", "handling", "gone"}
      /\ phase' \notin {"parsing", "handling"} => messages = <<>>
  BY DEF EncodedInv, FieldEquals, EncodedChunk, EncodedChunkEnd, MessagesDone, EncodedDisconnect
<1>2. EncodedTypeOK' /\ parse' \in Locals
  BY <1>1, EncodedTypes, EncodedTyped
<1>3. \A locals : Matches(locals) => Matches(locals)'
  BY <1>1 DEF Matches
<1>4. PICK after \in [0..Len(messages) -> Locals] : Leads(after)
  BY DEF EncodedInv
<1>5. PICK new : new = after[Len(messages)] /\ Matches(new)'
  BY <1>3, <1>4 DEF Leads
<1>6. Leads(after)'
  BY <1>1, <1>4, <1>5 DEF Leads
<1>7. QED
  BY <1>1, <1>2, <1>4, <1>6 DEF EncodedInv

\* When no message is left, parse() has what the parser has seen.
LEMMA Settled ==
  ASSUME EncodedInv, messages = <<>>
  PROVE  Matches(parse)
<1>1. PICK after : Leads(after)
  BY DEF EncodedInv
<1>2. Len(messages) = 0
  OBVIOUS
<1>3. QED
  BY <1>1, <1>2 DEF Leads

\* Nothing is noted, and parse() has all fields.
LEMMA Rests ==
  ASSUME messages' = <<>>, phase' \in {"parsed", "copied", "stream"}, parser' = "between",
         sent' \in Seq(Field), Len(sent') \in 0..MaxFields, parse' \in Locals, parse'.items = sent'
  PROVE  EncodedInv'
<1>1. messages' \in Seq(Message) /\ Len(messages') = 0 /\ DOMAIN messages' = {}
  OBVIOUS
<1>2. EncodedTypeOK'
  BY <1>1, EncodedTyped
<1> DEFINE after == [i \in 0..0 |-> parse']
<1>3. PICK f : f \in [0..0 -> Locals] /\ f[0] = parse'
  <2>1. after \in [0..0 -> Locals] /\ after[0] = parse'
    OBVIOUS
  <2>2. QED
    BY <2>1
<1>4. Leads(f)'
  BY <1>1, <1>3 DEF Leads, Matches
<1>5. QED
  BY <1>1, <1>2, <1>3, <1>4 DEF EncodedInv

\* The field that has not ended is ended or forgotten.
LEMMA FinalizeStep ==
  ASSUME EncodedInv, Finalize
  PROVE  EncodedInv'
<1>1. /\ phase = "stream" /\ phase' = "parsed" /\ parser' = "between" /\ messages' = messages
      /\ parse' = IF parser = "value" THEN Handled(parse, [type |-> "end"]) ELSE parse
      /\ sent' = IF parser = "name" THEN Front(sent) ELSE sent
  BY DEF Finalize
<1>2. messages = <<>> /\ Matches(parse)
  BY <1>1, Settled DEF EncodedInv
<1>3. /\ parse \in Locals /\ sent \in Seq(Field) /\ Len(sent) \in 0..MaxFields /\ MaxFields \in Nat
      /\ parser \in {"between", "name", "value"}
  BY EncodedTypes
<1>4. CASE parser = "between"
  BY <1>1, <1>2, <1>3, <1>4, Rests DEF Matches
<1>5. CASE parser = "name"
  <2>1. parse' = parse /\ sent' = Front(sent) /\ sent # <<>> /\ parse.items = Front(sent)
    BY <1>1, <1>2, <1>5 DEF Matches
  <2>2. Front(sent) \in Seq(Field) /\ Len(Front(sent)) = Len(sent) - 1
    <3>1. Last(sent) \in Field
      BY <1>2, <1>5, LastField
    <3>2. QED
      BY <1>3, <2>1, <3>1, Fronts
  <2>3. Len(sent') \in 0..MaxFields
    BY <1>3, <2>1, <2>2
  <2>4. QED
    BY <1>1, <1>2, <1>3, <2>1, <2>2, <2>3, Rests
<1>6. CASE parser = "value"
  <2>1. PICK message : message = [type |-> "end"]
    OBVIOUS
  <2>2. message = [type |-> "end"] /\ message.type = "end"
    BY <2>1
  <2>3. Handled(parse, message) \in Locals /\ Handled(parse, message).items = sent
    BY <1>2, <1>3, <1>6, <2>2, Ended
  <2>4. parse' = Handled(parse, message) /\ sent' = sent
    BY <1>1, <1>6, <2>2
  <2>5. QED
    BY <1>1, <1>2, <1>3, <2>3, <2>4, Rests
<1>7. QED
  BY <1>3, <1>4, <1>5, <1>6

\* The invariant holds of a form that has not begun,
LEMMA EncodedStart ==
  ASSUME EncodedInit
  PROVE  EncodedInv
<1>1. /\ phase = "stream" /\ parser = "between" /\ sent = <<>> /\ messages = <<>>
      /\ parse = [name |-> <<>>, value |-> <<>>, items |-> <<>>]
  BY DEF EncodedInit
<1>2. parse \in Locals /\ <<>> \in Texts /\ <<>> \in Seq(Field)
  <2>1. <<>> \in Texts /\ <<>> \in Seq(Field)
    BY TextsBounded
  <2>2. QED
    BY <1>1, <2>1 DEF Locals
<1>3. <<>> \in BoundedSeq(Field, MaxFields)
  <2>1. \A s : s \in BoundedSeq(Field, MaxFields) <=> s \in Seq(Field) /\ Len(s) \in 0..MaxFields
    BY Bounded, FieldsAssumption
  <2>2. Len(<<>>) = 0 /\ 0 \in 0..MaxFields
    BY FieldsAssumption
  <2>3. QED
    BY <1>2, <2>1, <2>2
<1>4. EncodedTypeOK
  <2>1. parse.name \in Texts /\ parse.value \in Texts /\ parse.items \in Seq(Field)
    BY <1>1, <1>2
  <2>2. messages \in Seq([type : {"start", "name", "data", "end"}, data : Texts])
    BY <1>1
  <2>3. QED
    BY <1>1, <1>3, <2>1, <2>2 DEF EncodedTypeOK
<1>5. PICK f : f \in [0..0 -> Locals] /\ f[0] = parse
  <2> DEFINE after == [i \in 0..0 |-> parse]
  <2>1. after \in [0..0 -> Locals] /\ after[0] = parse
    BY <1>2
  <2>2. QED
    BY <2>1
<1>6. Len(messages) = 0 /\ DOMAIN messages = {}
  BY <1>1
<1>7. Leads(f)
  BY <1>1, <1>5, <1>6 DEF Leads, Matches
<1>8. QED
  BY <1>1, <1>2, <1>4, <1>5, <1>6, <1>7 DEF EncodedInv

\* and each step keeps it,
LEMMA EncodedStep ==
  ASSUME EncodedInv, EncodedNext
  PROVE  EncodedInv'
<1>1. CASE \E piece \in Pieces : FieldName(piece)
  BY <1>1, FieldNameStep
<1>2. CASE \E piece \in Pieces : FieldData(piece)
  BY <1>2, FieldDataStep
<1>3. QED
  BY <1>1, <1>2, FieldStartStep, FieldEndStep, HandleMessageStep, FinalizeStep, EncodedSilent DEF EncodedNext

\* and it says what parse() has.
LEMMA EncodedHolds ==
  ASSUME EncodedInv
  PROVE  EncodedTypeOK /\ EncodedIntact
<1>1. EncodedTypeOK /\ (phase \in {"stream", "parsed"} => messages = <<>>)
  BY DEF EncodedInv
<1>2. ASSUME phase \in {"stream", "parsed"}
      PROVE  IF parser = "between" THEN parse.items = sent
             ELSE /\ parse.items = Front(sent)
                  /\ parse.name = Last(sent).key /\ parse.value = Last(sent).value
  BY <1>1, <1>2, Settled DEF Matches
<1>3. QED
  BY <1>1, <1>2 DEF EncodedIntact

\* Nothing happens to it when nothing happens.
LEMMA EncodedStutters ==
  ASSUME EncodedInv, UNCHANGED encodedVars
  PROVE  EncodedInv'
<1>1. UNCHANGED <<phase, parser, sent, messages, parse>>
  BY DEF encodedVars
<1>2. QED
  BY <1>1 DEF EncodedInv, EncodedTypeOK, Leads, Matches

-----------------------------------------------------------------------------
(* The MultiDict.  Added does the work: an insertion is a set of positions *)
(* that are kept and a sequence that follows them.  The last entry of a    *)
(* key is a CHOOSE; that it exists is the well-founded order of the        *)
(* natural numbers.                                                        *)

\* A set of natural numbers that is not empty has a smallest element.
LEMMA Smallest ==
  ASSUME NEW S \in SUBSET Nat, S # {}
  PROVE  \E i \in S : \A j \in S : i <= j
<1>1. PICK i \in S : \A j \in S : ~ (<<j, i>> \in OpToRel(<, Nat))
  BY WFMin, NatLessThanWellFounded
<1>2. \A j \in S : ~ (j < i)
  BY <1>1 DEF OpToRel
<1>3. \A j \in S : i <= j
  BY <1>2, SMT
<1> QED BY <1>3

\* And a largest one when it is bounded.
LEMMA Largest ==
  ASSUME NEW n \in Nat, NEW S \in SUBSET (1..n), S # {}
  PROVE  \E i \in S : \A j \in S : j <= i
<1> DEFINE T == {n - i : i \in S}
<1>1. T \in SUBSET Nat
  OBVIOUS
<1>2. PICK i0 \in S : TRUE
  OBVIOUS
<1>3. n - i0 \in T
  BY <1>2
<1>4. PICK t \in T : \A u \in T : t <= u
  <2> HIDE DEF T
  <2> QED BY <1>1, <1>3, Smallest
<1>5. PICK i \in S : t = n - i
  BY <1>4
<1>6. \A j \in S : n - i <= n - j
  BY <1>4, <1>5
<1>7. \A j \in S : j <= i
  BY <1>6
<1> QED BY <1>7

\* The first and the last entry of a key exist, and are entries of that key.
LEMMA Ends ==
  ASSUME NEW n \in Nat, NEW entries \in [1..n -> Entry], NEW k \in KeysOf(entries)
  PROVE  /\ k \in Keys
         /\ LastOf(entries, k) \in Of(entries, k)
         /\ \A j \in Of(entries, k) : j <= LastOf(entries, k)
         /\ FirstOf(entries, k) \in Of(entries, k)
         /\ \A j \in Of(entries, k) : FirstOf(entries, k) <= j
         /\ Of(entries, k) \in SUBSET (1..n)
<1>1. Of(entries, k) \in SUBSET (1..n) /\ Of(entries, k) # {} /\ k \in Keys
  BY DEF Of, KeysOf, Entry
<1>2. \E i \in Of(entries, k) : \A j \in Of(entries, k) : j <= i
  BY <1>1, Largest
<1>3. Of(entries, k) \in SUBSET Nat
  BY <1>1
<1>4. \E i \in Of(entries, k) : \A j \in Of(entries, k) : i <= j
  BY <1>1, <1>3, Smallest
<1> QED BY <1>1, <1>2, <1>4 DEF LastOf, FirstOf

\* What a call is given is a sequence, of the length that Len tells.
LEMMA Lengths ==
  /\ \A S : \A s \in Some(S) : Len(s) \in Nat \ {0} /\ s \in [1..Len(s) -> S]
  /\ <<>> \in [1..0 -> Entry] /\ Len(<<>>) = 0
<1>1. ASSUME NEW S, NEW s \in Some(S)
      PROVE  Len(s) \in Nat \ {0} /\ s \in [1..Len(s) -> S]
  <2>1. PICK n \in 1..MaxAtOnce : s \in [1..n -> S]
    BY DEF Some
  <2>2. n \in Nat \ {0}
    BY <2>1, EntriesAssumption
  <2>3. s \in Seq(S) /\ Len(s) = n
    BY <2>1, <2>2
  <2> QED BY <2>1, <2>2, <2>3
<1>2. <<>> \in [1..0 -> Entry] /\ Len(<<>>) = 0
  OBVIOUS
<1> QED BY <1>1, <1>2

\* The step that all insertions are made of: the entries of the new keys are removed or stay,
\* the new entries follow, and the dictionary has the last value of each.
LEMMA Added ==
  ASSUME DictTypeOK, Agrees, KeysOrdered,
         NEW n \in Nat, NEW new \in [1..n -> Entry],
         NEW kept \in SUBSET DOMAIN list,
         \A i \in DOMAIN list \ kept : list[i].key \in KeysOf(new),
         DOMAIN list' = kept \cup (top + 1)..(top + n),
         \A i \in kept : list'[i] = list[i],
         \A i \in 1..n : list'[top + i] = new[i],
         top' = top + n,
         DOMAIN dict' = DOMAIN dict \cup KeysOf(new),
         \A k \in DOMAIN dict \ KeysOf(new) : dict'[k] = dict[k],
         \A k \in KeysOf(new) :
            dict'[k] = [value |-> new[LastOf(new, k)].value,
                        since |-> IF k \in DOMAIN dict THEN dict[k].since ELSE top + FirstOf(new, k)]
  PROVE  DictTypeOK' /\ Agrees' /\ KeysOrdered'
<1>1. /\ top \in Nat
      /\ DOMAIN list \subseteq 1..top
      /\ \A i \in DOMAIN list : list[i] \in Entry
      /\ DOMAIN dict \subseteq Keys
      /\ \A k \in DOMAIN dict : dict[k] \in [value : Values, since : 1..top]
  BY DEF DictTypeOK
<1>2. \A i \in DOMAIN list' : i \in kept \/ (i - top \in 1..n /\ list'[i] = new[i - top])
  <2> SUFFICES ASSUME NEW i \in (top + 1)..(top + n)
               PROVE  i - top \in 1..n /\ list'[i] = new[i - top]
    OBVIOUS
  <2>1. i - top \in 1..n /\ top + (i - top) = i
    BY <1>1
  <2> QED BY <2>1
<1>3. \A k \in KeysOf(new) :
        /\ k \in Keys
        /\ LastOf(new, k) \in Of(new, k) /\ LastOf(new, k) \in 1..n
        /\ \A j \in Of(new, k) : j <= LastOf(new, k)
        /\ FirstOf(new, k) \in Of(new, k) /\ FirstOf(new, k) \in 1..n
  BY Ends
<1>4. \A i \in 1..n : new[i] \in Entry /\ new[i].key \in KeysOf(new)
  BY DEF KeysOf
<1>5. DictTypeOK'
  <2>1. top' \in Nat /\ 1..top \subseteq 1..top'
    BY <1>1
  <2>2. DOMAIN list' \subseteq 1..top'
    BY <1>1
  <2>3. \A i \in DOMAIN list' : list'[i] \in Entry
    BY <1>1, <1>2, <1>4
  <2>4. DOMAIN dict' \subseteq Keys
    BY <1>1, <1>3
  <2>5. \A k \in DOMAIN dict' : dict'[k] \in [value : Values, since : 1..top']
    <3> SUFFICES ASSUME NEW k \in DOMAIN dict'
                 PROVE  dict'[k] \in [value : Values, since : 1..top']
      OBVIOUS
    <3>1. CASE k \notin KeysOf(new)
      BY <1>1, <2>1, <3>1
    <3>2. CASE k \in KeysOf(new)
      <4>1. new[LastOf(new, k)].value \in Values
        BY <1>3, <1>4, <3>2 DEF Entry
      <4>2. CASE k \in DOMAIN dict
        <5>1. dict[k].since \in 1..top'
          BY <1>1, <2>1, <4>2
        <5> QED BY <3>2, <4>1, <4>2, <5>1
      <4>3. CASE k \notin DOMAIN dict
        <5>1. top + FirstOf(new, k) \in 1..top'
          BY <1>1, <1>3, <3>2
        <5> QED BY <3>2, <4>1, <4>3, <5>1
      <4> QED BY <4>2, <4>3
    <3> QED BY <3>1, <3>2
  <2> QED BY <2>1, <2>2, <2>3, <2>4, <2>5 DEF DictTypeOK
<1>6. DOMAIN dict' = KeysOf(list')
  <2>1. ASSUME NEW k \in KeysOf(list') PROVE k \in DOMAIN dict'
    <3>1. PICK i \in DOMAIN list' : k = list'[i].key
      BY DEF KeysOf
    <3>2. CASE i \in kept
      <4>1. k \in KeysOf(list)
        BY <3>1, <3>2 DEF KeysOf
      <4> QED BY <4>1 DEF Agrees
    <3>3. CASE i \notin kept
      <4>1. i - top \in 1..n /\ list'[i] = new[i - top]
        BY <1>2, <3>3
      <4> QED BY <1>4, <3>1, <4>1
    <3> QED BY <3>2, <3>3
  <2>2. ASSUME NEW k \in KeysOf(new) PROVE k \in KeysOf(list')
    <3>1. PICK i \in 1..n : k = new[i].key
      BY DEF KeysOf
    <3>2. top + i \in DOMAIN list' /\ list'[top + i].key = k
      BY <1>1, <3>1
    <3> QED BY <3>2 DEF KeysOf
  <2>3. ASSUME NEW k \in DOMAIN dict, k \notin KeysOf(new) PROVE k \in KeysOf(list')
    <3>1. PICK i \in DOMAIN list : k = list[i].key
      BY DEF Agrees, KeysOf
    <3>2. i \in kept
      BY <2>3, <3>1
    <3> QED BY <3>1, <3>2 DEF KeysOf
  <2> QED BY <2>1, <2>2, <2>3
<1>7. ASSUME NEW k \in DOMAIN dict'
      PROVE  \E i \in Of(list', k) :
               /\ list'[i].value = dict'[k].value
               /\ \A j \in Of(list', k) : j <= i
  <2>1. CASE k \notin KeysOf(new)
    <3>1. PICK i \in Of(list, k) : /\ list[i].value = dict[k].value
                                   /\ \A j \in Of(list, k) : j <= i
      BY <1>6, <2>1 DEF Agrees
    <3>2. i \in kept
      BY <2>1, <3>1 DEF Of
    <3>3. i \in Of(list', k) /\ list'[i].value = dict'[k].value
      BY <2>1, <3>1, <3>2 DEF Of
    <3>4. ASSUME NEW j \in Of(list', k) PROVE j <= i
      <4>1. j \in DOMAIN list' /\ list'[j].key = k
        BY DEF Of
      <4>2. j \in kept
        BY <1>2, <1>4, <2>1, <4>1
      <4>3. j \in Of(list, k)
        BY <4>1, <4>2 DEF Of
      <4> QED BY <3>1, <4>3
    <3> QED BY <3>3, <3>4
  <2>2. CASE k \in KeysOf(new)
    <3> DEFINE l == LastOf(new, k)
    <3>1. l \in 1..n /\ new[l].key = k /\ \A j \in Of(new, k) : j <= l
      BY <1>3, <2>2 DEF Of
    <3> HIDE DEF l
    <3>2. top + l \in Of(list', k)
      BY <1>1, <3>1 DEF Of
    <3>3. list'[top + l].value = dict'[k].value
      BY <2>2, <3>1 DEF l
    <3>4. ASSUME NEW j \in Of(list', k) PROVE j <= top + l
      <4>1. j \in DOMAIN list' /\ list'[j].key = k
        BY DEF Of
      <4>2. CASE j \in kept
        BY <1>1, <3>1, <4>2
      <4>3. CASE j \notin kept
        <5>1. j - top \in 1..n /\ new[j - top].key = k
          BY <1>2, <4>1, <4>3
        <5>2. j - top \in Of(new, k)
          BY <5>1 DEF Of
        <5>3. j - top <= l
          BY <3>1, <5>2
        <5>4. j \in Nat
          BY <1>1, <4>1
        <5> QED BY <1>1, <3>1, <5>3, <5>4
      <4> QED BY <4>2, <4>3
    <3> QED BY <3>2, <3>3, <3>4
  <2> QED BY <2>1, <2>2
<1>8. KeysOrdered'
  <2> SUFFICES ASSUME NEW k \in DOMAIN dict', NEW l \in DOMAIN dict',
                      dict'[k].since = dict'[l].since
               PROVE  k = l
    BY DEF KeysOrdered
  <2>1. \A x \in DOMAIN dict : dict'[x].since = dict[x].since /\ dict[x].since \in 1..top
    BY <1>1
  <2>2. \A x \in DOMAIN dict' \ DOMAIN dict :
           x \in KeysOf(new) /\ dict'[x].since = top + FirstOf(new, x)
    OBVIOUS
  <2>3. \A x \in KeysOf(new) : FirstOf(new, x) \in 1..n /\ new[FirstOf(new, x)].key = x
    BY <1>3 DEF Of
  <2>4. CASE k \in DOMAIN dict /\ l \in DOMAIN dict
    BY <2>1, <2>4 DEF KeysOrdered
  <2>5. CASE k \notin DOMAIN dict /\ l \notin DOMAIN dict
    <3>1. FirstOf(new, k) = FirstOf(new, l)
      BY <1>1, <2>2, <2>3, <2>5
    <3> QED BY <2>2, <2>3, <2>5, <3>1
  <2>6. CASE (k \in DOMAIN dict) # (l \in DOMAIN dict)
    BY <1>1, <2>1, <2>2, <2>3, <2>6
  <2> QED BY <2>4, <2>5, <2>6
<1> QED BY <1>5, <1>6, <1>7, <1>8 DEF Agrees

\* pop() and what uses it: a key leaves both halves.
LEMMA Removed ==
  ASSUME DictTypeOK, Agrees, KeysOrdered, NEW key, Pop(key)
  PROVE  DictTypeOK' /\ Agrees' /\ KeysOrdered'
<1>1. /\ DOMAIN list' = {i \in DOMAIN list : list[i].key # key}
      /\ \A i \in DOMAIN list' : list'[i] = list[i]
      /\ DOMAIN dict' = DOMAIN dict \ {key}
      /\ \A k \in DOMAIN dict' : dict'[k] = dict[k]
      /\ top' = top
  BY DEF Pop, Without
<1>2. DictTypeOK'
  BY <1>1 DEF DictTypeOK
<1>3. DOMAIN dict' = KeysOf(list')
  BY <1>1 DEF Agrees, KeysOf
<1>4. ASSUME NEW k \in DOMAIN dict'
      PROVE  \E i \in Of(list', k) :
               /\ list'[i].value = dict'[k].value
               /\ \A j \in Of(list', k) : j <= i
  <2>1. Of(list', k) = Of(list, k)
    BY <1>1 DEF Of
  <2>2. PICK i \in Of(list, k) : /\ list[i].value = dict[k].value
                                 /\ \A j \in Of(list, k) : j <= i
    BY <1>1 DEF Agrees
  <2> QED BY <1>1, <2>1, <2>2 DEF Of
<1>5. KeysOrdered'
  BY <1>1 DEF KeysOrdered
<1> QED BY <1>2, <1>3, <1>4, <1>5 DEF Agrees

\* The entries of a setlist() have one key: the first is at 1, the last is the last.
LEMMA OneKey ==
  ASSUME NEW key \in Keys, NEW n \in Nat \ {0}, NEW values \in [1..n -> Values],
         NEW new \in [1..n -> Entry],
         \A i \in 1..n : new[i] = [key |-> key, value |-> values[i]]
  PROVE  /\ KeysOf(new) = {key}
         /\ LastOf(new, key) = n /\ FirstOf(new, key) = 1
         /\ new[LastOf(new, key)].value = values[n]
<1>1. KeysOf(new) = {key} /\ Of(new, key) = 1..n
  BY DEF KeysOf, Of
<1>2. /\ LastOf(new, key) \in 1..n /\ \A j \in 1..n : j <= LastOf(new, key)
      /\ FirstOf(new, key) \in 1..n /\ \A j \in 1..n : FirstOf(new, key) <= j
  BY <1>1, Ends
<1>3. LastOf(new, key) = n /\ FirstOf(new, key) = 1
  BY <1>2
<1> QED BY <1>1, <1>3

\* append(), and setdefault() of a key that is not there.
LEMMA Appended ==
  ASSUME DictTypeOK, Agrees, KeysOrdered, NEW key \in Keys, NEW value \in Values,
         dict' = Stored(key, value),
         list' = Followed(list, <<[key |-> key, value |-> value]>>),
         top' = top + 1
  PROVE  DictTypeOK' /\ Agrees' /\ KeysOrdered'
<1> DEFINE new == <<[key |-> key, value |-> value]>>
           values == <<value>>
           n == 1
           kept == DOMAIN list
<1>1. /\ new \in [1..n -> Entry] /\ Len(new) = n
      /\ \A i \in 1..n : new[i] = [key |-> key, value |-> values[i]]
      /\ values \in [1..n -> Values] /\ values[n] = value /\ n \in Nat \ {0}
  BY DEF Entry
<1>2. /\ KeysOf(new) = {key}
      /\ LastOf(new, key) = n /\ FirstOf(new, key) = 1
      /\ new[LastOf(new, key)].value = value
  <2> HIDE DEF new, values, n
  <2>1. /\ KeysOf(new) = {key}
        /\ LastOf(new, key) = n /\ FirstOf(new, key) = 1
        /\ new[LastOf(new, key)].value = values[n]
    BY <1>1, OneKey
  <2> QED BY <1>1, <2>1
<1>3. top' = top + n
  OBVIOUS
<1> HIDE DEF new, n, values
<1>4. top \in Nat /\ DOMAIN list \subseteq 1..top
  BY DEF DictTypeOK
<1>5. DOMAIN list' = kept \cup (top + 1)..(top + n)
  BY <1>1 DEF Followed, new, n
<1>6. \A i \in kept : list'[i] = list[i]
  BY <1>4 DEF Followed
<1>7. \A i \in 1..n : list'[top + i] = new[i]
  BY <1>1, <1>4 DEF Followed, new, n
<1>8. /\ DOMAIN dict' = DOMAIN dict \cup KeysOf(new)
      /\ \A k \in DOMAIN dict \ KeysOf(new) : dict'[k] = dict[k]
      /\ \A k \in KeysOf(new) :
            dict'[k] = [value |-> new[LastOf(new, k)].value,
                        since |-> IF k \in DOMAIN dict THEN dict[k].since ELSE top + FirstOf(new, k)]
  BY <1>2 DEF Stored, n
<1>9. kept \in SUBSET DOMAIN list /\ DOMAIN list \ kept = {}
  OBVIOUS
<1> HIDE DEF kept
<1> QED BY <1>1, <1>3, <1>5, <1>6, <1>7, <1>8, <1>9, Added, ZenonT(30)

\* setlist(): the values of one key are replaced.
LEMMA Listed ==
  ASSUME DictTypeOK, Agrees, KeysOrdered, NEW key \in Keys, NEW values \in Some(Values),
         SetList(key, values)
  PROVE  DictTypeOK' /\ Agrees' /\ KeysOrdered'
<1> DEFINE n == Len(values)
           new == [i \in DOMAIN values |-> [key |-> key, value |-> values[i]]]
           kept == {i \in DOMAIN list : list[i].key # key}
<1>1. n \in Nat \ {0} /\ values \in [1..n -> Values]
  BY Lengths
<1>2. /\ new \in [1..n -> Entry] /\ Len(new) = n
      /\ \A i \in 1..n : new[i] = [key |-> key, value |-> values[i]]
  <2>1. DOMAIN values = 1..n
    BY <1>1
  <2>2. new \in [1..n -> Entry]
    BY <1>1, <2>1 DEF Entry
  <2>3. new \in Seq(Entry) /\ Len(new) = n
    BY <1>1, <2>2
  <2> QED BY <2>1, <2>2, <2>3
<1>3. /\ KeysOf(new) = {key}
      /\ LastOf(new, key) = n /\ FirstOf(new, key) = 1
      /\ new[LastOf(new, key)].value = values[n]
  <2> HIDE DEF new, n
  <2> QED BY <1>1, <1>2, OneKey
<1>4. /\ list' = Followed(Without({key}), new)
      /\ dict' = Stored(key, values[n])
      /\ top' = top + n
  BY DEF SetList
<1>5. top \in Nat /\ DOMAIN list \subseteq 1..top
  BY DEF DictTypeOK
<1> HIDE DEF new, n
<1>6. DOMAIN list' = kept \cup (top + 1)..(top + n)
  BY <1>2, <1>4 DEF Followed, Without
<1>7. \A i \in kept : list'[i] = list[i]
  BY <1>4, <1>5 DEF Followed, Without
<1>8. \A i \in 1..n : list'[top + i] = new[i]
  BY <1>2, <1>4, <1>5, <1>1 DEF Followed
<1>9. /\ DOMAIN dict' = DOMAIN dict \cup KeysOf(new)
      /\ \A k \in DOMAIN dict \ KeysOf(new) : dict'[k] = dict[k]
      /\ \A k \in KeysOf(new) :
            dict'[k] = [value |-> new[LastOf(new, k)].value,
                        since |-> IF k \in DOMAIN dict THEN dict[k].since ELSE top + FirstOf(new, k)]
  BY <1>3, <1>4 DEF Stored
<1>10. \A i \in DOMAIN list \ kept : list[i].key \in KeysOf(new)
  BY <1>3
<1>11. kept \in SUBSET DOMAIN list
  OBVIOUS
<1> HIDE DEF kept
<1> QED BY <1>1, <1>2, <1>4, <1>6, <1>7, <1>8, <1>9, <1>10, <1>11, Added

\* update(): the values of all keys of the other are replaced.
LEMMA Updated ==
  ASSUME DictTypeOK, Agrees, KeysOrdered, NEW new \in Some(Entry), Update(new)
  PROVE  DictTypeOK' /\ Agrees' /\ KeysOrdered'
<1> DEFINE n == Len(new)
           kept == {i \in DOMAIN list : list[i].key \notin KeysOf(new)}
<1>1. n \in Nat \ {0} /\ new \in [1..n -> Entry]
  BY Lengths
<1> HIDE DEF n
<1>2. /\ DOMAIN DictOf(new) = KeysOf(new)
      /\ \A k \in KeysOf(new) : DictOf(new)[k] = [value |-> new[LastOf(new, k)].value,
                                                  since |-> FirstOf(new, k)]
  BY DEF DictOf
<1>3. /\ list' = Followed(Without(KeysOf(new)), new)
      /\ top' = top + n
  BY <1>2 DEF Update, n
<1>4. /\ DOMAIN dict' = DOMAIN dict \cup KeysOf(new)
      /\ \A k \in DOMAIN dict \ KeysOf(new) : dict'[k] = dict[k]
      /\ \A k \in KeysOf(new) :
            dict'[k] = [value |-> new[LastOf(new, k)].value,
                        since |-> IF k \in DOMAIN dict THEN dict[k].since ELSE top + FirstOf(new, k)]
  BY <1>2 DEF Update
<1>5. top \in Nat /\ DOMAIN list \subseteq 1..top
  BY DEF DictTypeOK
<1>6. DOMAIN list' = kept \cup (top + 1)..(top + n)
  BY <1>3 DEF Followed, Without, n
<1>7. \A i \in kept : list'[i] = list[i]
  BY <1>3, <1>5 DEF Followed, Without
<1>8. \A i \in 1..n : list'[top + i] = new[i]
  BY <1>1, <1>3, <1>5 DEF Followed, n
<1>9. kept \in SUBSET DOMAIN list /\ \A i \in DOMAIN list \ kept : list[i].key \in KeysOf(new)
  OBVIOUS
<1> HIDE DEF kept
<1> QED BY <1>1, <1>3, <1>4, <1>6, <1>7, <1>8, <1>9, Added

\* A MultiDict that was just made agrees.
LEMMA Made ==
  ASSUME NEW n \in Nat, NEW entries \in [1..n -> Entry],
         list = entries, dict = DictOf(entries), top = n
  PROVE  DictTypeOK /\ Agrees /\ KeysOrdered
<1>1. \A k \in KeysOf(list) :
        /\ k \in Keys
        /\ LastOf(list, k) \in Of(list, k)
        /\ \A j \in Of(list, k) : j <= LastOf(list, k)
        /\ FirstOf(list, k) \in Of(list, k)
        /\ Of(list, k) \in SUBSET (1..n)
  BY Ends
<1>2. /\ DOMAIN dict = KeysOf(list)
      /\ \A k \in DOMAIN dict : dict[k] = [value |-> list[LastOf(list, k)].value,
                                           since |-> FirstOf(list, k)]
  BY DEF DictOf
<1>3. \A i \in 1..n : list[i] \in Entry
  OBVIOUS
<1>4. \A k \in DOMAIN dict : dict[k] \in [value : Values, since : 1..top]
  <2> SUFFICES ASSUME NEW k \in DOMAIN dict
               PROVE  dict[k] \in [value : Values, since : 1..top]
    OBVIOUS
  <2>1. LastOf(list, k) \in 1..n /\ FirstOf(list, k) \in 1..n
    BY <1>1, <1>2
  <2>2. list[LastOf(list, k)].value \in Values
    BY <1>3, <2>1 DEF Entry
  <2> QED BY <1>2, <2>1, <2>2
<1>5. DictTypeOK
  BY <1>1, <1>2, <1>3, <1>4 DEF DictTypeOK
<1>6. Agrees
  <2> SUFFICES ASSUME NEW k \in DOMAIN dict
               PROVE  \E i \in Of(list, k) : /\ list[i].value = dict[k].value
                                             /\ \A j \in Of(list, k) : j <= i
    BY <1>2 DEF Agrees
  <2>1. LastOf(list, k) \in Of(list, k)
    BY <1>1, <1>2
  <2> QED BY <1>1, <1>2, <2>1
<1>7. KeysOrdered
  <2>1. \A k \in DOMAIN dict : list[dict[k].since].key = k
    BY <1>1, <1>2 DEF Of
  <2> QED BY <2>1 DEF KeysOrdered
<1> QED BY <1>5, <1>6, <1>7

\* A call keeps the two halves together.
LEMMA EditStep ==
  ASSUME DictAgrees, [Edit]_dictVars
  PROVE  DictAgrees'
<1> SUFFICES ASSUME DictTypeOK, Agrees, KeysOrdered, [Edit]_dictVars
             PROVE  DictTypeOK' /\ Agrees' /\ KeysOrdered'
  BY DEF DictAgrees
<1>1. ASSUME NEW key \in Keys, Pop(key)
      PROVE  DictTypeOK' /\ Agrees' /\ KeysOrdered'
  BY <1>1, Removed
<1>2. CASE PopItem
  BY <1>2, Removed DEF PopItem
<1>3. CASE Clear
  <2>1. DOMAIN list' = {} /\ DOMAIN dict' = {} /\ top' = top
    BY <1>3 DEF Clear
  <2>2. DictTypeOK'
    BY <2>1 DEF DictTypeOK
  <2>3. Agrees' /\ KeysOrdered'
    BY <2>1 DEF Agrees, KeysOf, KeysOrdered
  <2> QED BY <2>2, <2>3
<1>4. ASSUME NEW key \in Keys, NEW value \in Values,
             SetDefault(key, value) \/ AppendValue(key, value)
      PROVE  DictTypeOK' /\ Agrees' /\ KeysOrdered'
  BY <1>4, Appended DEF SetDefault, AppendValue
<1>5. ASSUME NEW key \in Keys, NEW values \in Some(Values), SetList(key, values)
      PROVE  DictTypeOK' /\ Agrees' /\ KeysOrdered'
  BY <1>5, Listed
<1>6. ASSUME NEW entries \in Some(Entry), Update(entries)
      PROVE  DictTypeOK' /\ Agrees' /\ KeysOrdered'
  BY <1>6, Updated
<1>7. CASE UNCHANGED dictVars
  BY <1>7 DEF dictVars, DictTypeOK, Agrees, KeysOrdered, KeysOf, Of
<1> QED BY <1>1, <1>2, <1>3, <1>4, <1>5, <1>6, <1>7 DEF Edit

\* The list has a sequence of entries, and the dictionary is that of the sequence.
IsMade ==
  \E n \in Nat : \E entries \in [1..n -> Entry] :
    list = entries /\ dict = DictOf(entries) /\ top = n

\* A MultiDict that was made so agrees.
LEMMA MadeAgrees == IsMade => DictAgrees
BY Made DEF DictAgrees, IsMade

\* The same after a step.
LEMMA MadeNext == IsMade' => DictAgrees'
BY MadeAgrees, PTL

\* After any calls in any order, for all keys, values and bounds, `d[key]` is the last of
\* `d.getlist(key)`, and a key is in one half if and only if it is in the other.
THEOREM DictInvariant == DictSpec => []DictAgrees
<1>1. DictInit => DictAgrees
  <2> SUFFICES ASSUME NEW entries \in Some(Entry) \cup {<<>>},
                      list = entries, dict = DictOf(entries), top = Len(entries)
               PROVE  DictAgrees
    BY DEF DictInit
  <2>1. Len(entries) \in Nat /\ entries \in [1..Len(entries) -> Entry]
    BY Lengths
  <2>2. QED
    BY <2>1, Made DEF DictAgrees
<1>2. DictAgrees /\ [Edit]_dictVars => DictAgrees'
  BY EditStep
<1>3. QED
  BY <1>1, <1>2, PTL DEF DictSpec

-----------------------------------------------------------------------------
(* Both kinds of forms.                                                    *)

FormsInv == IInv /\ EncodedInv /\ DictAgrees

FormsNext == [NextForms]_<<content_type, vars, encodedVars, dictVars>>

\* A step of the specification is one of the form, of the other form, or an edit.
LEMMA FormsSteps ==
  ASSUME FormsNext
  PROVE  /\ [Next]_vars
         /\ \/ EncodedNext /\ UNCHANGED dictVars
            \/ Copy
            \/ [Edit]_dictVars /\ UNCHANGED encodedVars
<1>1. CASE content_type = "multipart" /\ Next /\ UNCHANGED <<content_type, encodedVars, dictVars>>
  BY <1>1
<1>2. CASE /\ content_type = "urlencoded"
           /\ \/ EncodedNext /\ UNCHANGED dictVars
              \/ Copy
              \/ phase = "copied" /\ Edit /\ UNCHANGED encodedVars
           /\ UNCHANGED <<content_type, vars>>
  BY <1>2
<1>3. CASE UNCHANGED <<content_type, vars, encodedVars, dictVars>>
  BY <1>3
<1>4. QED
  BY <1>1, <1>2, <1>3 DEF FormsNext, NextForms

\* What is copied are the fields of the form.
LEMMA CopyStep ==
  ASSUME EncodedInv, Copy
  PROVE  EncodedInv' /\ DictAgrees'
<1>1. /\ phase = "parsed" /\ phase' = "copied"
      /\ list' = parse.items /\ dict' = DictOf(parse.items) /\ top' = Len(parse.items)
      /\ sent' = <<>> /\ parse' = [name |-> <<>>, value |-> <<>>, items |-> <<>>]
      /\ parser' = parser /\ messages' = messages
  BY DEF Copy
<1>2. messages = <<>> /\ parser = "between"
  BY <1>1 DEF EncodedInv
<1>3. EncodedInv'
  <2>1. <<>> \in Texts /\ <<>> \in Seq(Field)
    BY TextsBounded
  <2>2. parse' \in Locals /\ parse'.items = sent'
    BY <1>1, <2>1 DEF Locals
  <2>3. sent' \in Seq(Field) /\ Len(sent') \in 0..MaxFields
    BY <1>1, <2>1, FieldsAssumption
  <2>4. QED
    BY <1>1, <1>2, <2>2, <2>3, Rests
<1>4. DictAgrees'
  <2>1. PICK n, entries : n = Len(parse.items) /\ entries = parse.items
    OBVIOUS
  <2>2. parse.items \in Seq(Field)
    BY DEF EncodedInv, EncodedTypeOK
  <2>3. Field \subseteq Entry
    BY FormsAssumption DEF Field, Entry
  <2>4. n \in Nat /\ entries \in [1..n -> Entry]
    BY <2>1, <2>2, <2>3
  <2>5. list' = entries /\ dict' = DictOf(entries) /\ top' = n
    BY <1>1, <2>1
  <2>6. IsMade'
    BY <2>4, <2>5 DEF IsMade, DictOf, KeysOf, LastOf, FirstOf, Of
  <2>7. QED
    BY <2>6, MadeNext
<1>5. QED
  BY <1>3, <1>4

\* The invariant.
LEMMA FormsInvariant == SpecForms => []FormsInv
<1>1. InitForms => FormsInv
  <2> SUFFICES ASSUME InitForms PROVE FormsInv
    OBVIOUS
  <2>1. Init /\ EncodedInit /\ list = <<>> /\ dict = DictOf(list) /\ top = 0
    BY DEF InitForms
  <2>2. DictAgrees
    <3>1. <<>> \in [1..0 -> Entry]
      BY Lengths
    <3>2. QED
      BY <2>1, <3>1, Made DEF DictAgrees
  <2>3. QED
    BY <2>1, <2>2, FormInit, EncodedStart DEF FormsInv
<1>2. FormsInv /\ FormsNext => FormsInv'
  <2> SUFFICES ASSUME IInv, EncodedInv, DictAgrees, FormsNext PROVE IInv' /\ EncodedInv' /\ DictAgrees'
    BY DEF FormsInv
  <2>1. IInv'
    BY FormsSteps, FormStep
  <2>2. CASE EncodedNext /\ UNCHANGED dictVars
    BY <2>1, <2>2, EncodedStep, EditStep
  <2>3. CASE Copy
    BY <2>1, <2>3, CopyStep
  <2>4. CASE [Edit]_dictVars /\ UNCHANGED encodedVars
    BY <2>1, <2>4, EncodedStutters, EditStep
  <2>5. QED
    BY <2>2, <2>3, <2>4, FormsSteps
<1>3. QED
  BY <1>1, <1>2, PTL DEF SpecForms, FormsNext

\* However a body is cut into chunks, and whatever the limits, what is in the files and the
\* fields of a form is what was sent.
THEOREM Intact == SpecForms => []FormTrue
<1>1. FormsInv => FormTrue
  BY FormHolds, EncodedHolds DEF FormsInv, FormTrue
<1>2. QED
  BY <1>1, FormsInvariant, PTL

\* No form gets more than its limits, or is rejected without a cause, and neither a rejected
\* form nor a block that was left has an open file.
THEOREM Bounds == SpecForms => []ResourcesBounded
<1>1. FormsInv => ResourcesBounded
  BY FormHolds DEF FormsInv
<1>2. QED
  BY <1>1, FormsInvariant, PTL

\* The MultiDict that an endpoint makes of a form agrees with itself whatever the endpoint
\* does to it.
THEOREM CopyAgrees == SpecForms => []DictAgrees
<1>1. FormsInv => DictAgrees
  BY DEF FormsInv
<1>2. QED
  BY <1>1, FormsInvariant, PTL

\* A file that has left memory is not touched in the event loop.
THEOREM InThread == SpecForms => DiskInThread
<1>1. FormsInv /\ FormsNext =>
        [\A f \in DOMAIN files :
            files'[f] # files[f] /\ files'[f].rolled /\ pc' # "rejected" => thread']_vars
  BY FormsSteps, DiskStep DEF FormsInv
<1>2. QED
  BY <1>1, FormsInvariant, PTL DEF SpecForms, FormsNext, DiskInThread

=============================================================================
