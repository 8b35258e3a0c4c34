----------------------- MODULE ResponseMiddleware_proof -----------------------
(***************************************************************************)
(* Theorems about the middleware that rewrites responses, for every        *)
(* response and every minimum size of GZipMiddleware, and for every stack  *)
(* of layers, every policy and any number of requests in flight of the     *)
(* middleware of headers.                                                  *)
(***************************************************************************)
EXTENDS ResponseMiddleware, SequenceTheorems, TLAPS

-----------------------------------------------------------------------------
(* GZipMiddleware: where its two sides are, what of the data is out, and   *)
(* how the headers agree with that.                                        *)

\* The headers are changed, for this response.
Encodes == headers.encoding = "gzip" /\ ~stale

HeadersInv ==
  /\ stale => headers.encoding = "gzip"
  /\ headers.encoding = "gzip" => headers.vary
  /\ ~stale /\ headers.encoding # "gzip" => headers.length = app.total
  /\ app.sent > 0 => (passes <=> stale \/ headers.events \/ headers.encoding = "app")
  /\ Encodes => /\ accept /\ started /\ ~passes /\ app.sent > 1 /\ file.buffer = <<>>
                /\ headers.length # None => ~app.first.more /\ headers.length = Len(app.data) + 2

BodyOutgoing == pc = "sends" /\ outgoing[Len(outgoing)].type = "body"

\* As soon as there is a body it is decided whether to encode.
AskedInv ==
  HasBody \/ BodyOutgoing =>
    /\ ~stale => (Encodes <=> accept /\ Compressible)
    /\ Compressible => headers.vary

\* The messages of this response: the start and then bodies.
WireInv ==
  wire # <<>> => wire[1] = [type |-> "start", headers |-> headers] /\ app.sent > 1

\* The application runs: it has sent nothing but the start, or bodies that are not the last.
AppInv ==
  pc = "app" =>
    /\ outgoing = <<>>
    /\ app.sent <= 1 => /\ wire = <<>> /\ ~started /\ received = <<>> /\ app.data = <<>>
                        /\ file.buffer = <<Header>> /\ file.waiting = <<>>
    /\ app.sent > 1 => /\ started /\ Len(wire) = app.sent /\ app.first.more
                       /\ wire[Len(wire)].type = "body" /\ wire[Len(wire)].more_body

\* The responder is about to send what the application has sent last.
SendsInv ==
  pc = "sends" =>
    /\ app.sent > 1
    /\ \/ Len(outgoing) = 2 /\ outgoing[1] = Start /\ wire = <<>> /\ received = <<>>
       \/ Len(outgoing) = 1 /\ wire # <<>> /\ Protocol!Open
    /\ Len(wire) + Len(outgoing) = app.sent
    /\ LET last == outgoing[Len(outgoing)] IN
       \/ last.type = "pathsend" /\ app.sent = 2
       \/ last.type = "body" /\ started /\ (last.more_body => app.first.more)

\* What of the data of the application is out: everything that is not waiting.
Account(out, more) ==
  IF Encodes
  THEN IF more THEN out \o file.waiting = <<Header>> \o app.data
       ELSE out = <<Header>> \o app.data \o <<Trailer>>
  ELSE out = app.data

Whole == app.total = None \/ Len(app.data) = app.total

AccountInv ==
  /\ pc = "app" /\ app.sent > 1 => Account(received, TRUE)
  /\ BodyOutgoing =>
       LET last == outgoing[Len(outgoing)] IN
       /\ Account(received \o last.data, last.more_body)
       /\ ~last.more_body => Whole
  /\ Protocol!Complete /\ HasBody => Account(received, FALSE) /\ Whole

GZipInv ==
  /\ TypeOK /\ HeadersInv /\ AskedInv /\ WireInv /\ AppInv /\ SendsInv /\ AccountInv

Apps == [sent : 0..(MaxBodies + 2), first : [size : 0..MaxUnits, more : BOOLEAN],
         data : Seq(1..MaxUnits), total : None..MaxUnits]
Files == [buffer : Bytes, waiting : Bytes, closed : BOOLEAN]
Bodies == [type : {"body"}, data : Bytes, more_body : BOOLEAN]
Outgoing == [type : {"start"}] \union [type : {"pathsend"}] \union Bodies
OnWire == [type : {"start"}, headers : Headers] \union [type : {"pathsend"}] \union Bodies

\* What TypeOK says, piece by piece,
LEMMA GZipTypes ==
  ASSUME TypeOK
  PROVE  /\ minimum \in MinimumSizes /\ minimum \in Nat /\ accept \in BOOLEAN
         /\ headers \in Headers /\ headers.vary \in BOOLEAN /\ headers.events \in BOOLEAN
         /\ headers.encoding \in {"none", "gzip", "app"} /\ headers.length \in None..(MaxUnits + 2)
         /\ app \in Apps /\ app.sent \in 0..(MaxBodies + 2) /\ app.data \in Seq(1..MaxUnits)
         /\ app.total \in None..MaxUnits /\ app.first.more \in BOOLEAN /\ app.first.size \in 0..MaxUnits
         /\ app.first \in [size : 0..MaxUnits, more : BOOLEAN]
         /\ pc \in {"app", "sends", "over"} /\ started \in BOOLEAN /\ passes \in BOOLEAN
         /\ file \in Files /\ file.buffer \in Bytes /\ file.waiting \in Bytes
         /\ outgoing \in Seq(Outgoing) /\ wire \in Seq(OnWire) /\ received \in Bytes
         /\ stale \in BOOLEAN /\ requests \in 1..MaxRequests
<1>1. app \in Apps /\ headers \in Headers /\ file \in Files
  BY DEF TypeOK, Apps, Files
<1>2. outgoing \in Seq(Outgoing) /\ wire \in Seq(OnWire) /\ minimum \in Nat
  BY MinimumAssumption DEF TypeOK, Outgoing, OnWire, Bodies
<1>3. QED
  BY <1>1, <1>2 DEF TypeOK, Apps, Files, Headers

\* and what it takes after a step.
LEMMA GZipTyped ==
  ASSUME minimum' \in MinimumSizes, accept' \in BOOLEAN, headers' \in Headers, app' \in Apps,
         pc' \in {"app", "sends", "over"}, started' \in BOOLEAN, passes' \in BOOLEAN, file' \in Files,
         outgoing' \in Seq(Outgoing), wire' \in Seq(OnWire), received' \in Bytes, stale' \in BOOLEAN,
         requests' \in 1..MaxRequests
  PROVE  TypeOK'
BY DEF TypeOK, Apps, Files, Outgoing, OnWire, Bodies

\* Sequences that are put together, and taken apart.
LEMMA Joined ==
  ASSUME NEW S
  PROVE  /\ <<>> \in Seq(S)
         /\ \A s \in Seq(S) : Len(s) \in Nat /\ s \o <<>> = s /\ <<>> \o s = s
         /\ \A s, t \in Seq(S) : s \o t \in Seq(S) /\ Len(s \o t) = Len(s) + Len(t)
         /\ \A s, t, u \in Seq(S) : (s \o t) \o u = s \o (t \o u)
         /\ \A s \in Seq(S) : \A k \in 0..Len(s) :
              /\ SubSeq(s, 1, k) \in Seq(S) /\ SubSeq(s, k + 1, Len(s)) \in Seq(S)
              /\ SubSeq(s, 1, k) \o SubSeq(s, k + 1, Len(s)) = s
<1>1. \A s, t, u \in Seq(S) : (s \o t) \o u = s \o (t \o u)
  BY ConcatAssociative
<1>2. \A s, t \in Seq(S) : s \o t \in Seq(S) /\ Len(s \o t) = Len(s) + Len(t)
  BY ConcatProperties
<1>3. \A s \in Seq(S) : Len(s) \in Nat /\ s \o <<>> = s /\ <<>> \o s = s
  BY ConcatEmptySeq, LenProperties
<1>4. ASSUME NEW s \in Seq(S), NEW k \in 0..Len(s)
      PROVE  /\ SubSeq(s, 1, k) \in Seq(S) /\ SubSeq(s, k + 1, Len(s)) \in Seq(S)
             /\ SubSeq(s, 1, k) \o SubSeq(s, k + 1, Len(s)) = s
  <2>1. Len(s) \in Nat /\ \A i \in 1..Len(s) : s[i] \in S
    BY LenProperties, ElementOfSeq
  <2>2. SubSeq(s, 1, k) \in Seq(S) /\ SubSeq(s, k + 1, Len(s)) \in Seq(S)
    BY <2>1, SubSeqProperties
  <2>3. 1 \in 1..(Len(s) + 1) /\ k \in (1 - 1)..Len(s) /\ Len(s) \in k..Len(s)
    BY <2>1
  <2>4. SubSeq(s, 1, k) \o SubSeq(s, k + 1, Len(s)) = SubSeq(s, 1, Len(s))
    BY <2>3, ConcatAdjacentSubSeq
  <2>5. QED
    BY <2>2, <2>4, SubSeqFull
<1>5. <<>> \in Seq(S)
  OBVIOUS
<1>6. QED
  BY <1>1, <1>2, <1>3, <1>4, <1>5, Zenon

\* The same of bytes.
LEMMA Bytewise ==
  /\ <<>> \in Bytes
  /\ \A s \in Bytes : Len(s) \in Nat /\ s \o <<>> = s /\ <<>> \o s = s
  /\ \A s, t \in Bytes : s \o t \in Bytes /\ Len(s \o t) = Len(s) + Len(t)
  /\ \A s, t, u \in Bytes : (s \o t) \o u = s \o (t \o u)
  /\ \A s \in Bytes : \A k \in 0..Len(s) :
       /\ SubSeq(s, 1, k) \in Bytes /\ SubSeq(s, k + 1, Len(s)) \in Bytes
       /\ SubSeq(s, 1, k) \o SubSeq(s, k + 1, Len(s)) = s
BY Joined, Zenon DEF Bytes

\* It does not matter in which order bytes are put together.
LEMMA Associative == \A s, t, u \in Bytes : (s \o t) \o u = s \o (t \o u)
BY Bytewise, Zenon

\* Two messages.
LEMMA Two ==
  ASSUME NEW x, NEW y
  PROVE  <<x>> \o <<y>> = <<x, y>>
<1>1. <<x>> \in Seq({x, y}) /\ <<y>> \in Seq({x, y}) /\ <<x, y>> \in Seq({x, y})
  OBVIOUS
<1>2. Len(<<x>>) = 1 /\ Len(<<y>>) = 1 /\ Len(<<x, y>>) = 2
  OBVIOUS
<1>3. PICK s : s = <<x>> \o <<y>>
  OBVIOUS
<1>4. s \in Seq({x, y}) /\ Len(s) = 2 /\ s[1] = x /\ s[2] = y
  BY <1>1, <1>2, <1>3, ConcatProperties
<1>5. s = <<x, y>>
  BY <1>1, <1>2, <1>4, SeqEqual
<1>6. QED
  BY <1>3, <1>5

\* Data is bytes.
LEMMA DataIsBytes ==
  /\ Seq(1..MaxUnits) \subseteq Bytes /\ <<Header>> \in Bytes /\ <<Trailer>> \in Bytes
  /\ \A data \in Seq(1..MaxUnits), bytes \in Bytes : data # <<Header>> \o bytes
<1>1. 1..MaxUnits \subseteq Header..Trailer
  BY BoundsAssumption DEF Header, Trailer
<1>2. Header \in Header..Trailer /\ Trailer \in Header..Trailer
  BY BoundsAssumption DEF Header, Trailer
<1>3. \A S, T : S \subseteq T => Seq(S) \subseteq Seq(T)
  BY SeqMonotonic
<1>4. \A S : \A x \in S : <<x>> \in Seq(S)
  OBVIOUS
<1>5. ASSUME NEW data \in Seq(1..MaxUnits), NEW bytes \in Bytes, data = <<Header>> \o bytes PROVE FALSE
  <2>1. Len(data) = 1 + Len(bytes) /\ Len(bytes) \in Nat
    <3>1. <<Header>> \in Bytes /\ Len(<<Header>>) = 1
      BY <1>2, <1>4 DEF Bytes
    <3>2. QED
      BY <1>5, <3>1, Bytewise
  <2>2. data[1] \in 1..MaxUnits
    <3>1. 1 \in 1..Len(data)
      BY <2>1
    <3>2. QED
      BY <3>1, ElementOfSeq
  <2>3. data[1] = Header
    BY <1>5, <2>1 DEF Bytes
  <2>4. QED
    BY <2>2, <2>3, BoundsAssumption DEF Header
<1>6. QED
  BY <1>1, <1>2, <1>3, <1>4, <1>5 DEF Bytes

\* The application sends the next units.
LEMMA AppSent ==
  ASSUME GZipInv, NEW n \in 0..MaxUnits, NEW more \in BOOLEAN, AppSends(n, more)
  PROVE  /\ pc = "app" /\ app.sent > 0 /\ app' \in Apps
         /\ app'.sent = app.sent + 1 /\ app'.total = app.total
         /\ Units(n) \in Seq(1..MaxUnits) /\ Len(Units(n)) = n
         /\ app'.data = app.data \o Units(n)
         /\ app'.first = IF app.sent = 1 THEN [size |-> n, more |-> more] ELSE app.first
         /\ ~more => Whole'
<1>1. /\ app \in Apps /\ app.sent \in 0..(MaxBodies + 2) /\ app.data \in Seq(1..MaxUnits)
      /\ app.total \in None..MaxUnits /\ app.first \in [size : 0..MaxUnits, more : BOOLEAN]
  BY GZipTypes DEF GZipInv
<1>2. MaxUnits \in Nat /\ MaxBodies \in Nat /\ Len(app.data) \in Nat
  BY <1>1, BoundsAssumption
<1>3. /\ pc = "app" /\ app.sent > 0 /\ app.sent <= MaxBodies
      /\ Len(app.data) + n <= (IF app.total = None THEN MaxUnits ELSE app.total)
      /\ ~more /\ app.total # None => Len(app.data) + n = app.total
  BY DEF AppSends, BodyDue
<1>4. Units(n) \in Seq(1..MaxUnits) /\ Len(Units(n)) = n
  <2>1. Len(app.data) + n <= MaxUnits
    BY <1>1, <1>2, <1>3 DEF None
  <2>2. \A i \in 1..n : Len(app.data) + i \in 1..MaxUnits
    BY <1>2, <2>1
  <2>3. QED
    BY <2>2 DEF Units
<1>5. PICK units, new : /\ units = Units(n)
                        /\ new = IF app.sent = 1 THEN [size |-> n, more |-> more] ELSE app.first
  OBVIOUS
<1>6. app' = [app EXCEPT !.sent = app.sent + 1, !.data = app.data \o units, !.first = new]
  BY <1>5 DEF AppSends, Units
<1>7. new \in [size : 0..MaxUnits, more : BOOLEAN] /\ app.data \o units \in Seq(1..MaxUnits)
      /\ Len(app.data \o units) = Len(app.data) + n
  <2>1. [size |-> n, more |-> more] \in [size : 0..MaxUnits, more : BOOLEAN]
    OBVIOUS
  <2>2. new \in [size : 0..MaxUnits, more : BOOLEAN]
    BY <1>1, <1>5, <2>1
  <2>3. PICK before \in Seq(1..MaxUnits), next \in Seq(1..MaxUnits) :
          before = app.data /\ next = units /\ Len(next) = n
    BY <1>1, <1>4, <1>5
  <2>4. before \o next \in Seq(1..MaxUnits) /\ Len(before \o next) = Len(before) + Len(next)
    BY ConcatProperties, Zenon
  <2>5. QED
    BY <2>2, <2>3, <2>4
<1>8. app.sent + 1 \in 0..(MaxBodies + 2)
  BY <1>1, <1>2, <1>3
<1>9. /\ app' \in Apps /\ app'.sent = app.sent + 1 /\ app'.total = app.total
      /\ app'.data = app.data \o units /\ app'.first = new
  BY <1>1, <1>6, <1>7, <1>8 DEF Apps
<1>10. ~more => Whole'
  BY <1>3, <1>7, <1>9 DEF Whole
<1>11. QED
  BY <1>3, <1>4, <1>5, <1>9, <1>10

\* What the compressor gives out and what it keeps are what it had and what it got.
LEMMA CompressedIs ==
  ASSUME TypeOK, NEW data \in Bytes, NEW more \in BOOLEAN, NEW out \in Compressed(data, more)
  PROVE  /\ out.data \in Bytes /\ out.file \in Files
         /\ ~accept => out.data = data /\ out.file = file
         /\ accept => /\ out.file.buffer = <<>>
                      /\ ~more => out.data = file.buffer \o (file.waiting \o data) \o <<Trailer>>
                      /\ more => \E k \in 0..Len(file.waiting \o data) :
                           /\ out.data = file.buffer \o SubSeq(file.waiting \o data, 1, k)
                           /\ out.data \o out.file.waiting = file.buffer \o (file.waiting \o data)
<1>1. file \in Files /\ file.buffer \in Bytes /\ file.waiting \in Bytes
  BY GZipTypes
<1>2. PICK all : all = file.waiting \o data
  OBVIOUS
<1>3. all \in Bytes /\ Len(all) \in Nat /\ <<>> \in Bytes /\ <<Trailer>> \in Bytes
  BY <1>1, <1>2, DataIsBytes, Bytewise
<1>4. CASE ~accept
  <2>1. out = [data |-> data, file |-> file]
    BY <1>4 DEF Compressed
  <2>2. QED
    BY <1>1, <1>4, <2>1
<1>5. CASE accept /\ ~more
  <2>1. out = [data |-> file.buffer \o all \o <<Trailer>>,
               file |-> [buffer |-> <<>>, waiting |-> <<>>, closed |-> TRUE]]
    BY <1>2, <1>5 DEF Compressed
  <2>2. file.buffer \o all \o <<Trailer>> \in Bytes
    BY <1>1, <1>3, Bytewise
  <2>3. out.data \in Bytes /\ out.file \in Files
    BY <1>3, <2>1, <2>2 DEF Files
  <2>4. QED
    BY <1>2, <1>5, <2>1, <2>3
<1>6. CASE accept /\ more
  <2>1. PICK k \in 0..Len(all) :
          out = [data |-> file.buffer \o SubSeq(all, 1, k),
                 file |-> [buffer |-> <<>>, waiting |-> SubSeq(all, k + 1, Len(all)), closed |-> FALSE]]
    BY <1>2, <1>6 DEF Compressed
  <2>2. PICK front, rest : front = SubSeq(all, 1, k) /\ rest = SubSeq(all, k + 1, Len(all))
    OBVIOUS
  <2>3. front \in Bytes /\ rest \in Bytes /\ front \o rest = all
    BY <1>3, <2>2, Bytewise, Zenon
  <2>4. (file.buffer \o front) \o rest = file.buffer \o all /\ file.buffer \o front \in Bytes
    <3>1. PICK buffer \in Bytes : buffer = file.buffer
      BY <1>1
    <3>2. (buffer \o front) \o rest = buffer \o (front \o rest) /\ buffer \o front \in Bytes
      <4>1. (buffer \o front) \o rest = buffer \o (front \o rest)
        BY <2>3, Associative, Zenon
      <4>2. buffer \o front \in Bytes
        BY <2>3, Bytewise, Zenon
      <4>3. QED
        BY <4>1, <4>2
    <3>3. QED
      BY <2>3, <3>1, <3>2, Zenon
  <2>5. out.data \in Bytes /\ out.file \in Files
    BY <1>3, <2>1, <2>2, <2>3, <2>4 DEF Files
  <2>6. /\ out.file.buffer = <<>> /\ out.data = file.buffer \o SubSeq(all, 1, k)
        /\ out.data \o out.file.waiting = file.buffer \o all
    BY <2>1, <2>2, <2>4
  <2>7. QED
    BY <1>2, <1>6, <2>1, <2>5, <2>6
<1>7. QED
  BY <1>4, <1>5, <1>6

\* When the application runs the response is not complete, and started once it has a body.
LEMMA Running ==
  ASSUME GZipInv, pc = "app"
  PROVE  /\ ~Protocol!Complete /\ app.sent \in Nat
         /\ ~started => app.sent <= 1 /\ wire = <<>> /\ ~HasBody
         /\ started => app.sent > 1 /\ wire # <<>> /\ HasBody /\ Protocol!Open
<1>1. app.sent \in 0..(MaxBodies + 2) /\ wire \in Seq(OnWire) /\ started \in BOOLEAN
  BY GZipTypes DEF GZipInv
<1>2. app.sent \in Nat /\ Len(wire) \in Nat /\ DOMAIN wire = 1..Len(wire) /\ (wire # <<>> => Len(wire) > 0)
  BY <1>1, BoundsAssumption
<1>3. CASE app.sent <= 1
  <2>1. wire = <<>> /\ ~started
    BY <1>3 DEF GZipInv, AppInv
  <2>2. ~HasBody
    BY <2>1 DEF HasBody
  <2>3. QED
    BY <1>2, <1>3, <2>1, <2>2 DEF Protocol!Complete, Protocol!LastIs
<1>4. CASE app.sent > 1
  <2>1. started /\ Len(wire) = app.sent /\ wire[Len(wire)].type = "body" /\ wire[Len(wire)].more_body
    BY <1>4 DEF GZipInv, AppInv
  <2>2. wire # <<>> /\ Len(wire) \in DOMAIN wire
    BY <1>2, <1>4, <2>1
  <2>3. HasBody
    BY <2>1, <2>2 DEF HasBody
  <2>4. QED
    BY <1>2, <1>4, <2>1, <2>2, <2>3 DEF Protocol!Complete, Protocol!LastIs, Protocol!Open
<1>5. QED
  BY <1>2, <1>3, <1>4

\* Whatever branch it takes, the responder goes on with a body, after the start if that was
\* withheld.
LEMMA BodySent ==
  ASSUME GZipInv, NEW n \in 0..MaxUnits, NEW more \in BOOLEAN, AppSends(n, more), NEW data \in Bytes,
         Sends((IF started THEN <<>> ELSE <<Start>>) \o <<Body(data, more)>>), started' = TRUE,
         UNCHANGED <<minimum, accept, passes, wire, received, stale, requests>>,
         headers' \in Headers, file' \in Files, started => headers' = headers,
         HeadersInv', Account(received \o data, more)',
         ~stale => (Encodes <=> accept /\ Compressible)', Compressible' => headers'.vary
  PROVE  GZipInv'
<1>1. /\ minimum \in MinimumSizes /\ accept \in BOOLEAN /\ started \in BOOLEAN /\ passes \in BOOLEAN
      /\ wire \in Seq(OnWire) /\ received \in Bytes /\ stale \in BOOLEAN /\ requests \in 1..MaxRequests
      /\ app.first.more \in BOOLEAN
  BY GZipTypes DEF GZipInv
<1>2. /\ pc = "app" /\ app.sent > 0 /\ app' \in Apps /\ app'.sent = app.sent + 1
      /\ app'.first = IF app.sent = 1 THEN [size |-> n, more |-> more] ELSE app.first
      /\ ~more => Whole'
  BY AppSent
<1>3. /\ ~Protocol!Complete /\ app.sent \in Nat
      /\ ~started => app.sent <= 1 /\ wire = <<>> /\ ~HasBody
      /\ started => app.sent > 1 /\ wire # <<>> /\ HasBody /\ Protocol!Open
  BY <1>2, Running
<1>4. pc' = "sends" /\ outgoing' = (IF started THEN <<>> ELSE <<Start>>) \o <<Body(data, more)>>
  BY DEF Sends
<1>5. PICK body : body = Body(data, more)
  OBVIOUS
<1>6. body \in Bodies /\ body.type = "body" /\ body.data = data /\ body.more_body = more
  BY <1>5 DEF Body, Bodies
<1>7. outgoing' = IF started THEN <<body>> ELSE <<Start, body>>
  BY <1>4, <1>5
<1>8. /\ outgoing' \in Seq(Outgoing) /\ outgoing'[Len(outgoing')] = body
      /\ started => Len(outgoing') = 1
      /\ ~started => Len(outgoing') = 2 /\ outgoing'[1] = Start
  <2>1. Start \in Outgoing /\ body \in Outgoing
    BY <1>6 DEF Start, Outgoing
  <2>2. QED
    BY <1>7, <2>1
<1>9. TypeOK'
  BY <1>1, <1>2, <1>4, <1>8, GZipTyped
<1>10. AskedInv'
  BY DEF AskedInv
<1>11. WireInv'
  BY <1>2, <1>3 DEF GZipInv, WireInv
<1>12. AppInv'
  BY <1>4 DEF AppInv
<1>13. SendsInv'
  <2>1. app'.sent > 1
    BY <1>2, <1>3
  <2>2. CASE started
    <3>1. Protocol!Open' /\ wire' # <<>> /\ Len(wire') = app.sent
      BY <1>2, <1>3, <2>2 DEF Protocol!Open, Protocol!LastIs, GZipInv, AppInv
    <3>2. more => app'.first.more
      BY <1>2, <1>3, <2>2 DEF GZipInv, AppInv
    <3>3. QED
      BY <1>2, <1>3, <1>6, <1>8, <2>1, <2>2, <3>1, <3>2 DEF SendsInv
  <2>3. CASE ~started
    <3>1. wire' = <<>> /\ received' = <<>> /\ app.sent = 1 /\ Len(wire') = 0
      BY <1>2, <1>3, <2>3 DEF GZipInv, AppInv
    <3>2. more => app'.first.more
      BY <1>2, <3>1
    <3>3. QED
      BY <1>2, <1>3, <1>6, <1>8, <2>1, <2>3, <3>1, <3>2 DEF SendsInv
  <2>4. QED
    BY <1>1, <2>2, <2>3
<1>14. AccountInv'
  <2>1. ~Protocol!Complete'
    BY <1>3 DEF Protocol!Complete, Protocol!LastIs
  <2>2. PICK last : last = outgoing'[Len(outgoing')] /\ last.data = data /\ last.more_body = more
    BY <1>6, <1>8
  <2>3. QED
    BY <1>2, <1>4, <2>1, <2>2 DEF AccountInv, BodyOutgoing, Account
<1>15. QED
  BY <1>9, <1>10, <1>11, <1>12, <1>13, <1>14 DEF GZipInv

\* A response with an encoding or of events, or a small one, is sent as it is.
LEMMA PassThroughStep ==
  ASSUME GZipInv, NEW n \in 0..MaxUnits, NEW more \in BOOLEAN, PassThrough(n, more) \/ Small(n, more)
  PROVE  GZipInv'
<1>1. /\ headers \in Headers /\ file \in Files /\ received \in Bytes /\ passes \in BOOLEAN
      /\ app.data \in Seq(1..MaxUnits) /\ app.first.more \in BOOLEAN /\ app.first.size \in 0..MaxUnits
      /\ stale \in BOOLEAN /\ headers.events \in BOOLEAN /\ minimum \in Nat
  BY GZipTypes DEF GZipInv
<1>2. PICK data : data = Units(n)
  OBVIOUS
<1>3. /\ AppSends(n, more) /\ started' = TRUE
      /\ UNCHANGED <<minimum, accept, headers, passes, file, wire, received, stale, requests>>
      /\ passes \/ (~started /\ TooSmall(n, more))
  BY DEF PassThrough, Small
<1>4. Sends((IF started THEN <<>> ELSE <<Start>>) \o <<Body(data, more)>>)
  <2>1. CASE PassThrough(n, more)
    BY <1>2, <2>1 DEF PassThrough
  <2>2. CASE Small(n, more)
    <3>1. Sends(<<Start, Body(data, more)>>) /\ ~started
      BY <1>2, <2>2 DEF Small
    <3>2. <<Start>> \o <<Body(data, more)>> = <<Start, Body(data, more)>>
      BY Two
    <3>3. QED
      BY <3>1, <3>2
  <2>3. QED
    BY <2>1, <2>2
<1>5. /\ pc = "app" /\ app.sent > 0 /\ data \in Seq(1..MaxUnits) /\ Len(data) = n /\ app'.sent = app.sent + 1
      /\ app'.data = app.data \o data /\ app'.total = app.total
      /\ app'.first = IF app.sent = 1 THEN [size |-> n, more |-> more] ELSE app.first
  BY <1>2, <1>3, AppSent
<1>6. /\ app.sent \in Nat /\ (~started => app.sent = 1) /\ (started => app.sent > 1)
  BY <1>5, Running
<1>7. ~Encodes
  BY <1>3, <1>6 DEF GZipInv, HeadersInv
<1>8. data \in Bytes
  BY <1>5, DataIsBytes
<1>9. HeadersInv'
  BY <1>3, <1>5, <1>6, <1>7 DEF GZipInv, HeadersInv, Encodes
<1>10. Account(received \o data, more)'
  <2>1. received = app.data
    <3>1. CASE app.sent = 1
      BY <1>5, <3>1 DEF GZipInv, AppInv
    <3>2. CASE app.sent > 1
      BY <1>5, <1>7, <3>2 DEF GZipInv, AccountInv, Account
    <3>3. QED
      BY <1>6, <3>1, <3>2
  <2>2. ~Encodes'
    BY <1>3, <1>7 DEF Encodes
  <2>3. QED
    BY <1>3, <1>5, <2>1, <2>2 DEF Account
<1>11. ~stale => ~Encodes' /\ (~passes => ~Compressible')
  <2>1. ~Encodes'
    BY <1>3, <1>7 DEF Encodes
  <2>2. CASE ~passes
    <3>1. app.sent = 1 /\ ~more /\ n < minimum
      BY <1>3, <1>6, <2>2 DEF TooSmall
    <3>2. app'.first.size = n /\ app'.first.more = more
      BY <1>5, <3>1
    <3>3. QED
      BY <1>1, <1>3, <2>1, <3>1, <3>2 DEF Compressible
  <2>3. QED
    BY <2>1, <2>2
<1>12. passes /\ ~stale => ~Compressible'
  BY <1>3, <1>5 DEF Compressible, GZipInv, HeadersInv
<1>13. ~stale => (Encodes <=> accept /\ Compressible)'
  BY <1>3, <1>11, <1>12
<1>14. Compressible' => headers'.vary
  BY <1>1, <1>3, <1>11, <1>12 DEF GZipInv, HeadersInv
<1>15. QED
  BY <1>1, <1>3, <1>4, <1>8, <1>9, <1>10, <1>13, <1>14, BodySent

\* The first body is compressed for a client that accepts that.
LEMMA FirstStep ==
  ASSUME GZipInv, NEW n \in 0..MaxUnits, NEW more \in BOOLEAN, First(n, more)
  PROVE  GZipInv'
<1>1. /\ headers \in Headers /\ headers.vary \in BOOLEAN /\ headers.events \in BOOLEAN /\ accept \in BOOLEAN
      /\ headers.encoding \in {"none", "gzip", "app"} /\ headers.length \in None..(MaxUnits + 2)
      /\ file \in Files /\ received \in Bytes /\ passes \in BOOLEAN /\ stale \in BOOLEAN /\ minimum \in Nat
  BY GZipTypes DEF GZipInv
<1>2. PICK data : data = Units(n)
  OBVIOUS
<1>3. /\ AppSends(n, more) /\ started' = TRUE /\ ~passes /\ ~started /\ ~TooSmall(n, more)
      /\ UNCHANGED <<minimum, accept, passes, wire, received, stale, requests>>
  BY DEF First
<1>4. PICK out \in Compressed(data, more) :
        /\ file' = out.file /\ Sends(<<Start, Body(out.data, more)>>)
        /\ headers' = Adjusted(out.data # data, IF more THEN None ELSE Len(out.data))
  BY <1>2 DEF First
<1>5. /\ pc = "app" /\ app.sent > 0 /\ data \in Seq(1..MaxUnits) /\ Len(data) = n /\ app'.sent = app.sent + 1
      /\ app'.data = app.data \o data /\ app'.total = app.total
      /\ app'.first = IF app.sent = 1 THEN [size |-> n, more |-> more] ELSE app.first
  BY <1>2, <1>3, AppSent
<1>6. /\ app.sent = 1 /\ received = <<>> /\ app.data = <<>> /\ file.buffer = <<Header>> /\ file.waiting = <<>>
  BY <1>3, <1>5, Running DEF GZipInv, AppInv
<1>7. data \in Bytes /\ data \o <<>> = data /\ <<>> \o data = data /\ app'.data = data /\ n \in Nat
  BY <1>5, <1>6, DataIsBytes, Bytewise
<1>8. /\ out.data \in Bytes /\ out.file \in Files
      /\ ~accept => out.data = data /\ out.file = file
      /\ accept => /\ out.file.buffer = <<>>
                   /\ ~more => out.data = <<Header>> \o data \o <<Trailer>>
                   /\ more => /\ \E bytes \in Bytes : out.data = <<Header>> \o bytes
                              /\ out.data \o out.file.waiting = <<Header>> \o data
  <2>1. file.waiting \o data = data
    BY <1>6, <1>7
  <2>2. /\ out.data \in Bytes /\ out.file \in Files
        /\ ~accept => out.data = data /\ out.file = file
        /\ accept => /\ out.file.buffer = <<>>
                     /\ ~more => out.data = <<Header>> \o data \o <<Trailer>>
                     /\ more => \E k \in 0..Len(data) :
                          /\ out.data = <<Header>> \o SubSeq(data, 1, k)
                          /\ out.data \o out.file.waiting = <<Header>> \o data
    <3>1. /\ out.data \in Bytes /\ out.file \in Files
          /\ ~accept => out.data = data /\ out.file = file
          /\ accept => /\ out.file.buffer = <<>>
                       /\ ~more => out.data = file.buffer \o (file.waiting \o data) \o <<Trailer>>
                       /\ more => \E k \in 0..Len(file.waiting \o data) :
                            /\ out.data = file.buffer \o SubSeq(file.waiting \o data, 1, k)
                            /\ out.data \o out.file.waiting = file.buffer \o (file.waiting \o data)
      BY <1>4, <1>7, CompressedIs DEF GZipInv
    <3>2. QED
      BY <1>6, <2>1, <3>1
  <2>3. \A k \in 0..Len(data) : SubSeq(data, 1, k) \in Bytes
    BY <1>7, Bytewise
  <2>4. QED
    BY <2>2, <2>3
<1>9. out.data # data <=> accept
  <2>1. ASSUME accept PROVE \E bytes \in Bytes : out.data = <<Header>> \o bytes
    <3>1. CASE more
      BY <1>8, <2>1, <3>1
    <3>2. CASE ~more
      <4>1. out.data = <<Header>> \o data \o <<Trailer>>
        BY <1>8, <2>1, <3>2
      <4>2. /\ <<Header>> \o data \o <<Trailer>> = <<Header>> \o (data \o <<Trailer>>)
            /\ data \o <<Trailer>> \in Bytes
        BY <1>7, DataIsBytes, Bytewise
      <4>3. QED
        BY <4>1, <4>2
    <3>3. QED
      BY <3>1, <3>2
  <2>2. QED
    BY <1>5, <1>8, <2>1, DataIsBytes
<1>10. ~more /\ accept => Len(out.data) = n + 2
  <2>1. Len(<<Header>>) = 1 /\ Len(<<Trailer>>) = 1 /\ <<Header>> \o data \in Bytes
    BY <1>7, DataIsBytes, Bytewise
  <2>2. Len(<<Header>> \o data \o <<Trailer>>) = (1 + n) + 1
    BY <1>5, <1>7, <2>1, DataIsBytes, Bytewise
  <2>3. QED
    BY <1>7, <1>8, <2>2
<1>11. ~Encodes /\ ~stale /\ ~headers.events /\ headers.encoding = "none"
  BY <1>1, <1>3, <1>6 DEF GZipInv, HeadersInv, Encodes
<1>12. /\ headers' \in Headers /\ headers'.vary = TRUE /\ headers'.events = headers.events
       /\ headers'.encoding = IF accept THEN "gzip" ELSE "none"
       /\ headers'.length = IF accept THEN (IF more THEN None ELSE n + 2) ELSE headers.length
  <2>1. PICK encoding, length : /\ encoding = (IF accept THEN "gzip" ELSE "none")
                                /\ length = IF accept THEN (IF more THEN None ELSE n + 2) ELSE headers.length
    OBVIOUS
  <2>2. headers' = [headers EXCEPT !.vary = TRUE, !.encoding = encoding, !.length = length]
    <3>1. Adjusted(out.data # data, IF more THEN None ELSE Len(out.data)) =
            [headers EXCEPT !.vary = TRUE, !.encoding = encoding, !.length = length]
      BY <1>9, <1>10, <1>11, <2>1 DEF Adjusted
    <3>2. QED
      BY <1>4, <3>1
  <2>3. length \in None..(MaxUnits + 2)
    BY <1>1, <1>7, <2>1, BoundsAssumption DEF None
  <2>4. encoding \in {"none", "gzip", "app"}
    BY <2>1
  <2>5. QED
    BY <1>1, <2>1, <2>2, <2>3, <2>4 DEF Headers
<1>13. Encodes' <=> accept
  BY <1>3, <1>11, <1>12 DEF Encodes
<1>14. app'.first.more = more /\ app'.first.size = n
  BY <1>5, <1>6
<1>15. HeadersInv'
  <2>1. app'.sent > 1 /\ app'.sent > 0 /\ Len(app'.data) = n
    BY <1>5, <1>6, <1>7
  <2>2. headers'.encoding # "gzip" => headers'.length = app'.total
    BY <1>5, <1>11, <1>12 DEF GZipInv, HeadersInv
  <2>3. Encodes' => /\ accept' /\ started' /\ ~passes' /\ file'.buffer = <<>>
                    /\ headers'.length # None => ~more /\ headers'.length = n + 2
    BY <1>3, <1>4, <1>8, <1>12, <1>13
  <2>4. passes' <=> stale' \/ headers'.events \/ headers'.encoding = "app"
    BY <1>3, <1>11, <1>12
  <2>5. QED
    BY <1>3, <1>11, <1>12, <1>14, <2>1, <2>2, <2>3, <2>4 DEF HeadersInv
<1>16. Account(received \o out.data, more)'
  <2>1. received' \o out.data = out.data
    BY <1>3, <1>6, <1>8, Bytewise
  <2>2. QED
    BY <1>4, <1>7, <1>8, <1>13, <2>1 DEF Account
<1>17. Compressible'
  <2>1. more \/ n >= minimum
    BY <1>1, <1>3, <1>7 DEF TooSmall
  <2>2. QED
    BY <1>3, <1>11, <1>12, <1>14, <2>1 DEF Compressible
<1>18. ~stale => (Encodes <=> accept /\ Compressible)'
  BY <1>3, <1>13, <1>17
<1>19. Sends((IF started THEN <<>> ELSE <<Start>>) \o <<Body(out.data, more)>>)
  <2>1. <<Start>> \o <<Body(out.data, more)>> = <<Start, Body(out.data, more)>>
    BY Two
  <2>2. QED
    BY <1>3, <1>4, <2>1
<1>20. file' \in Files
  BY <1>4, <1>8
<1>21. QED
  BY <1>3, <1>8, <1>12, <1>15, <1>16, <1>18, <1>19, <1>20, BodySent

\* A later body: the compressor goes on.
LEMMA RemainingStep ==
  ASSUME GZipInv, NEW n \in 0..MaxUnits, NEW more \in BOOLEAN, Remaining(n, more)
  PROVE  GZipInv'
<1>1. /\ headers \in Headers /\ file \in Files /\ file.buffer \in Bytes /\ file.waiting \in Bytes
      /\ received \in Bytes /\ app.data \in Seq(1..MaxUnits) /\ accept \in BOOLEAN /\ stale \in BOOLEAN
      /\ passes \in BOOLEAN /\ headers.vary \in BOOLEAN
  BY GZipTypes DEF GZipInv
<1>2. PICK data : data = Units(n)
  OBVIOUS
<1>3. /\ AppSends(n, more) /\ ~passes /\ started
      /\ UNCHANGED <<minimum, accept, headers, started, passes, wire, received, stale, requests>>
  BY DEF Remaining
<1>4. PICK out \in Compressed(data, more) : file' = out.file /\ Sends(<<Body(out.data, more)>>)
  BY <1>2 DEF Remaining
<1>5. /\ pc = "app" /\ app.sent > 0 /\ data \in Seq(1..MaxUnits) /\ app'.sent = app.sent + 1
      /\ app'.data = app.data \o data /\ app'.total = app.total
      /\ app'.first = IF app.sent = 1 THEN [size |-> n, more |-> more] ELSE app.first
  BY <1>2, <1>3, AppSent
<1>6. app.sent > 1 /\ app.sent \in Nat /\ HasBody
  BY <1>3, <1>5, Running
<1>7. app.first.more /\ app'.first = app.first /\ Account(received, TRUE)
  <2>1. app.first.more
    BY <1>5, <1>6 DEF GZipInv, AppInv
  <2>2. Account(received, TRUE)
    BY <1>5, <1>6 DEF GZipInv, AccountInv
  <2>3. app'.first = app.first
    BY <1>5, <1>6
  <2>4. QED
    BY <2>1, <2>2, <2>3
<1>8. ~stale /\ ~headers.events /\ headers.encoding # "app"
  BY <1>3, <1>5 DEF GZipInv, HeadersInv
<1>9. Compressible /\ (Encodes <=> accept) /\ headers.vary
  <2>1. Compressible
    BY <1>7, <1>8 DEF Compressible
  <2>2. QED
    BY <1>6, <1>8, <2>1 DEF GZipInv, AskedInv
<1>10. data \in Bytes /\ app.data \in Bytes /\ <<Header>> \in Bytes /\ <<Trailer>> \in Bytes
  BY <1>1, <1>5, DataIsBytes
<1>11. Encodes => file.buffer = <<>>
  BY DEF GZipInv, HeadersInv
<1>12. PICK all \in Bytes : all = file.waiting \o data
  BY <1>1, <1>10, Bytewise
<1>13. /\ out.data \in Bytes /\ out.file \in Files
       /\ ~accept => out.data = data /\ out.file = file
       /\ accept => /\ out.file.buffer = <<>>
                    /\ ~more => out.data = all \o <<Trailer>>
                    /\ more => out.data \o out.file.waiting = all
  <2>1. /\ out.data \in Bytes /\ out.file \in Files
        /\ ~accept => out.data = data /\ out.file = file
        /\ accept => /\ out.file.buffer = <<>>
                     /\ ~more => out.data = file.buffer \o all \o <<Trailer>>
                     /\ more => out.data \o out.file.waiting = file.buffer \o all
    BY <1>4, <1>10, <1>12, CompressedIs DEF GZipInv
  <2>2. <<>> \o all = all
    BY <1>12, Bytewise
  <2>3. accept => file.buffer = <<>>
    BY <1>9, <1>11
  <2>4. QED
    BY <2>1, <2>2, <2>3
<1>14. Encodes => received \o all = <<Header>> \o app'.data
  <2>1. ASSUME Encodes PROVE received \o all = <<Header>> \o app'.data
    <3>1. received \o file.waiting = <<Header>> \o app.data
      BY <1>7, <2>1 DEF Account
    <3>2. (received \o file.waiting) \o data = received \o (file.waiting \o data)
      <4>1. PICK past \in Bytes, waiting \in Bytes, next \in Bytes :
              past = received /\ waiting = file.waiting /\ next = data
        BY <1>1, <1>10
      <4>2. (past \o waiting) \o next = past \o (waiting \o next)
        BY Associative, Zenon
      <4>3. QED
        BY <4>1, <4>2, Zenon
    <3>3. (<<Header>> \o app.data) \o data = <<Header>> \o (app.data \o data)
      <4>1. PICK head \in Bytes, before \in Bytes, next \in Bytes :
              head = <<Header>> /\ before = app.data /\ next = data
        BY <1>10
      <4>2. (head \o before) \o next = head \o (before \o next)
        BY Associative, Zenon
      <4>3. QED
        BY <4>1, <4>2, Zenon
    <3>4. QED
      BY <1>5, <1>12, <3>1, <3>2, <3>3
  <2>2. QED
    BY <2>1
<1>15. Account(received \o out.data, more)'
  <2>1. Encodes' <=> Encodes
    BY <1>3 DEF Encodes
  <2>2. CASE ~Encodes
    <3>1. out.data = data /\ received = app.data
      BY <1>7, <1>9, <1>13, <2>2 DEF Account
    <3>2. QED
      BY <1>3, <1>5, <2>1, <2>2, <3>1 DEF Account
  <2>3. CASE Encodes /\ more
    <3>1. PICK rest \in Bytes, given \in Bytes, past \in Bytes :
            rest = out.file.waiting /\ given = out.data /\ past = received
      BY <1>1, <1>13 DEF Files
    <3>2. (past \o given) \o rest = past \o (given \o rest)
      BY Associative, Zenon
    <3>3. (received \o out.data) \o file'.waiting = <<Header>> \o app'.data
      BY <1>4, <1>9, <1>13, <1>14, <2>3, <3>1, <3>2
    <3>4. QED
      BY <1>3, <2>1, <2>3, <3>3 DEF Account
  <2>4. CASE Encodes /\ ~more
    <3>1. PICK past \in Bytes, tail \in Bytes : past = received /\ tail = <<Trailer>>
      BY <1>1, <1>10
    <3>2. (past \o all) \o tail = past \o (all \o tail)
      BY Associative, Zenon
    <3>3. received \o out.data = <<Header>> \o app'.data \o <<Trailer>>
      BY <1>9, <1>13, <1>14, <2>4, <3>1, <3>2
    <3>4. QED
      BY <1>3, <2>1, <2>4, <3>3 DEF Account
  <2>5. QED
    BY <2>2, <2>3, <2>4
<1>16. HeadersInv'
  <2>1. app'.sent > 1 /\ app'.sent > 0
    BY <1>5, <1>6
  <2>2. Encodes' => accept /\ file'.buffer = <<>> /\ headers.length = None
    <3>1. Encodes' <=> Encodes
      BY <1>3 DEF Encodes
    <3>2. QED
      BY <1>4, <1>7, <1>9, <1>13, <3>1 DEF GZipInv, HeadersInv
  <2>3. headers.encoding # "gzip" => headers.length = app'.total
    BY <1>5, <1>8 DEF GZipInv, HeadersInv
  <2>4. QED
    BY <1>3, <1>8, <1>9, <2>1, <2>2, <2>3 DEF HeadersInv
<1>17. Compressible' /\ (~stale => (Encodes <=> accept /\ Compressible)')
  <2>1. Compressible'
    BY <1>3, <1>7, <1>9 DEF Compressible
  <2>2. Encodes' <=> Encodes
    BY <1>3 DEF Encodes
  <2>3. QED
    BY <1>3, <1>9, <2>1, <2>2
<1>18. Sends((IF started THEN <<>> ELSE <<Start>>) \o <<Body(out.data, more)>>)
  <2>1. PICK one : one = <<Body(out.data, more)>>
    OBVIOUS
  <2>2. <<>> \o one = one
    <3>1. one \in Seq({Body(out.data, more)})
      BY <2>1
    <3>2. QED
      BY <3>1, ConcatEmptySeq
  <2>3. QED
    BY <1>3, <1>4, <2>1, <2>2
<1>19. file' \in Files
  BY <1>4, <1>13
<1>20. QED
  BY <1>1, <1>3, <1>9, <1>13, <1>15, <1>16, <1>17, <1>18, <1>19, BodySent

\* A message without a body where the first one was expected: the KeyError ends the request.
LEMMA FirstWithoutKeyStep ==
  ASSUME GZipInv, NEW more \in BOOLEAN, FirstWithoutKey(more)
  PROVE  GZipInv'
<1>1. /\ minimum \in MinimumSizes /\ accept \in BOOLEAN /\ headers \in Headers /\ passes \in BOOLEAN
      /\ outgoing \in Seq(Outgoing) /\ wire \in Seq(OnWire) /\ received \in Bytes
      /\ stale \in BOOLEAN /\ requests \in 1..MaxRequests
  BY GZipTypes DEF GZipInv
<1>2. /\ AppSends(0, more) /\ ~passes /\ ~started /\ started' = TRUE /\ pc' = "over"
      /\ headers' = [headers EXCEPT !.vary = TRUE]
      /\ UNCHANGED <<minimum, accept, passes, outgoing, wire, received, stale, requests>>
  BY DEF FirstWithoutKey
<1>3. PICK out \in Compressed(<<>>, more) : file' = out.file
  BY DEF FirstWithoutKey
<1>4. 0 \in 0..MaxUnits
  BY BoundsAssumption
<1>5. pc = "app" /\ app.sent > 0 /\ app' \in Apps /\ app'.sent = app.sent + 1 /\ app'.total = app.total
  BY <1>2, <1>4, AppSent
<1>6. app.sent = 1 /\ app.sent \in Nat /\ wire = <<>>
  BY <1>2, <1>5, Running
<1>7. TypeOK'
  <2>1. file' \in Files
    BY <1>3, Bytewise, CompressedIs DEF GZipInv
  <2>2. headers' \in Headers
    BY <1>1, <1>2 DEF Headers
  <2>3. QED
    BY <1>1, <1>2, <1>5, <2>1, <2>2, GZipTyped
<1>8. HeadersInv'
  <2>1. /\ headers'.vary = TRUE /\ headers'.encoding = headers.encoding
        /\ headers'.events = headers.events /\ headers'.length = headers.length
    BY <1>1, <1>2 DEF Headers
  <2>2. ~Encodes
    BY <1>6 DEF GZipInv, HeadersInv
  <2>3. QED
    BY <1>2, <1>5, <2>1, <2>2 DEF GZipInv, HeadersInv, Encodes
<1>9. ~HasBody' /\ ~Protocol!Complete'
  BY <1>2, <1>6 DEF HasBody, Protocol!Complete, Protocol!LastIs
<1>10. AskedInv' /\ WireInv' /\ AppInv' /\ SendsInv' /\ AccountInv'
  BY <1>2, <1>6, <1>9 DEF AskedInv, BodyOutgoing, WireInv, AppInv, SendsInv, AccountInv
<1>11. QED
  BY <1>7, <1>8, <1>10 DEF GZipInv

\* The start is withheld.
LEMMA AppStartStep ==
  ASSUME GZipInv, AppStart
  PROVE  GZipInv'
<1>1. /\ minimum \in MinimumSizes /\ accept \in BOOLEAN /\ headers \in Headers /\ started \in BOOLEAN
      /\ file \in Files /\ outgoing \in Seq(Outgoing) /\ wire \in Seq(OnWire) /\ received \in Bytes
      /\ stale \in BOOLEAN /\ requests \in 1..MaxRequests /\ app \in Apps /\ headers.events \in BOOLEAN
  BY GZipTypes DEF GZipInv
<1>2. /\ pc = "app" /\ app.sent = 0 /\ app' = [app EXCEPT !.sent = 1]
      /\ passes' = (headers.encoding # "none" \/ headers.events)
      /\ UNCHANGED <<minimum, accept, headers, pc, started, file, outgoing, wire, received, stale, requests>>
  BY DEF AppStart
<1>3. 1 \in 0..(MaxBodies + 2)
  BY BoundsAssumption
<1>4. app' \in Apps /\ app'.sent = 1 /\ app'.data = app.data /\ app'.total = app.total
  BY <1>1, <1>2, <1>3 DEF Apps
<1>5. TypeOK'
  <2>1. passes' \in BOOLEAN
    BY <1>1, <1>2
  <2>2. QED
    BY <1>1, <1>2, <1>4, <2>1, GZipTyped DEF TypeOK, GZipInv
<1>6. ~Encodes
  BY <1>2 DEF GZipInv, HeadersInv
<1>7. HeadersInv'
  <2>1. headers.encoding # "none" <=> stale \/ headers.encoding = "app"
    BY <1>1, <1>6 DEF GZipInv, HeadersInv, Encodes, Headers
  <2>2. passes' <=> stale \/ headers.events \/ headers.encoding = "app"
    BY <1>2, <2>1
  <2>3. QED
    BY <1>2, <1>4, <1>6, <2>2 DEF GZipInv, HeadersInv, Encodes
<1>8. wire = <<>>
  BY <1>2 DEF GZipInv, AppInv
<1>9. ~HasBody' /\ ~Protocol!Complete'
  BY <1>2, <1>8 DEF HasBody, Protocol!Complete, Protocol!LastIs
<1>10. AskedInv' /\ WireInv' /\ SendsInv' /\ AccountInv'
  <2>1. ~BodyOutgoing' /\ app'.sent = 1
    BY <1>2, <1>4 DEF BodyOutgoing
  <2>2. AskedInv' /\ WireInv' /\ SendsInv'
    BY <1>2, <1>8, <1>9, <2>1 DEF AskedInv, WireInv, SendsInv
  <2>3. AccountInv'
    <3>1. ~(app'.sent > 1)
      BY <2>1
    <3>2. QED
      BY <1>9, <2>1, <3>1, Zenon DEF AccountInv
  <2>4. QED
    BY <2>2, <2>3
<1>11. AppInv'
  BY <1>2, <1>4 DEF GZipInv, AppInv
<1>12. QED
  BY <1>5, <1>7, <1>10, <1>11 DEF GZipInv

\* A file is sent by the server.
LEMMA PathSendStep ==
  ASSUME GZipInv, PathSend
  PROVE  GZipInv'
<1>1. /\ minimum \in MinimumSizes /\ accept \in BOOLEAN /\ headers \in Headers /\ started \in BOOLEAN
      /\ file \in Files /\ passes \in BOOLEAN /\ wire \in Seq(OnWire) /\ received \in Bytes
      /\ stale \in BOOLEAN /\ requests \in 1..MaxRequests /\ app \in Apps
  BY GZipTypes DEF GZipInv
<1>2. /\ pc = "app" /\ app.sent = 1 /\ app' = [app EXCEPT !.sent = 2] /\ pc' = "sends"
      /\ outgoing' = <<Start, [type |-> "pathsend"]>>
      /\ UNCHANGED <<minimum, accept, headers, started, passes, file, wire, received, stale, requests>>
  BY DEF PathSend, BodyDue, Sends
<1>3. 2 \in 0..(MaxBodies + 2)
  BY BoundsAssumption
<1>4. app' \in Apps /\ app'.sent = 2 /\ app'.data = app.data /\ app'.total = app.total
  BY <1>1, <1>2, <1>3 DEF Apps
<1>5. PICK message : message = [type |-> "pathsend"]
  OBVIOUS
<1>6. /\ outgoing' \in Seq(Outgoing) /\ Len(outgoing') = 2 /\ outgoing'[1] = Start
      /\ outgoing'[2] = message /\ message.type = "pathsend"
  <2>1. message \in Outgoing /\ Start \in Outgoing /\ message.type = "pathsend"
    BY <1>5 DEF Outgoing, Start
  <2>2. QED
    BY <1>2, <1>5, <2>1
<1>7. TypeOK'
  BY <1>1, <1>2, <1>4, <1>6, GZipTyped
<1>8. ~Encodes
  BY <1>2 DEF GZipInv, HeadersInv
<1>9. HeadersInv'
  BY <1>2, <1>4, <1>8 DEF GZipInv, HeadersInv, Encodes
<1>10. wire = <<>> /\ received = <<>>
  BY <1>2 DEF GZipInv, AppInv
<1>11. ~HasBody' /\ ~Protocol!Complete' /\ ~BodyOutgoing'
  BY <1>2, <1>6, <1>10 DEF HasBody, Protocol!Complete, Protocol!LastIs, BodyOutgoing
<1>12. AskedInv' /\ WireInv' /\ AppInv' /\ AccountInv'
  BY <1>2, <1>10, <1>11 DEF AskedInv, WireInv, AppInv, AccountInv
<1>13. SendsInv'
  <2>1. Len(wire') = 0 /\ wire' = <<>> /\ received' = <<>>
    BY <1>2, <1>10
  <2>2. QED
    BY <1>4, <1>6, <2>1 DEF SendsInv
<1>14. QED
  BY <1>7, <1>9, <1>12, <1>13 DEF GZipInv

\* The application raises.
LEMMA AppFailsStep ==
  ASSUME GZipInv, AppFails
  PROVE  GZipInv'
<1>1. /\ pc' = "over"
      /\ UNCHANGED <<minimum, accept, headers, app, started, passes, file, outgoing, wire,
                   received, stale, requests>>
  BY DEF AppFails
<1>2. TypeOK'
  BY <1>1 DEF GZipInv, TypeOK
<1>3. HeadersInv'
  BY <1>1 DEF GZipInv, HeadersInv, Encodes
<1>4. AskedInv' /\ WireInv' /\ AppInv' /\ SendsInv'
  BY <1>1 DEF GZipInv, AskedInv, BodyOutgoing, HasBody, Encodes, Compressible, WireInv, AppInv, SendsInv
<1>5. AccountInv'
  BY <1>1 DEF GZipInv, AccountInv, BodyOutgoing, HasBody, Account, Encodes, Whole, Protocol!Complete,
              Protocol!LastIs
<1>6. QED
  BY <1>2, <1>3, <1>4, <1>5 DEF GZipInv

\* Another request: nothing is encoded, and a Response that was has headers that say so.
LEMMA NextRequestStep ==
  ASSUME GZipInv, NextRequest
  PROVE  GZipInv'
<1>1. /\ minimum \in MinimumSizes /\ headers \in Headers /\ stale \in BOOLEAN
      /\ app.total \in None..MaxUnits /\ requests \in 1..MaxRequests
  BY GZipTypes DEF GZipInv
<1>2. requests' = requests + 1 /\ requests < MaxRequests
  BY DEF NextRequest
<1>3. PICK total \in None..MaxUnits :
        /\ Begin(total)
        /\ \/ headers' \in Original(total) /\ stale' = FALSE
           \/ total = app.total /\ headers' = headers /\ stale' = (stale \/ headers.encoding = "gzip")
  BY <1>1 DEF NextRequest
<1>4. PICK none : none = [size |-> 0, more |-> FALSE]
  OBVIOUS
<1>5. PICK fresh : fresh = [buffer |-> <<Header>>, waiting |-> <<>>, closed |-> FALSE]
  OBVIOUS
<1>6. /\ app' = [sent |-> 0, first |-> none, data |-> <<>>, total |-> total]
      /\ pc' = "app" /\ started' = FALSE /\ passes' = FALSE /\ file' = fresh
      /\ outgoing' = <<>> /\ wire' = <<>> /\ received' = <<>> /\ accept' \in BOOLEAN /\ minimum' = minimum
  BY <1>3, <1>4, <1>5 DEF Begin
<1>7. app' \in Apps /\ app'.sent = 0 /\ app'.data = <<>> /\ app'.total = total
  <2>1. none \in [size : 0..MaxUnits, more : BOOLEAN] /\ 0 \in 0..(MaxBodies + 2) /\ <<>> \in Seq(1..MaxUnits)
    BY <1>4, BoundsAssumption
  <2>2. QED
    BY <1>6, <2>1 DEF Apps
<1>8. file' \in Files /\ file'.buffer = <<Header>> /\ file'.waiting = <<>>
  BY <1>5, <1>6, Bytewise, DataIsBytes DEF Files
<1>9. /\ headers' \in Headers /\ stale' \in BOOLEAN
      /\ stale' => headers'.encoding = "gzip"
      /\ headers'.encoding = "gzip" => headers'.vary /\ stale'
      /\ ~stale' /\ headers'.encoding # "gzip" => headers'.length = total
  <2>1. CASE headers' \in Original(total) /\ stale' = FALSE
    <3>1. headers' \in Headers /\ headers'.encoding # "gzip" /\ headers'.length = total
      <4>1. total \in None..(MaxUnits + 2)
        BY BoundsAssumption DEF None
      <4>2. /\ headers'.encoding \in {"none", "app"} /\ headers'.length = total
            /\ headers' \in [encoding : {"none", "app"}, events : BOOLEAN, length : {total}, vary : {FALSE}]
        BY <2>1 DEF Original
      <4>3. headers' \in Headers
        BY <4>1, <4>2 DEF Headers
      <4>4. QED
        BY <4>2, <4>3
    <3>2. QED
      BY <2>1, <3>1
  <2>2. CASE total = app.total /\ headers' = headers /\ stale' = (stale \/ headers.encoding = "gzip")
    BY <1>1, <2>2 DEF GZipInv, HeadersInv
  <2>3. QED
    BY <1>3, <2>1, <2>2
<1>10. TypeOK'
  <2>1. requests' \in 1..MaxRequests
    BY <1>1, <1>2, BoundsAssumption
  <2>2. outgoing' \in Seq(Outgoing) /\ wire' \in Seq(OnWire)
    BY <1>6
  <2>3. QED
    BY <1>1, <1>6, <1>7, <1>8, <1>9, <2>1, <2>2, Bytewise, GZipTyped
<1>11. HeadersInv'
  BY <1>7, <1>9 DEF HeadersInv, Encodes
<1>12. ~HasBody' /\ ~Protocol!Complete' /\ ~BodyOutgoing'
  BY <1>6 DEF HasBody, Protocol!Complete, Protocol!LastIs, BodyOutgoing
<1>13. AskedInv' /\ WireInv' /\ SendsInv' /\ AccountInv'
  <2>1. AskedInv' /\ WireInv' /\ SendsInv'
    BY <1>6, <1>12 DEF AskedInv, WireInv, SendsInv
  <2>2. AccountInv'
    <3>1. ~(app'.sent > 1)
      BY <1>7
    <3>2. QED
      BY <1>12, <3>1, Zenon DEF AccountInv
  <2>3. QED
    BY <2>1, <2>2
<1>14. AppInv'
  BY <1>6, <1>7, <1>8 DEF AppInv
<1>15. QED
  BY <1>10, <1>11, <1>13, <1>14 DEF GZipInv

\* What the responder sends next: the start and then a body or a pathsend, or that alone.
LEMMA Sending ==
  ASSUME GZipInv, pc = "sends"
  PROVE  \E last \in Outgoing :
           /\ app.sent > 1 /\ outgoing[Len(outgoing)] = last /\ ~Protocol!Complete
           /\ \/ outgoing = <<Start, last>> /\ wire = <<>> /\ received = <<>> /\ app.sent = 2
              \/ outgoing = <<last>> /\ wire # <<>> /\ Protocol!Open /\ Len(wire) + 1 = app.sent
           /\ \/ last.type = "pathsend" /\ app.sent = 2
              \/ last.type = "body" /\ started /\ last \in Bodies /\ (last.more_body => app.first.more)
<1>1. outgoing \in Seq(Outgoing) /\ wire \in Seq(OnWire) /\ app.sent \in 0..(MaxBodies + 2)
  BY GZipTypes DEF GZipInv
<1>2. PICK last : last = outgoing[Len(outgoing)]
  OBVIOUS
<1>3. /\ app.sent > 1
      /\ \/ Len(outgoing) = 2 /\ outgoing[1] = Start /\ wire = <<>> /\ received = <<>>
         \/ Len(outgoing) = 1 /\ wire # <<>> /\ Protocol!Open
      /\ Len(wire) + Len(outgoing) = app.sent
      /\ \/ last.type = "pathsend" /\ app.sent = 2
         \/ last.type = "body" /\ started /\ (last.more_body => app.first.more)
  BY <1>2 DEF GZipInv, SendsInv
<1>4. last \in Outgoing
  <2>1. Len(outgoing) \in 1..Len(outgoing)
    <3>1. Len(outgoing) = 1 \/ Len(outgoing) = 2
      BY <1>3
    <3>2. QED
      BY <3>1
  <2>2. QED
    BY <1>1, <1>2, <2>1, ElementOfSeq
<1>5. last.type = "body" => last \in Bodies
  BY <1>4 DEF Outgoing, Bodies
<1>6. CASE Len(outgoing) = 2
  <2>1. outgoing[1] = Start /\ outgoing[2] = last /\ wire = <<>> /\ received = <<>>
    BY <1>2, <1>3, <1>6
  <2>2. outgoing = <<Start, last>>
    <3>1. Start \in Outgoing
      BY DEF Start, Outgoing
    <3>2. <<Start, last>> \in Seq(Outgoing) /\ Len(<<Start, last>>) = 2
      BY <1>4, <3>1
    <3>3. QED
      BY <1>1, <1>6, <2>1, <3>2, SeqEqual
  <2>3. app.sent = 2
    <3>1. Len(wire) = 0
      BY <2>1
    <3>2. QED
      BY <1>1, <1>3, <1>6, <3>1
  <2>4. ~Protocol!Complete
    BY <2>1 DEF Protocol!Complete, Protocol!LastIs
  <2>5. QED
    BY <1>2, <1>3, <1>4, <1>5, <2>1, <2>2, <2>3, <2>4
<1>7. CASE Len(outgoing) = 1
  <2>1. outgoing = <<last>>
    BY <1>1, <1>2, <1>7
  <2>2. wire # <<>> /\ Protocol!Open /\ Len(wire) + 1 = app.sent
    BY <1>3, <1>7
  <2>3. ~Protocol!Complete
    BY <2>2 DEF Protocol!Complete, Protocol!Open, Protocol!LastIs
  <2>4. QED
    BY <1>2, <1>3, <1>4, <1>5, <2>1, <2>2, <2>3
<1>8. QED
  BY <1>3, <1>6, <1>7

\* The server takes a message, or has lost the client.
LEMMA SendStep ==
  ASSUME GZipInv, Send
  PROVE  GZipInv'
<1>1. /\ minimum \in MinimumSizes /\ accept \in BOOLEAN /\ headers \in Headers /\ started \in BOOLEAN
      /\ file \in Files /\ passes \in BOOLEAN /\ wire \in Seq(OnWire) /\ received \in Bytes
      /\ stale \in BOOLEAN /\ requests \in 1..MaxRequests /\ app \in Apps /\ app.sent \in 0..(MaxBodies + 2)
  BY GZipTypes DEF GZipInv
<1>2. /\ pc = "sends"
      /\ UNCHANGED <<minimum, accept, headers, app, started, passes, file, stale, requests>>
  BY DEF Send
<1>3. PICK last \in Outgoing :
        /\ app.sent > 1 /\ outgoing[Len(outgoing)] = last /\ ~Protocol!Complete
        /\ \/ outgoing = <<Start, last>> /\ wire = <<>> /\ received = <<>> /\ app.sent = 2
           \/ outgoing = <<last>> /\ wire # <<>> /\ Protocol!Open /\ Len(wire) + 1 = app.sent
        /\ \/ last.type = "pathsend" /\ app.sent = 2
           \/ last.type = "body" /\ started /\ last \in Bodies /\ (last.more_body => app.first.more)
  BY <1>2, Sending
<1>4. HeadersInv'
  BY <1>2 DEF GZipInv, HeadersInv, Encodes
<1>5. CASE pc' = "over" /\ outgoing' = <<>> /\ UNCHANGED <<wire, received>>
  <2>1. TypeOK'
    <3>1. outgoing' \in Seq(Outgoing)
      BY <1>5
    <3>2. QED
      BY <1>1, <1>2, <1>5, <3>1, GZipTyped
  <2>2. AskedInv' /\ WireInv' /\ AppInv' /\ SendsInv'
    BY <1>2, <1>5
      DEF GZipInv, AskedInv, BodyOutgoing, HasBody, Encodes, Compressible, WireInv, AppInv, SendsInv
  <2>3. AccountInv'
    <3>1. ~Protocol!Complete' /\ ~BodyOutgoing' /\ pc' # "app"
      BY <1>3, <1>5 DEF BodyOutgoing, Protocol!Complete, Protocol!LastIs
    <3>2. QED
      BY <3>1, Zenon DEF AccountInv
  <2>4. QED
    BY <1>4, <2>1, <2>2, <2>3 DEF GZipInv
<1>6. CASE outgoing = <<Start, last>> /\ wire = <<>> /\ received = <<>> /\ app.sent = 2
           /\ ~(pc' = "over" /\ outgoing' = <<>> /\ UNCHANGED <<wire, received>>)
  <2>1. PICK first : first = [type |-> "start", headers |-> headers]
    OBVIOUS
  <2>2. wire' = <<first>> /\ received' = <<>> /\ outgoing' = <<last>> /\ pc' = "sends"
    <3>1. Head(outgoing) = Start /\ Start.type = "start" /\ Len(outgoing) = 2
      BY <1>6 DEF Start
    <3>2. Tail(outgoing) = <<last>> /\ Append(wire, first) = <<first>>
      BY <1>6
    <3>3. /\ wire' = Append(wire, first) /\ received' = received /\ outgoing' = Tail(outgoing)
          /\ pc' = "sends"
      BY <1>6, <2>1, <3>1 DEF Send
    <3>4. QED
      BY <1>6, <3>2, <3>3
  <2>3. first \in OnWire /\ first.type = "start"
    BY <1>1, <2>1 DEF OnWire
  <2>4. /\ wire' \in Seq(OnWire) /\ Len(wire') = 1 /\ wire' # <<>> /\ wire'[1] = first /\ DOMAIN wire' = {1}
        /\ outgoing' \in Seq(Outgoing) /\ Len(outgoing') = 1 /\ outgoing'[1] = last
    BY <2>2, <2>3
  <2>5. TypeOK'
    BY <1>1, <1>2, <2>2, <2>4, Bytewise, GZipTyped
  <2>6. ~HasBody' /\ ~Protocol!Complete' /\ Protocol!Open'
    BY <2>3, <2>4 DEF HasBody, Protocol!Complete, Protocol!Open, Protocol!LastIs
  <2>7. BodyOutgoing' <=> BodyOutgoing
    BY <1>2, <1>3, <2>2, <2>4 DEF BodyOutgoing
  <2>8. AskedInv'
    BY <1>2, <2>6, <2>7 DEF GZipInv, AskedInv, Encodes, Compressible
  <2>9. WireInv' /\ AppInv'
    BY <1>2, <1>6, <2>1, <2>2, <2>4 DEF WireInv, AppInv
  <2>10. SendsInv'
    BY <1>2, <1>3, <1>6, <2>4, <2>6 DEF SendsInv
  <2>11. AccountInv'
    <3>1. outgoing'[Len(outgoing')] = outgoing[Len(outgoing)]
      BY <1>3, <2>4
    <3>2. QED
      BY <1>2, <1>6, <2>2, <2>6, <2>7, <3>1
        DEF GZipInv, AccountInv, Account, Encodes, Whole
  <2>12. QED
    BY <1>4, <2>5, <2>8, <2>9, <2>10, <2>11 DEF GZipInv
<1>7. CASE outgoing = <<last>> /\ wire # <<>> /\ Len(wire) + 1 = app.sent
           /\ ~(pc' = "over" /\ outgoing' = <<>> /\ UNCHANGED <<wire, received>>)
  <2>1. /\ wire' = Append(wire, last) /\ outgoing' = <<>>
        /\ received' = IF last.type = "body" THEN received \o last.data ELSE received
        /\ pc' = IF Ends(last) THEN "over" ELSE "app"
    <3>1. Head(outgoing) = last /\ Len(outgoing) = 1 /\ Tail(outgoing) = <<>> /\ last.type # "start"
      BY <1>3, <1>7
    <3>2. QED
      BY <1>7, <3>1 DEF Send
  <2>2. last \in OnWire
    BY <1>3 DEF Outgoing, OnWire
  <2>3. /\ wire' \in Seq(OnWire) /\ Len(wire') = app.sent /\ wire' # <<>> /\ wire'[Len(wire')] = last
        /\ wire'[1] = wire[1] /\ Len(wire) \in Nat /\ Len(wire) > 0
        /\ \A i \in 1..Len(wire) : wire'[i] = wire[i]
    BY <1>1, <1>7, <2>1, <2>2, AppendProperties
  <2>4. received' \in Bytes
    BY <1>1, <1>3, <2>1, Bytewise DEF Bodies
  <2>5. TypeOK'
    <3>1. outgoing' \in Seq(Outgoing) /\ pc' \in {"app", "sends", "over"}
      BY <2>1
    <3>2. QED
      BY <1>1, <1>2, <2>3, <2>4, <3>1, GZipTyped
  <2>6. WireInv' /\ SendsInv'
    BY <1>2, <1>3, <1>7, <2>1, <2>3 DEF GZipInv, WireInv, SendsInv
  <2>7. CASE last.type = "body"
    <3>1. BodyOutgoing /\ (Ends(last) <=> ~last.more_body) /\ last.more_body \in BOOLEAN
      BY <1>2, <1>3, <2>7 DEF BodyOutgoing, Ends, Bodies
    <3>2. AskedInv'
      BY <1>2, <3>1 DEF GZipInv, AskedInv, Encodes, Compressible
    <3>3. AppInv'
      BY <1>2, <1>3, <2>1, <2>3, <2>7, <3>1 DEF AppInv
    <3>4. /\ Account(received \o last.data, last.more_body) /\ (~last.more_body => Whole)
      BY <1>3, <3>1 DEF GZipInv, AccountInv
    <3>5. Account(received, last.more_body)' /\ (~last.more_body => Whole')
      BY <1>2, <2>1, <2>7, <3>4 DEF Account, Encodes, Whole
    <3>6. ~BodyOutgoing' /\ (pc' = "app" => last.more_body) /\ (Protocol!Complete' => ~last.more_body)
      BY <2>1, <2>3, <2>7, <3>1 DEF BodyOutgoing, Protocol!Complete, Protocol!LastIs
    <3>7. AccountInv'
      <4>1. CASE last.more_body
        <5>1. Account(received, TRUE)'
          BY <3>1, <3>5, <4>1
        <5>2. QED
          BY <3>6, <4>1, <5>1 DEF AccountInv
      <4>2. CASE ~last.more_body
        <5>1. Account(received, FALSE)' /\ Whole'
          BY <3>1, <3>5, <4>2
        <5>2. QED
          BY <3>6, <4>2, <5>1 DEF AccountInv
      <4>3. QED
        BY <4>1, <4>2
    <3>8. QED
      BY <1>4, <2>5, <2>6, <3>2, <3>3, <3>7 DEF GZipInv
  <2>8. CASE last.type = "pathsend"
    <3>1. pc' = "over" /\ app.sent = 2 /\ Len(wire) = 1
      BY <1>3, <1>7, <2>1, <2>3, <2>8 DEF Ends
    <3>2. wire'[1].type = "start" /\ wire'[2].type = "pathsend" /\ DOMAIN wire' = {1, 2}
      BY <1>7, <2>3, <2>8, <3>1 DEF GZipInv, WireInv
    <3>3. ~HasBody' /\ ~BodyOutgoing'
      <4>1. \A i \in {1, 2} : wire'[i].type # "body"
        BY <3>2
      <4>2. QED
        BY <3>1, <3>2, <4>1 DEF HasBody, BodyOutgoing
    <3>4. AskedInv' /\ AppInv'
      BY <3>1, <3>3 DEF AskedInv, AppInv
    <3>5. AccountInv'
      BY <3>1, <3>3 DEF AccountInv
    <3>6. QED
      BY <1>4, <2>5, <2>6, <3>4, <3>5 DEF GZipInv
  <2>9. QED
    BY <1>3, <2>7, <2>8
<1>8. QED
  BY <1>3, <1>5, <1>6, <1>7

\* The first response has original headers,
LEMMA GZipInit == Init => GZipInv
<1> SUFFICES ASSUME Init PROVE GZipInv
  OBVIOUS
<1>1. PICK total \in None..MaxUnits :
        /\ headers \in Original(total)
        /\ app = [sent |-> 0, first |-> [size |-> 0, more |-> FALSE], data |-> <<>>, total |-> total]
  BY DEF Init
<1>2. PICK none : none = [size |-> 0, more |-> FALSE]
  OBVIOUS
<1>3. PICK fresh : fresh = [buffer |-> <<Header>>, waiting |-> <<>>, closed |-> FALSE]
  OBVIOUS
<1>4. /\ minimum \in MinimumSizes /\ accept \in BOOLEAN /\ pc = "app" /\ started = FALSE /\ passes = FALSE
      /\ file = fresh /\ outgoing = <<>> /\ wire = <<>> /\ received = <<>> /\ stale = FALSE /\ requests = 1
  BY <1>3 DEF Init
<1>5. app \in Apps /\ app.sent = 0 /\ app.data = <<>> /\ app.total = total
  <2>1. none \in [size : 0..MaxUnits, more : BOOLEAN] /\ 0 \in 0..(MaxBodies + 2) /\ <<>> \in Seq(1..MaxUnits)
    BY <1>2, BoundsAssumption
  <2>2. QED
    BY <1>1, <1>2, <2>1 DEF Apps
<1>6. file \in Files /\ file.buffer = <<Header>> /\ file.waiting = <<>>
  BY <1>3, <1>4, Bytewise, DataIsBytes DEF Files
<1>7. headers \in Headers /\ headers.encoding # "gzip" /\ headers.length = total
  <2>1. total \in None..(MaxUnits + 2)
    BY BoundsAssumption DEF None
  <2>2. /\ headers.encoding \in {"none", "app"} /\ headers.length = total
        /\ headers \in [encoding : {"none", "app"}, events : BOOLEAN, length : {total}, vary : {FALSE}]
    BY <1>1 DEF Original
  <2>3. headers \in Headers
    BY <2>1, <2>2 DEF Headers
  <2>4. QED
    BY <2>2, <2>3
<1>8. TypeOK
  <2>1. 1 \in 1..MaxRequests /\ <<>> \in Bytes
    BY BoundsAssumption, Bytewise
  <2>2. /\ outgoing \in Seq([type : {"start"}] \union [type : {"pathsend"}]
                           \union [type : {"body"}, data : Bytes, more_body : BOOLEAN])
        /\ wire \in Seq([type : {"start"}, headers : Headers] \union [type : {"pathsend"}]
                       \union [type : {"body"}, data : Bytes, more_body : BOOLEAN])
    BY <1>4
  <2>3. started \in BOOLEAN /\ passes \in BOOLEAN /\ stale \in BOOLEAN /\ received \in Bytes
    BY <1>4, <2>1
  <2>4. QED
    BY <1>4, <1>5, <1>6, <1>7, <2>1, <2>2, <2>3 DEF TypeOK, Apps, Files
<1>9. HeadersInv
  BY <1>4, <1>5, <1>7 DEF HeadersInv, Encodes
<1>10. ~HasBody /\ ~Protocol!Complete /\ ~BodyOutgoing
  BY <1>4 DEF HasBody, Protocol!Complete, Protocol!LastIs, BodyOutgoing
<1>11. AskedInv /\ WireInv /\ SendsInv
  BY <1>4, <1>10 DEF AskedInv, WireInv, SendsInv
<1>12. AccountInv
  <2>1. ~(app.sent > 1)
    BY <1>5
  <2>2. QED
    BY <1>10, <2>1, Zenon DEF AccountInv
<1>13. AppInv
  BY <1>4, <1>5, <1>6 DEF AppInv
<1>14. QED
  BY <1>8, <1>9, <1>11, <1>12, <1>13 DEF GZipInv

\* and every step of the application, the responder and the server keeps the accounts.
LEMMA GZipStep == GZipInv /\ [Next]_vars => GZipInv'
<1> SUFFICES ASSUME GZipInv, [Next]_vars PROVE GZipInv'
  OBVIOUS
<1>1. CASE UNCHANGED vars
  <2>1. UNCHANGED <<minimum, accept, headers, app, pc, started, passes, file, outgoing,
                  wire, received, stale, requests>>
    BY <1>1 DEF vars
  <2>2. TypeOK'
    BY <2>1 DEF GZipInv, TypeOK
  <2>3. HeadersInv'
    BY <2>1 DEF GZipInv, HeadersInv, Encodes
  <2>4. AskedInv' /\ WireInv' /\ AppInv'
    BY <2>1 DEF GZipInv, AskedInv, BodyOutgoing, HasBody, Encodes, Compressible, WireInv, AppInv
  <2>5. SendsInv'
    BY <2>1 DEF GZipInv, SendsInv, Protocol!Open, Protocol!LastIs
  <2>6. AccountInv'
    BY <2>1 DEF GZipInv, AccountInv, BodyOutgoing, HasBody, Account, Encodes, Whole, Protocol!Complete,
                Protocol!LastIs
  <2>7. QED
    BY <2>2, <2>3, <2>4, <2>5, <2>6 DEF GZipInv
<1>2. CASE AppStart \/ PathSend
  BY <1>2, AppStartStep, PathSendStep
<1>3. ASSUME NEW n \in 0..MaxUnits, NEW more \in BOOLEAN,
             PassThrough(n, more) \/ Small(n, more) \/ First(n, more) \/ Remaining(n, more)
      PROVE  GZipInv'
  BY <1>3, PassThroughStep, FirstStep, RemainingStep
<1>4. ASSUME NEW more \in BOOLEAN, FirstWithoutKey(more) PROVE GZipInv'
  BY <1>4, FirstWithoutKeyStep
<1>5. CASE Send \/ AppFails \/ NextRequest
  BY <1>5, SendStep, AppFailsStep, NextRequestStep
<1>6. CASE OtherMessage
  BY <1>1, <1>6 DEF OtherMessage
<1>7. QED
  BY <1>1, <1>2, <1>3, <1>4, <1>5, <1>6 DEF Next

\* The accounts are what the client is promised.
LEMMA GZipHolds == GZipInv => BodyTrue
<1> SUFFICES ASSUME GZipInv PROVE BodyTrue
  OBVIOUS
<1>1. /\ app.data \in Seq(1..MaxUnits) /\ wire \in Seq(OnWire) /\ headers.vary \in BOOLEAN
      /\ accept \in BOOLEAN /\ headers.events \in BOOLEAN /\ app.first.more \in BOOLEAN
      /\ app.first.size \in 0..MaxUnits /\ minimum \in Nat
  BY GZipTypes DEF GZipInv
<1>2. HasBody => Told = headers
  <2>1. ASSUME HasBody PROVE wire # <<>>
    BY <2>1 DEF HasBody
  <2>2. QED
    BY <2>1 DEF GZipInv, WireInv, Told
<1>3. Protocol!Complete /\ HasBody => Account(received, FALSE) /\ Whole
  BY DEF GZipInv, AccountInv
<1>4. Decodable
  BY <1>2, <1>3 DEF Decodable, Decodes, Account, Encodes
<1>5. LengthTrue
  <2>1. SUFFICES ASSUME Protocol!Complete, HasBody, ~stale, headers.length # None
                 PROVE  Len(received) = headers.length
    BY <1>2 DEF LengthTrue
  <2>2. Account(received, FALSE) /\ Whole
    BY <1>3, <2>1
  <2>3. CASE Encodes
    <3>1. received = <<Header>> \o app.data \o <<Trailer>> /\ headers.length = Len(app.data) + 2
      BY <2>1, <2>2, <2>3 DEF Account, GZipInv, HeadersInv
    <3>2. PICK data \in Bytes : data = app.data
      BY <1>1, DataIsBytes
    <3>3. Len(<<Header>>) = 1 /\ Len(<<Trailer>>) = 1 /\ <<Header>> \o data \in Bytes /\ Len(data) \in Nat
      BY DataIsBytes, Bytewise
    <3>4. Len(<<Header>> \o data) = 1 + Len(data)
      BY <3>3, DataIsBytes, Bytewise
    <3>5. Len(<<Header>> \o data \o <<Trailer>>) = (1 + Len(data)) + 1
      BY <3>3, <3>4, DataIsBytes, Bytewise
    <3>6. QED
      BY <3>1, <3>2, <3>3, <3>5
  <2>4. CASE ~Encodes
    <3>1. received = app.data /\ headers.length = app.total
      BY <2>1, <2>2, <2>4 DEF Account, GZipInv, HeadersInv, Encodes
    <3>2. QED
      BY <2>1, <2>2, <3>1 DEF Whole
  <2>5. QED
    BY <2>3, <2>4
<1>6. RestInCompressor
  <2>1. SUFFICES ASSUME pc = "app", app.sent > 1, ~stale
                 PROVE  IF Told.encoding = "gzip"
                        THEN received \o file.waiting = <<Header>> \o app.data
                        ELSE received = app.data
    BY DEF RestInCompressor
  <2>2. Told = headers
    <3>1. started
      BY <2>1 DEF GZipInv, AppInv
    <3>2. wire # <<>>
      BY <2>1, <3>1, Running
    <3>3. QED
      BY <3>2 DEF GZipInv, WireInv, Told
  <2>3. Account(received, TRUE)
    BY <2>1 DEF GZipInv, AccountInv
  <2>4. QED
    BY <2>1, <2>2, <2>3 DEF Account, Encodes
<1>7. EncodedAsAsked
  <2>1. ASSUME HasBody, ~stale PROVE (headers.encoding = "gzip") = (accept /\ Compressible)
    <3>1. headers.encoding = "gzip" <=> accept /\ Compressible
      BY <2>1 DEF GZipInv, AskedInv, Encodes
    <3>2. QED
      BY <1>1, <3>1 DEF Compressible
  <2>2. QED
    BY <1>2, <2>1 DEF EncodedAsAsked
<1>8. VaryTold
  BY <1>2 DEF GZipInv, AskedInv, VaryTold
<1>9. QED
  BY <1>4, <1>5, <1>6, <1>7, <1>8 DEF GZipInv, BodyTrue

\* One more message, when it is its turn.
LEMMA InTurn ==
  ASSUME GZipInv, Send
  PROVE  [Protocol!Next]_wire
<1>1. wire \in Seq(OnWire) /\ pc = "sends"
  BY GZipTypes DEF GZipInv, Send
<1>2. PICK last :
        /\ \/ outgoing = <<Start, last>> /\ wire = <<>>
           \/ outgoing = <<last>> /\ Protocol!Open
        /\ last.type \in {"pathsend", "body"}
  BY <1>1, Sending
<1>3. CASE UNCHANGED wire
  BY <1>3
<1>4. CASE ~UNCHANGED wire
  <2>1. PICK message : /\ wire' = Append(wire, message)
                       /\ message = IF Head(outgoing).type = "start"
                                    THEN [type |-> "start", headers |-> headers]
                                    ELSE Head(outgoing)
    BY <1>4 DEF Send
  <2>2. Len(wire') = Len(wire) + 1 /\ wire'[Len(wire) + 1] = message
    BY <1>1, <2>1
  <2>3. CASE outgoing = <<Start, last>> /\ wire = <<>>
    <3>1. message.type = "start"
      BY <2>1, <2>3 DEF Start
    <3>2. Protocol!SendStart
      BY <2>1, <2>2, <2>3, <3>1 DEF Protocol!SendStart, Protocol!Sends
    <3>3. QED
      BY <3>2 DEF Protocol!Next
  <2>4. CASE outgoing = <<last>> /\ Protocol!Open
    <3>1. message.type \in {"body", "pathsend"}
      BY <1>2, <2>1, <2>4
    <3>2. Protocol!SendBody
      BY <2>1, <2>2, <2>4, <3>1 DEF Protocol!SendBody, Protocol!Sends
    <3>3. QED
      BY <3>2 DEF Protocol!Next
  <2>5. QED
    BY <1>2, <2>3, <2>4
<1>5. QED
  BY <1>3, <1>4

-----------------------------------------------------------------------------
(* The layers of HeaderMiddleware.  What is true of one request is apart   *)
(* from what relates it to the others and to the jar.                      *)

RequestSet == [pc : {"idle", "inbound", "app", "answered"}, type : {"http", "websocket"},
               origin : {"none", "listed", "other"}, preflight : BOOLEAN, cookie : Layered!Cookies,
               at : 0..(Len(stack) + 1), session : Layered!Sessions,
               initial_session_was_empty : BOOLEAN, headers : Layered!HeaderSet,
               given : Layered!Given, passed : 0..Len(stack), started : Layered!Sessions,
               alone : BOOLEAN]

\* The layer is one of the first n.
Among(layer, n) == Layered!Stacked(layer) /\ Layered!Position(layer) <= n

\* A request on its way in: one that begins without a session has no good cookie, and no
\* preflight gets behind CORSMiddleware.
WayIn(r) ==
  /\ r.given = Layered!Plain /\ r.at >= 1 /\ (r.pc = "app" => r.at = Len(stack) + 1)
  /\ Among("session", r.at - 1) /\ r.initial_session_was_empty => r.cookie \notin Values
  /\ r.preflight => ~Among("cors", r.at - 1)

\* A response: its cookie is the session, and its CORS headers are true.
SessionTold(r) ==
  IF r.type = "http" /\ Layered!Through(r, "session")
  THEN \/ r.headers.set_cookie = "none" /\ r.started = "empty" /\ r.cookie \notin Values
       \/ r.headers.set_cookie = "expired" /\ r.started = "empty"
       \/ r.headers.set_cookie \in Values /\ r.started = r.headers.set_cookie
  ELSE r.headers.set_cookie = "none"

CorsTruth(r, told, given) ==
  /\ Layered!IsAllowedOrigin(r.origin) => told.allow_origin \in {"origin", "*"}
  /\ ~Layered!IsAllowedOrigin(r.origin) => told.allow_origin = given.allow_origin
  /\ Layered!IsAllowedOrigin(r.origin) /\ (r.cookie # "none" \/ (r.preflight /\ policy.credentials)) =>
       told.allow_origin = "origin"
  /\ told.allow_origin = "origin" => "Origin" \in Layered!Named(told.vary)
  /\ Layered!Kept(given.vary, told.allow_origin) \subseteq Layered!Named(told.vary)

CorsTold(r) ==
  r.type = "http" /\ r.origin # "none" /\ Layered!Through(r, "cors") =>
    CorsTruth(r, r.headers, r.given)

RequestTrue(r) ==
  /\ r.preflight => r.cookie = "none"
  /\ r.pc \in {"inbound", "app"} => WayIn(r)
  /\ r.pc = "answered" => SessionTold(r) /\ CorsTold(r)

\* A request that no other has overlapped was sent with the cookie that is in the jar.
AloneInv ==
  \A s \in Slots :
    request[s].pc # "idle" /\ request[s].alone =>
      /\ request[s].preflight \/ request[s].cookie = jar
      /\ \A t \in Slots : t # s => request[t].pc = "idle"

LayersInv ==
  /\ Layered!TypeOK /\ (left # "unknown" => Layered!Decoded(jar) = left)
  /\ AloneInv /\ \A s \in Slots : RequestTrue(request[s])

\* What TypeOK says, piece by piece,
LEMMA LayersTypes ==
  ASSUME Layered!TypeOK
  PROVE  /\ stack \in Stacks /\ policy \in Policies
         /\ policy.all \in BOOLEAN /\ policy.credentials \in BOOLEAN
         /\ jar \in Layered!Cookies /\ left \in Layered!Sessions \union {"unknown"} /\ sent \in 0..MaxSent
         /\ request \in [Slots -> RequestSet]
         /\ \A s \in Slots : request[s] \in RequestSet
         /\ stack \in Seq(Layered!Layers) /\ Len(stack) \in Nat /\ DOMAIN stack = 1..Len(stack)
<1>1. stack \in Stacks /\ policy \in Policies
  BY DEF Layered!TypeOK
<1>2. policy \in [all : BOOLEAN, credentials : BOOLEAN]
  BY <1>1, PoliciesAssumption
<1>3. request \in [Slots -> RequestSet]
  BY DEF Layered!TypeOK, RequestSet
<1>4. stack \in Seq(Layered!Layers)
  BY <1>1, StacksAssumption
<1>5. QED
  BY <1>1, <1>2, <1>3, <1>4 DEF Layered!TypeOK

\* and what it takes after a step.
LEMMA LayersTyped ==
  ASSUME UNCHANGED <<stack, policy>>, Layered!TypeOK, jar' \in Layered!Cookies,
         left' \in Layered!Sessions \union {"unknown"}, sent' \in 0..MaxSent,
         request' \in [Slots -> RequestSet]
  PROVE  Layered!TypeOK'
<1>1. stack' \in Stacks /\ policy' \in Policies /\ RequestSet' = RequestSet
  BY DEF Layered!TypeOK, RequestSet
<1>2. request' \in [Slots -> RequestSet]'
  BY <1>1
<1>3. QED
  BY <1>1, <1>2 DEF Layered!TypeOK, RequestSet

\* Each layer has one place.
LEMMA Places ==
  ASSUME Layered!TypeOK
  PROVE  /\ \A k \in 1..Len(stack) : Layered!Stacked(stack[k]) /\ Layered!Position(stack[k]) = k
         /\ \A layer : Layered!Stacked(layer) =>
              /\ Layered!Position(layer) \in 1..Len(stack)
              /\ stack[Layered!Position(layer)] = layer
         /\ \A layer : \A n \in 0..Len(stack) :
              layer \in {stack[k] : k \in 1..n} <=> Among(layer, n)
<1>1. /\ DOMAIN stack = 1..Len(stack) /\ Len(stack) \in Nat
      /\ \A i, j \in DOMAIN stack : stack[i] = stack[j] => i = j
  BY LayersTypes, StacksAssumption
<1>2. ASSUME NEW layer, Layered!Stacked(layer)
      PROVE  Layered!Position(layer) \in 1..Len(stack) /\ stack[Layered!Position(layer)] = layer
  BY <1>1, <1>2 DEF Layered!Position, Layered!Stacked
<1>3. ASSUME NEW k \in 1..Len(stack) PROVE Layered!Stacked(stack[k]) /\ Layered!Position(stack[k]) = k
  <2>1. Layered!Stacked(stack[k])
    BY <1>1 DEF Layered!Stacked
  <2>2. QED
    BY <1>1, <1>2, <2>1
<1>4. ASSUME NEW layer, NEW n \in 0..Len(stack)
      PROVE  layer \in {stack[k] : k \in 1..n} <=> Among(layer, n)
  <2>1. ASSUME NEW k \in 1..n, layer = stack[k] PROVE Among(layer, n)
    <3>1. k \in 1..Len(stack) /\ k <= n
      BY <1>1
    <3>2. QED
      BY <1>3, <2>1, <3>1 DEF Among
  <2>2. ASSUME Among(layer, n) PROVE \E k \in 1..n : layer = stack[k]
    <3>1. PICK k : k = Layered!Position(layer) /\ k \in 1..Len(stack) /\ k <= n /\ stack[k] = layer
      BY <1>2, <2>2 DEF Among
    <3>2. k \in 1..n
      BY <1>1, <3>1
    <3>3. QED
      BY <3>1, <3>2
  <2>3. QED
    BY <2>1, <2>2
<1>5. QED
  BY <1>2, <1>3, <1>4

\* A request that is behind one more layer has passed that one and those before.
LEMMA OneMore ==
  ASSUME Layered!TypeOK, NEW at \in 1..Len(stack)
  PROVE  \A layer : Among(layer, at) <=> Among(layer, at - 1) \/ layer = stack[at]
<1>1. at \in Nat /\ at - 1 \in 0..Len(stack) /\ at \in 0..Len(stack) /\ Len(stack) \in Nat
  BY LayersTypes
<1>2. ASSUME NEW layer
      PROVE  layer \in {stack[k] : k \in 1..at} <=>
               layer \in {stack[k] : k \in 1..(at - 1)} \/ layer = stack[at]
  <2>1. \A k \in 1..at : k \in 1..(at - 1) \/ k = at
    BY <1>1
  <2>2. \A k \in 1..(at - 1) : k \in 1..at
    BY <1>1
  <2>3. QED
    BY <2>1, <2>2
<1>3. QED
  BY <1>1, <1>2, Places

\* One line is added to Vary, or the first is extended.
LEMMA VaryAdded ==
  ASSUME NEW vary \in Layered!Lines
  PROVE  /\ Layered!AddVary(vary, "Origin") \in Layered!Lines
         /\ "Origin" \in Layered!Named(Layered!AddVary(vary, "Origin"))
         /\ Layered!Kept(vary, "origin") \subseteq Layered!Named(Layered!AddVary(vary, "Origin"))
<1>1. PICK line : /\ line \in SUBSET {"Origin", "Cookie", "Accept"}
                  /\ Layered!AddVary(vary, "Origin") = <<line>> /\ "Origin" \in line
                  /\ Layered!Kept(vary, "origin") \subseteq line
  <2>1. CASE vary = <<>>
    <3>1. Layered!AddVary(vary, "Origin") = <<{"Origin"}>>
      BY <2>1 DEF Layered!AddVary
    <3>2. Layered!Kept(vary, "origin") = {}
      BY <2>1 DEF Layered!Kept, Layered!Named
    <3>3. QED
      BY <3>1, <3>2
  <2>2. CASE vary # <<>>
    <3>1. PICK head : head = Head(vary) /\ head \in SUBSET {"Origin", "Cookie", "Accept"}
      BY <2>2 DEF Layered!Lines
    <3>2. Layered!Kept(vary, "origin") = head
      BY <2>2, <3>1 DEF Layered!Kept
    <3>3. Layered!AddVary(vary, "Origin") = <<head \union {"Origin"}>>
      BY <2>2, <3>1 DEF Layered!AddVary
    <3>4. QED
      BY <3>1, <3>2, <3>3
  <2>3. QED
    BY <2>1, <2>2
<1>2. Layered!Named(<<line>>) = line
  BY DEF Layered!Named
<1>3. <<line>> \in Layered!Lines
  BY <1>1 DEF Layered!Lines
<1>4. QED
  BY <1>1, <1>2, <1>3, Zenon

\* The cookie of a response tells the session.
LEMMA SessionSent ==
  ASSUME NEW r \in RequestSet, NEW plain \in Layered!HeaderSet, plain.set_cookie = "none"
  PROVE  LET h == Layered!SessionSend(r, plain) IN
         /\ h \in Layered!HeaderSet /\ h.allow_origin = plain.allow_origin /\ h.vary = plain.vary
         /\ r.type # "http" => h.set_cookie = "none"
         /\ r.type = "http" =>
              \/ h.set_cookie = "none" /\ r.session = "empty" /\ r.initial_session_was_empty
              \/ h.set_cookie = "expired" /\ r.session = "empty"
              \/ h.set_cookie \in Values /\ r.session = h.set_cookie
<1> DEFINE h == Layered!SessionSend(r, plain)
<1>1. /\ r.session \in Values \union {"empty"} /\ "empty" \notin Values
      /\ r.initial_session_was_empty \in BOOLEAN
  BY ValuesAssumption DEF RequestSet, Layered!Sessions
<1>2. \A cookie \in Values \union {"none", "expired"} :
        /\ [plain EXCEPT !.set_cookie = cookie] \in Layered!HeaderSet
        /\ [plain EXCEPT !.set_cookie = cookie].allow_origin = plain.allow_origin
        /\ [plain EXCEPT !.set_cookie = cookie].vary = plain.vary
        /\ [plain EXCEPT !.set_cookie = cookie].set_cookie = cookie
  BY DEF Layered!HeaderSet
<1>3. CASE r.type # "http" \/ (r.session = "empty" /\ r.initial_session_was_empty)
  <2>1. h = plain
    BY <1>3 DEF Layered!SessionSend
  <2>2. QED
    BY <1>3, <2>1
<1>4. CASE r.type = "http" /\ ~(r.session = "empty" /\ r.initial_session_was_empty)
  <2>1. PICK cookie : /\ cookie = IF r.session = "empty" THEN "expired" ELSE r.session
                      /\ h = [plain EXCEPT !.set_cookie = cookie]
    BY <1>4 DEF Layered!SessionSend
  <2>2. cookie \in Values \union {"none", "expired"}
    BY <1>1, <2>1
  <2>3. h \in Layered!HeaderSet /\ h.allow_origin = plain.allow_origin /\ h.vary = plain.vary /\ h.set_cookie = cookie
    BY <1>2, <2>1, <2>2
  <2>4. QED
    BY <1>1, <1>4, <2>1, <2>3
<1>5. QED
  BY <1>3, <1>4

\* A response without any of the headers.
LEMMA PlainIs == Layered!Plain \in Layered!Given /\ Layered!Plain \in Layered!HeaderSet
BY DEF Layered!Plain, Layered!Given, Layered!HeaderSet, Layered!Lines

\* The CORS headers of a response that is not a preflight's.
LEMMA CorsSent ==
  ASSUME Layered!TypeOK, NEW r \in RequestSet, NEW plain \in Layered!HeaderSet, ~r.preflight,
         NEW given \in Layered!Given, plain.allow_origin = given.allow_origin, plain.vary = given.vary
  PROVE  LET h == Layered!CorsSend(r, plain) IN
         /\ h \in Layered!HeaderSet /\ h.set_cookie = plain.set_cookie
         /\ r.type = "http" /\ r.origin # "none" => CorsTruth(r, h, given)
<1> DEFINE h == Layered!CorsSend(r, plain)
<1>1. policy.all \in BOOLEAN /\ policy.credentials \in BOOLEAN
  BY LayersTypes
<1>2. /\ plain.vary \in Layered!Lines
      /\ plain.set_cookie \in Values \union {"none", "expired"}
  BY DEF Layered!HeaderSet
<1>3. PICK added : /\ added = Layered!AddVary(plain.vary, "Origin")
                   /\ added \in Layered!Lines
                   /\ "Origin" \in Layered!Named(added)
                   /\ Layered!Kept(given.vary, "origin") \subseteq Layered!Named(added)
  BY <1>2, VaryAdded
<1>4. \A allow \in {"none", "*", "origin", "own"} : \A vary \in Layered!Lines :
        LET g == [plain EXCEPT !.allow_origin = allow, !.vary = vary] IN
        g \in Layered!HeaderSet /\ g.allow_origin = allow /\ g.vary = vary /\ g.set_cookie = plain.set_cookie
  BY DEF Layered!HeaderSet
<1>5. CASE r.type # "http" \/ r.origin = "none"
  BY <1>5 DEF Layered!CorsSend
<1>6. CASE r.type = "http" /\ r.origin # "none" /\ policy.all /\ r.cookie = "none"
  <2>1. h = [plain EXCEPT !.allow_origin = "*"]
    BY <1>6 DEF Layered!CorsSend
  <2>2. h \in Layered!HeaderSet /\ h.allow_origin = "*" /\ h.vary = plain.vary /\ h.set_cookie = plain.set_cookie
    BY <2>1 DEF Layered!HeaderSet
  <2>3. Layered!Kept(given.vary, h.allow_origin) \subseteq Layered!Named(h.vary)
    BY <2>2 DEF Layered!Kept
  <2>4. QED
    BY <1>6, <2>2, <2>3 DEF CorsTruth, Layered!IsAllowedOrigin
<1>7. CASE r.type = "http" /\ r.origin # "none" /\ ~policy.all /\ ~Layered!IsAllowedOrigin(r.origin)
  <2>1. h = [plain EXCEPT !.allow_origin = plain.allow_origin]
    BY <1>7 DEF Layered!CorsSend
  <2>2. h = plain
    BY <2>1 DEF Layered!HeaderSet
  <2>3. h.allow_origin # "origin"
    BY <2>2 DEF Layered!Given
  <2>4. Layered!Kept(given.vary, h.allow_origin) \subseteq Layered!Named(h.vary)
    BY <2>2, <2>3 DEF Layered!Kept
  <2>5. QED
    BY <1>7, <2>2, <2>3, <2>4 DEF CorsTruth
<1>8. CASE /\ r.type = "http" /\ r.origin # "none"
           /\ (policy.all /\ r.cookie # "none") \/ (~policy.all /\ Layered!IsAllowedOrigin(r.origin))
  <2>1. PICK simple : /\ simple = [plain EXCEPT !.allow_origin =
                                    IF policy.all THEN "*" ELSE plain.allow_origin]
                      /\ h = Layered!Explicit(simple)
    BY <1>8 DEF Layered!CorsSend
  <2>2. simple \in Layered!HeaderSet /\ simple.vary = plain.vary /\ simple.set_cookie = plain.set_cookie
    BY <2>1 DEF Layered!HeaderSet
  <2>3. h = [simple EXCEPT !.allow_origin = "origin", !.vary = added]
    BY <1>3, <2>1, <2>2 DEF Layered!Explicit
  <2>4. h \in Layered!HeaderSet /\ h.allow_origin = "origin" /\ h.vary = added /\ h.set_cookie = plain.set_cookie
    BY <1>3, <2>2, <2>3 DEF Layered!HeaderSet
  <2>5. Layered!IsAllowedOrigin(r.origin)
    BY <1>8 DEF Layered!IsAllowedOrigin
  <2>6. QED
    BY <1>3, <2>4, <2>5 DEF CorsTruth
<1>9. QED
  BY <1>1, <1>5, <1>6, <1>7, <1>8

\* Nothing changes the stack, or what is true of a request.
LEMMA StillTrue ==
  ASSUME UNCHANGED <<stack, policy>>
  PROVE  /\ RequestSet' = RequestSet
         /\ \A r : RequestTrue(r) => RequestTrue(r)'
<1>1. RequestSet' = RequestSet
  BY DEF RequestSet
<1>2. \A layer, n : Among(layer, n)' <=> Among(layer, n)
  BY DEF Among, Layered!Stacked, Layered!Position
<1>3. \A r, layer : Layered!Through(r, layer)' <=> Layered!Through(r, layer)
  BY DEF Layered!Through, Layered!Stacked, Layered!Position
<1>4. \A r : WayIn(r) => WayIn(r)'
  BY <1>2 DEF WayIn
<1>5. \A r : SessionTold(r) => SessionTold(r)'
  BY <1>3 DEF SessionTold
<1>6. \A r : CorsTold(r) => CorsTold(r)'
  BY <1>3 DEF CorsTold, CorsTruth, Layered!IsAllowedOrigin
<1>7. QED
  BY <1>1, <1>4, <1>5, <1>6 DEF RequestTrue

\* A step of one request, which leaves its cookie as it was.
LEMMA OneRequest ==
  ASSUME LayersInv, NEW s \in Slots, NEW new \in RequestSet, RequestTrue(new),
         request' = [request EXCEPT ![s] = new], request[s].pc # "idle",
         new.alone = request[s].alone, new.preflight = request[s].preflight,
         new.cookie = request[s].cookie, UNCHANGED <<stack, policy, jar, left, sent>>
  PROVE  LayersInv'
<1>1. /\ request \in [Slots -> RequestSet] /\ jar \in Layered!Cookies /\ sent \in 0..MaxSent
      /\ left \in Layered!Sessions \union {"unknown"} /\ Layered!TypeOK
  BY LayersTypes DEF LayersInv
<1>2. Layered!TypeOK'
  BY <1>1, LayersTyped
<1>3. /\ request'[s] = new
      /\ \A t \in Slots : t # s => request'[t] = request[t]
  BY <1>1
<1>4. \A t \in Slots : RequestTrue(request[t])
  BY DEF LayersInv
<1>5. ASSUME NEW t \in Slots PROVE RequestTrue(request[t])'
  <2>1. RequestTrue(new)' /\ RequestTrue(request[t])
    BY <1>4, StillTrue
  <2>2. PICK r : r = request'[t] /\ RequestTrue(r)
    BY <1>3, <2>1
  <2>3. RequestTrue(r)'
    BY <2>2, StillTrue
  <2>4. QED
    BY <2>2, <2>3 DEF RequestTrue, WayIn, SessionTold, CorsTold, CorsTruth, Layered!Through
<1>6. AloneInv'
  <2>1. ASSUME NEW t \in Slots, request'[t].pc # "idle", request'[t].alone
        PROVE  /\ request'[t].preflight \/ request'[t].cookie = jar
               /\ \A u \in Slots : u # t => request'[u].pc = "idle"
    <3>1. request[t].pc # "idle" /\ request[t].alone
      BY <1>3, <2>1
    <3>2. \A u \in Slots : u # t => request[u].pc = "idle"
      BY <3>1 DEF LayersInv, AloneInv
    <3>3. t = s
      BY <3>2
    <3>4. request[t].preflight \/ request[t].cookie = jar
      BY <3>1 DEF LayersInv, AloneInv
    <3>5. QED
      BY <1>3, <3>2, <3>3, <3>4
  <2>2. QED
    BY <2>1 DEF AloneInv
<1>7. left' # "unknown" => Layered!Decoded(jar)' = left'
  BY DEF LayersInv, Layered!Decoded
<1>8. QED
  BY <1>2, <1>5, <1>6, <1>7 DEF LayersInv

\* A response that something behind `passed` layers starts.
LEMMA Started ==
  ASSUME Layered!TypeOK, NEW s \in Slots, NEW told \in Layered!Given, NEW passed \in 0..Len(stack),
         RequestTrue(request[s]), request[s].pc \in {"inbound", "app"}, passed <= request[s].at - 1,
         Layered!Starts(s, told, passed)
  PROVE  \E new \in RequestSet :
           /\ request' = [request EXCEPT ![s] = new] /\ RequestTrue(new)
           /\ new.alone = request[s].alone /\ new.preflight = request[s].preflight
           /\ new.cookie = request[s].cookie
<1>1. PICK r : r = request[s]
  OBVIOUS
<1>2. r \in RequestSet /\ RequestTrue(r) /\ WayIn(r) /\ r.pc \in {"inbound", "app"} /\ passed <= r.at - 1
  BY <1>1, LayersTypes DEF RequestTrue
<1>3. PICK h, new : /\ h = Layered!Outward(r, told, passed)
                    /\ new = [r EXCEPT !.pc = "answered", !.headers = h, !.passed = passed,
                                       !.started = r.session, !.given = told]
  OBVIOUS
<1>4. request' = [request EXCEPT ![s] = new]
  BY <1>1, <1>3 DEF Layered!Starts
<1>5. PICK simple : simple = IF Among("session", passed) THEN Layered!SessionSend(r, told) ELSE told
  OBVIOUS
<1>6. h = IF Among("cors", passed) THEN Layered!CorsSend(r, simple) ELSE simple
  BY <1>3, <1>5, Places DEF Layered!Outward
<1>7. /\ r.at \in 0..(Len(stack) + 1) /\ Len(stack) \in Nat
      /\ \A layer : Among(layer, passed) => Among(layer, r.at - 1)
  <2>1. r.at \in 0..(Len(stack) + 1) /\ Len(stack) \in Nat
    BY <1>2, LayersTypes DEF RequestSet
  <2>2. ASSUME NEW layer, Among(layer, passed) PROVE Among(layer, r.at - 1)
    <3>1. PICK n : n = Layered!Position(layer) /\ n \in Nat /\ n <= passed
      BY <2>2, Places DEF Among
    <3>2. n <= r.at - 1
      BY <1>2, <2>1, <3>1
    <3>3. QED
      BY <2>2, <3>1, <3>2 DEF Among
  <2>3. QED
    BY <2>1, <2>2
<1>8. /\ simple \in Layered!HeaderSet /\ simple.allow_origin = told.allow_origin /\ simple.vary = told.vary
      /\ r.type # "http" \/ ~Among("session", passed) => simple.set_cookie = "none"
      /\ r.type = "http" /\ Among("session", passed) =>
           \/ simple.set_cookie = "none" /\ r.session = "empty" /\ r.initial_session_was_empty
           \/ simple.set_cookie = "expired" /\ r.session = "empty"
           \/ simple.set_cookie \in Values /\ r.session = simple.set_cookie
  <2>1. told \in Layered!HeaderSet /\ told.set_cookie = "none"
    BY DEF Layered!Given, Layered!HeaderSet
  <2>2. QED
    BY <1>2, <1>5, <2>1, SessionSent
<1>9. Among("cors", passed) => ~r.preflight
  BY <1>2, <1>7 DEF WayIn
<1>10. /\ h \in Layered!HeaderSet /\ h.set_cookie = simple.set_cookie
       /\ Among("cors", passed) /\ r.type = "http" /\ r.origin # "none" => CorsTruth(r, h, told)
  <2>1. CASE Among("cors", passed)
    BY <1>2, <1>6, <1>8, <1>9, <2>1, CorsSent
  <2>2. CASE ~Among("cors", passed)
    BY <1>6, <1>8, <2>2
  <2>3. QED
    BY <2>1, <2>2
<1>11. /\ new \in RequestSet /\ new.pc = "answered" /\ new.headers = h /\ new.passed = passed
       /\ new.started = r.session /\ new.given = told /\ new.type = r.type /\ new.origin = r.origin
       /\ new.preflight = r.preflight /\ new.cookie = r.cookie /\ new.alone = r.alone
  BY <1>2, <1>3, <1>10 DEF RequestSet
<1>12. \A layer : Layered!Through(new, layer) <=> Among(layer, passed)
  BY <1>11 DEF Layered!Through, Among
<1>13. SessionTold(new)
  <2>1. CASE new.type = "http" /\ Layered!Through(new, "session")
    <3>1. r.initial_session_was_empty => r.cookie \notin Values
      BY <1>2, <1>7, <1>12, <2>1 DEF WayIn
    <3>2. QED
      BY <1>8, <1>10, <1>11, <1>12, <2>1, <3>1 DEF SessionTold
  <2>2. CASE ~(new.type = "http" /\ Layered!Through(new, "session"))
    BY <1>8, <1>10, <1>11, <1>12, <2>2 DEF SessionTold
  <2>3. QED
    BY <2>1, <2>2
<1>14. CorsTold(new)
  BY <1>10, <1>11, <1>12 DEF CorsTold, CorsTruth
<1>15. RequestTrue(new)
  BY <1>2, <1>11, <1>13, <1>14 DEF RequestTrue
<1>16. QED
  BY <1>1, <1>4, <1>11, <1>15

\* A layer lets the request pass.
LEMMA Onward ==
  ASSUME LayersInv, NEW s \in Slots, NEW layer, Layered!At(s, layer), NEW changed \in RequestSet,
         changed.pc = request[s].pc, changed.at = request[s].at, changed.given = request[s].given,
         changed.preflight = request[s].preflight, changed.cookie = request[s].cookie,
         changed.alone = request[s].alone, layer = "cors" => ~changed.preflight,
         layer # "session" => changed.initial_session_was_empty = request[s].initial_session_was_empty,
         layer = "session" => (changed.initial_session_was_empty => changed.cookie \notin Values),
         Layered!Passes(s, changed), UNCHANGED <<stack, policy, jar, left, sent>>
  PROVE  LayersInv'
<1>1. PICK r : r = request[s]
  OBVIOUS
<1>2. /\ Layered!TypeOK /\ r \in RequestSet /\ RequestTrue(r) /\ WayIn(r) /\ r.pc = "inbound"
      /\ r.at <= Len(stack) /\ stack[r.at] = layer
  BY <1>1, LayersTypes DEF LayersInv, RequestTrue, Layered!At
<1>3. Len(stack) \in Nat /\ r.at \in 0..(Len(stack) + 1) /\ DOMAIN stack = 1..Len(stack)
  BY <1>2, LayersTypes DEF RequestSet
<1>4. r.at \in 1..Len(stack)
  BY <1>2, <1>3 DEF WayIn
<1>5. PICK new : new = [changed EXCEPT !.at = changed.at + 1]
  OBVIOUS
<1>6. request' = [request EXCEPT ![s] = new]
  BY <1>5 DEF Layered!Passes
<1>7. changed.at + 1 \in 0..(Len(stack) + 1)
  BY <1>1, <1>3, <1>4
<1>8. /\ new \in RequestSet /\ new.pc = "inbound" /\ new.at = r.at + 1 /\ new.given = r.given
      /\ new.preflight = r.preflight /\ new.cookie = r.cookie /\ new.alone = r.alone
      /\ new.initial_session_was_empty = changed.initial_session_was_empty
  BY <1>1, <1>2, <1>5, <1>7 DEF RequestSet
<1>9. new.at - 1 = r.at
  BY <1>3, <1>8
<1>10. \A l : Among(l, r.at) <=> Among(l, r.at - 1) \/ l = layer
  BY <1>2, <1>4, OneMore
<1>11. WayIn(new)
  <2>1. Among("session", r.at) /\ new.initial_session_was_empty => new.cookie \notin Values
    BY <1>1, <1>2, <1>8, <1>10 DEF WayIn
  <2>2. new.preflight => ~Among("cors", r.at)
    BY <1>1, <1>2, <1>8, <1>10 DEF WayIn
  <2>3. new.at >= 1 /\ new.pc # "app" /\ r.given = Layered!Plain
    BY <1>2, <1>3, <1>8 DEF WayIn
  <2>4. QED
    BY <1>8, <1>9, <2>1, <2>2, <2>3 DEF WayIn
<1>12. RequestTrue(new)
  BY <1>2, <1>8, <1>11 DEF RequestTrue
<1>13. QED
  BY <1>1, <1>2, <1>6, <1>8, <1>12, OneRequest

\* The layers.
LEMMA SessionStep ==
  ASSUME LayersInv, NEW s \in Slots, Layered!Session(s)
  PROVE  LayersInv'
<1>1. PICK r : r = request[s]
  OBVIOUS
<1>2. r \in RequestSet /\ r.cookie \in Layered!Cookies
  BY <1>1, LayersTypes DEF LayersInv, RequestSet
<1>3. PICK changed : changed = [r EXCEPT !.session = IF r.cookie \in Values THEN r.cookie ELSE "empty",
                                         !.initial_session_was_empty = r.cookie \notin Values]
  OBVIOUS
<1>4. /\ (IF r.cookie \in Values THEN r.cookie ELSE "empty") \in Layered!Sessions
      /\ (r.cookie \notin Values) \in BOOLEAN
  BY DEF Layered!Sessions
<1>5. /\ changed \in RequestSet /\ changed.pc = r.pc /\ changed.at = r.at /\ changed.given = r.given
      /\ changed.preflight = r.preflight /\ changed.cookie = r.cookie /\ changed.alone = r.alone
      /\ changed.initial_session_was_empty = (r.cookie \notin Values)
  BY <1>2, <1>3, <1>4 DEF RequestSet
<1>6. /\ Layered!At(s, "session") /\ Layered!Passes(s, changed)
      /\ UNCHANGED <<stack, policy, jar, left, sent>>
  BY <1>1, <1>3 DEF Layered!Session
<1>7. (changed.initial_session_was_empty => changed.cookie \notin Values) /\ "session" # "cors"
  BY <1>5
<1>8. QED
  BY <1>1, <1>5, <1>6, <1>7, Onward

\* A layer lets the request pass or answers it.
LEMMA GateStep ==
  ASSUME LayersInv, NEW s \in Slots, NEW layer \in {"host", "https", "auth"},
         Layered!At(s, layer), Layered!Gate(s)
  PROVE  LayersInv'
<1>1. PICK r : r = request[s]
  OBVIOUS
<1>2. /\ r \in RequestSet /\ r.at \in 0..(Len(stack) + 1) /\ Len(stack) \in Nat /\ Layered!TypeOK
      /\ RequestTrue(r) /\ r.pc = "inbound" /\ r.at <= Len(stack) /\ DOMAIN stack = 1..Len(stack)
  BY <1>1, LayersTypes DEF LayersInv, RequestSet, Layered!At
<1>3. UNCHANGED <<stack, policy, jar, left, sent>>
  BY DEF Layered!Gate
<1>4. CASE Layered!Passes(s, r)
  BY <1>1, <1>2, <1>3, <1>4, Onward
<1>5. CASE Layered!Starts(s, Layered!Plain, r.at - 1)
  <2>1. Layered!Plain \in Layered!Given
    BY PlainIs
  <2>2. r.at - 1 \in 0..Len(stack) /\ r.at - 1 <= r.at - 1
    BY <1>2 DEF RequestTrue, WayIn
  <2>3. QED
    BY <1>1, <1>2, <1>3, <1>5, <2>1, <2>2, Started, OneRequest
<1>6. QED
  BY <1>1, <1>4, <1>5 DEF Layered!Gate

\* The application, or ServerErrorMiddleware for it, starts a response.
LEMMA ApplicationStep ==
  ASSUME LayersInv, NEW s \in Slots, Layered!Respond(s) \/ Layered!Fail(s)
  PROVE  LayersInv'
<1>1. PICK r : r = request[s]
  OBVIOUS
<1>2. /\ r \in RequestSet /\ r.at \in 0..(Len(stack) + 1) /\ Len(stack) \in Nat /\ Layered!TypeOK
      /\ RequestTrue(r) /\ r.pc = "app" /\ WayIn(r) /\ r.at = Len(stack) + 1
  BY <1>1, LayersTypes DEF LayersInv, RequestSet, Layered!Respond, Layered!Fail, RequestTrue, WayIn
<1>3. UNCHANGED <<stack, policy, jar, left, sent>>
  BY DEF Layered!Respond, Layered!Fail
<1>4. Len(stack) \in 0..Len(stack) /\ Len(stack) <= r.at - 1 /\ 0 \in 0..Len(stack) /\ 0 <= r.at - 1
  BY <1>2
<1>5. PICK told \in Layered!Given, passed \in {0, Len(stack)} : Layered!Starts(s, told, passed)
  <2>1. CASE Layered!Respond(s)
    BY <2>1, AnswersAssumption DEF Layered!Respond
  <2>2. CASE Layered!Fail(s)
    BY <2>2, PlainIs DEF Layered!Fail
  <2>3. QED
    BY <2>1, <2>2
<1>6. QED
  BY <1>1, <1>2, <1>3, <1>4, <1>5, Started, OneRequest

\* A request reaches the application, which changes its session.
LEMMA ArrivesStep ==
  ASSUME LayersInv, NEW s \in Slots, Layered!Arrives(s) \/ Layered!ChangeSession(s)
  PROVE  LayersInv'
<1>1. PICK r : r = request[s]
  OBVIOUS
<1>2. /\ r \in RequestSet /\ r.at \in 0..(Len(stack) + 1) /\ Len(stack) \in Nat /\ Layered!TypeOK
      /\ RequestTrue(r)
  BY <1>1, LayersTypes DEF LayersInv, RequestSet
<1>3. UNCHANGED <<stack, policy, jar, left, sent>>
  BY DEF Layered!Arrives, Layered!ChangeSession
<1>4. CASE Layered!Arrives(s)
  <2>1. PICK new : new = [r EXCEPT !.pc = "app"]
    OBVIOUS
  <2>2. r.pc = "inbound" /\ r.at > Len(stack) /\ request' = [request EXCEPT ![s] = new]
    BY <1>1, <1>4, <2>1 DEF Layered!Arrives
  <2>3. /\ new \in RequestSet /\ new.pc = "app" /\ new.at = r.at /\ new.given = r.given
        /\ new.preflight = r.preflight /\ new.cookie = r.cookie /\ new.alone = r.alone
        /\ new.initial_session_was_empty = r.initial_session_was_empty
    BY <1>2, <2>1 DEF RequestSet
  <2>4. r.at = Len(stack) + 1
    BY <1>2, <2>2
  <2>5. RequestTrue(new)
    BY <1>2, <2>2, <2>3, <2>4 DEF RequestTrue, WayIn
  <2>6. QED
    BY <1>1, <1>3, <2>2, <2>3, <2>5, OneRequest
<1>5. CASE Layered!ChangeSession(s)
  <2>1. PICK session \in Layered!Sessions : request' = [request EXCEPT ![s].session = session]
    BY <1>5 DEF Layered!ChangeSession
  <2>2. PICK new : new = [r EXCEPT !.session = session]
    OBVIOUS
  <2>3. request' = [request EXCEPT ![s] = new] /\ r.pc \in {"app", "answered"}
    BY <1>1, <1>5, <2>1, <2>2 DEF Layered!ChangeSession
  <2>4. /\ new \in RequestSet /\ new.pc = r.pc /\ new.at = r.at /\ new.given = r.given
        /\ new.preflight = r.preflight /\ new.cookie = r.cookie /\ new.alone = r.alone
        /\ new.initial_session_was_empty = r.initial_session_was_empty /\ new.type = r.type
        /\ new.origin = r.origin /\ new.passed = r.passed /\ new.headers = r.headers
        /\ new.started = r.started
    BY <1>2, <2>2 DEF RequestSet
  <2>5. \A layer : Layered!Through(new, layer) <=> Layered!Through(r, layer)
    BY <2>4 DEF Layered!Through
  <2>6. RequestTrue(new)
    BY <1>2, <2>4, <2>5 DEF RequestTrue, WayIn, SessionTold, CorsTold, CorsTruth
  <2>7. QED
    BY <1>1, <1>3, <2>3, <2>4, <2>6, OneRequest
<1>6. QED
  BY <1>4, <1>5

\* CORSMiddleware answers a preflight itself.
LEMMA CorsStep ==
  ASSUME LayersInv, NEW s \in Slots, Layered!Cors(s)
  PROVE  LayersInv'
<1>1. PICK r : r = request[s]
  OBVIOUS
<1>2. /\ r \in RequestSet /\ r.at \in 0..(Len(stack) + 1) /\ Len(stack) \in Nat /\ Layered!TypeOK
      /\ RequestTrue(r) /\ WayIn(r) /\ r.pc = "inbound" /\ r.at <= Len(stack) /\ stack[r.at] = "cors"
      /\ policy.all \in BOOLEAN /\ policy.credentials \in BOOLEAN
  BY <1>1, LayersTypes DEF LayersInv, RequestSet, RequestTrue, Layered!Cors, Layered!At
<1>3. UNCHANGED <<stack, policy, jar, left, sent>> /\ Layered!At(s, "cors")
  BY DEF Layered!Cors
<1>4. CASE ~r.preflight
  <2>1. Layered!Passes(s, r)
    BY <1>1, <1>4 DEF Layered!Cors
  <2>2. r.preflight = request[s].preflight /\ "cors" # "session"
    BY <1>1
  <2>3. QED
    BY <1>1, <1>2, <1>3, <1>4, <2>1, <2>2, Onward
<1>5. CASE r.preflight
  <2>1. PICK told, h, new :
          /\ told = Layered!PreflightHeaders(r) /\ h = Layered!Outward(r, told, r.at - 1)
          /\ new = [r EXCEPT !.pc = "answered", !.passed = r.at, !.started = r.session, !.headers = h]
    OBVIOUS
  <2>2. request' = [request EXCEPT ![s] = new]
    BY <1>1, <1>5, <2>1 DEF Layered!Cors
  <2>3. r.at \in 1..Len(stack) /\ r.at - 1 \in 0..Len(stack)
    BY <1>2 DEF WayIn
  <2>4. /\ told \in Layered!HeaderSet /\ told.set_cookie = "none" /\ CorsTruth(r, told, Layered!Plain)
    <3>1. r.cookie = "none" /\ r.origin \in {"none", "listed", "other"}
      BY <1>2, <1>5 DEF RequestTrue, RequestSet
    <3>2. \A allow \in {"none", "*", "origin", "own"} : \A vary \in Layered!Lines :
            LET g == [allow_origin |-> allow, vary |-> vary, set_cookie |-> "none"] IN
            g \in Layered!HeaderSet
      BY DEF Layered!HeaderSet
    <3>3. /\ <<>> \in Layered!Lines /\ <<{"Origin"}>> \in Layered!Lines
          /\ Layered!Plain.allow_origin = "none"
          /\ \A allow : Layered!Kept(Layered!Plain.vary, allow) = {}
      BY DEF Layered!Lines, Layered!Plain, Layered!Kept, Layered!Named
    <3>4. CASE ~Layered!PreflightExplicit
      <4>1. told = [allow_origin |-> "*", vary |-> <<>>, set_cookie |-> "none"]
        BY <2>1, <3>4 DEF Layered!PreflightHeaders, Layered!Plain
      <4>2. told.allow_origin = "*" /\ told.vary = <<>> /\ told.set_cookie = "none" /\ told \in Layered!HeaderSet
        BY <3>2, <3>3, <4>1
      <4>3. policy.all /\ ~policy.credentials
        BY <1>2, <3>4 DEF Layered!PreflightExplicit
      <4>4. QED
        BY <3>1, <3>3, <4>2, <4>3 DEF CorsTruth, Layered!IsAllowedOrigin
    <3>5. CASE Layered!PreflightExplicit
      <4>1. PICK allow : allow = IF Layered!IsAllowedOrigin(r.origin) THEN "origin" ELSE "none"
        OBVIOUS
      <4>2. told = [allow_origin |-> allow, vary |-> <<{"Origin"}>>, set_cookie |-> "none"]
        BY <2>1, <3>5, <4>1 DEF Layered!PreflightHeaders, Layered!Plain
      <4>3. /\ told.allow_origin = allow /\ told.vary = <<{"Origin"}>> /\ told.set_cookie = "none"
            /\ told \in Layered!HeaderSet
        BY <3>2, <3>3, <4>1, <4>2
      <4>4. Layered!Named(told.vary) = {"Origin"}
        BY <4>3 DEF Layered!Named
      <4>5. QED
        BY <3>1, <3>3, <4>1, <4>3, <4>4 DEF CorsTruth
    <3>6. QED
      BY <3>4, <3>5
  <2>5. ~Among("cors", r.at - 1)
    BY <1>2, <1>5 DEF WayIn
  <2>6. h = IF Among("session", r.at - 1) THEN Layered!SessionSend(r, told) ELSE told
    BY <1>2, <2>1, <2>3, <2>5, Places DEF Layered!Outward
  <2>7. /\ h \in Layered!HeaderSet /\ h.allow_origin = told.allow_origin /\ h.vary = told.vary
        /\ r.type # "http" \/ ~Among("session", r.at - 1) => h.set_cookie = "none"
        /\ r.type = "http" /\ Among("session", r.at - 1) =>
             \/ h.set_cookie = "none" /\ r.session = "empty" /\ r.initial_session_was_empty
             \/ h.set_cookie = "expired" /\ r.session = "empty"
             \/ h.set_cookie \in Values /\ r.session = h.set_cookie
    BY <1>2, <2>4, <2>6, SessionSent
  <2>8. /\ new \in RequestSet /\ new.pc = "answered" /\ new.headers = h /\ new.passed = r.at
        /\ new.started = r.session /\ new.given = r.given /\ new.type = r.type /\ new.origin = r.origin
        /\ new.preflight = r.preflight /\ new.cookie = r.cookie /\ new.alone = r.alone
    <3>1. r.at \in 0..Len(stack)
      BY <1>2, <2>3
    <3>2. QED
      BY <1>2, <2>1, <2>7, <3>1 DEF RequestSet
  <2>9. Layered!Through(new, "session") <=> Among("session", r.at - 1)
    <3>1. Among("session", r.at) <=> Among("session", r.at - 1)
      BY <1>2, <2>3, OneMore
    <3>2. QED
      BY <2>8, <3>1 DEF Layered!Through, Among
  <2>10. SessionTold(new)
    <3>1. Among("session", r.at - 1) /\ r.initial_session_was_empty => r.cookie \notin Values
      BY <1>2 DEF WayIn
    <3>2. QED
      BY <2>7, <2>8, <2>9, <3>1 DEF SessionTold
  <2>11. CorsTold(new)
    <3>1. r.given = Layered!Plain
      BY <1>2 DEF WayIn
    <3>2. QED
      BY <2>4, <2>7, <2>8, <3>1 DEF CorsTold, CorsTruth
  <2>12. RequestTrue(new)
    BY <1>2, <2>8, <2>10, <2>11 DEF RequestTrue
  <2>13. QED
    BY <1>1, <1>2, <1>3, <2>2, <2>8, <2>12, OneRequest
<1>6. QED
  BY <1>4, <1>5

\* A request that has not begun.
LEMMA Idles ==
  ASSUME Layered!TypeOK
  PROVE  Layered!Idle \in RequestSet /\ RequestTrue(Layered!Idle) /\ Layered!Idle.pc = "idle"
<1>1. Len(stack) \in Nat
  BY LayersTypes
<1>2. 0 \in 0..(Len(stack) + 1) /\ 0 \in 0..Len(stack)
  BY <1>1
<1>3. Layered!Plain \in Layered!HeaderSet /\ Layered!Plain \in Layered!Given
  BY PlainIs
<1>4. Layered!Idle \in RequestSet
  BY <1>2, <1>3 DEF Layered!Idle, RequestSet, Layered!Cookies, Layered!Sessions
<1>5. Layered!Idle.pc = "idle" /\ ~Layered!Idle.preflight
  BY DEF Layered!Idle
<1>6. QED
  BY <1>4, <1>5 DEF RequestTrue

\* The browser sends a request: those that it overlaps are not alone any more.
LEMMA BrowseStep ==
  ASSUME LayersInv, NEW s \in Slots, Layered!Browse(s)
  PROVE  LayersInv'
<1>1. /\ Layered!TypeOK /\ jar \in Layered!Cookies /\ sent \in 0..MaxSent /\ MaxSent \in Nat
      /\ left \in Layered!Sessions \union {"unknown"} /\ Len(stack) \in Nat
      /\ \A t \in Slots : request[t] \in RequestSet /\ RequestTrue(request[t])
  BY LayersTypes, MaxSentAssumption DEF LayersInv
<1>2. PICK type \in {"http", "websocket"}, origin \in {"none", "listed", "other"}, preflight \in BOOLEAN :
        request' = [t \in Slots |-> IF t = s THEN Layered!Request(type, origin, preflight)
                                    ELSE Layered!Overlapped(request[t])]
  BY DEF Layered!Browse
<1>3. UNCHANGED <<stack, policy, jar, left>> /\ sent' = sent + 1 /\ sent < MaxSent
  BY DEF Layered!Browse
<1>4. PICK cookie, alone : /\ cookie = IF preflight THEN "none" ELSE jar
                           /\ alone = \A u \in Slots : request[u].pc = "idle"
  OBVIOUS
<1>5. PICK new : new = [Layered!Idle EXCEPT !.pc = "inbound", !.at = 1, !.type = type, !.origin = origin,
                              !.preflight = preflight, !.cookie = cookie, !.alone = alone]
  OBVIOUS
<1>6. /\ request'[s] = new
      /\ \A t \in Slots : t # s =>
           request'[t] = IF request[t].pc = "idle" THEN Layered!Idle ELSE [request[t] EXCEPT !.alone = FALSE]
  <2>1. Layered!Request(type, origin, preflight) = new
    BY <1>4, <1>5 DEF Layered!Request
  <2>2. QED
    BY <1>2, <2>1 DEF Layered!Overlapped
<1>7. cookie \in Layered!Cookies /\ 1 \in 0..(Len(stack) + 1)
  BY <1>1, <1>4 DEF Layered!Cookies
<1>8. /\ new \in RequestSet /\ new.pc = "inbound" /\ new.at = 1 /\ new.preflight = preflight
      /\ new.cookie = cookie /\ new.alone = alone /\ new.given = Layered!Plain
  <2>1. Layered!Idle \in RequestSet /\ Layered!Idle.given = Layered!Plain /\ alone \in BOOLEAN
    BY <1>1, <1>4, Idles DEF Layered!Idle
  <2>2. QED
    BY <1>5, <1>7, <2>1 DEF RequestSet
<1>9. RequestTrue(new)
  <2>1. new.at - 1 = 0
    BY <1>8
  <2>2. \A layer : ~Among(layer, 0)
    <3>1. ASSUME NEW layer, Among(layer, 0) PROVE FALSE
      <4>1. PICK n : n = Layered!Position(layer) /\ n \in 1..Len(stack) /\ n <= 0
        BY <1>1, <3>1, Places DEF Among
      <4>2. QED
        BY <4>1
    <3>2. QED
      BY <3>1
  <2>3. new.at >= 1
    BY <1>8
  <2>4. WayIn(new)
    BY <1>8, <2>1, <2>2, <2>3 DEF WayIn
  <2>5. QED
    BY <1>4, <1>8, <2>4 DEF RequestTrue
<1>10. ASSUME NEW r \in RequestSet, RequestTrue(r), NEW later, later = [r EXCEPT !.alone = FALSE]
       PROVE  later \in RequestSet /\ RequestTrue(later) /\ later.pc = r.pc /\ ~later.alone
  <2>1. /\ later \in RequestSet /\ later.pc = r.pc /\ later.at = r.at /\ later.given = r.given
        /\ later.preflight = r.preflight /\ later.cookie = r.cookie /\ ~later.alone
        /\ later.initial_session_was_empty = r.initial_session_was_empty /\ later.type = r.type
        /\ later.origin = r.origin /\ later.passed = r.passed /\ later.headers = r.headers
        /\ later.started = r.started
    BY <1>10 DEF RequestSet
  <2>2. \A layer : Layered!Through(later, layer) <=> Layered!Through(r, layer)
    BY <2>1 DEF Layered!Through
  <2>3. QED
    BY <1>10, <2>1, <2>2 DEF RequestTrue, WayIn, SessionTold, CorsTold, CorsTruth
<1>11. ASSUME NEW t \in Slots, t # s
       PROVE  /\ request'[t] \in RequestSet /\ RequestTrue(request'[t])
              /\ request'[t].pc = "idle" \/ ~request'[t].alone
              /\ request[t].pc = "idle" => request'[t].pc = "idle"
  <2>1. CASE request[t].pc = "idle"
    BY <1>1, <1>6, <1>11, <2>1, Idles
  <2>2. CASE request[t].pc # "idle"
    <3>1. PICK later : later = [request[t] EXCEPT !.alone = FALSE]
      OBVIOUS
    <3>2. request'[t] = later
      BY <1>6, <1>11, <2>2, <3>1
    <3>3. later \in RequestSet /\ RequestTrue(later) /\ ~later.alone
      BY <1>1, <1>10, <3>1
    <3>4. QED
      BY <2>2, <3>2, <3>3
  <2>3. QED
    BY <2>1, <2>2
<1>12. Layered!TypeOK'
  <2>1. \A t \in Slots : request'[t] \in RequestSet
    BY <1>6, <1>8, <1>11
  <2>2. request' \in [Slots -> RequestSet]
    BY <1>2, <2>1
  <2>3. sent' \in 0..MaxSent
    BY <1>1, <1>3
  <2>4. QED
    BY <1>1, <1>3, <2>2, <2>3, LayersTyped
<1>13. \A t \in Slots : RequestTrue(request[t])'
  <2>1. ASSUME NEW t \in Slots PROVE RequestTrue(request[t])'
    <3>1. PICK r : r = request'[t] /\ RequestTrue(r)
      BY <1>6, <1>9, <1>11
    <3>2. RequestTrue(r)'
      BY <1>3, <3>1, StillTrue
    <3>3. QED
      BY <3>1, <3>2 DEF RequestTrue, WayIn, SessionTold, CorsTold, CorsTruth, Layered!Through
  <2>2. QED
    BY <2>1
<1>14. AloneInv'
  <2>1. ASSUME NEW t \in Slots, request'[t].pc # "idle", request'[t].alone
        PROVE  /\ request'[t].preflight \/ request'[t].cookie = jar
               /\ \A u \in Slots : u # t => request'[u].pc = "idle"
    <3>1. t = s
      BY <1>11, <2>1
    <3>2. alone /\ (preflight \/ cookie = jar)
      BY <1>4, <1>6, <1>8, <2>1, <3>1
    <3>3. \A u \in Slots : u # s => request'[u].pc = "idle"
      BY <1>4, <1>11, <3>2
    <3>4. QED
      BY <1>6, <1>8, <3>1, <3>2, <3>3
  <2>2. QED
    BY <1>3, <2>1 DEF AloneInv
<1>15. left' # "unknown" => Layered!Decoded(jar)' = left'
  BY <1>3 DEF LayersInv, Layered!Decoded
<1>16. QED
  BY <1>12, <1>13, <1>14, <1>15 DEF LayersInv

\* A response arrives.
LEMMA TakeStep ==
  ASSUME LayersInv, NEW s \in Slots, Layered!Take(s)
  PROVE  LayersInv'
<1>1. PICK r, told : r = request[s] /\ told = r.headers.set_cookie
  OBVIOUS
<1>2. /\ Layered!TypeOK /\ jar \in Layered!Cookies /\ sent \in 0..MaxSent /\ r \in RequestSet
      /\ left \in Layered!Sessions \union {"unknown"} /\ request \in [Slots -> RequestSet]
      /\ \A t \in Slots : RequestTrue(request[t])
  BY <1>1, LayersTypes DEF LayersInv
<1>3. /\ r.pc = "answered" /\ request' = [request EXCEPT ![s] = Layered!Idle]
      /\ jar' = IF r.preflight \/ told = "none" THEN jar ELSE IF told = "expired" THEN "none" ELSE told
      /\ left' = IF r.type # "http" \/ r.preflight \/ ~Layered!Through(r, "session") THEN left
                 ELSE IF r.alone THEN r.started ELSE "unknown"
      /\ UNCHANGED <<stack, policy, sent>>
  BY <1>1 DEF Layered!Take
<1>4. SessionTold(r)
  BY <1>1, <1>2, <1>3 DEF RequestTrue
<1>5. told \in Values \union {"none", "expired"} /\ r.started \in Layered!Sessions
  BY <1>1, <1>2 DEF RequestSet, Layered!HeaderSet
<1>6. /\ request'[s] = Layered!Idle
      /\ \A t \in Slots : t # s => request'[t] = request[t]
  BY <1>2, <1>3
<1>7. Layered!TypeOK'
  <2>1. jar' \in Layered!Cookies
    BY <1>2, <1>3, <1>5 DEF Layered!Cookies
  <2>2. left' \in Layered!Sessions \union {"unknown"}
    BY <1>2, <1>3, <1>5
  <2>3. request' \in [Slots -> RequestSet]
    BY <1>2, <1>3, Idles
  <2>4. QED
    BY <1>2, <1>3, <2>1, <2>2, <2>3, LayersTyped
<1>8. \A t \in Slots : RequestTrue(request[t])'
  <2>1. ASSUME NEW t \in Slots PROVE RequestTrue(request[t])'
    <3>1. PICK q : q = request'[t] /\ RequestTrue(q)
      BY <1>2, <1>6, Idles
    <3>2. RequestTrue(q)'
      BY <1>3, <3>1, StillTrue
    <3>3. QED
      BY <3>1, <3>2 DEF RequestTrue, WayIn, SessionTold, CorsTold, CorsTruth, Layered!Through
  <2>2. QED
    BY <2>1
<1>9. AloneInv'
  <2>1. ASSUME NEW t \in Slots, request'[t].pc # "idle", request'[t].alone
        PROVE  FALSE
    <3>1. t # s /\ request[t].pc # "idle" /\ request[t].alone
      BY <1>2, <1>6, <2>1, Idles
    <3>2. QED
      BY <1>1, <1>3, <3>1 DEF LayersInv, AloneInv
  <2>2. QED
    BY <2>1 DEF AloneInv
<1>10. ASSUME left' # "unknown" PROVE (IF jar' \in Values THEN jar' ELSE "empty") = left'
  <2>1. left # "unknown" => (IF jar \in Values THEN jar ELSE "empty") = left
    BY DEF LayersInv, Layered!Decoded
  <2>2. CASE r.type # "http" \/ r.preflight \/ ~Layered!Through(r, "session")
    <3>1. r.type # "http" \/ ~Layered!Through(r, "session") => told = "none"
      BY <1>1, <1>4 DEF SessionTold
    <3>2. QED
      BY <1>3, <1>10, <2>1, <2>2, <3>1
  <2>3. CASE r.type = "http" /\ ~r.preflight /\ Layered!Through(r, "session")
    <3>1. r.alone /\ left' = r.started
      BY <1>3, <1>10, <2>3
    <3>2. r.cookie = jar
      BY <1>1, <1>3, <2>3, <3>1 DEF LayersInv, AloneInv
    <3>3. \/ told = "none" /\ r.started = "empty" /\ r.cookie \notin Values
          \/ told = "expired" /\ r.started = "empty"
          \/ told \in Values /\ r.started = told
      BY <1>1, <1>4, <2>3 DEF SessionTold
    <3>4. "none" \notin Values /\ "expired" \notin Values
      BY ValuesAssumption
    <3>5. QED
      BY <1>3, <2>3, <3>1, <3>2, <3>3, <3>4
  <2>4. r.preflight \in BOOLEAN
    BY <1>2 DEF RequestSet
  <2>5. QED
    BY <2>2, <2>3, <2>4
<1>11. left' # "unknown" => Layered!Decoded(jar)' = left'
  BY <1>10 DEF Layered!Decoded
<1>12. QED
  BY <1>7, <1>8, <1>9, <1>11 DEF LayersInv

\* The signature expires: no request has a good cookie any more.
LEMMA CookieExpiresStep ==
  ASSUME LayersInv, Layered!CookieExpires
  PROVE  LayersInv'
<1>1. /\ Layered!TypeOK /\ jar \in Layered!Cookies /\ sent \in 0..MaxSent
      /\ request \in [Slots -> RequestSet] /\ \A t \in Slots : RequestTrue(request[t])
  BY LayersTypes DEF LayersInv
<1>2. /\ jar \in Values /\ jar' = "bad" /\ left' = "empty" /\ UNCHANGED <<stack, policy, sent>>
      /\ request' = [s \in Slots |-> [request[s] EXCEPT !.cookie =
                       IF request[s].cookie \in Values THEN "bad" ELSE request[s].cookie]]
  BY DEF Layered!CookieExpires
<1>3. "bad" \notin Values /\ "none" \notin Values /\ "empty" \notin Values
  BY ValuesAssumption
<1>4. ASSUME NEW t \in Slots
      PROVE  /\ request'[t] \in RequestSet /\ RequestTrue(request'[t])
             /\ request'[t].pc = request[t].pc /\ request'[t].alone = request[t].alone
             /\ request'[t].preflight = request[t].preflight
             /\ request'[t].cookie = IF request[t].cookie \in Values THEN "bad" ELSE request[t].cookie
  <2>1. PICK r, cookie, later :
          /\ r = request[t] /\ cookie = IF r.cookie \in Values THEN "bad" ELSE r.cookie
          /\ later = [r EXCEPT !.cookie = cookie]
    OBVIOUS
  <2>2. request'[t] = later
    BY <1>2, <2>1
  <2>3. r \in RequestSet /\ RequestTrue(r) /\ r.cookie \in Layered!Cookies
    BY <1>1, <2>1 DEF RequestSet
  <2>4. /\ cookie \in Layered!Cookies /\ cookie \notin Values
        /\ cookie = "none" <=> r.cookie = "none"
    BY <1>3, <2>1, <2>3 DEF Layered!Cookies
  <2>5. /\ later \in RequestSet /\ later.pc = r.pc /\ later.at = r.at /\ later.given = r.given
        /\ later.preflight = r.preflight /\ later.cookie = cookie /\ later.alone = r.alone
        /\ later.initial_session_was_empty = r.initial_session_was_empty /\ later.type = r.type
        /\ later.origin = r.origin /\ later.passed = r.passed /\ later.headers = r.headers
        /\ later.started = r.started
    BY <2>1, <2>3, <2>4 DEF RequestSet
  <2>6. \A layer : Layered!Through(later, layer) <=> Layered!Through(r, layer)
    BY <2>5 DEF Layered!Through
  <2>7. WayIn(r) => WayIn(later)
    BY <2>4, <2>5 DEF WayIn
  <2>8. SessionTold(r) => SessionTold(later)
    BY <2>4, <2>5, <2>6 DEF SessionTold
  <2>9. CorsTold(r) => CorsTold(later)
    BY <2>4, <2>5, <2>6 DEF CorsTold, CorsTruth
  <2>10. RequestTrue(later)
    BY <2>3, <2>4, <2>5, <2>7, <2>8, <2>9 DEF RequestTrue
  <2>11. QED
    BY <2>1, <2>2, <2>5, <2>10
<1>5. Layered!TypeOK'
  <2>1. request' \in [Slots -> RequestSet]
    BY <1>2, <1>4
  <2>2. jar' \in Layered!Cookies /\ left' \in Layered!Sessions \union {"unknown"}
    BY <1>2 DEF Layered!Cookies, Layered!Sessions
  <2>3. QED
    BY <1>1, <1>2, <2>1, <2>2, LayersTyped
<1>6. \A t \in Slots : RequestTrue(request[t])'
  <2>1. ASSUME NEW t \in Slots PROVE RequestTrue(request[t])'
    <3>1. PICK q : q = request'[t] /\ RequestTrue(q)
      BY <1>4
    <3>2. RequestTrue(q)'
      BY <1>2, <3>1, StillTrue
    <3>3. QED
      BY <3>1, <3>2 DEF RequestTrue, WayIn, SessionTold, CorsTold, CorsTruth, Layered!Through
  <2>2. QED
    BY <2>1
<1>7. AloneInv'
  <2>1. ASSUME NEW t \in Slots, request'[t].pc # "idle", request'[t].alone
        PROVE  /\ request'[t].preflight \/ request'[t].cookie = "bad"
               /\ \A u \in Slots : u # t => request'[u].pc = "idle"
    <3>1. request[t].pc # "idle" /\ request[t].alone
      BY <1>4, <2>1
    <3>2. /\ request[t].preflight \/ request[t].cookie = jar
          /\ \A u \in Slots : u # t => request[u].pc = "idle"
      BY <3>1 DEF LayersInv, AloneInv
    <3>3. QED
      BY <1>2, <1>4, <3>2
  <2>2. QED
    BY <1>2, <2>1 DEF AloneInv
<1>8. left' # "unknown" => Layered!Decoded(jar)' = left'
  BY <1>2, <1>3 DEF Layered!Decoded
<1>9. QED
  BY <1>5, <1>6, <1>7, <1>8 DEF LayersInv

\* Nothing is sent yet,
LEMMA LayersInit == Layered!Init => LayersInv
<1> SUFFICES ASSUME Layered!Init PROVE LayersInv
  OBVIOUS
<1>1. /\ stack \in Stacks /\ policy \in Policies /\ jar = "none" /\ left = "empty" /\ sent = 0
      /\ request = [s \in Slots |-> Layered!Idle]
  BY DEF Layered!Init
<1>2. "none" \notin Values
  BY ValuesAssumption
<1>3. Len(stack) \in Nat
  BY <1>1, StacksAssumption
<1>4. Layered!Idle \in RequestSet
  <2>1. 0 \in 0..(Len(stack) + 1) /\ 0 \in 0..Len(stack)
    BY <1>3
  <2>2. Layered!Plain \in Layered!HeaderSet /\ Layered!Plain \in Layered!Given
    BY PlainIs
  <2>3. QED
    BY <2>1, <2>2 DEF Layered!Idle, RequestSet, Layered!Cookies, Layered!Sessions
<1>5. Layered!TypeOK
  <2>1. request \in [Slots -> RequestSet]
    BY <1>1, <1>4
  <2>2. 0 \in 0..MaxSent
    BY MaxSentAssumption
  <2>3. QED
    BY <1>1, <2>1, <2>2 DEF Layered!TypeOK, RequestSet, Layered!Cookies, Layered!Sessions
<1>6. \A s \in Slots : RequestTrue(request[s]) /\ request[s].pc = "idle"
  BY <1>1, <1>5, Idles
<1>7. Layered!Decoded(jar) = left
  BY <1>1, <1>2 DEF Layered!Decoded
<1>8. QED
  BY <1>5, <1>6, <1>7 DEF LayersInv, AloneInv

\* and every step of the layers keeps what is true of them.
LEMMA LayersStep ==
  ASSUME LayersInv, [Layered!Next]_layers
  PROVE  LayersInv'
<1>1. CASE UNCHANGED layers
  <2>1. UNCHANGED <<stack, policy>> /\ UNCHANGED <<jar, left, request, sent>>
    BY <1>1 DEF layers
  <2>2. Layered!TypeOK'
    <3>1. /\ jar \in Layered!Cookies /\ left \in Layered!Sessions \union {"unknown"} /\ sent \in 0..MaxSent
          /\ request \in [Slots -> RequestSet] /\ Layered!TypeOK
      BY LayersTypes DEF LayersInv
    <3>2. QED
      BY <2>1, <3>1, LayersTyped
  <2>3. ASSUME NEW s \in Slots PROVE RequestTrue(request[s])'
    <3>1. PICK q : q = request[s] /\ RequestTrue(q)
      BY DEF LayersInv
    <3>2. RequestTrue(q)'
      BY <2>1, <3>1, StillTrue
    <3>3. q = request'[s]
      BY <2>1, <3>1
    <3>4. QED
      BY <3>2, <3>3 DEF RequestTrue, WayIn, SessionTold, CorsTold, CorsTruth, Layered!Through
  <2>4. QED
    BY <2>1, <2>2, <2>3 DEF LayersInv, AloneInv, Layered!Decoded
<1>2. CASE Layered!CookieExpires
  BY <1>2, CookieExpiresStep
<1>3. ASSUME NEW s \in Slots,
             \/ Layered!Browse(s) \/ Layered!Take(s) \/ Layered!Session(s) \/ Layered!Cors(s)
             \/ Layered!TrustedHost(s) \/ Layered!HTTPSRedirect(s) \/ Layered!Authentication(s)
             \/ Layered!Arrives(s) \/ Layered!ChangeSession(s) \/ Layered!Respond(s) \/ Layered!Fail(s)
      PROVE  LayersInv'
  <2>1. CASE Layered!Browse(s)
    BY <2>1, BrowseStep
  <2>2. CASE Layered!Take(s)
    BY <2>2, TakeStep
  <2>3. CASE Layered!Session(s)
    BY <2>3, SessionStep
  <2>4. CASE Layered!Cors(s)
    BY <2>4, CorsStep
  <2>5. CASE Layered!TrustedHost(s) \/ Layered!HTTPSRedirect(s) \/ Layered!Authentication(s)
    <3>1. PICK layer \in {"host", "https", "auth"} : Layered!At(s, layer) /\ Layered!Gate(s)
      BY <2>5 DEF Layered!TrustedHost, Layered!HTTPSRedirect, Layered!Authentication
    <3>2. QED
      BY <3>1, GateStep
  <2>6. CASE Layered!Arrives(s) \/ Layered!ChangeSession(s)
    BY <2>6, ArrivesStep
  <2>7. CASE Layered!Respond(s) \/ Layered!Fail(s)
    BY <2>7, ApplicationStep
  <2>8. QED
    BY <1>3, <2>1, <2>2, <2>3, <2>4, <2>5, <2>6, <2>7
<1>4. QED
  BY <1>1, <1>2, <1>3 DEF Layered!Next

\* What is true of the layers is what they promise.
LEMMA LayersHold ==
  ASSUME LayersInv
  PROVE  Layered!SessionCarried /\ Layered!CorsTrue
<1>1. Layered!SessionCarried
  BY DEF LayersInv, Layered!SessionCarried
<1>2. ASSUME NEW s \in Layered!CorsAnswered
      PROVE  CorsTruth(request[s], request[s].headers, request[s].given)
  BY DEF Layered!CorsAnswered, LayersInv, RequestTrue, CorsTold
<1>3. QED
  BY <1>1, <1>2 DEF Layered!CorsTrue, CorsTruth

-----------------------------------------------------------------------------
(* Either of the two is followed, and the other stays as it began.         *)

FollowInv == GZipInv /\ LayersInv

\* Both are true as long as the system runs.
THEOREM Invariant == FollowSpec => []FollowInv
<1>1. FollowInit => FollowInv
  BY GZipInit, LayersInit DEF FollowInit, FollowInv
<1>2. FollowInv /\ [FollowNext]_<<bodies, vars, layers>> => FollowInv'
  <2> SUFFICES ASSUME FollowInv, [FollowNext]_<<bodies, vars, layers>> PROVE FollowInv'
    OBVIOUS
  <2>1. [Next]_vars /\ [Layered!Next]_layers
    BY DEF FollowNext
  <2>2. QED
    BY <2>1, GZipStep, LayersStep DEF FollowInv
<1>3. QED
  BY <1>1, <1>2, PTL DEF FollowSpec

\* GZipMiddleware: a response that was sent to its end is, decoded as it says, what the
\* application sent; as long as announced; and encoded exactly when that is asked for.
THEOREM Intact == FollowSpec => []BodyTrue
<1>1. FollowInv => BodyTrue
  BY GZipHolds DEF FollowInv
<1>2. QED
  BY <1>1, Invariant, PTL

\* GZipMiddleware withholds the start and replaces bodies, and the messages of a response
\* stay in the order that ASGI prescribes.
THEOREM GZipInOrder == FollowSpec => WireInOrder
<1>1. FollowInv /\ [FollowNext]_<<bodies, vars, layers>> => [NextRequest \/ Protocol!Next]_wire
  <2> SUFFICES ASSUME FollowInv, [FollowNext]_<<bodies, vars, layers>>
               PROVE  [NextRequest \/ Protocol!Next]_wire
    OBVIOUS
  <2>1. [Next]_vars
    BY DEF FollowNext
  <2>2. CASE Send
    BY <2>2, InTurn DEF FollowInv
  <2>3. CASE NextRequest
    BY <2>3
  <2>4. CASE UNCHANGED vars
    BY <2>4 DEF vars
  <2>5. CASE Next /\ ~Send /\ ~NextRequest
    BY <2>5 DEF Next, AppStart, PathSend, PassThrough, Small, First, Remaining, FirstWithoutKey, AppFails,
                OtherMessage, vars
  <2>6. QED
    BY <2>1, <2>2, <2>3, <2>4, <2>5
<1>2. QED
  BY <1>1, Invariant, PTL DEF FollowSpec, WireInOrder

\* The session goes from one request to the next, whatever layers are around
\* SessionMiddleware and in whatever order responses arrive.
THEOREM Carried == FollowSpec => []SessionCarried
<1>1. FollowInv => SessionCarried
  BY LayersHold DEF FollowInv, SessionCarried
<1>2. QED
  BY <1>1, Invariant, PTL

\* CORSMiddleware tells each origin that is allowed the truth, in every place among the
\* layers and whatever the endpoint says.
THEOREM OriginsTold == FollowSpec => []CorsTrue
<1>1. FollowInv => CorsTrue
  BY LayersHold DEF FollowInv, CorsTrue
<1>2. QED
  BY <1>1, Invariant, PTL

===============================================================================
