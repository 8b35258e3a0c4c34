----------------------------- MODULE FileResponse -----------------------------
(***************************************************************************)
(* One request answered by a FileResponse: the stat, the Range header and  *)
(* its ranges, and the messages sent while the file is read in chunks, in  *)
(* worker threads.  Other processes cut, grow, replace or remove the file  *)
(* meanwhile, and the client may leave at any send.                        *)
(*                                                                         *)
(* A byte of the file is its position.  What a multipart body adds to the  *)
(* bytes is counted, not spelled; headers other than the content-length    *)
(* are left out, and If-Range matches what the stat said or it does not.   *)
(***************************************************************************)
EXTENDS Integers, Sequences, SequencesExt, FiniteSetsExt

CONSTANTS
  MaxSize,      \* bound: bytes of the file
  ChunkSize,    \* chunk_size
  Requests      \* what is asked for and given, apart from the Range header
ASSUME MaxSizeAssumption == MaxSize \in Nat
ASSUME ChunkSizeAssumption == ChunkSize \in Nat \ {0}

\* The method, the If-Range header, the pathsend extension of the server, whether the
\* application gave a stat_result; and two bounds: the ranges of the header, and the
\* changes of the file.
ASSUME RequestsAssumption ==
  Requests \subseteq [method : {"GET", "HEAD"}, if_range : {"absent", "same", "other"},
                      pathsend : BOOLEAN, given : BOOLEAN, max_ranges : Nat, max_changes : Nat]

VARIABLES
  request,    \* one of Requests
  range,      \* the Range header: absent, of bytes or of another unit
  specs,      \* the ranges of the header
  file,       \* the file: its length, whether it is there
  gone,       \* the client has left
  size,       \* st_size of the stat
  pc,
  asked,      \* the ranges of the header that are not merged yet
  ranges,     \* result of _parse_range_header()
  resp,       \* the response that was chosen: its kind and its content-length
  part,       \* the range that is sent (of a multipart response, which one)
  start,      \* where the next chunk is read
  body,       \* history: the length of the body, and the bytes of the file in it, part by part
  wire        \* messages the server accepted

vars == <<request, range, specs, file, gone, size, pc, asked, ranges, resp, part, start, body, wire>>

Absent == -1    \* the number that a range leaves out
Numbers == {Absent} \union 0..MaxSize
RangeSpecs == [first : Numbers, last : Numbers] \ {[first |-> Absent, last |-> Absent]}
ByteRange == [start : Int, end : Int]
Message == [type : {"start", "body", "pathsend"}, more_body : BOOLEAN,
            data : Seq(0..MaxSize), framing : Nat]
Kinds == {"none", "simple", "single", "multi", "error"}

TypeOK ==
  /\ request \in Requests
  /\ range \in {"absent", "bytes", "other"}
  /\ specs \in Seq(RangeSpecs)
  /\ file \in [length : 0..MaxSize, there : BOOLEAN, changes : 0..request.max_changes]
  /\ gone \in BOOLEAN
  /\ size \in 0..MaxSize
  /\ pc \in {"call", "headers", "merge", "start", "last", "pathsend", "open", "read",
             "header", "part", "background", "done", "raised"}
  /\ asked \in Seq(ByteRange)
  /\ ranges \in Seq([start : 0..MaxSize, end : 0..MaxSize])
  /\ resp \in [kind : Kinds, length : Nat]
  /\ part \in Nat
  /\ start \in 0..MaxSize
  /\ body \in [length : Nat, parts : Seq(Seq(0..MaxSize))]
  /\ wire \in Seq(Message)

M(type, more, data, framing) ==
  [type |-> type, more_body |-> more, data |-> data, framing |-> framing]

\* FileResponse.__init__: the headers of a stat_result that is given are set at once.
Constructed ==
  /\ request \in Requests
  /\ size = IF request.given THEN file.length ELSE 0

Init ==
  /\ file \in [length : 0..MaxSize, there : {TRUE}, changes : {0}]
  /\ Constructed
  /\ range \in {"absent", "bytes", "other"}
  /\ specs \in BoundedSeq(RangeSpecs, request.max_ranges)
  /\ range # "bytes" => specs = <<>>
  /\ gone = FALSE
  /\ pc = "call"
  /\ asked = <<>> /\ ranges = <<>>
  /\ resp = [kind |-> "none", length |-> 0]
  /\ part = 1 /\ start = 0
  /\ body = [length |-> 0, parts |-> <<>>]
  /\ wire = <<>>

-----------------------------------------------------------------------------
(* Other processes and the client (external).                              *)

FileChanges ==
  /\ file.changes < request.max_changes
  /\ \E l \in 0..MaxSize, there \in BOOLEAN :
       file' = [length |-> l, there |-> there, changes |-> file.changes + 1]
  /\ UNCHANGED <<request, range, specs, gone, size, pc, asked, ranges, resp, part, start, body, wire>>

ClientLeaves ==
  /\ ~gone
  /\ gone' = TRUE
  /\ UNCHANGED <<request, range, specs, file, size, pc, asked, ranges, resp, part, start, body, wire>>

-----------------------------------------------------------------------------
(* __call__(): the stat and the choice of the response.                    *)

\* The stat, unless the application gave one.
Stat ==
  /\ pc = "call"
  /\ IF request.given
     THEN pc' = "headers" /\ UNCHANGED size
     ELSE IF file.there
          THEN pc' = "headers" /\ size' = file.length
          ELSE pc' = "raised" /\ UNCHANGED size
  /\ UNCHANGED <<request, range, specs, file, gone, asked, ranges, resp, part, start, body, wire>>

UseRange == range # "absent" /\ request.if_range # "other"

\* A range of the header, as the bytes from start up to, and without, end.
RangeOf(spec, n) ==
  [start |-> IF spec.first # Absent THEN spec.first ELSE n - spec.last,
   end |-> IF spec.first # Absent /\ spec.last # Absent /\ spec.last < n
           THEN spec.last + 1 ELSE n]

Parsed == [i \in DOMAIN specs |-> RangeOf(specs[i], size)]

\* What _parse_range_header() says of the ranges, in the order of its checks.
Verdict ==
  IF range = "other" \/ specs = <<>> THEN "malformed"
  ELSE IF \E i \in DOMAIN Parsed : Parsed[i].start \notin 0..(size - 1) THEN "unsatisfiable"
  ELSE IF \E i \in DOMAIN Parsed : Parsed[i].start > Parsed[i].end THEN "malformed"
  ELSE "ranges"

Chosen(kind, length) ==
  /\ resp' = [kind |-> kind, length |-> length]
  /\ pc' = "start"

\* The response is the file, an error, the one range, or the ranges once they are merged.
Choose ==
  /\ pc = "headers"
  /\ \/ ~UseRange /\ Chosen("simple", size) /\ UNCHANGED <<asked, ranges, part, start>>
     \/ /\ UseRange /\ Verdict # "ranges"
        /\ Chosen("error", 0)
        /\ UNCHANGED <<asked, ranges, part, start>>
     \/ /\ UseRange /\ Verdict = "ranges" /\ Len(Parsed) = 1
        /\ ranges' = Parsed
        /\ start' = Parsed[1].start
        /\ Chosen("single", Parsed[1].end - Parsed[1].start)
        /\ UNCHANGED <<asked, part>>
     \/ /\ UseRange /\ Verdict = "ranges" /\ Len(Parsed) > 1
        /\ asked' = Parsed
        /\ pc' = "merge"
        /\ UNCHANGED <<ranges, resp, part, start>>
  /\ UNCHANGED <<request, range, specs, file, gone, size, body, wire>>

\* Mutant of Hull: the end is the one of the new range.
HullOfNew(r, s) == [start |-> Min({r.start, s.start}), end |-> s.end]

Hull(r, s) == [start |-> Min({r.start, s.start}), end |-> Max({r.end, s.end})]

\* The ranges that do not end before r starts: the first of them decides.
NotBefore(r) == {p \in DOMAIN ranges : r.start <= ranges[p].end}

\* One turn of the merge loop: the next range is merged, inserted or appended.
Merge ==
  /\ pc = "merge" /\ asked # <<>>
  /\ LET r == Head(asked)
         p == Min(NotBefore(r))
     IN  \/ /\ NotBefore(r) = {}
            /\ ranges' = Append(ranges, r)
         \/ /\ NotBefore(r) # {} /\ r.end < ranges[p].start
            /\ ranges' = InsertAt(ranges, p, r)
         \/ /\ NotBefore(r) # {} /\ r.end >= ranges[p].start
            /\ ranges' = [ranges EXCEPT ![p] = Hull(@, r)]
  /\ asked' = Tail(asked)
  /\ UNCHANGED <<request, range, specs, file, gone, size, pc, resp, part, start, body, wire>>

Digits(n) == IF n < 10 THEN 1 ELSE IF n < 100 THEN 2 ELSE 3
BoundaryLen == 26
ContentTypeLen == 25

\* content_length of generate_multipart(), for one range and for all of them.
PartLength(r) ==
  Digits(r.start) + Digits(r.end - 1) + 44 + BoundaryLen + ContentTypeLen + Digits(size)
  + (r.end - r.start)
Total(lengths) ==
  LET sum[k \in 0..Len(lengths)] == IF k = 0 THEN 0 ELSE sum[k - 1] + lengths[k]
  IN  sum[Len(lengths)]
MultipartLength == Total([i \in DOMAIN ranges |-> PartLength(ranges[i])]) + 5 + BoundaryLen

\* The merge is over: one range may be left.
ChooseMerged ==
  /\ pc = "merge" /\ asked = <<>>
  /\ IF Len(ranges) = 1
     THEN Chosen("single", ranges[1].end - ranges[1].start) /\ start' = ranges[1].start
     ELSE Chosen("multi", MultipartLength) /\ UNCHANGED start
  /\ UNCHANGED <<request, range, specs, file, gone, size, asked, ranges, part, body, wire>>

-----------------------------------------------------------------------------
(* The messages.                                                           *)

\* `await send(m)`, after which next is done, and the file's bytes sent are these; it may
\* raise when the client has left.
Send(m, next, parts) ==
  \/ /\ wire' = Append(wire, m) /\ pc' = next
     /\ body' = [length |-> body.length + Len(m.data) + m.framing, parts |-> parts]
  \/ gone /\ UNCHANGED <<body, wire>> /\ pc' = "raised"

SendStart ==
  /\ pc = "start"
  /\ Send(M("start", TRUE, <<>>, 0),
          IF resp.kind = "error" \/ request.method = "HEAD" THEN "last"
          ELSE IF resp.kind = "simple" /\ request.pathsend THEN "pathsend" ELSE "open", <<>>)
  /\ UNCHANGED <<request, range, specs, file, gone, size, asked, ranges, resp, part, start>>

\* The body of an error or of an answer to HEAD; an error returns at once.
SendLast ==
  /\ pc = "last"
  /\ Send(M("body", FALSE, <<>>, 0), IF resp.kind = "error" THEN "done" ELSE "background", <<>>)
  /\ UNCHANGED <<request, range, specs, file, gone, size, asked, ranges, resp, part, start>>

\* Mutant of SendPath: the file is sent as well.
SendPathAndFile ==
  /\ pc = "pathsend"
  /\ Send(M("pathsend", FALSE, <<>>, 0), "open", <<>>)
  /\ UNCHANGED <<request, range, specs, file, gone, size, asked, ranges, resp, part, start>>

\* The server sends the file itself.
SendPath ==
  /\ pc = "pathsend"
  /\ Send(M("pathsend", FALSE, <<>>, 0), "background", <<>>)
  /\ UNCHANGED <<request, range, specs, file, gone, size, asked, ranges, resp, part, start>>

\* anyio.open_file() raises when the file has gone.
Open ==
  /\ pc = "open"
  /\ pc' = IF ~file.there THEN "raised"
           ELSE IF resp.kind = "multi" THEN "header" ELSE "read"
  /\ UNCHANGED <<request, range, specs, file, gone, size, asked, ranges, resp, part, start, body, wire>>

\* file.read(n): up to n bytes from start, fewer at the end of the file.
Read(n) == [i \in 1..Max({0, Min({n, file.length - start})}) |-> start + i - 1]

\* The bytes sent when this chunk is.
Onto(chunk) ==
  IF body.parts = <<>> THEN <<chunk>>
  ELSE [body.parts EXCEPT ![Len(body.parts)] = @ \o chunk]

\* The range that is sent.
Current == IF resp.kind = "single" THEN ranges[1] ELSE ranges[part]

\* Mutant of Wanted: the last byte of a range is not counted.
WantedLess == IF resp.kind = "simple" THEN ChunkSize ELSE Min({ChunkSize, Current.end - start - 1})

\* The size of the next read.
Wanted == IF resp.kind = "simple" THEN ChunkSize ELSE Min({ChunkSize, Current.end - start})

\* more_body of _handle_simple() and _handle_single_range().
MoreAfter(chunk) ==
  /\ Len(chunk) = ChunkSize
  /\ resp.kind = "single" => start + Len(chunk) < Current.end

SendChunk ==
  /\ pc = "read"
  /\ LET chunk == Read(Wanted)
     IN  /\ start' = start + Len(chunk)
         /\ Send(M("body", MoreAfter(chunk), chunk, 0),
                 IF MoreAfter(chunk) THEN "read" ELSE "background", Onto(chunk))
  /\ UNCHANGED <<request, range, specs, file, gone, size, asked, ranges, resp, part>>

\* _handle_multiple_ranges(): the header of a part (43 characters and what varies), or
\* the end of the body when there is no part left.
SendHeader ==
  /\ pc = "header"
  /\ \/ /\ part <= Len(ranges)
        /\ Send(M("body", TRUE, <<>>,
                  Digits(Current.start) + Digits(Current.end - 1) + 43
                  + BoundaryLen + ContentTypeLen + Digits(size)), "part", Append(body.parts, <<>>))
        /\ start' = Current.start
     \/ /\ part > Len(ranges)
        /\ Send(M("body", FALSE, <<>>, 6 + BoundaryLen), "background", body.parts)
        /\ UNCHANGED start
  /\ UNCHANGED <<request, range, specs, file, gone, size, asked, ranges, resp, part>>

\* `while start < end`
PartGoesOn == start < Current.end

\* A chunk of a part; an empty message is recorded once, however often it is repeated, and
\* may find the client gone each time.
SendPartChunk ==
  /\ pc = "part" /\ PartGoesOn
  /\ LET chunk == Read(Wanted)
         m == M("body", TRUE, chunk, 0)
     IN  /\ start' = start + Len(chunk)
         /\ IF m = wire[Len(wire)] /\ chunk = <<>>
            THEN UNCHANGED <<body, wire>> /\ (UNCHANGED pc \/ (gone /\ pc' = "raised"))
            ELSE Send(m, "part", Onto(chunk))
  /\ UNCHANGED <<request, range, specs, file, gone, size, asked, ranges, resp, part>>

\* The newline after a part.
EndPart ==
  /\ pc = "part" /\ ~PartGoesOn
  /\ Send(M("body", TRUE, <<>>, 1), "header", body.parts)
  /\ part' = part + 1
  /\ UNCHANGED <<request, range, specs, file, gone, size, asked, ranges, resp, start>>

\* `await self.background()`, which may raise.
Background ==
  /\ pc = "background"
  /\ pc' \in {"done", "raised"}
  /\ UNCHANGED <<request, range, specs, file, gone, size, asked, ranges, resp, part, start, body, wire>>

-----------------------------------------------------------------------------
Call ==
  \/ Stat \/ Choose \/ Merge \/ ChooseMerged
  \/ SendStart \/ SendLast \/ SendPath \/ Open
  \/ SendChunk \/ SendHeader \/ SendPartChunk \/ EndPart
  \/ Background

Over == pc \in {"done", "raised"} /\ UNCHANGED vars

Next == FileChanges \/ ClientLeaves \/ Call \/ Over

\* The event loop and its worker threads go on.
Spec == Init /\ [][Next]_vars /\ WF_vars(Call)

-----------------------------------------------------------------------------
(* Properties.                                                             *)

Protocol == INSTANCE ResponseProtocol WITH wire <- wire

\* The server sees the messages of a response in order, however the file changes and
\* whoever raises.
WireInOrder == Protocol!Spec

BytesOf(rs) == UNION {rs[i].start..(rs[i].end - 1) : i \in DOMAIN rs}
Positions(r) == [i \in 1..(r.end - r.start) |-> r.start + i - 1]

\* What the chunks have to add up to, part by part.
Whole ==
  IF resp.kind = "simple" THEN <<Positions([start |-> 0, end |-> size])>>
  ELSE [i \in DOMAIN ranges |-> Positions(ranges[i])]

\* Parts before the last are as they have to be, and the last is a beginning.
Begins(parts, whole) ==
  /\ Len(parts) <= Len(whole)
  /\ \A k \in DOMAIN parts :
       IsPrefix(parts[k], whole[k]) /\ (k < Len(parts) => parts[k] = whole[k])

\* The body is the file, or the ranges one after the other, whatever the chunk size,
\* when nothing changes the file; until it is done it is a beginning of that.  The server
\* has been told that it is all by then.
ChunksAddUp ==
  /\ pc = "done" => Protocol!Complete
  /\ file.changes = 0 =>
       /\ Begins(body.parts, Whole)
       /\ pc = "done" /\ request.method = "GET" /\ ~Protocol!LastIs({"pathsend"})
            => body.parts = Whole

\* However the file changes, a range response sends the bytes of its ranges and no others,
\* in order, and goes on to the next range only when one is complete.
NoMoreThanAsked == resp.kind \in {"single", "multi"} => Begins(body.parts, Whole)

\* The merged ranges have the bytes of the ranges of the header, no more and no less.
MergeKeepsBytes ==
  pc = "start" /\ resp.kind \in {"single", "multi"} => BytesOf(ranges) = BytesOf(Parsed)

\* The body has the length that was announced, when nothing changes the file.
LengthAnnounced ==
  file.changes = 0 /\ pc = "done" /\ request.method = "GET" /\ resp.kind \in {"simple", "single"}
  /\ ~Protocol!LastIs({"pathsend"}) => body.length = resp.length

\* generate_multipart() counts what _handle_multiple_ranges() sends.
MultipartLengthAnnounced ==
  file.changes = 0 /\ pc = "done" /\ request.method = "GET" /\ resp.kind = "multi" =>
    body.length = resp.length

\* Every response ends, but a multipart response does not when the file is cut short
\* before the end of the part that is sent.
Finishes == []<>(pc \in {"done", "raised"} \/ (pc = "part" /\ file.length <= start))

\* The body is the file or the ranges that were asked for, merged or not; an answer with the
\* whole file or one range is as long as announced, one of several ranges is not (see above).
BodyAsAnnounced ==
  TypeOK /\ MergeKeepsBytes /\ ChunksAddUp /\ LengthAnnounced /\ NoMoreThanAsked

=============================================================================
