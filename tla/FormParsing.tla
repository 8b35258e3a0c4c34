------------------------------ MODULE FormParsing ------------------------------
(***************************************************************************)
(* A multipart form: Request.form() with MultiPartParser.parse() and its   *)
(* callbacks, the temporary files of UploadFile, and the block that closes *)
(* them.                                                                   *)
(*                                                                         *)
(* The parser of python-multipart is external: per chunk of the body it    *)
(* calls any number of callbacks.  A callback cannot await, so what it     *)
(* gets for a file is kept in a list until the chunk has been parsed.      *)
(* Data are numbered over the whole body; the unit stands for a size.      *)
(***************************************************************************)
EXTENDS Naturals, Sequences, FiniteSets, SequencesExt

CONSTANTS
  Limits,      \* the [files, fields, size] that form() may be called with
  SpoolMax,    \* spool_max_size: what a temporary file holds in memory
  MaxParts,    \* bound: parts of the body
  MaxData,     \* bound: units of data in the body
  MaxPiece     \* bound: units of data in one callback

ASSUME LimitsAssumption == Limits \subseteq [files : Nat, fields : Nat, size : Nat]
ASSUME SpoolAssumption == SpoolMax \in Nat \ {0}
ASSUME BoundsAssumption == MaxParts \in Nat /\ MaxData \in Nat /\ MaxPiece \in Nat \ {0}

VARIABLES
  limits,     \* max_files, max_fields, max_part_size of this call
  pc,         \* where parse(), and the block around form(), is
  at,         \* the next element of the list that is being gone through
  body,       \* history: the parts that the parser has seen
  seen,       \* history: how many units of data they have
  current,    \* _current_part and what it holds: 0 is no file
  counts,     \* _current_files and _current_fields
  items,      \* self.items
  toWrite,    \* _file_parts_to_write
  toFinish,   \* _file_parts_to_finish
  files,      \* all temporary files, in the order of _files_to_close_on_error
  thread      \* history: the last operation on a file ran in a worker thread

vars == <<limits, pc, at, body, seen, current, counts, items, toWrite, toFinish, files, thread>>

Kinds == {"field", "file", "nameless"}
Part == [kind : Kinds, data : Seq(1..MaxData), ended : BOOLEAN]
File == [data : Seq(1..MaxData), pos : 0..MaxData, size : 0..MaxData,
         rolled : BOOLEAN, open : BOOLEAN]

TypeOK ==
  /\ limits \in Limits
  /\ pc \in {"stream", "parsing", "writing", "seeking", "returned", "closing", "closed",
             "rejected", "failed"}
  /\ at \in 1..(MaxParts + MaxData + 1)
  /\ body \in Seq(Part) /\ seen \in 0..MaxData
  /\ current \in [file : 0..MaxParts, data : Seq(1..MaxData)]
  /\ counts \in [files : 0..MaxParts, fields : 0..MaxParts]
  /\ items \in Seq([file : 0..MaxParts, data : Seq(1..MaxData)])
  /\ toWrite \in Seq((1..MaxParts) \X Seq(1..MaxData))
  /\ toFinish \in Seq(1..MaxParts)
  /\ files \in Seq(File)
  /\ thread \in BOOLEAN

Init ==
  /\ limits \in Limits
  /\ pc = "stream" /\ at = 1
  /\ body = <<>> /\ seen = 0 /\ items = <<>> /\ toWrite = <<>> /\ toFinish = <<>> /\ files = <<>>
  /\ current = [file |-> 0, data |-> <<>>]
  /\ counts = [files |-> 0, fields |-> 0]
  /\ thread = FALSE

InPart == body # <<>> /\ ~Last(body).ended

-----------------------------------------------------------------------------
(* The callbacks.                                                          *)

\* Mutant of Reject: the files that are not finished yet are forgotten.
RejectFinished ==
  /\ pc' = "rejected"
  /\ files' = [f \in DOMAIN files |-> [files[f] EXCEPT !.open = Contains(toFinish, f)]]

\* A MultiPartException leaves parser.write(): all temporary files are closed.
Reject ==
  /\ pc' = "rejected"
  /\ files' = [f \in DOMAIN files |-> [files[f] EXCEPT !.open = FALSE]]

\* self.stream() yields a chunk.
Chunk ==
  /\ pc = "stream"
  /\ pc' = "parsing"
  /\ UNCHANGED <<limits, at, body, seen, current, counts, items, toWrite, toFinish, files, thread>>

\* A part with a file name gets a temporary file, unless there are too many.
BeginFile ==
  /\ counts' = [counts EXCEPT !.files = @ + 1]
  /\ IF counts'.files > limits.files
     THEN Reject /\ current' = [file |-> 0, data |-> <<>>]
     ELSE /\ files' = Append(files, [data |-> <<>>, pos |-> 0, size |-> 0,
                                     rolled |-> FALSE, open |-> TRUE])
          /\ current' = [file |-> Len(files) + 1, data |-> <<>>]
          /\ UNCHANGED pc

BeginField ==
  /\ counts' = [counts EXCEPT !.fields = @ + 1]
  /\ current' = [file |-> 0, data |-> <<>>]
  /\ IF counts'.fields > limits.fields THEN Reject ELSE UNCHANGED <<pc, files>>

\* on_part_begin() up to on_headers_finished(): the headers of a part say what it is.
PartBegin(kind) ==
  /\ pc = "parsing" /\ ~InPart /\ Len(body) < MaxParts
  /\ body' = Append(body, [kind |-> kind, data |-> <<>>, ended |-> FALSE])
  /\ \/ kind = "file" /\ BeginFile
     \/ kind = "field" /\ BeginField
     \/ kind = "nameless" /\ Reject /\ current' = [file |-> 0, data |-> <<>>]
                          /\ UNCHANGED counts
  /\ UNCHANGED <<limits, at, seen, items, toWrite, toFinish, thread>>

\* on_part_data(): a field is kept in memory, up to a size; a file waits to be written.
PartData(n) ==
  LET piece == [i \in 1..n |-> seen + i] IN
  /\ pc = "parsing" /\ InPart /\ seen + n <= MaxData
  /\ seen' = seen + n
  /\ body' = [body EXCEPT ![Len(body)].data = @ \o piece]
  /\ IF current.file = 0
     THEN /\ UNCHANGED toWrite
          /\ IF Len(current.data) + n > limits.size
             THEN Reject /\ UNCHANGED current
             ELSE current' = [current EXCEPT !.data = @ \o piece] /\ UNCHANGED <<pc, files>>
     ELSE /\ toWrite' = Append(toWrite, <<current.file, piece>>)
          /\ UNCHANGED <<pc, files, current>>
  /\ UNCHANGED <<limits, at, counts, items, toFinish, thread>>

\* on_part_end(): the item is there, although its file may not be written yet.
PartEnd ==
  /\ pc = "parsing" /\ InPart
  /\ body' = [body EXCEPT ![Len(body)].ended = TRUE]
  /\ items' = Append(items, current)
  /\ toFinish' = IF current.file = 0 THEN toFinish ELSE Append(toFinish, current.file)
  /\ UNCHANGED <<limits, pc, at, seen, current, counts, toWrite, files, thread>>

\* The parser finds the body malformed: its error is no MultiPartException.
Malformed ==
  /\ pc = "parsing"
  /\ pc' = "failed"
  /\ UNCHANGED <<limits, at, body, seen, current, counts, items, toWrite, toFinish, files, thread>>

-----------------------------------------------------------------------------
(* The loops of parse() after each chunk, and UploadFile.                  *)

ChunkEnd ==
  /\ pc = "parsing"
  /\ pc' = "writing" /\ at' = 1
  /\ UNCHANGED <<limits, body, seen, current, counts, items, toWrite, toFinish, files, thread>>

\* file.write(data) at the position of the file; it rolls over when it gets too long.
Written(file, data) ==
  LET end == file.pos + Len(data)
      kept == IF end < Len(file.data) THEN SubSeq(file.data, end + 1, Len(file.data)) ELSE <<>>
  IN [file EXCEPT !.data = SubSeq(@, 1, file.pos) \o data \o kept,
                  !.pos = end,
                  !.size = @ + Len(data),
                  !.rolled = @ \/ end > SpoolMax]

\* Mutant of WillRoll: what is about to be written is not counted.
WillRollLate(file, n) == file.rolled \/ file.pos > SpoolMax

WillRoll(file, n) == file.rolled \/ file.pos + n > SpoolMax

\* UploadFile.write() of the next element of _file_parts_to_write.  The loop ends at an
\* OSError of the disk, or when the task is cancelled while the worker thread writes.
Write ==
  /\ pc = "writing" /\ at <= Len(toWrite)
  /\ LET f == toWrite[at][1]
         data == toWrite[at][2]
     IN /\ thread' = WillRoll(files[f], Len(data))
        /\ \/ files' = [files EXCEPT ![f] = Written(@, data)] /\ at' = at + 1 /\ UNCHANGED pc
           \/ /\ WillRoll(files[f], Len(data))
              /\ files' = [files EXCEPT ![f].size = @ + Len(data)]
              /\ pc' = "failed" /\ UNCHANGED at
  /\ UNCHANGED <<limits, body, seen, current, counts, items, toWrite, toFinish>>

WritesDone ==
  /\ pc = "writing" /\ at > Len(toWrite)
  /\ pc' = "seeking" /\ at' = 1
  /\ UNCHANGED <<limits, body, seen, current, counts, items, toWrite, toFinish, files, thread>>

\* UploadFile.seek(0) of a part that has ended.
Seek ==
  /\ pc = "seeking" /\ at <= Len(toFinish)
  /\ thread' = files[toFinish[at]].rolled
  /\ \/ files' = [files EXCEPT ![toFinish[at]].pos = 0] /\ at' = at + 1 /\ UNCHANGED pc
     \/ files[toFinish[at]].rolled /\ pc' = "failed" /\ UNCHANGED <<files, at>>
  /\ UNCHANGED <<limits, body, seen, current, counts, items, toWrite, toFinish>>

\* Mutant of SeeksDone: the list of what is to be written is not cleared.
SeeksDoneUncleared ==
  /\ pc = "seeking" /\ at > Len(toFinish)
  /\ toFinish' = <<>>
  /\ pc' = "stream" /\ at' = 1
  /\ UNCHANGED <<limits, body, seen, current, counts, items, toWrite, files, thread>>

SeeksDone ==
  /\ pc = "seeking" /\ at > Len(toFinish)
  /\ toWrite' = <<>> /\ toFinish' = <<>>
  /\ pc' = "stream" /\ at' = 1
  /\ UNCHANGED <<limits, body, seen, current, counts, items, files, thread>>

\* The stream is over: parser.finalize() finds no fault with a body that stops half way.
EndOfBody ==
  /\ pc = "stream"
  /\ pc' = "returned"
  /\ UNCHANGED <<limits, at, body, seen, current, counts, items, toWrite, toFinish, files, thread>>

\* The client leaves: stream() raises ClientDisconnect.
Disconnect ==
  /\ pc = "stream"
  /\ pc' = "failed"
  /\ UNCHANGED <<limits, at, body, seen, current, counts, items, toWrite, toFinish, files, thread>>

-----------------------------------------------------------------------------
(* `async with request.form()`, or request.close().                        *)

LeaveBlock ==
  /\ pc = "returned"
  /\ pc' = "closing" /\ at' = 1
  /\ UNCHANGED <<limits, body, seen, current, counts, items, toWrite, toFinish, files, thread>>

\* FormData.close(): the files among the items, one after the other; a cancellation or an
\* OSError in between leaves the others open.
CloseItem ==
  /\ pc = "closing" /\ at <= Len(items)
  /\ IF items[at].file = 0
     THEN at' = at + 1 /\ UNCHANGED <<pc, files, thread>>
     ELSE /\ thread' = files[items[at].file].rolled
          /\ \/ /\ files' = [files EXCEPT ![items[at].file].open = FALSE]
                /\ at' = at + 1 /\ UNCHANGED pc
             \/ /\ files[items[at].file].rolled
                /\ pc' = "failed" /\ UNCHANGED <<files, at>>
  /\ UNCHANGED <<limits, body, seen, current, counts, items, toWrite, toFinish>>

CloseDone ==
  /\ pc = "closing" /\ at > Len(items)
  /\ pc' = "closed"
  /\ UNCHANGED <<limits, at, body, seen, current, counts, items, toWrite, toFinish, files, thread>>

-----------------------------------------------------------------------------
Callback == (\E kind \in Kinds : PartBegin(kind)) \/ (\E n \in 1..MaxPiece : PartData(n)) \/ PartEnd

Next ==
  \/ Chunk \/ Callback \/ Malformed
  \/ ChunkEnd \/ Write \/ WritesDone \/ Seek \/ SeeksDone
  \/ EndOfBody \/ Disconnect
  \/ LeaveBlock \/ CloseItem \/ CloseDone

Spec == Init /\ [][Next]_vars

-----------------------------------------------------------------------------
Succeeded == pc \in {"returned", "closing", "closed"}

\* How many parts there are of a kind, and the number of a file among the files.
Count(kind) == Cardinality({p \in DOMAIN body : body[p].kind = kind})
Nth(p) == Cardinality({q \in 1..p : body[q].kind = "file"})

\* Nothing of an upload is lost, doubled or reordered on its way from the parser's callbacks
\* over the list to its file: between two chunks, and when there are no more, each file has
\* what its part has sent, and nothing waits in memory.
UploadsIntact ==
  pc = "stream" \/ Succeeded =>
    /\ \A p \in DOMAIN body : body[p].kind = "file" => files[Nth(p)].data = body[p].data
    /\ toWrite = <<>> /\ toFinish = <<>>

\* A form that form() returns has one item per part that ended, in the order of the body and
\* with all its data; a file is rewound, and its size is that of its content.
FormComplete ==
  pc = "returned" =>
    /\ Len(items) = Cardinality({p \in DOMAIN body : body[p].ended})
    /\ \A i \in DOMAIN items :
         LET item == items[i]
             file == files[item.file]
         IN /\ body[i].ended
            /\ (item.file = 0) = (body[i].kind = "field")
            /\ item.file = 0 => item.data = body[i].data
            /\ item.file # 0 => /\ file.data = body[i].data
                                /\ file.open /\ file.pos = 0 /\ file.size = Len(file.data)

\* When a form is rejected, no temporary file stays open: those of earlier chunks, those
\* that are not written yet and those that are not rewound yet are all closed.
RejectedClosed == pc = "rejected" => \A f \in DOMAIN files : ~files[f].open

\* No more files are created, and no more is kept of fields, than form() was told.
LimitsKept ==
  /\ Len(files) <= limits.files
  /\ Succeeded => Cardinality({i \in DOMAIN items : items[i].file = 0}) <= limits.fields
  /\ Len(current.data) <= limits.size
  /\ \A i \in DOMAIN items : Len(items[i].data) <= limits.size

\* A form is rejected only for a reason in the body: too many parts, a field that is too
\* long, or a part without a name, and then it is the last part that is at fault.
RejectedForCause ==
  pc = "rejected" =>
    CASE Last(body).kind = "nameless" -> TRUE
      [] Last(body).kind = "file" -> Count("file") = limits.files + 1
      [] Last(body).kind = "field" -> \/ Count("field") = limits.fields + 1
                                      \/ Len(Last(body).data) > limits.size

\* Whatever touches the disk, also the write that moves a file from memory to the disk, runs
\* in a worker thread and not in the event loop; closing the files of a rejected form is
\* the exception.
DiskInThread ==
  [][\A f \in DOMAIN files :
        files'[f] # files[f] /\ files'[f].rolled /\ pc' # "rejected" => thread']_vars

\* After the block no file of a part that ended is open.
BlockCloses ==
  pc = "closed" => \A i \in DOMAIN items : items[i].file # 0 => ~files[items[i].file].open

\* On its way to the file, and in the form that is returned, an upload is what was sent.
FormIntact == TypeOK /\ UploadsIntact /\ FormComplete

\* The limits of form() are kept, nothing but a limit or a part without a name is in the way
\* of a form, and neither a rejected form nor a block that was left keeps a file open.
ResourcesBounded == LimitsKept /\ RejectedForCause /\ RejectedClosed /\ BlockCloses

=============================================================================
