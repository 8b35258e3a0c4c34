-------------------------- MODULE StreamingResponse --------------------------
(***************************************************************************)
(* One request answered by a StreamingResponse.  On a server of ASGI 2.4   *)
(* or later send() raises once the client has gone, and __call__ streams   *)
(* in its own task.  On an older one __call__ listens for the disconnect,  *)
(* with the stream in a second task of a task group: the first of the two  *)
(* to end cancels the other.  The background tasks follow.                 *)
(*                                                                         *)
(* The body iterator is user code: an asynchronous one, or a synchronous   *)
(* one that runs in a worker thread, where a cancellation does not reach   *)
(* it.  It yields, ends, raises, or never comes back.  A chunk is left out *)
(* but for its number.                                                     *)
(***************************************************************************)
EXTENDS Naturals, Sequences

CONSTANTS
  Versions,      \* the ASGI versions of the server, of {"2.3", "2.4"}
  MaxChunks,     \* bound: chunks of the iterator
  MaxRequests,   \* bound: request messages that nobody has read
  MaxTasks       \* the background tasks
ASSUME VersionsAssumption == Versions \subseteq {"2.3", "2.4"}
ASSUME BoundsAssumption == MaxChunks \in Nat /\ MaxRequests \in Nat /\ MaxTasks \in Nat

VARIABLES
  spec_version,
  threaded,    \* the iterator is synchronous
  gone,        \* the client has gone
  inbox,       \* messages the server has for receive()
  stream,      \* stream_response(): where it is, whether it was cancelled
  iterator,    \* the iterator: what it is asked, or answers
  call,        \* __call__()
  tasks,       \* background tasks that have not been run
  wire         \* messages the server accepted

vars == <<spec_version, threaded, gone, inbox, stream, iterator, call, tasks, wire>>

Errors == {"none", "OSError", "ClientDisconnect", "Other", "Cancelled"}

TypeOK ==
  /\ spec_version \in {"2.3", "2.4"} /\ threaded \in BOOLEAN /\ gone \in BOOLEAN
  /\ inbox \in Seq({"request", "disconnect"})
  /\ stream \in [pc : {"ready", "start", "next", "chunk", "last", "done"},
                 cancelled : BOOLEAN, err : Errors]
  /\ iterator \in {"idle", "asked", "yields", "ends", "OSError", "Other"}
  /\ call \in [pc : {"call", "streaming", "listening", "joining", "background", "over"},
               err : Errors \ {"Cancelled"}]
  /\ tasks \in 0..MaxTasks
  /\ wire \in Seq([type : {"start", "body"}, more_body : BOOLEAN])

Init ==
  /\ spec_version \in Versions
  /\ threaded \in BOOLEAN
  /\ gone = FALSE
  /\ \E n \in 0..MaxRequests : inbox = [i \in 1..n |-> "request"]
  /\ stream = [pc |-> "ready", cancelled |-> FALSE, err |-> "none"]
  /\ iterator = "idle"
  /\ call = [pc |-> "call", err |-> "none"]
  /\ tasks = MaxTasks
  /\ wire = <<>>

-----------------------------------------------------------------------------
(* The client and the iterator (external).                                 *)

ClientLeaves ==
  /\ ~gone
  /\ gone' = TRUE
  /\ inbox' = Append(inbox, "disconnect")
  /\ UNCHANGED <<spec_version, threaded, stream, iterator, call, tasks, wire>>

Chunks == Len(SelectSeq(wire, LAMBDA m : m.type = "body"))

IteratorAnswers ==
  /\ iterator = "asked"
  /\ iterator' \in {"ends", "OSError", "Other"} \union (IF Chunks < MaxChunks THEN {"yields"} ELSE {})
  /\ UNCHANGED <<spec_version, threaded, gone, inbox, stream, call, tasks, wire>>

-----------------------------------------------------------------------------
(* stream_response().                                                      *)

\* It ends: wrap() cancels the other task, and so does the task group after an error.
Ends(err) == stream' = [stream EXCEPT !.pc = "done", !.err = err]

\* `await send(m)`, which raises OSError when the client has gone: always in ASGI 2.4,
\* on some of the older servers.
Send(m, next) ==
  \/ /\ spec_version = "2.4" => ~gone
     /\ wire' = Append(wire, m)
     /\ IF next = "done" THEN Ends("none") ELSE stream' = [stream EXCEPT !.pc = next]
  \/ /\ gone
     /\ Ends("OSError")
     /\ UNCHANGED wire

SendStart ==
  /\ stream.pc = "start"
  /\ Send([type |-> "start", more_body |-> TRUE], "next")
  /\ UNCHANGED <<spec_version, threaded, gone, inbox, iterator, call, tasks>>

\* `async for chunk in self.body_iterator`
AskIterator ==
  /\ stream.pc = "next" /\ iterator = "idle"
  /\ iterator' = "asked"
  /\ UNCHANGED <<spec_version, threaded, gone, inbox, stream, call, tasks, wire>>

TakeAnswer ==
  /\ stream.pc = "next"
  /\ \/ iterator = "yields" /\ stream' = [stream EXCEPT !.pc = "chunk"]
     \/ iterator = "ends" /\ stream' = [stream EXCEPT !.pc = "last"]
     \/ iterator \in {"OSError", "Other"} /\ Ends(iterator)
  /\ iterator' = "idle"
  /\ UNCHANGED <<spec_version, threaded, gone, inbox, call, tasks, wire>>

SendChunk ==
  /\ stream.pc = "chunk"
  /\ Send([type |-> "body", more_body |-> TRUE], "next")
  /\ UNCHANGED <<spec_version, threaded, gone, inbox, iterator, call, tasks>>

SendLast ==
  /\ stream.pc = "last"
  /\ Send([type |-> "body", more_body |-> FALSE], "done")
  /\ UNCHANGED <<spec_version, threaded, gone, inbox, iterator, call, tasks>>

\* A cancellation reaches the task where it waits, but not while a worker thread runs
\* the iterator; anyio delivers it again until it is taken.
StreamCancelled ==
  /\ stream.cancelled /\ stream.pc \in {"start", "next", "chunk", "last"}
  /\ stream.pc = "next" => iterator = "idle" \/ (iterator = "asked" /\ ~threaded)
  /\ Ends("Cancelled")
  /\ iterator' = "idle"
  /\ UNCHANGED <<spec_version, threaded, gone, inbox, call, tasks, wire>>

-----------------------------------------------------------------------------
(* __call__().                                                             *)

\* Mutant of Call: the stream begins with the body.
CallUnstarted ==
  /\ call.pc = "call"
  /\ stream' = [stream EXCEPT !.pc = "next"]
  /\ call' = [call EXCEPT !.pc = IF spec_version = "2.4" THEN "streaming" ELSE "listening"]
  /\ UNCHANGED <<spec_version, threaded, gone, inbox, iterator, tasks, wire>>

\* Call the one or start the two.
Call ==
  /\ call.pc = "call"
  /\ stream' = [stream EXCEPT !.pc = "start"]
  /\ call' = [call EXCEPT !.pc = IF spec_version = "2.4" THEN "streaming" ELSE "listening"]
  /\ UNCHANGED <<spec_version, threaded, gone, inbox, iterator, tasks, wire>>

\* Mutant of ListenForDisconnect: any message is taken for the disconnect.
ListenForAny ==
  /\ call.pc = "listening" /\ inbox # <<>>
  /\ inbox' = Tail(inbox)
  /\ call' = [call EXCEPT !.pc = "joining"]
  /\ stream' = [stream EXCEPT !.cancelled = TRUE]
  /\ UNCHANGED <<spec_version, threaded, gone, iterator, tasks, wire>>

\* listen_for_disconnect(): messages of the request are dropped; the disconnect ends it,
\* and wrap() cancels the task group.
ListenForDisconnect ==
  /\ call.pc = "listening" /\ inbox # <<>>
  /\ inbox' = Tail(inbox)
  /\ \/ Head(inbox) = "request" /\ UNCHANGED <<call, stream>>
     \/ /\ Head(inbox) = "disconnect"
        /\ call' = [call EXCEPT !.pc = "joining"]
        /\ stream' = [stream EXCEPT !.cancelled = TRUE]
  /\ UNCHANGED <<spec_version, threaded, gone, iterator, tasks, wire>>

\* The stream has ended and listen_for_disconnect() is cancelled.
ListenCancelled ==
  /\ call.pc = "listening" /\ stream.pc = "done"
  /\ call' = [call EXCEPT !.pc = "joining"]
  /\ UNCHANGED <<spec_version, threaded, gone, inbox, stream, iterator, tasks, wire>>

\* Raise err, or go on with the background tasks.
Leave(err) ==
  call' = [pc |-> IF err = "none" THEN "background" ELSE "over", err |-> err]

\* The task group is left when both tasks have ended, by the error of the stream if there
\* was one; a cancellation of its own ends there.
Join ==
  /\ call.pc = "joining" /\ stream.pc = "done"
  /\ Leave(IF stream.err = "Cancelled" THEN "none" ELSE stream.err)
  /\ UNCHANGED <<spec_version, threaded, gone, inbox, stream, iterator, tasks, wire>>

\* `except OSError: raise ClientDisconnect()`
Streamed ==
  /\ call.pc = "streaming" /\ stream.pc = "done"
  /\ Leave(IF stream.err = "OSError" THEN "ClientDisconnect" ELSE stream.err)
  /\ UNCHANGED <<spec_version, threaded, gone, inbox, stream, iterator, tasks, wire>>

\* A background task returns, or raises and the rest of them are not run.
RunBackground ==
  /\ call.pc = "background"
  /\ \/ tasks = 0 /\ call' = [call EXCEPT !.pc = "over"] /\ UNCHANGED tasks
     \/ tasks > 0 /\ tasks' = tasks - 1 /\ UNCHANGED call
     \/ tasks > 0 /\ tasks' = tasks - 1 /\ call' = [pc |-> "over", err |-> "Other"]
  /\ UNCHANGED <<spec_version, threaded, gone, inbox, stream, iterator, wire>>

-----------------------------------------------------------------------------
Stream == SendStart \/ AskIterator \/ TakeAnswer \/ SendChunk \/ SendLast \/ StreamCancelled
Main == Call \/ ListenForDisconnect \/ ListenCancelled \/ Join \/ Streamed \/ RunBackground
Over == call.pc = "over" /\ UNCHANGED vars

Next == ClientLeaves \/ IteratorAnswers \/ Stream \/ Main \/ Over

\* The event loop runs both tasks, and background tasks end; the client may stay and the
\* iterator need not answer.
Spec ==
  /\ Init /\ [][Next]_vars
  /\ WF_vars(SendStart \/ AskIterator \/ TakeAnswer \/ SendChunk \/ SendLast)
  /\ SF_vars(StreamCancelled)
  /\ WF_vars(Main)

-----------------------------------------------------------------------------
(* Properties.                                                             *)

Protocol == INSTANCE ResponseProtocol WITH wire <- wire

Background == call.pc = "background" \/ tasks < MaxTasks

\* Background tasks run when the stream has ended, in full or because the client has gone,
\* and never while its iterator may still be running.
BackgroundAfterStream ==
  Background => /\ stream.pc = "done" /\ iterator # "asked"
                /\ Protocol!Complete \/ gone

\* An error of the iterator is raised by __call__, also when the client leaves meanwhile:
\* no response ends as if it were complete, and no background task runs.
ErrorIsRaised ==
  stream.err \in {"OSError", "Other"} /\ call.pc = "over" => call.err # "none" /\ tasks = MaxTasks

\* Where no send() raises, a client that leaves ends the response, even one whose iterator
\* would never end, unless the iterator hangs in a worker thread.
DisconnectEnds ==
  (gone /\ spec_version = "2.3") ~> (call.pc = "over" \/ (threaded /\ iterator = "asked"))

\* What follows the stream: background tasks after its end only, or its error.
AfterTheStream == TypeOK /\ BackgroundAfterStream /\ ErrorIsRaised

=============================================================================
