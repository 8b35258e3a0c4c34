-------------------------------- MODULE WSGI --------------------------------
(***************************************************************************)
(* One request answered by a WSGI application under WSGIMiddleware.        *)
(* __call__ reads the request body and runs wsgi() in a worker thread.     *)
(* The thread writes messages to an unbounded memory stream, and sender(), *)
(* a task of the event loop, passes them on.  The two share exc_info, what *)
(* the application gave start_response(), which is raised at the end.      *)
(*                                                                         *)
(* The application is one that keeps to PEP 3333: it calls                 *)
(* start_response() before it yields or ends, and once more only with      *)
(* exc_info.  It may raise at any point, and may never come back.          *)
(***************************************************************************)
EXTENDS Naturals, Sequences, FiniteSets

CONSTANTS
  MaxUpload,   \* bound: messages of the request body
  MaxYields,   \* bound: chunks the application yields
  MaxStarts    \* bound: calls of start_response()

VARIABLES
  gone,        \* the client has gone
  wire,        \* messages the server accepted
  upload,      \* messages of the request body that were received
  caller,      \* __call__()
  thread,      \* wsgi() in its worker thread
  app,         \* history: how often the application called, yielded, gave exc_info
  exc_info,    \* self.exc_info is not None
  response_started,
  refused,     \* history: start_response() raised before it sent the start
  stream,      \* the memory stream: messages, and whether each end is open
  sender       \* sender(): where it is, the message it holds, whether it was cancelled

wsgiVars == <<gone, wire, upload, caller, thread, app, exc_info, response_started, refused,
              stream, sender>>

Messages == [type : {"start", "body"}, more_body : BOOLEAN]
Start == [type |-> "start", more_body |-> TRUE]
Chunk(more) == [type |-> "body", more_body |-> more]

TypeOK ==
  /\ gone \in BOOLEAN /\ wire \in Seq(Messages) /\ upload \in 0..MaxUpload
  /\ caller \in [pc : {"reading", "waiting", "joining", "over"},
                 err : {"none", "exc_info", "group"}]
  /\ thread \in {"none", "app", "returned", "raised"}
  /\ app \in [starts : 0..MaxStarts, yields : 0..MaxYields, reported : BOOLEAN]
  /\ exc_info \in BOOLEAN /\ response_started \in BOOLEAN /\ refused \in BOOLEAN
  /\ stream \in [messages : Seq(Messages), send_open : BOOLEAN, receive_open : BOOLEAN]
  /\ sender \in [pc : {"none", "receiving", "sending", "done"}, held : Messages,
                 cancelled : BOOLEAN, failed : BOOLEAN]

Init ==
  /\ gone = FALSE /\ wire = <<>> /\ upload = 0
  /\ caller = [pc |-> "reading", err |-> "none"]
  /\ thread = "none"
  /\ app = [starts |-> 0, yields |-> 0, reported |-> FALSE]
  /\ exc_info = FALSE /\ response_started = FALSE /\ refused = FALSE
  /\ stream = [messages |-> <<>>, send_open |-> TRUE, receive_open |-> TRUE]
  /\ sender = [pc |-> "none", held |-> Start, cancelled |-> FALSE, failed |-> FALSE]

ClientLeaves ==
  /\ ~gone /\ gone' = TRUE
  /\ UNCHANGED <<wire, upload, caller, thread, app, exc_info, response_started, refused, stream, sender>>

-----------------------------------------------------------------------------
(* __call__(): the request body, the two, and the end.                     *)

\* One more message of the request body.
ReceiveMore ==
  /\ caller.pc = "reading" /\ ~gone /\ upload < MaxUpload
  /\ upload' = upload + 1
  /\ UNCHANGED <<gone, wire, caller, thread, app, exc_info, response_started, refused, stream, sender>>

\* The last message of the body, or a disconnect, which has no "more_body" either: the
\* application is run on what was received.
Run ==
  /\ caller.pc = "reading"
  /\ caller' = [caller EXCEPT !.pc = "waiting"]
  /\ thread' = "app"
  /\ sender' = [sender EXCEPT !.pc = "receiving"]
  /\ UNCHANGED <<gone, wire, upload, app, exc_info, response_started, refused, stream>>

Ended == thread \in {"returned", "raised"}

\* Mutant of ThreadEnded: the stream is not closed.
ThreadEndedOpen ==
  /\ caller.pc = "waiting" /\ Ended
  /\ caller' = [caller EXCEPT !.pc = "joining"]
  /\ sender' = [sender EXCEPT !.cancelled = (thread = "raised")]
  /\ UNCHANGED <<gone, wire, upload, thread, app, exc_info, response_started, refused, stream>>

\* run_sync() comes back, never before its thread has ended.  `async with stream_send`
\* closes the stream; an error of the thread cancels the sender.
ThreadEnded ==
  /\ caller.pc = "waiting" /\ Ended
  /\ caller' = [caller EXCEPT !.pc = "joining"]
  /\ stream' = [stream EXCEPT !.send_open = FALSE]
  /\ sender' = [sender EXCEPT !.cancelled = (thread = "raised")]
  /\ UNCHANGED <<gone, wire, upload, thread, app, exc_info, response_started, refused>>

\* The task group is left: it raises the errors of the two, or else __call__ raises exc_info.
Join ==
  /\ caller.pc = "joining" /\ sender.pc = "done"
  /\ caller' = [pc |-> "over",
                err |-> IF thread = "raised" \/ sender.failed THEN "group"
                        ELSE IF exc_info THEN "exc_info" ELSE "none"]
  /\ UNCHANGED <<gone, wire, upload, thread, app, exc_info, response_started, refused, stream, sender>>

-----------------------------------------------------------------------------
(* wsgi() and start_response(), in the thread.                             *)

\* stream_send.send() on behalf of the thread: it fails when the sender is no more.
Posts(m) == stream.receive_open /\ stream' = [stream EXCEPT !.messages = Append(@, m)]

\* The application calls start_response(), the first time with exc_info or without.
AppStarts(given) ==
  /\ thread = "app" /\ app.starts < MaxStarts
  /\ app.starts > 0 => given
  /\ app' = [app EXCEPT !.starts = @ + 1, !.reported = @ \/ given]

\* Mutant of StartResponse: exc_info is kept by the first call only.
StartResponseKept(given) ==
  /\ AppStarts(given)
  /\ exc_info' = IF response_started THEN exc_info ELSE given
  /\ response_started' = TRUE
  /\ \/ response_started /\ UNCHANGED <<refused, stream>>
     \/ ~response_started /\ Posts(Start) /\ UNCHANGED refused
     \/ ~response_started /\ refused' = TRUE /\ UNCHANGED stream
  /\ UNCHANGED <<gone, wire, upload, caller, thread, sender>>

\* Mutant of StartResponse: every call sends a start.
StartResponseAgain(given) ==
  /\ AppStarts(given)
  /\ exc_info' = given
  /\ response_started' = TRUE
  /\ \/ Posts(Start) /\ UNCHANGED refused
     \/ ~response_started /\ refused' = TRUE /\ UNCHANGED stream
  /\ UNCHANGED <<gone, wire, upload, caller, thread, sender>>

\* Every call sets exc_info and the first one sends the start.  It raises into the
\* application when the status or a header cannot be converted, or the sender is no more;
\* response_started is set by then.
StartResponse(given) ==
  /\ AppStarts(given)
  /\ exc_info' = given
  /\ response_started' = TRUE
  /\ \/ response_started /\ UNCHANGED <<refused, stream>>
     \/ ~response_started /\ Posts(Start) /\ UNCHANGED refused
     \/ ~response_started /\ refused' = TRUE /\ UNCHANGED stream
  /\ UNCHANGED <<gone, wire, upload, caller, thread, sender>>

\* A chunk is sent on; wsgi() raises when it cannot be.
Yield ==
  /\ thread = "app" /\ app.starts > 0 /\ app.yields < MaxYields
  /\ app' = [app EXCEPT !.yields = @ + 1]
  /\ \/ Posts(Chunk(TRUE)) /\ UNCHANGED thread
     \/ ~stream.receive_open /\ thread' = "raised" /\ UNCHANGED stream
  /\ UNCHANGED <<gone, wire, upload, caller, exc_info, response_started, refused, sender>>

\* The iterable ends: one last body.
Return ==
  /\ thread = "app" /\ app.starts > 0
  /\ \/ Posts(Chunk(FALSE)) /\ thread' = "returned"
     \/ ~stream.receive_open /\ thread' = "raised" /\ UNCHANGED stream
  /\ UNCHANGED <<gone, wire, upload, caller, app, exc_info, response_started, refused, sender>>

AppRaises ==
  /\ thread = "app" /\ thread' = "raised"
  /\ UNCHANGED <<gone, wire, upload, caller, app, exc_info, response_started, refused, stream, sender>>

-----------------------------------------------------------------------------
(* sender().                                                               *)

\* `async for message in self.stream_receive`
Take ==
  /\ sender.pc = "receiving" /\ stream.messages # <<>>
  /\ sender' = [sender EXCEPT !.pc = "sending", !.held = Head(stream.messages)]
  /\ stream' = [stream EXCEPT !.messages = Tail(@)]
  /\ UNCHANGED <<gone, wire, upload, caller, thread, app, exc_info, response_started, refused>>

\* The sender ends and closes its end of the stream.
Leaves(failed) ==
  /\ sender' = [sender EXCEPT !.pc = "done", !.failed = failed]
  /\ stream' = [stream EXCEPT !.receive_open = FALSE]

\* `await send(message)`, which may raise when the client has gone.
Send ==
  /\ sender.pc = "sending"
  /\ \/ /\ wire' = Append(wire, sender.held)
        /\ sender' = [sender EXCEPT !.pc = "receiving"]
        /\ UNCHANGED stream
     \/ gone /\ Leaves(TRUE) /\ UNCHANGED wire
  /\ UNCHANGED <<gone, upload, caller, thread, app, exc_info, response_started, refused>>

\* The stream is closed and empty, or the task group cancels the sender where it waits.
SenderEnds ==
  /\ \/ sender.pc = "receiving" /\ stream.messages = <<>> /\ ~stream.send_open
     \/ sender.pc \in {"receiving", "sending"} /\ sender.cancelled
  /\ Leaves(FALSE)
  /\ UNCHANGED <<gone, wire, upload, caller, thread, app, exc_info, response_started, refused>>

-----------------------------------------------------------------------------
Task == Run \/ ThreadEnded \/ Join \/ Take \/ Send \/ SenderEnds
App == (\E given \in BOOLEAN : StartResponse(given)) \/ Yield \/ Return \/ AppRaises

Next == ClientLeaves \/ ReceiveMore \/ Task \/ App

-----------------------------------------------------------------------------
(* Properties.                                                             *)

Protocol == INSTANCE ResponseProtocol WITH wire <- wire

\* The messages of the thread make one response, also when start_response() is called
\* again; unless its first call raised and the application went on.
ThreadInOrder == [][~refused' => Protocol!Next]_wire

\* The chunks among these messages.
ChunksIn(messages) ==
  Cardinality({i \in DOMAIN messages : messages[i].type = "body" /\ messages[i].more_body})

\* __call__ never comes back before its thread, and comes back without an error only when
\* the server has all that the application yielded, to the last message, and it reported no
\* error; what it reported is raised behind a response that is complete.
ThreadTold ==
  caller.pc = "over" =>
    /\ Ended
    /\ caller.err # "group" => ChunksIn(wire) = app.yields /\ Protocol!Complete
    /\ caller.err = "none" => ~app.reported

\* Once the application is through, __call__ ends, whatever became of the sender; and an
\* application whose client has gone is not held up by a full stream.
ThreadReleased == Ended ~> caller.pc = "over"

=============================================================================
