-------------------------- MODULE BaseHTTPMiddleware --------------------------
(***************************************************************************)
(* One HTTP request through BaseHTTPMiddleware.__call__: the main task     *)
(* runs dispatch() and sends its response; call_next() starts the          *)
(* application in a second task (`coro`), whose messages come back through *)
(* an anyio memory object stream without a buffer; the application reads   *)
(* the request through receive_or_disconnect(), over the wrapped_receive() *)
(* of CachedRequest.                                                       *)
(*                                                                         *)
(* dispatch() and the application are user code: they do anything that a   *)
(* well-formed ASGI application may do, and may hang.  Chunk data is       *)
(* abstracted to chunk numbers (0 is b""); headers and status are left out.*)
(***************************************************************************)
EXTENDS CachedRequest

CONSTANTS MaxBody       \* bound: non-empty body chunks of the application
ASSUME MaxBodyAssumption == MaxBody \in Nat

VARIABLES
  main,           \* the task of __call__: where it is, what it holds
  app,            \* the task of coro()
  box,            \* what recv_stream.receive() of the main task has been handed
  response_sent,  \* the Event; recv_stream is closed in the same step
  app_exc,        \* the application raised
  exception_already_raised,
  wire,           \* the messages the server accepted from send()
  given           \* history: what receive_or_disconnect() has given the application

respVars == <<main, app, box, response_sent, app_exc, exception_already_raised, wire>>
vars == <<reqVars, respVars, given>>

\* The request side: what is read of the request, and what the application got of it.
sideVars == <<reqVars, given>>

Empty == 0

AppMessage == [type : {"debug", "start", "body", "pathsend"}, data : Nat, more_body : BOOLEAN]
Msg(type, data, more) == [type |-> type, data |-> data, more_body |-> more]

\* What box holds besides a message.
Signal(type) == Msg(type, Empty, FALSE)
Nothing == Signal("nothing")
Waiting == Signal("waiting")
EndOfStream == Signal("EndOfStream")

MainPcs == {"dispatch", "first", "second", "response", "caught", "pull", "sendDebug",
            "sendStart", "sendChunk", "sendPath", "sendEnd", "ownStart", "ownBody",
            "background", "joining", "cancelling", "returned", "raised"}

RespTypeOK ==
  /\ main \in [pc : MainPcs, info : BOOLEAN, background : BOOLEAN, last : BOOLEAN,
               drain : BOOLEAN, data : Seq(Chunk), reply : {"none", "app", "own"},
               err : {"none", "app", "other"}, caught : BOOLEAN]
  /\ app \in [pc : {"none", "ready", "sending", "receiving", "done"}, item : AppMessage,
              phase : {"nothing", "debugged", "started", "finished"}, n : Nat]
  /\ box \in AppMessage \union {Nothing, Waiting, EndOfStream}
  /\ response_sent \in BOOLEAN
  /\ app_exc \in BOOLEAN
  /\ exception_already_raised \in BOOLEAN
  /\ wire \in Seq([type : {"debug", "start", "body", "pathsend"},
                   data : Seq(Chunk), more_body : BOOLEAN])

NoItem == Signal("body")

\* The start of __call__, with what it says of an exception of the application.
Start(err) ==
  /\ main = [pc |-> "dispatch", info |-> FALSE, background |-> FALSE, last |-> FALSE,
             drain |-> FALSE, data |-> <<>>, reply |-> "none", err |-> err, caught |-> FALSE]
  /\ app = [pc |-> "none", item |-> NoItem, phase |-> "nothing", n |-> 0]
  /\ box = Nothing
  /\ response_sent = FALSE
  /\ app_exc = FALSE
  /\ exception_already_raised = FALSE
  /\ wire = <<>>

InitResp == Start("none")

Init == InitBody /\ InitResp /\ given = down

-----------------------------------------------------------------------------
(* The main task: dispatch().                                              *)

InDispatch == main.pc \in {"dispatch", "response", "caught"} /\ mid.op = "idle"

\* dispatch() reads the request body before call_next(), or also after it.
DispatchReads ==
  /\ main.pc \in {"dispatch", "response", "caught"}
  /\ Dispatch
  /\ UNCHANGED <<respVars, given>>

\* call_next(): start coro() and wait for the first message of the application.
CallNext ==
  /\ InDispatch /\ main.pc = "dispatch"
  /\ app' = [app EXCEPT !.pc = "ready"]
  /\ main' = [main EXCEPT !.pc = "first"]
  /\ UNCHANGED <<sideVars, box, response_sent, app_exc, exception_already_raised, wire>>

\* dispatch() returns the response of call_next(), with or without a background task.
ReturnResponse(background) ==
  /\ InDispatch /\ main.pc = "response"
  /\ main' = [main EXCEPT !.pc = IF main.info THEN "sendDebug" ELSE "sendStart",
                          !.background = background, !.reply = "app"]
  /\ UNCHANGED <<sideVars, app, box, response_sent, app_exc, exception_already_raised, wire>>

\* dispatch() returns a response of its own: instead of call_next(), or in place of
\* the response of call_next(), or to answer an exception of call_next().
ReturnOwn(background) ==
  /\ InDispatch
  /\ main' = [main EXCEPT !.pc = "ownStart", !.background = background,
                          !.reply = "own", !.err = "none"]
  /\ UNCHANGED <<sideVars, app, box, response_sent, app_exc, exception_already_raised, wire>>

\* dispatch() reads response.body_iterator itself, to answer with what it read.
Drain ==
  /\ InDispatch /\ main.pc = "response"
  /\ main' = [main EXCEPT !.pc = "pull", !.drain = TRUE]
  /\ UNCHANGED <<sideVars, app, box, response_sent, app_exc, exception_already_raised, wire>>

\* An exception leaves dispatch() or the response: the task group cancels coro().
Fails(err) == main' = [main EXCEPT !.pc = "cancelling", !.err = err]

\* dispatch() raises, or lets the exception of call_next() through.
DispatchRaises ==
  /\ InDispatch
  /\ Fails(IF main.pc = "caught" THEN main.err ELSE "other")
  /\ UNCHANGED <<sideVars, app, box, response_sent, app_exc, exception_already_raised, wire>>

-----------------------------------------------------------------------------
(* The main task: recv_stream.receive() in call_next() and body_stream().  *)

Receiving == main.pc \in {"first", "second", "pull"}

\* The body is over: send the end of it, or go on in dispatch() with what it read.
BodyOver(m) == [m EXCEPT !.pc = IF m.drain THEN "ownStart" ELSE "sendEnd"]

\* The exception that call_next() raises: the application's, or "No response returned.".
Raised == [main EXCEPT !.pc = "caught", !.err = IF app_exc THEN "app" ELSE "other",
                       !.caught = app_exc]

CallNextRaises ==
  /\ main' = Raised
  /\ exception_already_raised' = (exception_already_raised \/ app_exc)

\* call_next(): what becomes of the first message and, after a debug message, of
\* the second.
OnFirst(m) ==
  /\ \/ m = EndOfStream /\ CallNextRaises
     \/ /\ m # EndOfStream
        /\ main' = IF m.type = "debug"
                   THEN [main EXCEPT !.pc = "second", !.info = TRUE]
                   ELSE [main EXCEPT !.pc = "response"]
        /\ UNCHANGED exception_already_raised
  /\ UNCHANGED <<app_exc, response_sent, wire>>

\* Mutant: body_stream() without its `break`: it reads to the end of the stream.
NeverLast(m) == FALSE

\* The message after which body_stream() stops.
Last(m) == ~m.more_body

\* body_stream(): yield a chunk or a pathsend; stop at the last or at the end of stream.
OnBody(m) ==
  /\ main' = IF m = EndOfStream THEN BodyOver(main)
             ELSE IF m.type = "pathsend"
                  THEN IF main.drain THEN BodyOver(main) ELSE [main EXCEPT !.pc = "sendPath"]
             ELSE IF m.data = Empty
                  THEN IF Last(m) THEN BodyOver(main) ELSE main
             ELSE IF main.drain
                  THEN LET kept == [main EXCEPT !.data = Append(@, m.data)]
                       IN  IF Last(m) THEN BodyOver(kept) ELSE kept
             ELSE [main EXCEPT !.pc = "sendChunk", !.data = <<m.data>>, !.last = Last(m)]
  /\ UNCHANGED <<exception_already_raised, app_exc, response_sent, wire>>

OnMessage(m) == IF main.pc = "pull" THEN OnBody(m) ELSE OnFirst(m)

\* receive(): take from a blocked sender, or see the stream closed, or wait.
MainReceive ==
  /\ Receiving
  /\ box = Nothing
  /\ \/ /\ app.pc = "sending"
        /\ app' = [app EXCEPT !.pc = "ready"]
        /\ OnMessage(app.item)
        /\ UNCHANGED box
     \/ /\ app.pc = "done"
        /\ OnMessage(EndOfStream)
        /\ UNCHANGED <<app, box>>
     \/ /\ app.pc \notin {"sending", "done"}
        /\ box' = Waiting
        /\ UNCHANGED <<main, app, response_sent, app_exc, exception_already_raised, wire>>
  /\ UNCHANGED sideVars

\* A wait in receive() ends with the message handed over, or with the close.
MainResume ==
  /\ Receiving
  /\ box \notin {Nothing, Waiting}
  /\ box' = Nothing
  /\ OnMessage(box)
  /\ UNCHANGED <<sideVars, app>>

-----------------------------------------------------------------------------
(* The main task: the response, _StreamingResponse or dispatch()'s own.    *)

\* What the response sends next, and where it goes from there.
Outgoing ==
  CASE main.pc = "sendDebug" -> [type |-> "debug", data |-> <<>>, more_body |-> FALSE]
    [] main.pc \in {"sendStart", "ownStart"} -> [type |-> "start", data |-> <<>>, more_body |-> FALSE]
    [] main.pc = "sendChunk" -> [type |-> "body", data |-> main.data, more_body |-> TRUE]
    [] main.pc = "sendPath" -> [type |-> "pathsend", data |-> <<>>, more_body |-> FALSE]
    [] main.pc = "sendEnd" -> [type |-> "body", data |-> <<>>, more_body |-> FALSE]
    [] main.pc = "ownBody" -> [type |-> "body", data |-> main.data, more_body |-> FALSE]

\* Mutant: should_close_body is left TRUE by a pathsend.
AfterSendClosing ==
  CASE main.pc = "sendDebug" -> "sendStart"
    [] main.pc = "sendStart" -> "pull"
    [] main.pc = "ownStart" -> "ownBody"
    [] main.pc = "sendChunk" -> IF main.last THEN "sendEnd" ELSE "pull"
    [] main.pc = "sendPath" -> "sendEnd"
    [] main.pc \in {"sendEnd", "ownBody"} -> "background"

AfterSend ==
  CASE main.pc = "sendDebug" -> "sendStart"
    [] main.pc = "sendStart" -> "pull"
    [] main.pc = "ownStart" -> "ownBody"
    [] main.pc = "sendChunk" -> IF main.last THEN "sendEnd" ELSE "pull"
    [] main.pc \in {"sendPath", "sendEnd", "ownBody"} -> "background"

Sending == main.pc \in {"sendDebug", "sendStart", "sendChunk", "sendPath", "sendEnd",
                        "ownStart", "ownBody"}

\* `await send(message)`: the server accepts it.
MainSend ==
  /\ Sending
  /\ wire' = Append(wire, Outgoing)
  /\ main' = [main EXCEPT !.pc = AfterSend]
  /\ UNCHANGED <<sideVars, app, box, response_sent, app_exc, exception_already_raised>>

\* `await send(message)` raises OSError: the client is gone.
MainSendFails ==
  /\ Sending
  /\ client.state = "gone"
  /\ Fails("other")
  /\ UNCHANGED <<sideVars, app, box, response_sent, app_exc, exception_already_raised, wire>>

\* dispatch()'s own response may read the request, through wrapped_receive() itself.
\* (With the application below it still reading, the two would share the request: that
\* is left out.)
OwnReads ==
  /\ main.pc \in {"ownStart", "ownBody"}
  /\ app.pc \in {"none", "done"}
  /\ WrappedReceive \/ WrappedChunk \/ WrappedDisconnect
  /\ UNCHANGED <<respVars, given>>

\* The background task of the response runs to its end, or raises.
BackgroundRaises ==
  /\ main.pc = "background" /\ main.background
  /\ Fails("other")
  /\ UNCHANGED <<sideVars, app, box, response_sent, app_exc, exception_already_raised, wire>>

BackgroundEnds ==
  /\ main.pc = "background" /\ main.background
  /\ main' = [main EXCEPT !.background = FALSE]
  /\ UNCHANGED <<sideVars, app, box, response_sent, app_exc, exception_already_raised, wire>>

\* The response is done: response_sent.set(), recv_stream.close(), and the task
\* group waits for coro().
ResponseDone ==
  /\ main.pc = "background" /\ ~main.background
  /\ response_sent' = TRUE
  /\ main' = [main EXCEPT !.pc = "joining"]
  /\ UNCHANGED <<sideVars, app, box, app_exc, exception_already_raised, wire>>

\* Mutant: __call__ ends with the task group.
JoinedSilently ==
  /\ main.pc = "joining"
  /\ app.pc \in {"none", "done"}
  /\ main' = [main EXCEPT !.pc = "returned"]
  /\ UNCHANGED <<sideVars, app, box, response_sent, app_exc, exception_already_raised, wire>>

\* coro() is over, too: raise its exception unless call_next() has raised it already.
Joined ==
  /\ main.pc = "joining"
  /\ app.pc \in {"none", "done"}
  /\ main' = IF app_exc /\ ~exception_already_raised
             THEN [main EXCEPT !.pc = "raised", !.err = "app"]
             ELSE [main EXCEPT !.pc = "returned"]
  /\ UNCHANGED <<sideVars, app, box, response_sent, app_exc, exception_already_raised, wire>>

\* coro() has been cancelled: the exception leaves __call__.
Cancelled ==
  /\ main.pc = "cancelling"
  /\ app.pc \in {"none", "done"}
  /\ main' = [main EXCEPT !.pc = "raised"]
  /\ UNCHANGED <<sideVars, app, box, response_sent, app_exc, exception_already_raised, wire>>

-----------------------------------------------------------------------------
(* The application task: coro(), send_no_error(), receive_or_disconnect(). *)

Running == app.pc = "ready" /\ main.pc # "cancelling"

\* The messages a well-formed application may send next, each with the phase it
\* reaches.
NextMessages ==
  CASE app.phase = "nothing" -> {<<Signal("debug"), "debugged">>,
                                 <<Signal("start"), "started">>}
    [] app.phase = "debugged" -> {<<Signal("start"), "started">>}
    [] app.phase = "started" ->
         {<<Signal("pathsend"), "finished">>}
         \union {<<Msg("body", d, more), IF more THEN "started" ELSE "finished">> :
                   d \in {Empty} \union {c \in {app.n + 1} : c <= MaxBody}, more \in BOOLEAN}
    [] app.phase = "finished" -> {}

\* send_no_error(): m is discarded once recv_stream is closed, handed to a waiting
\* main task, and else kept by the application, which blocks.
SendNoError(m, sent) ==
  \/ /\ response_sent
     /\ app' = sent
     /\ UNCHANGED box
  \/ /\ ~response_sent /\ box = Waiting
     /\ box' = m
     /\ app' = sent
  \/ /\ ~response_sent /\ box # Waiting
     /\ app' = [sent EXCEPT !.pc = "sending", !.item = m]
     /\ UNCHANGED box

AppSend ==
  /\ Running
  /\ \E next \in NextMessages :
       LET m == next[1]
       IN  SendNoError(m, [app EXCEPT !.phase = next[2],
                                      !.n = IF m.data = Empty THEN @ ELSE m.data])
  /\ UNCHANGED <<sideVars, main, response_sent, app_exc, exception_already_raised, wire>>

\* recv_stream was closed under a blocked send(): BrokenResourceError is swallowed.
AppSendBroken ==
  /\ app.pc = "sending"
  /\ response_sent
  /\ app' = [app EXCEPT !.pc = "ready"]
  /\ UNCHANGED <<sideVars, main, box, response_sent, app_exc, exception_already_raised, wire>>

GivenDisconnect == [given EXCEPT !.gone = TRUE]

\* receive_or_disconnect() starts: at the first await of wrapped_receive(), or at its
\* return; once response_sent is set it is not called.
AppReceive ==
  /\ Running
  /\ \/ /\ response_sent
        /\ given' = GivenDisconnect
        /\ UNCHANGED <<reqVars, app>>
     \/ /\ ~response_sent
        /\ WrappedReceive
        /\ app' = [app EXCEPT !.pc = "receiving"]
        /\ UNCHANGED given
  /\ UNCHANGED <<main, box, response_sent, app_exc, exception_already_raised, wire>>

\* A message of the client arrives in a waiting wrapped_receive().
AppMessageArrives ==
  /\ app.pc = "receiving"
  /\ WrappedChunk \/ WrappedDisconnect
  /\ UNCHANGED <<respVars, given>>

\* Mutant: without the second look at response_sent.
GivenLate == IF rcv = "idle" THEN down ELSE GivenDisconnect

\* What receive_or_disconnect() returns: what wrapped_receive() returned, or a
\* disconnect once response_sent is set.  The main task may have set it after the
\* message was taken: the message is thrown away.
Given == IF response_sent THEN GivenDisconnect ELSE down

\* receive_or_disconnect() goes on: wrapped_receive() has returned, or response_sent
\* cancels its wait.
AppReceived ==
  /\ app.pc = "receiving"
  /\ \/ rcv = "idle" /\ UNCHANGED reqVars
     \/ rcv # "idle" /\ response_sent /\ WrappedCancelled
  /\ given' = Given
  /\ app' = [app EXCEPT !.pc = "ready"]
  /\ UNCHANGED <<main, box, response_sent, app_exc, exception_already_raised, wire>>

\* `with send_stream` ends: a main task waiting in receive() sees the end of stream.
AppDone ==
  /\ app' = [app EXCEPT !.pc = "done"]
  /\ box' = IF box = Waiting THEN EndOfStream ELSE box

\* The application returns, or raises an Exception that coro() keeps in app_exc.
AppEnds(raises) ==
  /\ Running
  /\ AppDone
  /\ app_exc' = raises
  /\ UNCHANGED <<sideVars, main, response_sent, exception_already_raised, wire>>

\* The task group cancels coro(), wherever it waits.
AppCancelled ==
  /\ main.pc = "cancelling"
  /\ app.pc \in {"ready", "sending", "receiving"}
  /\ AppDone
  /\ IF rcv \in {"stream", "disconnect"} THEN WrappedCancelled ELSE UNCHANGED reqVars
  /\ UNCHANGED <<main, response_sent, app_exc, exception_already_raised, wire, given>>

-----------------------------------------------------------------------------
UserDispatch == \/ DispatchReads \/ CallNext \/ Drain \/ DispatchRaises
                \/ \E background \in BOOLEAN : ReturnResponse(background) \/ ReturnOwn(background)
                \/ OwnReads \/ BackgroundRaises \/ BackgroundEnds
Main == MainReceive \/ MainResume \/ MainSend \/ ResponseDone \/ Joined \/ Cancelled
App == AppSend \/ AppReceive \/ \E raises \in BOOLEAN : AppEnds(raises)
AppResumes == AppSendBroken \/ AppReceived \/ AppCancelled

Next == \/ Client /\ UNCHANGED <<respVars, given>>
        \/ UserDispatch
        \/ Main
        \/ MainSendFails
        \/ App
        \/ AppMessageArrives
        \/ AppResumes

\* Only what the event loop guarantees: a task that can be resumed is resumed, and
\* send() of the server returns.  The application, dispatch(), background tasks and
\* the client owe nothing.
Fairness == WF_vars(Main) /\ WF_vars(AppResumes) /\ WF_vars(AppMessageArrives)

Spec == Init /\ [][Next]_vars /\ Fairness

-----------------------------------------------------------------------------
(* Properties.                                                             *)

Protocol == INSTANCE ResponseProtocol WITH wire <- wire

\* Whatever dispatch() does with the response of call_next(), and whenever the
\* application fails, the server is sent one response, in protocol order.
WireInOrder == Protocol!Spec

GivenTypeOK == given \in [data : Seq(Chunk), finals : Nat, gone : BOOLEAN]

\* What wrapped_receive() takes from the client for the application reaches it, unless
\* the response was sent meanwhile, which throws the message away.  But an application
\* that is told that the body is complete has been given every chunk that was taken for
\* it, and one that is told of a disconnect has lost its client or answered.
GivenTrue ==
  /\ app.pc \in {"ready", "sending"} /\ ~response_sent => given = down
  /\ given.finals > 0 => given.data = down.data /\ client.complete
  /\ given.gone => client.state = "gone" \/ response_sent

\* Once the response has been sent the application gets nothing but disconnects, also
\* from a receive() that had its message before.
OnlyDisconnectsGiven ==
  response_sent => given'.data = given.data /\ given'.finals = given.finals

\* The request as the application below sees it, which is not what wrapped_receive() has
\* returned: the main task sets response_sent between the two.
RequestGiven == [](GivenTypeOK /\ GivenTrue) /\ [][OnlyDisconnectsGiven]_vars

\* Where the start of the response is on the wire: after a debug message, if any.
Leading == IF wire # <<>> /\ wire[1].type = "debug" THEN 2 ELSE 1

UsesAppBody == main.reply = "app" \/ main.drain

\* The chunks of the application reach the server in order, none lost, none twice,
\* whether they are streamed or collected by dispatch() first.
ChunksInOrder ==
  \A i \in DOMAIN wire :
    wire[i].data # <<>> =>
      wire[i].data = IF main.drain THEN [k \in 1..Len(main.data) |-> k] ELSE <<i - Leading>>

\* Chunk n is the last one that the server got.
EndsWith(n) ==
  \E i \in DOMAIN wire : wire[i].data # <<>> /\ wire[i].data[Len(wire[i].data)] = n

\* The server is told that the body is complete even when the application failed in
\* the middle of it; but then __call__ raises.  If it returns, the whole body was sent.
NoSilentTruncation ==
  main.pc = "returned" /\ UsesAppBody => ~app_exc /\ (app.n > 0 => EndsWith(app.n))

\* An exception of the application is never swallowed and never raised twice: it
\* leaves __call__, unless call_next() raised it and dispatch() answered it.
AppExceptionOnce ==
  app_exc /\ main.pc \in {"returned", "raised"} /\ main.err # "other" =>
    (main.pc = "returned" <=> main.caught /\ main.reply = "own")

\* An application blocked in send() or receive() when the response has been sent goes
\* on: its response was discarded, or it runs background work.
AppUnblocked == (response_sent /\ app.pc \in {"sending", "receiving"}) ~> (app.pc = "ready")

\* The end of the body reaches the server although the application goes on, for ever
\* perhaps, after its last message (a background task).
EndNotDelayed ==
  (app.phase = "finished" /\ main.reply = "app") ~>
    (Protocol!Complete \/ main.pc \in {"cancelling", "raised"})

\* Once the application is over the main task never waits for it: __call__ ends, as
\* far as dispatch() and the response's background task let it.
CallEnds ==
  (app.pc = "done") ~>
    (main.pc \in {"returned", "raised", "response", "caught"} \/ main.background)

\* What the server got of the body is what the application sent, in order; when __call__
\* returns it is all of it, and when the application failed __call__ raises.
BodyComplete == RespTypeOK /\ ChunksInOrder /\ NoSilentTruncation /\ AppExceptionOnce

\* Neither of the two tasks waits for the other for ever.
NobodyWaits == AppUnblocked /\ EndNotDelayed /\ CallEnds

=============================================================================
