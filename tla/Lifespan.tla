------------------------------- MODULE Lifespan -------------------------------
(***************************************************************************)
(* The lifespan of an application: Router.lifespan() with its context, and *)
(* the other side of the protocol, TestClient.__enter__(), __exit__() and  *)
(* its lifespan task.  The two exchange messages over streams without a    *)
(* bound; a None says that the task is over.                               *)
(*                                                                         *)
(* The context is the default one, which calls on_startup and on_shutdown  *)
(* handlers, or a context manager of the application, which may yield a    *)
(* state and may swallow an exception.  Both are user code: they raise.    *)
(***************************************************************************)
EXTENDS Naturals, Sequences

CONSTANTS
  Contexts,        \* the kinds of lifespan contexts: "handlers", "manager"
  StateSupport,    \* whether the server has "state" in the lifespan scope
  MaxHandlers      \* bound: on_startup handlers, and on_shutdown handlers

ASSUME ContextsAssumption == Contexts \subseteq {"handlers", "manager"}
ASSUME StateAssumption == StateSupport \subseteq BOOLEAN
ASSUME MaxHandlersAssumption == MaxHandlers \in Nat

VARIABLES
  context,    \* the context of the application, whether it has been entered and left
  supports,   \* "state" in scope
  pc,         \* where Router.lifespan() is
  started,
  calls,      \* history: on_startup and on_shutdown handlers that were called
  exc,        \* the exception that is being raised in lifespan()
  state,      \* scope["state"] has what the context yielded
  inbox,      \* stream_receive: messages for the application
  outbox,     \* stream_send: messages of the application
  sent,       \* history: all messages of the application
  task,       \* the future of the lifespan task
  client      \* the TestClient

vars == <<context, supports, pc, started, calls, exc, state, inbox, outbox, sent, task, client>>

Outgoing == {"startup.complete", "startup.failed", "shutdown.complete", "shutdown.failed"}
Errors == {"none", "user", "state"}
Clients == {"outside", "startup", "startupFailed", "inside", "shutdown", "shutdownFailed",
            "left", "raised", "assertion", "blocked"}

TypeOK ==
  /\ context \in [kind : Contexts, phase : {"out", "in", "left"}, swallowed : BOOLEAN]
  /\ supports \in StateSupport
  /\ pc \in {"begin", "entering", "entered", "complete", "serving", "leaving", "failed",
             "done", "raises", "over"}
  /\ started \in BOOLEAN
  /\ calls \in [startup : 0..MaxHandlers, shutdown : 0..MaxHandlers]
  /\ exc \in Errors
  /\ state \in BOOLEAN
  /\ inbox \in Seq({"startup", "shutdown"})
  /\ outbox \in Seq(Outgoing \union {"None"})
  /\ sent \in Seq(Outgoing)
  /\ task \in {"running"} \union Errors
  /\ client \in Clients

\* The call of lifespan(), and the TestClient before its block.
Begin(future) ==
  /\ context \in [kind : Contexts, phase : {"out"}, swallowed : {FALSE}]
  /\ supports \in StateSupport
  /\ pc = "begin"
  /\ started = FALSE
  /\ calls = [startup |-> 0, shutdown |-> 0]
  /\ exc = "none"
  /\ state = FALSE
  /\ inbox = <<>> /\ outbox = <<>> /\ sent = <<>>
  /\ task = future
  /\ client = "outside"

Init == Begin("running")

-----------------------------------------------------------------------------
(* Router.lifespan().                                                      *)

appVars == <<context, supports, pc, started, calls, exc, state>>

\* The first `await receive()`; what the message says is not looked at.
ReceiveStartup ==
  /\ pc = "begin" /\ inbox # <<>>
  /\ inbox' = Tail(inbox)
  /\ pc' = "entering"
  /\ UNCHANGED <<context, supports, started, calls, exc, state, outbox, sent, task, client>>

\* An exception reaches `except BaseException`.
Fails(e) ==
  /\ exc' = e
  /\ pc' = "failed"
  /\ UNCHANGED started

\* __aenter__(): startup() calls the next handler, or the context manager runs up to
\* its yield.  An exception leaves the context unentered: there is no __aexit__().
CallStartup(raises) ==
  /\ pc = "entering"
  /\ context.kind = "handlers" => calls.startup < MaxHandlers
  /\ calls' = IF context.kind = "handlers" THEN [calls EXCEPT !.startup = @ + 1] ELSE calls
  /\ \/ raises /\ Fails("user") /\ UNCHANGED context
     \/ /\ ~raises
        /\ IF context.kind = "handlers"
           THEN UNCHANGED <<context, pc>>
           ELSE context' = [context EXCEPT !.phase = "in"] /\ pc' = "entered"
        /\ UNCHANGED <<started, exc>>
  /\ UNCHANGED <<supports, state, inbox, outbox, sent, task, client>>

\* startup() has called all handlers.
EnterHandlers ==
  /\ pc = "entering"
  /\ context.kind = "handlers" /\ calls.startup = MaxHandlers
  /\ context' = [context EXCEPT !.phase = "in"]
  /\ pc' = "entered"
  /\ UNCHANGED <<supports, started, calls, exc, state, inbox, outbox, sent, task, client>>

\* What the context yields goes to the state that requests get, if the server has one:
\* a RuntimeError is raised inside of the context otherwise.  on_startup yields None.
TakeState(yields) ==
  /\ pc = "entered"
  /\ yields => context.kind = "manager"
  /\ \/ yields /\ ~supports /\ exc' = "state" /\ pc' = "leaving" /\ UNCHANGED state
     \/ (yields => supports) /\ state' = yields /\ pc' = "complete" /\ UNCHANGED exc
  /\ UNCHANGED <<context, supports, started, calls, inbox, outbox, sent, task, client>>

\* `await send(message)`: the stream has no bound, so it does not wait.
Send(m) ==
  /\ outbox' = Append(outbox, m)
  /\ sent' = Append(sent, m)

\* Mutant of SendStarted: started is not set.
SendUnstarted ==
  /\ pc = "complete"
  /\ Send("startup.complete")
  /\ pc' = "serving"
  /\ UNCHANGED <<context, supports, started, calls, exc, state, inbox, task, client>>

SendStarted ==
  /\ pc = "complete"
  /\ Send("startup.complete")
  /\ started' = TRUE
  /\ pc' = "serving"
  /\ UNCHANGED <<context, supports, calls, exc, state, inbox, task, client>>

\* The second `await receive()`, after which the context is left.
ReceiveShutdown ==
  /\ pc = "serving" /\ inbox # <<>>
  /\ inbox' = Tail(inbox)
  /\ pc' = "leaving"
  /\ UNCHANGED <<context, supports, started, calls, exc, state, outbox, sent, task, client>>

\* __aexit__(): shutdown() calls the next handler, or the context manager goes on after
\* its yield.  The first exception ends it, in place of the one it was called with.
CallShutdown(raises) ==
  /\ pc = "leaving"
  /\ context.kind = "handlers" => calls.shutdown < MaxHandlers
  /\ calls' = IF context.kind = "handlers" THEN [calls EXCEPT !.shutdown = @ + 1] ELSE calls
  /\ \/ /\ raises
        /\ Fails("user")
        /\ context' = [context EXCEPT !.phase = "left"]
     \/ /\ ~raises
        /\ context.kind = "handlers"
        /\ UNCHANGED <<context, pc, exc, started>>
  /\ UNCHANGED <<supports, state, inbox, outbox, sent, task, client>>

\* __aexit__() returns.  The exception that it was called with goes on, unless a context
\* manager swallows it.
Leave(swallows) ==
  /\ pc = "leaving"
  /\ context.kind = "handlers" => calls.shutdown = MaxHandlers
  /\ swallows => context.kind = "manager" /\ exc # "none"
  /\ context' = [context EXCEPT !.phase = "left", !.swallowed = swallows]
  /\ exc' = IF swallows THEN "none" ELSE exc
  /\ pc' = IF exc' = "none" THEN "done" ELSE "failed"
  /\ UNCHANGED <<supports, started, calls, state, inbox, outbox, sent, task, client>>

\* `except BaseException`: say which half failed, and raise again.
SendFailed ==
  /\ pc = "failed"
  /\ Send(IF started THEN "shutdown.failed" ELSE "startup.failed")
  /\ pc' = "raises"
  /\ UNCHANGED <<context, supports, started, calls, exc, state, inbox, task, client>>

SendComplete ==
  /\ pc = "done"
  /\ Send("shutdown.complete")
  /\ pc' = "raises"
  /\ UNCHANGED <<context, supports, started, calls, exc, state, inbox, task, client>>

-----------------------------------------------------------------------------
(* TestClient.                                                             *)

\* Mutant of TaskEnds: the None is sent when the task has yet to end.
TaskEndsLater ==
  /\ \/ /\ pc = "raises"
        /\ outbox' = Append(outbox, "None")
        /\ pc' = "over"
        /\ UNCHANGED task
     \/ /\ pc = "over" /\ task = "running"
        /\ task' = exc
        /\ UNCHANGED <<outbox, pc>>
  /\ UNCHANGED <<context, supports, started, calls, exc, state, inbox, sent, client>>

\* lifespan(): the `finally`, and the end of the task.  The stream has no bound: nothing
\* else runs between the two.
TaskEnds ==
  /\ pc = "raises"
  /\ outbox' = Append(outbox, "None")
  /\ pc' = "over"
  /\ task' = exc
  /\ UNCHANGED <<context, supports, started, calls, exc, state, inbox, sent, client>>

\* __enter__(): start the task; wait_startup() sends the first message.
ClientEnters ==
  /\ client = "outside"
  /\ inbox' = Append(inbox, "startup")
  /\ client' = "startup"
  /\ UNCHANGED <<appVars, outbox, sent, task>>

\* The message is None: task.result() raises what the task raised, and blocks the event
\* loop of both if the task is not over; the None of a task that returned has no "type".
OnNone == client' = CASE task = "running" -> "blocked"
                      [] task = "none" -> "assertion"
                      [] OTHER -> "raised"

\* wait_startup(), on the answer of the application.
StartupAnswer(m) ==
  CASE m = "startup.complete" -> client' = "inside"
    [] m = "startup.failed" -> client' = "startupFailed"
    [] m = "None" -> OnNone
    [] OTHER -> client' = "assertion"

ShutdownAnswer(m) ==
  CASE m = "shutdown.complete" -> client' = "left"
    [] m = "shutdown.failed" -> client' = "shutdownFailed"
    [] m = "None" -> OnNone
    [] OTHER -> client' = "assertion"

\* After a failure the second message is the None.
FailureFollows(m, next) == IF m = "None" THEN OnNone ELSE client' = next

ClientReceives ==
  /\ client \in {"startup", "startupFailed", "shutdown", "shutdownFailed"}
  /\ outbox # <<>>
  /\ outbox' = Tail(outbox)
  /\ LET m == Head(outbox)
     IN  CASE client = "startup" -> StartupAnswer(m)
           [] client = "startupFailed" -> FailureFollows(m, "inside")
           [] client = "shutdown" -> ShutdownAnswer(m)
           [] client = "shutdownFailed" -> FailureFollows(m, "left")
  /\ UNCHANGED <<appVars, inbox, sent, task>>

\* __exit__(): the block was left, in whatever way; wait_shutdown() sends its message.
ClientExits ==
  /\ client = "inside"
  /\ inbox' = Append(inbox, "shutdown")
  /\ client' = "shutdown"
  /\ UNCHANGED <<appVars, outbox, sent, task>>

-----------------------------------------------------------------------------
App ==
  /\ client # "blocked"
  /\ \/ ReceiveStartup \/ EnterHandlers \/ SendStarted \/ ReceiveShutdown
     \/ SendFailed \/ SendComplete \/ TaskEnds
     \/ \E b \in BOOLEAN : CallStartup(b) \/ TakeState(b) \/ CallShutdown(b) \/ Leave(b)
Client == ClientEnters \/ ClientReceives \/ ClientExits

Ended ==
  /\ client = "blocked" \/ (pc = "over" /\ client \in {"left", "raised", "assertion"})
  /\ UNCHANGED vars

Next == App \/ Client \/ Ended

\* Handlers and context managers return or raise; the block of the client ends.
Spec == Init /\ [][Next]_vars /\ WF_vars(App) /\ WF_vars(Client)

-----------------------------------------------------------------------------
(* Properties.                                                             *)

Lives == {<<"startup.failed">>, <<"startup.complete", "shutdown.complete">>,
          <<"startup.complete", "shutdown.failed">>}

\* Wherever the context raises, the server is told of startup once, and of shutdown once
\* if startup was complete.  (A context manager that swallows the RuntimeError about the
\* state has "shutdown.complete" sent by an application that never started.)
ToldOnce ==
  ~context.swallowed =>
    \E life \in Lives : Len(sent) <= Len(life) /\ \A i \in DOMAIN sent : sent[i] = life[i]

\* Requests are only served inside of the context: all on_startup handlers have returned
\* and no on_shutdown handler has been called ("Starlette will not start serving any
\* incoming requests until the lifespan has been run").
ServedInside ==
  client = "inside" => /\ context.phase = "in" /\ calls.shutdown = 0
                       /\ context.kind = "handlers" => calls.startup = MaxHandlers

\* A context that was entered is left before the task ends, and one that was not entered
\* is not left: no on_shutdown handler runs for a startup that failed.
LeftOnce ==
  /\ pc = "over" => context.phase # "in"
  /\ calls.shutdown > 0 => calls.startup = MaxHandlers /\ context.phase # "out"

\* An exception of the lifespan is never lost: the client raises it, at the half where
\* it was raised, and raises nothing of its own.
ErrorReachesClient ==
  /\ client = "raised" => task # "none" /\ task # "running"
  /\ client = "left" => exc = "none"
  /\ client = "assertion" => context.swallowed

\* Startup, the requests and shutdown follow one another, each once and inside the context,
\* and an error of any of them is raised by the client.
LifeInOrder == TypeOK /\ ToldOnce /\ ServedInside /\ LeftOnce /\ ErrorReachesClient

=============================================================================
