--------------------------- MODULE ExceptionHandling ---------------------------
(***************************************************************************)
(* What becomes of an exception raised under an HTTP route: the layers     *)
(* around the endpoint, outermost first, are ServerErrorMiddleware,        *)
(* ExceptionMiddleware and the wrapper of request_response(), once more    *)
(* inside for every mounted application.  They are entered from the        *)
(* outside in, with one scope, where each ExceptionMiddleware puts its own *)
(* handlers over those of the application outside.  Each keeps its own     *)
(* response_started, set by the messages that pass through it; each may    *)
(* call one handler and send the response it returns.                      *)
(*                                                                         *)
(* Endpoints, handlers and responses are user code: they may raise any     *)
(* exception at any point, and their messages are those of well-formed     *)
(* responses.  A handler is known by the key it is registered for; status, *)
(* headers and bodies are left out.  An application in debug mode behaves  *)
(* as one without a 500 handler.                                           *)
(***************************************************************************)
EXTENDS Naturals, Sequences

CONSTANTS
  Apps,            \* the Starlette applications, each mounted in the one before
  Layers,          \* the layers around the endpoint: records [kind, app]
  Keys,            \* what handlers are registered for: statuses and exception classes
  Exceptions,
  Mro,             \* the classes of an exception, most derived first
  Status,          \* the status code of an HTTPException, or NoStatus
  NoStatus,
  ClientGone,      \* the OSError of the server's send()
  AlreadyStarted,  \* the RuntimeError "... but response already started."
  MaxBody          \* bound: body messages of a response

Depth == Len(Layers)
Layer == 1..Depth
Kinds == {"server", "exceptions", "route"}

ASSUME LayersAssumption == Layers \in Seq([kind : Kinds, app : Apps])
\* build_middleware_stack() puts a ServerErrorMiddleware around everything else.
ASSUME OutermostAssumption == Depth > 0 /\ Layers[1].kind = "server"
\* Router.app() of an application is what its ExceptionMiddleware calls, a route what is in it.
ASSUME RouteAssumption ==
  \A k \in Layer : Layers[k].kind = "route" =>
    k > 1 /\ Layers[k - 1] = [kind |-> "exceptions", app |-> Layers[k].app]
ASSUME ExceptionsAssumption ==
  /\ {ClientGone, AlreadyStarted} \subseteq Exceptions
  /\ "none" \notin Exceptions
  /\ \A e \in Exceptions : /\ Mro[e] \in Seq(STRING)
                           /\ \A i, j \in DOMAIN Mro[e] : Mro[e][i] = Mro[e][j] => i = j
ASSUME MaxBodyAssumption == MaxBody \in Nat

VARIABLES
  registered,        \* the keys of Starlette.exception_handlers, by application
  scope_handlers,    \* scope["starlette.exception_handlers"]: the application whose they are
  held,              \* the handlers that a layer has taken, likewise
  response_started,  \* by layer
  control,           \* what runs, at which layer, for which exception
  phase,             \* of the response that is being sent
  gone,              \* the client is gone: the server's send() raises
  wire,              \* the messages accepted by the server
  calls,             \* history: the handlers called
  unanswered,        \* history: a handler returned None, or a 500 handler or its response raised
  raised             \* the exception that left the outermost layer

vars == <<registered, scope_handlers, held, response_started, control, phase, gone, wire, calls,
          unanswered, raised>>

Message == [type : {"start", "body"}, more_body : BOOLEAN, by : 1..(Depth + 1)]

TypeOK ==
  /\ registered \in [Apps -> SUBSET Keys]
  /\ scope_handlers \in SUBSET Apps /\ held \in [Layer -> SUBSET Apps]
  /\ response_started \in [Layer -> BOOLEAN]
  /\ control \in [at : {"entering", "endpoint", "handler", "response", "failing", "over"},
                  layer : 0..(Depth + 1), exc : Exceptions \union {"none"}]
  /\ phase \in {"none", "started", "complete"}
  /\ gone \in BOOLEAN
  /\ wire \in Seq(Message)
  /\ calls \in Seq([layer : Layer, exc : Exceptions, key : Keys \union {"HTTPException", "500"}])
  /\ unanswered \in BOOLEAN
  /\ raised \in Exceptions \union {"none"}

Control(at, layer, exc) == [at |-> at, layer |-> layer, exc |-> exc]

Init ==
  /\ registered \in [Apps -> SUBSET Keys]
  /\ scope_handlers = {} /\ held = [k \in Layer |-> {}]
  /\ response_started = [k \in Layer |-> FALSE]
  /\ control = Control("entering", 1, "none")
  /\ phase = "none"
  /\ gone = FALSE
  /\ wire = <<>>
  /\ calls = <<>>
  /\ unanswered = FALSE
  /\ raised = "none"

-----------------------------------------------------------------------------
(* From the server to the endpoint.                                        *)

IsServer(k) == Layers[k].kind = "server"

\* ExceptionMiddleware.__call__() overwrites what is in the scope; the wrapped_app() that it
\* makes, or a route, takes what it finds there.
Enter(k) ==
  /\ control.at = "entering" /\ control.layer = k
  /\ scope_handlers' = IF Layers[k].kind = "exceptions" THEN {Layers[k].app} ELSE scope_handlers
  /\ held' = [held EXCEPT ![k] = IF IsServer(k) THEN {} ELSE scope_handlers']
  /\ control' = Control(IF k = Depth THEN "endpoint" ELSE "entering", k + 1, "none")
  /\ UNCHANGED <<registered, response_started, phase, gone, wire, calls, unanswered, raised>>

-----------------------------------------------------------------------------
(* Which handler.                                                          *)

\* Starlette.build_middleware_stack(): these keys install the 500 handler.
ErrorKeys == {"500", "Exception"}

RegisteredAt(k) == registered[Layers[k].app]

\* The exception handlers of an application: the registered ones, and the default for
\* HTTPException.
HandlersOf(app) == (registered[app] \ ErrorKeys) \union {"HTTPException"}

\* Mutant of HandlersAt: the scope is read when the exception is caught.
HandlersInScope(k) == UNION {HandlersOf(app) : app \in scope_handlers}

\* Those that a layer has: none where it has found none in the scope.
HandlersAt(k) == UNION {HandlersOf(app) : app \in held[k]}

\* _lookup_exception_handler(): the first class of the exception's MRO that has one.
Lookup(handlers, e) ==
  LET found == {i \in DOMAIN Mro[e] : Mro[e][i] \in handlers}
  IN  IF found = {} THEN "none"
      ELSE Mro[e][CHOOSE i \in found : \A j \in found : i <= j]

\* The handler of wrapped_app(): by status code first.
HandlerFor(k, e) ==
  IF Status[e] \in HandlersAt(k) THEN Status[e] ELSE Lookup(HandlersAt(k), e)

-----------------------------------------------------------------------------
(* The response of the endpoint or of a handler: its messages pass through *)
(* the layers outside of it, and through the layer itself when a wrapped   *)
(* application sends the response of a handler.                            *)

Sends == control.at \in {"endpoint", "response"}

\* Mutant of Through: the handler's response is sent past the layers outside.
ThroughSelf(k) == control.layer = k

\* The layers whose sender() or _send() sees what is being sent.
Through(k) == k < control.layer \/ (k = control.layer /\ ~IsServer(k))

\* sender(), _send(): note a start.
Notes(type) ==
  response_started' = [k \in Layer |-> response_started[k] \/ (type = "start" /\ Through(k))]

\* exc leaves the code that runs at control.layer, for the layer outside.
Propagates(exc) == control' = Control("failing", control.layer - 1, exc)

\* `await send(message)`: the server accepts it, or raises as the client is gone.
Send(type, more) ==
  /\ Notes(type)
  /\ \/ /\ ~gone
        /\ wire' = Append(wire, [type |-> type, more_body |-> more, by |-> control.layer])
        /\ phase' = IF type = "body" /\ ~more THEN "complete" ELSE "started"
        /\ UNCHANGED <<gone, control>>
     \/ /\ gone' = TRUE
        /\ Propagates(ClientGone)
        /\ UNCHANGED <<wire, phase>>
  /\ UNCHANGED <<registered, scope_handlers, held, calls, unanswered, raised>>

SendStart == Sends /\ phase = "none" /\ Send("start", FALSE)

SendBody ==
  /\ Sends
  /\ phase = "started"
  /\ \E more \in BOOLEAN : (more => Len(wire) <= MaxBody) /\ Send("body", more)

\* Mutant of Returns: ServerErrorMiddleware does not raise what it has answered.
ReturnsQuietly ==
  /\ Sends
  /\ phase = "complete"
  /\ control' = Control("over", 0, "none")
  /\ UNCHANGED <<registered, scope_handlers, held, response_started, phase, gone, wire, calls,
                 unanswered, raised>>

\* The response is sent, with its background task: __call__ returns through all the
\* layers outside, but ServerErrorMiddleware raises what it has caught.
Returns ==
  /\ Sends
  /\ phase = "complete"
  /\ IF control.at = "response" /\ IsServer(control.layer)
     THEN Propagates(control.exc)
     ELSE control' = Control("over", 0, "none")
  /\ UNCHANGED <<registered, scope_handlers, held, response_started, phase, gone, wire, calls,
                 unanswered, raised>>

\* The handler that was called last is the default one for HTTPException.
DefaultHandler ==
  LET c == calls[Len(calls)]
  IN  c.key = "HTTPException" /\ \A app \in held[c.layer] : "HTTPException" \notin registered[app]

\* User code runs: the endpoint, a handler or its response; the default handlers and
\* their plain responses raise nothing.
UserCode ==
  \/ control.at = "endpoint"
  \/ /\ control.at \in {"handler", "response"}
     /\ calls # <<>>
     /\ calls[Len(calls)].layer = control.layer
     /\ ~DefaultHandler

\* User code raises: the endpoint, a handler, the body iterator or the background task
\* of a response.
Raises(e) ==
  /\ UserCode
  /\ Propagates(e)
  /\ unanswered' = (unanswered \/ (control.at # "endpoint" /\ IsServer(control.layer)))
  /\ UNCHANGED <<registered, scope_handlers, held, response_started, phase, gone, wire, calls, raised>>

-----------------------------------------------------------------------------
(* `except Exception` of the layers.                                       *)

Caught(k) == control.at = "failing" /\ control.layer = k

Calls(k, key) ==
  /\ calls' = Append(calls, [layer |-> k, exc |-> control.exc, key |-> key])
  /\ control' = [control EXCEPT !.at = "handler"]

\* Mutant of CatchWrapped: the response may have been started.
CatchWrappedLate(k) ==
  /\ LET key == HandlerFor(k, control.exc)
     IN  \/ /\ key = "none"
            /\ Propagates(control.exc)
            /\ UNCHANGED calls
         \/ /\ key # "none"
            /\ Calls(k, key)
  /\ UNCHANGED <<registered, scope_handlers, held, response_started, phase, gone, wire, unanswered,
                 raised>>

\* wrapped_app(), of ExceptionMiddleware and of request_response().
CatchWrapped(k) ==
  /\ LET key == HandlerFor(k, control.exc)
     IN  \/ /\ key = "none"
            /\ Propagates(control.exc)
            /\ UNCHANGED calls
         \/ /\ key # "none" /\ response_started[k]
            /\ Propagates(AlreadyStarted)
            /\ UNCHANGED calls
         \/ /\ key # "none" /\ ~response_started[k]
            /\ Calls(k, key)
  /\ UNCHANGED <<registered, scope_handlers, held, response_started, phase, gone, wire, unanswered,
                 raised>>

\* The response that layer k has for the exception is sent, unless one was started.
Answers(k) ==
  IF response_started[k]
  THEN Propagates(control.exc) /\ UNCHANGED phase
  ELSE control' = [control EXCEPT !.at = "response"] /\ phase' = "none"

\* ServerErrorMiddleware.__call__(): the installed handler is called in any case.
CatchServer(k) ==
  /\ IF RegisteredAt(k) \intersect ErrorKeys # {} 
     THEN Calls(k, "500") /\ UNCHANGED phase
     ELSE Answers(k) /\ UNCHANGED calls
  /\ UNCHANGED <<registered, scope_handlers, held, response_started, gone, wire, unanswered, raised>>

Catch(k) == Caught(k) /\ IF IsServer(k) THEN CatchServer(k) ELSE CatchWrapped(k)

\* A handler returns a response.
HandlerReturns(k) ==
  /\ control.at = "handler" /\ control.layer = k
  /\ Answers(k)
  /\ UNCHANGED <<registered, scope_handlers, held, response_started, gone, wire, calls, unanswered,
                 raised>>

\* A handler returns None, which ends the request in a wrapped application.
HandlerReturnsNone(k) ==
  /\ control.at = "handler" /\ control.layer = k /\ ~IsServer(k)
  /\ UserCode
  /\ control' = Control("over", 0, "none")
  /\ unanswered' = TRUE
  /\ UNCHANGED <<registered, scope_handlers, held, response_started, phase, gone, wire, calls, raised>>

\* The exception leaves the application: the server logs it.
ReachesServer ==
  /\ Caught(0)
  /\ control' = Control("over", 0, "none")
  /\ raised' = control.exc
  /\ UNCHANGED <<registered, scope_handlers, held, response_started, phase, gone, wire, calls,
                 unanswered>>

-----------------------------------------------------------------------------
Next ==
  \/ SendStart \/ SendBody \/ Returns
  \/ \E e \in Exceptions : Raises(e)
  \/ \E k \in Layer : Enter(k) \/ Catch(k) \/ HandlerReturns(k) \/ HandlerReturnsNone(k)
  \/ ReachesServer

Spec == Init /\ [][Next]_vars

-----------------------------------------------------------------------------
(* Properties.                                                             *)

Protocol == INSTANCE ResponseProtocol WITH wire <- wire

\* Wherever exceptions are raised, handled, raised again by handlers or by the
\* responses of handlers, the server is sent one response, in order.
WireInOrder == Protocol!Spec

\* Once a response is on the wire no exception handler is called: its response could
\* not be sent.  Only 500 handlers still are.
NoHandlerAfterStart ==
  [][wire # <<>> /\ calls' # calls => IsServer(calls'[Len(calls')].layer)]_vars

\* No layer calls handlers more than once for a request: a handler that raises the
\* exception it is registered for does not handle it for ever.
NoHandlerLoop == \A i, j \in DOMAIN calls : calls[i].layer = calls[j].layer => i = j

\* An exception does not leave the client without an answer, unless it is gone or a
\* handler failed to answer.
Answered == control.at = "over" /\ ~gone /\ ~unanswered => wire # <<>>

\* A client that was told of a server error is not the only one: every error that
\* ServerErrorMiddleware answers reaches the server, also out of a mounted application.
ErrorIsRaised ==
  control.at = "over" /\ (\E i \in DOMAIN wire : wire[i].by \in Layer /\ IsServer(wire[i].by))
    => raised # "none"

\* The key of a handler matches the exception and no other key of the application of the
\* layer matches it better: its status, or else a more derived class.  Which application's
\* the handlers in the scope are by then does not matter.
Matching(k, e) == {key \in HandlersOf(Layers[k].app) : key = Status[e] \/ \E i \in DOMAIN Mro[e] : Mro[e][i] = key}
Better(a, b, e) ==
  a # b /\ (a = Status[e] \/ (b # Status[e] /\ \E i, j \in DOMAIN Mro[e] :
                                i < j /\ Mro[e][i] = a /\ Mro[e][j] = b))

MostSpecific ==
  \A i \in DOMAIN calls :
    LET c == calls[i]
    IN  IsServer(c.layer) \/ (/\ c.key \in Matching(c.layer, c.exc)
                              /\ ~\E key \in Matching(c.layer, c.exc) : Better(key, c.key, c.exc))

\* Each layer calls one handler at most, the right one of its application.
RightHandler == MostSpecific /\ NoHandlerLoop

\* An exception is told to the client, and if it is an error to the server, too.
ErrorIsTold == Answered /\ ErrorIsRaised

=============================================================================
