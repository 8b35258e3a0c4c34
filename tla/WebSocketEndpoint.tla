--------------------------- MODULE WebSocketEndpoint ---------------------------
(***************************************************************************)
(* A WebSocket route of a Starlette application, from the connect message  *)
(* to the end of the connection.  The endpoint is a function wrapped by    *)
(* websocket_session(), or a WebSocketEndpoint class with its on_connect,  *)
(* on_receive and on_disconnect hooks; ExceptionMiddleware is outside of   *)
(* both.  Each of the two makes a WebSocket object of its own for the same *)
(* connection, so the connection has two pairs of state attributes.        *)
(*                                                                         *)
(* The function and the hooks are user code: they use the session they are *)
(* given in any way, and raise.  Data is told apart only by whether decode *)
(* accepts it; the exception handlers are the default ones.                *)
(***************************************************************************)
EXTENDS WebSocketMessages

CONSTANTS
  Kinds,        \* the kinds of endpoints
  Raisable,     \* the exceptions that user code raises
  Codes,        \* the close codes of clients, None among them
  MaxReceive,   \* bound: data messages of the client
  MaxSend       \* bound: messages of the application before it is handled

UserExceptions == {"HTTPException", "WebSocketException", "Other"}
ASSUME MaxAssumption == MaxReceive \in Nat /\ MaxSend \in Nat
ASSUME KindsAssumption == Kinds \subseteq {"function", "class"}
ASSUME RaisableAssumption == Raisable \subseteq UserExceptions
ASSUME CodesAssumption == Codes \subseteq {"None", "1000", "1001"}

VARIABLES
  kind,       \* the endpoint is a function or a WebSocketEndpoint class
  session,    \* the states of the endpoint's WebSocket and of the middleware's
  client,     \* the client: data messages sent, whether it is still there
  inbox,      \* messages the server has ready for receive()
  pc,         \* what runs
  exc,        \* the exception that is being raised
  close_code,
  ending,     \* history: what ended the loop of dispatch()
  told,       \* history: on_connect returned, and the codes given to on_disconnect
  wire        \* messages passed to the server's send()

vars == <<kind, session, client, inbox, pc, exc, close_code, ending, told, wire>>

Sessions == {"endpoint", "middleware"}
InMessage == [type : {"connect", "receive", "disconnect"}, good : BOOLEAN,
              code : Codes \union {"None"}]
Exceptions == UserExceptions \union {"RuntimeError", "WebSocketDisconnect", "OSError", "Cancelled"}

TypeOK ==
  /\ kind \in Kinds
  /\ session \in [Sessions -> [client_state : States, application_state : States]]
  /\ client \in [sent : 0..MaxReceive, here : BOOLEAN]
  /\ inbox \in Seq(InMessage)
  /\ pc \in {"function", "on_connect", "receive", "decode", "on_receive", "on_disconnect",
             "route", "middleware", "denial", "over"}
  /\ exc \in Exceptions \union {"none"}
  /\ close_code \in (Codes \ {"None"}) \union {"1000", "1011"}
  /\ ending \in [how : {"none", "client", "error", "cancelled"}, code : Codes \union {"None"}]
  /\ told \in [connected : BOOLEAN, codes : Seq(Codes \union {"1000", "1011"})]
  /\ wire \in Seq(OutMessage)

In(type, good, code) == [type |-> type, good |-> good, code |-> code]

Init ==
  /\ kind \in Kinds
  /\ session = [s \in Sessions |-> [client_state |-> "CONNECTING", application_state |-> "CONNECTING"]]
  /\ client = [sent |-> 0, here |-> TRUE]
  /\ inbox = <<In("connect", TRUE, "None")>>
  /\ pc = IF kind = "class" THEN "on_connect" ELSE "function"
  /\ exc = "none"
  /\ close_code = "1000"
  /\ ending = [how |-> "none", code |-> "None"]
  /\ told = [connected |-> FALSE, codes |-> <<>>]
  /\ wire = <<>>

-----------------------------------------------------------------------------
(* The client, through the server (external).                              *)

ClientSends(good) ==
  /\ client.here
  /\ client.sent < MaxReceive
  /\ client' = [client EXCEPT !.sent = @ + 1]
  /\ inbox' = Append(inbox, In("receive", good, "None"))
  /\ UNCHANGED <<kind, session, pc, exc, close_code, ending, told, wire>>

ClientLeaves(code) ==
  /\ client.here
  /\ client' = [client EXCEPT !.here = FALSE]
  /\ inbox' = Append(inbox, In("disconnect", TRUE, code))
  /\ UNCHANGED <<kind, session, pc, exc, close_code, ending, told, wire>>

-----------------------------------------------------------------------------
(* Exceptions leave the code that runs.                                    *)

Hooks == {"on_connect", "on_receive", "on_disconnect"}
UserCode == pc \in Hooks \union {"function"}

\* The handlers that see an exception of pc next: dispatch() for its loop, the wrapper
\* of websocket_session() for a function, ExceptionMiddleware for the rest.
Outside ==
  CASE pc \in {"receive", "decode", "on_receive"} -> "on_disconnect"
    [] pc = "function" -> "route"
    [] pc \in {"on_connect", "on_disconnect", "route"} -> "middleware"

\* Raise e.  dispatch() calls on_disconnect on the way, with 1011 unless e is a
\* cancellation, which is no Exception.
Raise(e) ==
  /\ exc' = e
  /\ pc' = Outside
  /\ IF Outside = "on_disconnect"
     THEN /\ ending' = [ending EXCEPT !.how = IF e = "Cancelled" THEN "cancelled" ELSE "error"]
          /\ close_code' = IF e = "Cancelled" THEN close_code ELSE "1011"
          /\ told' = [told EXCEPT !.codes = Append(@, close_code')]
     ELSE UNCHANGED <<close_code, ending, told>>

Continue == UNCHANGED <<pc, exc, close_code, ending, told>>

\* `await self._send(message)` of a session returns, or raises: the client is gone.
Accepted(s, m) ==
  /\ session' = [session EXCEPT ![s].application_state = AfterSend(@, m)]
  /\ wire' = Append(wire, m)

Connected(s) == session[s].application_state = "CONNECTED"

Fails(s, m) ==
  /\ ~client.here
  /\ session' = [session EXCEPT ![s].application_state =
                   IF Connected(s) THEN "DISCONNECTED" ELSE AfterSend(@, m)]
  /\ wire' = Append(wire, m)

ErrorOf(s) == IF Connected(s) THEN "WebSocketDisconnect" ELSE "OSError"

Refused(s, m) == m.type \notin Allowed(session[s].application_state)

-----------------------------------------------------------------------------
(* User code: the function, or a hook.                                     *)

\* The code lets e out, or catches it and goes on.
Throws(e) == Raise(e) \/ Continue

\* accept(), send_text(), close() and the like, on the session of the endpoint.
UserSends ==
  /\ UserCode
  /\ Len(wire) < MaxSend
  /\ \E m \in {Out("accept", FALSE), Out("send", FALSE), Out("close", FALSE)} :
       \/ Refused("endpoint", m) /\ Throws("RuntimeError") /\ UNCHANGED <<session, wire>>
       \/ ~Refused("endpoint", m) /\ Accepted("endpoint", m) /\ Continue
       \/ ~Refused("endpoint", m) /\ Fails("endpoint", m) /\ Throws(ErrorOf("endpoint"))
  /\ UNCHANGED <<kind, client, inbox>>

\* Mutant of MayReceive: the state is not looked at.
MayReceiveAlways == TRUE

\* receive(): the message is taken and returned, unless the state forbids it.
MayReceive == session["endpoint"].client_state \in {"CONNECTING", "CONNECTED"}

Takes(m) ==
  /\ m = Head(inbox)
  /\ inbox' = Tail(inbox)
  /\ session' = [session EXCEPT !["endpoint"].client_state = AfterReceive(@, m)]

\* receive(), or receive_text() and the like, which raise the disconnect, or accept(),
\* which begins with a receive().
UserReceives ==
  /\ UserCode
  /\ \/ /\ ~MayReceive
        /\ Throws("RuntimeError")
        /\ UNCHANGED <<session, inbox>>
     \/ /\ MayReceive /\ inbox # <<>>
        /\ Takes(Head(inbox))
        /\ Continue \/ (Head(inbox).type = "disconnect" /\ Raise("WebSocketDisconnect"))
  /\ UNCHANGED <<kind, client, wire>>

UserRaises(e) ==
  /\ UserCode
  /\ Raise(e)
  /\ UNCHANGED <<kind, session, client, inbox, wire>>

\* The server cancels the connection while the endpoint awaits something.
Cancelled ==
  /\ UserCode \/ pc = "receive"
  /\ Raise("Cancelled")
  /\ UNCHANGED <<kind, session, client, inbox, wire>>

-----------------------------------------------------------------------------
(* WebSocketEndpoint.dispatch().                                           *)

OnConnectReturns ==
  /\ pc = "on_connect"
  /\ pc' = "receive"
  /\ told' = [told EXCEPT !.connected = TRUE]
  /\ UNCHANGED <<kind, session, client, inbox, exc, close_code, ending, wire>>

\* The client's disconnect ends the loop; a code that is missing or None is 1000.
LoopEnds(m) ==
  /\ pc' = "on_disconnect"
  /\ ending' = [how |-> "client", code |-> m.code]
  /\ close_code' = IF m.code = "None" THEN "1000" ELSE m.code
  /\ told' = [told EXCEPT !.codes = Append(@, close_code')]
  /\ UNCHANGED exc

\* `message = await websocket.receive()`: data is decoded, a disconnect ends the loop,
\* a connect message that on_connect did not take is passed over.
DispatchReceives ==
  /\ pc = "receive"
  /\ \/ ~MayReceive /\ Raise("RuntimeError") /\ UNCHANGED <<session, inbox>>
     \/ /\ MayReceive /\ inbox # <<>>
        /\ LET m == Head(inbox)
           IN  /\ Takes(m)
               /\ \/ /\ m.type = "receive"
                     /\ pc' = IF m.good THEN "on_receive" ELSE "decode"
                     /\ UNCHANGED <<exc, close_code, ending, told>>
                  \/ m.type = "connect" /\ Continue
                  \/ m.type = "disconnect" /\ LoopEnds(m)
  /\ UNCHANGED <<kind, client, wire>>

\* decode(): data of the wrong kind closes the session, then raises; bytes that are
\* not UTF-8 raise at once.
DecodeRejects ==
  /\ pc = "decode"
  /\ LET m == Out("close", FALSE)
     IN  \/ Refused("endpoint", m) /\ Raise("RuntimeError") /\ UNCHANGED <<session, wire>>
         \/ ~Refused("endpoint", m) /\ Accepted("endpoint", m) /\ Raise("RuntimeError")
         \/ Raise("Other") /\ UNCHANGED <<session, wire>>
         \/ ~Refused("endpoint", m) /\ Fails("endpoint", m) /\ Raise(ErrorOf("endpoint"))
  /\ UNCHANGED <<kind, client, inbox>>

OnReceiveReturns ==
  /\ pc = "on_receive"
  /\ pc' = "receive"
  /\ UNCHANGED <<kind, session, client, inbox, exc, close_code, ending, told, wire>>

\* Mutant of OnDisconnectReturns: `return` in the finally block swallows the exception.
OnDisconnectSwallows ==
  /\ pc = "on_disconnect"
  /\ pc' = "over"
  /\ exc' = "none"
  /\ UNCHANGED <<kind, session, client, inbox, close_code, ending, told, wire>>

\* The finally block ends: the exception goes on, if there was one.
OnDisconnectReturns ==
  /\ pc = "on_disconnect"
  /\ pc' = IF exc = "none" THEN "over" ELSE "middleware"
  /\ UNCHANGED <<kind, session, client, inbox, exc, close_code, ending, told, wire>>

FunctionReturns ==
  /\ pc = "function"
  /\ pc' = "over"
  /\ UNCHANGED <<kind, session, client, inbox, exc, close_code, ending, told, wire>>

-----------------------------------------------------------------------------
(* wrapped_app(), of websocket_session() and of ExceptionMiddleware, with  *)
(* the default handlers.  response_started stays FALSE: no message of a    *)
(* WebSocket connection is an http.response.start.                         *)

\* The WebSocket object that a wrapper gives to its handlers.
SessionOf(wrapper) == IF wrapper = "route" THEN "endpoint" ELSE "middleware"

\* Where an exception goes that a wrapper does not handle, or its handler raises.
Escapes(wrapper) == IF wrapper = "route" THEN "middleware" ELSE "over"

\* No handler: HTTPException and WebSocketException have one, cancellation has none.
Unhandled(wrapper) ==
  /\ pc = wrapper
  /\ exc \notin {"HTTPException", "WebSocketException"}
  /\ pc' = Escapes(wrapper)
  /\ UNCHANGED <<kind, session, client, inbox, exc, close_code, ending, told, wire>>

\* websocket_exception(): close() on the wrapper's own session.
HandlesWebSocketException(wrapper) ==
  /\ pc = wrapper
  /\ exc = "WebSocketException"
  /\ LET s == SessionOf(wrapper)
         m == Out("close", FALSE)
     IN  \/ /\ Refused(s, m)
            /\ exc' = "RuntimeError" /\ pc' = Escapes(wrapper)
            /\ UNCHANGED <<session, wire>>
         \/ /\ ~Refused(s, m)
            /\ Accepted(s, m)
            /\ exc' = "none" /\ pc' = "over"
         \/ /\ ~Refused(s, m)
            /\ Fails(s, m)
            /\ exc' = ErrorOf(s)
            /\ pc' = Escapes(wrapper)
  /\ UNCHANGED <<kind, client, inbox, close_code, ending, told>>

\* `await send(m)` of the response to an HTTPException: the raw send(), which raises
\* when the client is gone.
SendsRaw(wrapper, m, next, e) ==
  /\ wire' = Append(wire, m)
  /\ \/ pc' = next /\ exc' = e
     \/ ~client.here /\ pc' = Escapes(wrapper) /\ exc' = "OSError"

\* http_exception() returns a response: its start,
SendsDenial(wrapper) ==
  /\ pc = wrapper
  /\ exc = "HTTPException"
  /\ SendsRaw(wrapper, Out("response.start", FALSE), "denial", exc)
  /\ UNCHANGED <<kind, session, client, inbox, close_code, ending, told>>

\* and its body.
EndsDenial ==
  /\ pc = "denial"
  /\ SendsRaw(IF kind = "class" THEN "middleware" ELSE "route", Out("response.body", FALSE),
              "over", "none")
  /\ UNCHANGED <<kind, session, client, inbox, close_code, ending, told>>

-----------------------------------------------------------------------------
Dispatch == \/ OnConnectReturns \/ DispatchReceives \/ DecodeRejects \/ OnReceiveReturns
            \/ OnDisconnectReturns
Wrapper == \/ \E w \in {"route", "middleware"} :
                Unhandled(w) \/ HandlesWebSocketException(w) \/ SendsDenial(w)
           \/ EndsDenial

Next ==
  \/ \E good \in BOOLEAN : ClientSends(good)
  \/ \E code \in Codes : ClientLeaves(code)
  \/ UserSends \/ UserReceives \/ Cancelled
  \/ \E e \in Raisable : UserRaises(e)
  \/ FunctionReturns
  \/ Dispatch
  \/ Wrapper

\* The client leaves one day, hooks return, and the event loop goes on.
Fairness ==
  /\ WF_vars(\E code \in Codes : ClientLeaves(code))
  /\ WF_vars(Dispatch)
  /\ WF_vars(Wrapper)

Spec == Init /\ [][Next]_vars /\ Fairness

-----------------------------------------------------------------------------
(* Properties.                                                             *)

Protocol == INSTANCE WebSocketProtocol WITH wire <- wire

Closed == \E i \in DOMAIN wire : wire[i].type = "close"

\* Whatever the endpoint sends, raises and catches, and whatever the handlers send
\* after it, the server sees a legal sequence of messages.  (Two exceptions: the answer
\* to an HTTPException does not go through a session at all, and the session in which
\* ExceptionMiddleware closes does not know of a close by the endpoint.)
WireInOrder ==
  [][exc # "HTTPException" /\ pc # "denial" /\ (pc = "middleware" => ~Closed)
       => Protocol!Next]_wire

\* After accept() only data and a close are sent, as send() has it: `Expected ASGI
\* message "websocket.send" or "websocket.close"'.
AcceptedStaysWebSocket ==
  \A i, j \in DOMAIN wire : i < j /\ wire[i].type = "accept" => wire[j].type \in {"send", "close"}

\* on_disconnect is called exactly once for each on_connect that returned, however the
\* connection ends, and never without one.
OnDisconnectOnce ==
  /\ Len(told.codes) <= IF told.connected THEN 1 ELSE 0
  /\ pc = "over" /\ told.connected => Len(told.codes) = 1

\* on_disconnect is told how the connection ended: 1011 after an error, the code of
\* the client, and 1000 when the client gave none.
CloseCodeTold ==
  \A i \in DOMAIN told.codes :
    /\ ending.how = "error" => told.codes[i] = "1011"
    /\ ending.how = "client" => told.codes[i] = IF ending.code = "None" THEN "1000" ELSE ending.code

\* An error of the loop is never lost: it leaves the application as an exception, or
\* the application closes or denies the connection for it.
ErrorIsShown ==
  pc = "over" /\ ending.how = "error" =>
    exc # "none" \/ (wire # <<>> /\ wire[Len(wire)].type \in {"close", "response.body"})

\* Once the client has left, on_disconnect of an established class-based session is
\* called, also when a hook was given the disconnect and dispatch() never sees it.
Disconnects == (told.connected /\ ~client.here) ~> (told.codes # <<>>)

\* How the session ended is told: on_disconnect is called once, with the right code, and an
\* error is not lost behind it.
EndingTold == TypeOK /\ OnDisconnectOnce /\ CloseCodeTold /\ ErrorIsShown

=============================================================================
