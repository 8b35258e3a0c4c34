----------------------------- MODULE TestTransport -----------------------------
(***************************************************************************)
(* One HTTP request of the TestClient: handle_request() calls the          *)
(* application in the event loop of the portal and blocks until it ends;   *)
(* its receive() and send() are the server.  The application is any: two   *)
(* tasks that receive and send in any order, whatever ASGI allows or not,  *)
(* until the call returns or raises.                                       *)
(*                                                                         *)
(* A body message is its number.  The body of the request is bytes, as     *)
(* httpx reads it before it is passed on.                                  *)
(***************************************************************************)
EXTENDS Naturals, Sequences, FiniteSets

CONSTANT MaxSends    \* bound: body messages of the application

ASSUME MaxSendsAssumption == MaxSends \in Nat

VARIABLES
  exchange,   \* the call of handle_request(): its state, its arguments, its result
  nonlocals,  \* request_complete, response_started, response_complete (is_set())
  raw,        \* raw_kwargs: the bodies in the stream, and whether it was rewound
  asgi,       \* what each task of the application does: "runs", "receives" or "over"
  failure,    \* the exception that the application raised
  told,       \* history: the tasks that were told of the disconnect
  refused,    \* history: send() raised an AssertionError
  wire        \* history: the messages that send() accepted

transportVars == <<exchange, nonlocals, raw, asgi, failure, told, refused, wire>>

AppTasks == {"main", "other"}
Idle == [state |-> "idle", head |-> FALSE, raises |-> TRUE, content |-> <<>>, error |-> "none"]

TransportTypeOK ==
  /\ exchange \in [state : {"idle", "running", "returned", "raised"}, head : BOOLEAN,
                   raises : BOOLEAN, content : Seq(1..MaxSends),
                   error : {"none", "user", "assertion", "500"}]
  /\ nonlocals \in [request_complete : BOOLEAN, response_started : BOOLEAN,
                    response_complete : BOOLEAN]
  /\ raw \in [stream : Seq(1..MaxSends), rewound : BOOLEAN]
  /\ asgi \in [AppTasks -> {"runs", "receives", "over"}]
  /\ failure \in {"none", "user", "assertion"}
  /\ told \subseteq AppTasks /\ refused \in BOOLEAN
  /\ wire \in Seq([type : {"start", "body"}, more_body : BOOLEAN])

NotYet == [request_complete |-> FALSE, response_started |-> FALSE, response_complete |-> FALSE]
Ready == [t \in AppTasks |-> "runs"]

InitTransport ==
  /\ exchange = Idle /\ nonlocals = NotYet /\ asgi = Ready
  /\ raw = [stream |-> <<>>, rewound |-> FALSE]
  /\ failure = "none" /\ told = {} /\ refused = FALSE /\ wire = <<>>

-----------------------------------------------------------------------------
\* handle_request(): the application is called with receive() and send() of its own.
HandleRequest ==
  /\ exchange.state = "idle"
  /\ \E head, raises \in BOOLEAN :
       exchange' = [exchange EXCEPT !.state = "running", !.head = head, !.raises = raises]
  /\ UNCHANGED <<nonlocals, raw, asgi, failure, told, refused, wire>>

Runs(t) == exchange.state = "running" /\ asgi[t] = "runs"

(* receive().                                                              *)

\* The body of the request, in one message.
ReceiveBody(t) ==
  /\ Runs(t) /\ ~nonlocals.request_complete
  /\ nonlocals' = [nonlocals EXCEPT !.request_complete = TRUE]
  /\ UNCHANGED <<exchange, raw, asgi, failure, told, refused, wire>>

\* Then the disconnect, for which a task waits until the response is complete.  (Bound: a
\* task that was told of it does not ask again.)
ReceiveLater(t) ==
  /\ Runs(t) /\ nonlocals.request_complete
  /\ t \notin told
  /\ asgi' = [asgi EXCEPT ![t] = "receives"]
  /\ UNCHANGED <<exchange, nonlocals, raw, failure, told, refused, wire>>

ReceiveDisconnect(t) ==
  /\ exchange.state = "running" /\ asgi[t] = "receives"
  /\ nonlocals.response_complete
  /\ asgi' = [asgi EXCEPT ![t] = "runs"]
  /\ told' = told \union {t}
  /\ UNCHANGED <<exchange, nonlocals, raw, failure, refused, wire>>

(* send().                                                                 *)

Takes(m) == wire' = Append(wire, m)

SendResponseStart(t) ==
  /\ Runs(t) /\ ~nonlocals.response_started
  /\ nonlocals' = [nonlocals EXCEPT !.response_started = TRUE]
  /\ Takes([type |-> "start", more_body |-> TRUE])
  /\ UNCHANGED <<exchange, raw, asgi, failure, told, refused>>

\* Mutant of BodyAllowed: that the response is complete is not looked at.
BodyAllowedStarted == nonlocals.response_started

BodyAllowed == nonlocals.response_started /\ ~nonlocals.response_complete

Bodies == Cardinality({i \in DOMAIN wire : wire[i].type = "body"})

\* The last body rewinds the stream and wakes the tasks that wait for the disconnect.
SendResponseBody(t, more) ==
  /\ Runs(t) /\ BodyAllowed
  /\ Bodies < MaxSends
  /\ raw' = [stream |-> IF exchange.head THEN raw.stream ELSE Append(raw.stream, Bodies + 1),
             rewound |-> ~more]
  /\ nonlocals' = [nonlocals EXCEPT !.response_complete = ~more]
  /\ Takes([type |-> "body", more_body |-> more])
  /\ UNCHANGED <<exchange, asgi, failure, told, refused>>

\* The assertions: an AssertionError in the task that sends, which may catch it.
Refuse(t) ==
  /\ Runs(t)
  /\ nonlocals.response_started \/ ~BodyAllowed
  /\ refused' = TRUE
  /\ UNCHANGED <<exchange, nonlocals, raw, asgi, failure, told, wire>>

(* The end of the application, and the result.                             *)

\* The call returns or raises; what else the application runs has ended with it.
AppEnds(err) ==
  /\ Runs("main")
  /\ err = "assertion" => refused
  /\ failure' = err
  /\ asgi' = [t \in AppTasks |-> "over"]
  /\ UNCHANGED <<exchange, nonlocals, raw, told, refused, wire>>

Raise(err) == exchange' = [exchange EXCEPT !.state = "raised", !.error = err]

\* `raw_kwargs["stream"].read()`: nothing, when the stream was not rewound.
Content == IF raw.rewound THEN raw.stream ELSE <<>>

\* The exception of the application; "TestClient did not receive any response."; a 500
\* without a body; or the response as far as it was sent.
Result ==
  /\ exchange.state = "running" /\ asgi["main"] = "over"
  /\ IF exchange.raises /\ failure # "none" THEN Raise(failure)
     ELSE IF exchange.raises /\ ~nonlocals.response_started THEN Raise("assertion")
     ELSE exchange' = [exchange EXCEPT !.state = "returned", !.content = Content,
                         !.error = IF nonlocals.response_started THEN "none" ELSE "500"]
  /\ UNCHANGED <<nonlocals, raw, asgi, failure, told, refused, wire>>

\* The test goes on, and forgets the response.
ForgetExchange ==
  /\ exchange.state \in {"returned", "raised"}
  /\ exchange' = Idle /\ nonlocals' = NotYet /\ asgi' = Ready
  /\ raw' = [stream |-> <<>>, rewound |-> FALSE]
  /\ failure' = "none" /\ told' = {} /\ refused' = FALSE /\ wire' = <<>>

TransportStep ==
  \/ \E t \in AppTasks :
       \/ ReceiveBody(t) \/ ReceiveLater(t) \/ ReceiveDisconnect(t)
       \/ SendResponseStart(t) \/ Refuse(t)
       \/ \E more \in BOOLEAN : SendResponseBody(t, more)
  \/ \E err \in {"none", "user", "assertion"} : AppEnds(err)
  \/ Result

NextTransport == HandleRequest \/ TransportStep \/ ForgetExchange

\* The application waits for a disconnect that only the end of its response would bring:
\* handle_request() has no timeout.
Starved ==
  exchange.state = "running" /\ ~nonlocals.response_complete /\ \A t \in AppTasks : asgi[t] = "receives"

-----------------------------------------------------------------------------
(* Properties.                                                             *)

Http == INSTANCE ResponseProtocol WITH wire <- wire

\* Whatever an application sends, in whatever order and from whichever task: what the
\* client takes is one response in order, and the rest is an error in the application.
AcceptedInOrder == [][ForgetExchange \/ Http!Next]_wire

\* The client is given the whole body of a complete response, in order, and none of one
\* that was cut off; HEAD has none.
ContentWhole ==
  exchange.state = "returned" =>
    exchange.content = IF Http!Complete /\ ~exchange.head THEN [i \in 1..Bodies |-> i] ELSE <<>>

\* An exception of the application reaches a client that asks for them, started response or
\* not; no other client gets an exception, and a client that gets a response without an
\* error has one that the application started.
FailureTold ==
  /\ exchange.state = "raised" =>
       exchange.raises /\ (failure # "none" => exchange.error = failure)
  /\ exchange.state = "returned" /\ exchange.raises => failure = "none"
  /\ exchange.state = "returned" /\ exchange.error = "none" => wire # <<>>

\* No task is told of a disconnect before the response is complete.
DisconnectLast == told # {} => Http!Complete

\* The answer of handle_request() is what the application did.
AnswerTrue == TransportTypeOK /\ ContentWhole /\ FailureTold /\ DisconnectLast

=============================================================================
