----------------------------- MODULE Application -----------------------------
(***************************************************************************)
(* All that a TestClient does with an application: its lifespan around     *)
(* the block of the client, and in the block, one after the other,         *)
(* requests that a router leads to their endpoint, requests to any ASGI    *)
(* application behind the transport of the client, and WebSocket sessions. *)
(* Lifespan and requests go through Router.app(), which tells them apart   *)
(* by scope["type"].                                                       *)
(***************************************************************************)
EXTENDS Lifespan, UrlFor, TestTransport, TestSession

CONSTANT MaxCalls    \* bound: sessions, and requests to any application

ASSUME MaxCallsAssumption == MaxCalls \in Nat

VARIABLE calling    \* how many of them there have been

clientVars == <<vars, routingVars>>
allVars == <<vars, routingVars, transportVars, sessionVars, calling>>

InitApplication == Init /\ InitRouting /\ InitTransport /\ InitSession /\ calling = 0

\* The client is in its block, and in no call.
Free == /\ client = "inside" /\ stage \in {"idle", "answered"}
        /\ exchange.state = "idle" /\ test.state = "outside"

\* The client leaves its block; what it learned of its requests is forgotten.
ClientExitsAfterRequests ==
  /\ Free
  /\ ClientExits
  /\ asked' = NoScope /\ scope' = ScopeOf(NoScope) /\ router' = top
  /\ stage' = "idle" /\ next' = 0 /\ partial' = 0 /\ answer' = "none" /\ way' = <<>> /\ hops' = 0
  /\ UNCHANGED <<top, transportVars, sessionVars, calling>>

LifespanStep ==
  /\ App \/ ClientEnters \/ ClientReceives
  /\ UNCHANGED <<routingVars, transportVars, sessionVars, calling>>

Requesting ==
  /\ client = "inside" /\ calling = 0
  /\ NextRouting
  /\ UNCHANGED <<vars, transportVars, sessionVars, calling>>

Calls == Free /\ stage = "idle" /\ calling < MaxCalls /\ calling' = calling + 1

\* handle_request() of any application.
Exchange ==
  /\ TransportStep \/ ForgetExchange
  /\ UNCHANGED <<clientVars, sessionVars, calling>>
Exchanging == Exchange \/ (Calls /\ HandleRequest /\ UNCHANGED <<clientVars, sessionVars>>)

\* websocket_connect(), and the `with` of its session.
Session ==
  /\ SessionStep \/ ForgetSession
  /\ UNCHANGED <<clientVars, transportVars, calling>>
InSession == Session \/ (Calls /\ EnterSession /\ UNCHANGED <<clientVars, transportVars>>)

\* A test that waits for an application which waits for the test.
Stuck == Starved \/ Stalled

Over == (Ended \/ (Stuck /\ UNCHANGED vars)) /\ UNCHANGED <<routingVars, transportVars, sessionVars, calling>>

NextApplication ==
  LifespanStep \/ ClientExitsAfterRequests \/ Requesting \/ Exchanging \/ InSession \/ Over

\* As in Lifespan; a router that was called looks at its routes without waiting, and what a
\* test or an application do besides waiting comes to an end.
ApplicationSpec ==
  /\ InitApplication /\ [][NextApplication]_allVars
  /\ WF_allVars(LifespanStep)
  /\ WF_allVars(ClientExitsAfterRequests)
  /\ WF_allVars(client = "inside" /\ RouterApp /\ UNCHANGED <<vars, transportVars, sessionVars, calling>>)
  /\ WF_allVars(Exchange)
  /\ WF_allVars(Session)

-----------------------------------------------------------------------------
(* Properties.                                                             *)

\* What the client is told, by handle_request() and in a session, is what the application did.
ClientTold == AnswerTrue /\ SessionTrue

\* Neither side waits for ever: whatever the client calls in its block, it gets out of it
\* and finds the lifespan task over whenever it asks for its result; but for a test that
\* receives what is never sent, and an application that waits for the client to leave
\* before it has answered.
ClientReturns ==
  (client # "outside") ~>
     ((client \in {"left", "raised", "assertion"} /\ pc = "over") \/ Stuck)

=============================================================================
