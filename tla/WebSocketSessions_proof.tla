----------------------- MODULE WebSocketSessions_proof -----------------------
(***************************************************************************)
(* Theorems about the two users of a WebSocket.  For any client, any user  *)
(* code and any number of messages: how the session of an endpoint ended   *)
(* is told once and truly, and errors are shown.  For every set of tasks   *)
(* and every interleaving: the session is silent once the client is known  *)
(* to be gone, and loses no message while one task at a time does the      *)
(* handshake.  For both: what is sent is in protocol order.                *)
(***************************************************************************)
EXTENDS WebSocketSessions, TLAPS

(* The endpoint. *)

\* Where the connection is, what has been raised, and what on_disconnect was told.
ControlInv ==
  /\ kind = "function" =>
       /\ pc \in {"function", "route", "middleware", "denial", "over"}
       /\ ~told.connected
       /\ pc = "middleware" => exc \notin {"HTTPException", "WebSocketException"}
  /\ kind = "class" => pc \notin {"function", "route"}
  /\ pc \in {"function", "on_connect", "receive", "decode", "on_receive"} =>
       exc = "none" /\ told.codes = <<>>
  /\ pc \in {"route", "middleware", "denial"} => exc # "none"
  /\ pc = "on_connect" => ~told.connected
  /\ pc \in {"receive", "decode", "on_receive", "on_disconnect"} => told.connected
  /\ pc = "on_disconnect" => (exc = "none" <=> ending.how = "client")
  /\ pc \in {"on_disconnect", "route", "middleware", "denial", "over"} =>
       Len(told.codes) = IF told.connected THEN 1 ELSE 0
  /\ told.codes = <<>> <=> ending.how = "none"

\* The endpoint's WebSocket object agrees with what was sent.
EndpointInv ==
  LET state == session["endpoint"].application_state
  IN  /\ state = "CONNECTING" => wire = <<>>
      /\ state = "CONNECTED" => Protocol!Accepted
      /\ state = "DISCONNECTED" => Protocol!Accepted \/ Closed
      /\ state # "RESPONSE"

\* It does until a wrapper has answered; ExceptionMiddleware uses its own object once.
BeforeAnswer == pc \notin {"denial", "over"} /\ (pc = "middleware" => kind = "class")
SentInv ==
  /\ pc # "over" => session["middleware"].application_state = "CONNECTING"
  /\ BeforeAnswer => EndpointInv

\* The inductive invariant.
IInv == TypeOK /\ ControlInv /\ SentInv /\ CloseCodeTold /\ ErrorIsShown

\* What WireInOrder asks of a step.
WireStep ==
  exc # "HTTPException" /\ pc # "denial" /\ (pc = "middleware" => ~Closed) =>
    Protocol!Next \/ wire' = wire

-----------------------------------------------------------------------------
(* The types, by what changes together.                                    *)

Pcs == {"function", "on_connect", "receive", "decode", "on_receive", "on_disconnect",
        "route", "middleware", "denial", "over"}
ControlTypeOK ==
  /\ kind \in Kinds /\ Kinds \subseteq {"function", "class"}
  /\ pc \in Pcs
  /\ exc \in Exceptions \union {"none"}
  /\ close_code \in (Codes \ {"None"}) \union {"1000", "1011"}
  /\ ending \in [how : {"none", "client", "error", "cancelled"}, code : Codes \union {"None"}]
  /\ told \in [connected : BOOLEAN, codes : Seq(Codes \union {"1000", "1011"})]
SentTypeOK ==
  /\ session \in [Sessions -> [client_state : States, application_state : States]]
  /\ wire \in Seq(OutMessage)
ClientTypeOK ==
  /\ client \in [sent : 0..MaxReceive, here : BOOLEAN]
  /\ inbox \in Seq(InMessage)

LEMMA Types ==
  /\ TypeOK <=> ControlTypeOK /\ SentTypeOK /\ ClientTypeOK
  /\ TypeOK' <=> ControlTypeOK' /\ SentTypeOK' /\ ClientTypeOK'
BY KindsAssumption DEF TypeOK, ControlTypeOK, SentTypeOK, ClientTypeOK, Pcs

LEMMA InTypes ==
  \A type \in {"connect", "receive", "disconnect"}, good \in BOOLEAN, code \in Codes \union {"None"} :
    In(type, good, code) \in InMessage
BY DEF In, InMessage

LEMMA OutTypes ==
  \A type \in {"accept", "send", "close", "response.start", "response.body"} :
    /\ Out(type, FALSE) \in OutMessage
    /\ Out(type, FALSE).type = type /\ Out(type, FALSE).more_body = FALSE
BY DEF Out, OutMessage

-----------------------------------------------------------------------------
(* Control.                                                                *)

\* The part of the invariant that neither the sessions nor the server are in.
Control == ControlTypeOK /\ ControlInv /\ CloseCodeTold

\* An exception leaves the code that runs.
LEMMA Raised ==
  ASSUME Control, NEW e \in Exceptions, Raise(e), UNCHANGED kind,
         UserCode \/ pc \in {"receive", "decode"}
  PROVE  /\ Control'
         /\ exc' = e
         /\ pc' \in {"on_disconnect", "route", "middleware"}
         /\ pc' = "middleware" => kind = "class"
<1>0. /\ ControlTypeOK /\ ControlInv /\ CloseCodeTold
      /\ told.connected \in BOOLEAN /\ told.codes \in Seq(Codes \union {"1000", "1011"})
      /\ e # "none"
  BY DEF Control, ControlTypeOK, Exceptions, UserExceptions
<1>1. CASE pc \in {"receive", "decode", "on_receive"}
  <2>1. Outside = "on_disconnect"
    BY <1>1 DEF Outside
  <2>2. /\ exc' = e /\ pc' = "on_disconnect"
        /\ ending' = [ending EXCEPT !.how = IF e = "Cancelled" THEN "cancelled" ELSE "error"]
        /\ close_code' = IF e = "Cancelled" THEN close_code ELSE "1011"
        /\ told' = [told EXCEPT !.codes = Append(@, close_code')]
    BY <2>1 DEF Raise
  <2>3. told.codes = <<>> /\ told.connected /\ kind = "class"
    BY <1>0, <1>1 DEF ControlInv, ControlTypeOK
  <2>4. close_code' \in (Codes \ {"None"}) \union {"1000", "1011"}
    BY <1>0, <2>2 DEF ControlTypeOK
  <2>5. /\ told'.codes = <<close_code'>>
        /\ told'.connected
        /\ told' \in [connected : BOOLEAN, codes : Seq(Codes \union {"1000", "1011"})]
    <3>1. Append(told.codes, close_code') = <<close_code'>>
      BY <2>3
    <3>2. <<close_code'>> \in Seq(Codes \union {"1000", "1011"})
      BY <2>4
    <3>3. QED
      BY <1>0, <2>2, <2>3, <3>1, <3>2 DEF ControlTypeOK
  <2>6. /\ ending'.how = IF e = "Cancelled" THEN "cancelled" ELSE "error"
        /\ ending' \in [how : {"none", "client", "error", "cancelled"}, code : Codes \union {"None"}]
    BY <1>0, <2>2 DEF ControlTypeOK
  <2>7. ControlTypeOK'
    BY <1>0, <2>2, <2>4, <2>5, <2>6 DEF ControlTypeOK, Pcs
  <2>8. Len(told'.codes) = 1 /\ told'.codes # <<>>
    BY <2>5
  <2>9. ControlInv'
    BY <1>0, <2>2, <2>3, <2>5, <2>6, <2>8 DEF ControlInv
  <2>10. CloseCodeTold'
    BY <2>2, <2>5, <2>6 DEF CloseCodeTold
  <2>11. QED
    BY <2>2, <2>7, <2>9, <2>10 DEF Control
<1>2. CASE pc \in {"function", "on_connect", "on_disconnect"}
  <2>1. Outside = IF pc = "function" THEN "route" ELSE "middleware"
    BY <1>2 DEF Outside
  <2>2. /\ exc' = e /\ pc' = IF pc = "function" THEN "route" ELSE "middleware"
        /\ UNCHANGED <<close_code, ending, told>>
    BY <1>2, <2>1 DEF Raise
  <2>3. Len(<<>>) = 0
    OBVIOUS
  <2>4. ControlTypeOK' /\ CloseCodeTold'
    BY <1>0, <2>2 DEF ControlTypeOK, Pcs, CloseCodeTold
  <2>5. kind = "class" <=> pc # "function"
    BY <1>0, <1>2 DEF ControlTypeOK, ControlInv
  <2>6. Len(told.codes) = IF told.connected THEN 1 ELSE 0
    BY <1>0, <1>2, <2>3, <2>5 DEF ControlTypeOK, ControlInv
  <2>7. ControlInv'
    BY <1>0, <1>2, <2>2, <2>5, <2>6 DEF ControlInv, ControlTypeOK
  <2>8. QED
    BY <2>2, <2>4, <2>5, <2>7 DEF Control
<1>3. QED
  BY <1>1, <1>2 DEF UserCode, Hooks

\* Control stays where it is, or goes on without an exception.
LEMMA Unmoved ==
  ASSUME Control, Continue, UNCHANGED kind
  PROVE  Control'
BY DEF Control, ControlTypeOK, ControlInv, CloseCodeTold, Continue

-----------------------------------------------------------------------------
(* What is sent.                                                           *)

Last(s) == s[Len(s)]

\* A message that is sent after those of the wire, or first.
LEMMA OneMore ==
  ASSUME NEW m \in OutMessage, wire \in Seq(OutMessage), wire' = Append(wire, m)
  PROVE  /\ wire' \in Seq(OutMessage) /\ wire' # <<>> /\ wire'[Len(wire')] = m
         /\ Protocol!Sends({m.type})
         /\ m.type = "close" => Closed'
         /\ m.type \in {"accept", "send"} => Protocol!Accepted'
<1>1. /\ wire' \in Seq(OutMessage) /\ Len(wire') = Len(wire) + 1
      /\ wire'[Len(wire) + 1] = m /\ Len(wire) + 1 \in DOMAIN wire'
  OBVIOUS
<1>2. wire' # <<>>
  <2>1. wire' = <<>> => Len(wire') = 0
    OBVIOUS
  <2>2. QED
    BY <1>1, <2>1
<1>3. QED
  BY <1>1, <1>2 DEF Protocol!Sends, Protocol!Accepted, Protocol!LastIs, Closed

\* The session of the endpoint lets through what the protocol allows.
LEMMA InOrder ==
  ASSUME SentTypeOK, EndpointInv,
         NEW type \in {"accept", "send", "close"}, NEW m, m = Out(type, FALSE),
         ~Refused("endpoint", m), wire' = Append(wire, m)
  PROVE  Protocol!Next
<1> DEFINE state == session["endpoint"].application_state
<1>1. wire \in Seq(OutMessage) /\ state \in States /\ m \in OutMessage /\ m.type = type
  BY OutTypes DEF SentTypeOK, Sessions
<1>2. type \in Allowed(state)
  BY <1>1 DEF Refused
<1>3. Protocol!Sends({type})
  BY <1>1, OneMore
<1>4. CASE state = "CONNECTING"
  BY <1>2, <1>3, <1>4 DEF Allowed, EndpointInv, Protocol!Next, Protocol!Answer, Protocol!Sends
<1>5. CASE state = "CONNECTED"
  BY <1>2, <1>3, <1>5 DEF Allowed, EndpointInv, Protocol!Next, Protocol!Data, Protocol!Sends
<1>6. CASE state \in {"DISCONNECTED", "RESPONSE"}
  BY <1>2, <1>6 DEF Allowed, EndpointInv
<1>7. QED
  BY <1>1, <1>4, <1>5, <1>6 DEF States

\* An application_state of a session is assigned.
LEMMA Assigned ==
  ASSUME session \in [Sessions -> [client_state : States, application_state : States]],
         NEW s \in Sessions, NEW state \in States,
         session' = [session EXCEPT ![s].application_state = state]
  PROVE  /\ session' \in [Sessions -> [client_state : States, application_state : States]]
         /\ session'[s].application_state = state
         /\ \A t \in Sessions \ {s} : session'[t] = session[t]
BY DEF Sessions

\* Whether the server takes it or the client is gone, the session then agrees with the wire.
LEMMA EndpointSends ==
  ASSUME SentTypeOK, EndpointInv,
         NEW type \in {"accept", "send", "close"}, NEW m, m = Out(type, FALSE),
         ~Refused("endpoint", m), Accepted("endpoint", m) \/ Fails("endpoint", m)
  PROVE  /\ SentTypeOK' /\ EndpointInv'
         /\ Protocol!Next
         /\ session'["middleware"] = session["middleware"]
<1> DEFINE state == session["endpoint"].application_state
<1>1. /\ wire \in Seq(OutMessage) /\ state \in States /\ m \in OutMessage /\ m.type = type
      /\ session \in [Sessions -> [client_state : States, application_state : States]]
      /\ "endpoint" \in Sessions /\ "middleware" \in Sessions
  BY OutTypes DEF SentTypeOK, Sessions
<1>2. /\ wire' = Append(wire, m)
      /\ \/ session' = [session EXCEPT !["endpoint"].application_state = AfterSend(state, m)]
         \/ /\ state = "CONNECTED"
            /\ session' = [session EXCEPT !["endpoint"].application_state = "DISCONNECTED"]
  BY <1>1 DEF Accepted, Fails, Connected
<1>3. /\ type = "accept" => AfterSend(state, m) = "CONNECTED"
      /\ type = "close" => AfterSend(state, m) = "DISCONNECTED"
      /\ type = "send" => AfterSend(state, m) = state
  BY <1>1 DEF AfterSend
<1>4. type \in Allowed(state) /\ state # "RESPONSE"
  BY <1>1 DEF Refused, EndpointInv
<1>5. /\ state = "CONNECTED" => type \in {"send", "close"}
      /\ state = "CONNECTING" => type \in {"accept", "close"}
      /\ state \in {"CONNECTED", "CONNECTING"}
  BY <1>1, <1>4 DEF Allowed, States
<1>6. PICK next \in {"CONNECTED", "DISCONNECTED"} :
        /\ session' = [session EXCEPT !["endpoint"].application_state = next]
        /\ next = "CONNECTED" => type \in {"accept", "send"}
  BY <1>2, <1>3, <1>5
<1>7. /\ session' \in [Sessions -> [client_state : States, application_state : States]]
      /\ session'["endpoint"].application_state = next
      /\ session'["middleware"] = session["middleware"]
  BY <1>1, <1>6, Assigned DEF States
<1>8. wire' \in Seq(OutMessage) /\ (type = "close" => Closed')
      /\ (type \in {"accept", "send"} => Protocol!Accepted')
  BY <1>1, <1>2, OneMore
<1>9. Protocol!Next
  BY <1>2, InOrder
<1>10. EndpointInv'
  BY <1>6, <1>7, <1>8 DEF EndpointInv
<1>11. QED
  BY <1>7, <1>8, <1>9, <1>10 DEF SentTypeOK

-----------------------------------------------------------------------------
(* The actions.                                                            *)

\* What a step of the endpoint has to show.
LEMMA Kept ==
  ASSUME IInv, Control', SentTypeOK', ClientTypeOK', pc' # "over", pc # "over",
         session'["middleware"] = session["middleware"], BeforeAnswer' => EndpointInv'
  PROVE  IInv'
BY Types DEF IInv, Control, SentInv, ErrorIsShown

\* The conjuncts of the invariant.
LEMMA Parts ==
  ASSUME IInv
  PROVE  /\ Control /\ SentTypeOK /\ ClientTypeOK
         /\ BeforeAnswer => EndpointInv
         /\ pc # "over" => session["middleware"].application_state = "CONNECTING"
BY Types DEF IInv, Control, SentInv

\* The endpoint and its code run before any wrapper.
LEMMA InEndpoint ==
  ASSUME pc \in {"function", "on_connect", "receive", "decode", "on_receive", "on_disconnect", "route"}
  PROVE  BeforeAnswer /\ pc # "over"
BY DEF BeforeAnswer

\* Nothing is sent, and no application_state moves.
LEMMA Silent ==
  ASSUME EndpointInv, wire' = wire,
         session'["endpoint"].application_state = session["endpoint"].application_state
  PROVE  EndpointInv' /\ WireStep
BY DEF EndpointInv, Protocol!Accepted, Protocol!LastIs, Closed, WireStep

\* A message is taken.
LEMMA Taken ==
  ASSUME SentTypeOK, ClientTypeOK, inbox # <<>>, Takes(Head(inbox)), UNCHANGED <<client, wire>>
  PROVE  /\ SentTypeOK' /\ ClientTypeOK'
         /\ \A s \in Sessions : session'[s].application_state = session[s].application_state
         /\ session'["middleware"] = session["middleware"]
         /\ Head(inbox) \in InMessage
<1>1. /\ inbox \in Seq(InMessage) /\ wire \in Seq(OutMessage)
      /\ client \in [sent : 0..MaxReceive, here : BOOLEAN]
      /\ session \in [Sessions -> [client_state : States, application_state : States]]
      /\ "endpoint" \in Sessions /\ "middleware" \in Sessions
  BY DEF SentTypeOK, ClientTypeOK, Sessions
<1>2. Head(inbox) \in InMessage /\ Tail(inbox) \in Seq(InMessage)
  BY <1>1
<1>3. Head(inbox).type \in {"connect", "receive", "disconnect"}
  BY <1>2 DEF InMessage
<1>4. /\ inbox' = Tail(inbox)
      /\ session' = [session EXCEPT !["endpoint"].client_state =
                       AfterReceive(session["endpoint"].client_state, Head(inbox))]
  BY DEF Takes
<1>5. AfterReceive(session["endpoint"].client_state, Head(inbox)) \in States
  BY <1>1, <1>3 DEF AfterReceive, States
<1>6. /\ session' \in [Sessions -> [client_state : States, application_state : States]]
      /\ \A s \in Sessions : session'[s].application_state = session[s].application_state
      /\ session'["middleware"] = session["middleware"]
  BY <1>1, <1>4, <1>5
<1>7. QED
  BY <1>1, <1>2, <1>4, <1>6 DEF SentTypeOK, ClientTypeOK

\* An exception that leaves what the endpoint has sent as it should be.
LEMMA RaisedKept ==
  ASSUME IInv, NEW e \in Exceptions, Raise(e), UNCHANGED kind,
         UserCode \/ pc \in {"receive", "decode"},
         SentTypeOK', ClientTypeOK', EndpointInv', session'["middleware"] = session["middleware"]
  PROVE  IInv'
<1>1. Control /\ pc # "over"
  BY Parts DEF UserCode, Hooks
<1>2. Control' /\ pc' # "over"
  BY <1>1, Raised
<1>3. QED
  BY <1>1, <1>2, Kept

\* Or no exception.
LEMMA ContinueKept ==
  ASSUME IInv, Continue, UNCHANGED kind, pc # "over",
         SentTypeOK', ClientTypeOK', EndpointInv', session'["middleware"] = session["middleware"]
  PROVE  IInv'
<1>1. Control
  BY Parts
<1>2. Control' /\ pc' # "over"
  BY <1>1, Unmoved DEF Continue
<1>3. QED
  BY <1>2, Kept

\* The client moves.
LEMMA OfClient ==
  ASSUME IInv, (\E good \in BOOLEAN : ClientSends(good)) \/ (\E code \in Codes : ClientLeaves(code))
  PROVE  IInv' /\ WireStep
<1>1. /\ Control /\ SentTypeOK /\ ClientTypeOK
      /\ client \in [sent : 0..MaxReceive, here : BOOLEAN] /\ inbox \in Seq(InMessage)
  BY Parts DEF ClientTypeOK
<1>2. UNCHANGED <<kind, session, pc, exc, close_code, ending, told, wire>>
  BY DEF ClientSends, ClientLeaves
<1>3. ClientTypeOK'
  <2>1. CASE \E good \in BOOLEAN : ClientSends(good)
    <3>1. PICK good \in BOOLEAN : ClientSends(good)
      BY <2>1
    <3>2. In("receive", good, "None") \in InMessage
      BY InTypes
    <3>3. inbox' \in Seq(InMessage)
      BY <1>1, <3>1, <3>2 DEF ClientSends
    <3>4. client' \in [sent : 0..MaxReceive, here : BOOLEAN]
      BY <1>1, <3>1, MaxAssumption DEF ClientSends
    <3>5. QED
      BY <3>3, <3>4 DEF ClientTypeOK
  <2>2. CASE \E code \in Codes : ClientLeaves(code)
    <3>1. PICK c \in Codes : ClientLeaves(c)
      BY <2>2
    <3>2. \E m \in InMessage : inbox' = Append(inbox, m)
      BY <3>1, InTypes, Zenon DEF ClientLeaves
    <3>3. inbox' \in Seq(InMessage)
      BY <1>1, <3>2
    <3>4. client' \in [sent : 0..MaxReceive, here : BOOLEAN]
      BY <1>1, <3>1 DEF ClientLeaves
    <3>5. QED
      BY <3>3, <3>4 DEF ClientTypeOK
  <2>3. QED
    BY <2>1, <2>2
<1>4. Control' /\ SentTypeOK'
  BY <1>1, <1>2 DEF Control, ControlTypeOK, ControlInv, CloseCodeTold, SentTypeOK
<1>5. SentInv' /\ ErrorIsShown'
  BY <1>2 DEF IInv, SentInv, ErrorIsShown, BeforeAnswer, EndpointInv, Protocol!Accepted,
              Protocol!LastIs, Closed
<1>6. IInv'
  BY <1>3, <1>4, <1>5, Types DEF IInv, Control
<1>7. QED
  BY <1>2, <1>6 DEF WireStep

\* User code sends.
LEMMA OfUserSends ==
  ASSUME IInv, UserSends
  PROVE  IInv' /\ WireStep
<1>1. /\ UserCode /\ UNCHANGED kind /\ pc # "over"
      /\ Control /\ SentTypeOK /\ ClientTypeOK /\ EndpointInv
  BY Parts, InEndpoint DEF UserSends, UserCode, Hooks
<1>2. ClientTypeOK'
  BY <1>1 DEF UserSends, ClientTypeOK
<1>3. PICK type \in {"accept", "send", "close"} :
        LET m == Out(type, FALSE)
        IN  \/ /\ Refused("endpoint", m) /\ UNCHANGED <<session, wire>>
               /\ Continue \/ \E e \in Exceptions : Raise(e)
            \/ /\ ~Refused("endpoint", m) /\ (Accepted("endpoint", m) \/ Fails("endpoint", m))
               /\ Continue \/ \E e \in Exceptions : Raise(e)
  BY DEF UserSends, Throws, ErrorOf, Exceptions
<1> DEFINE m == Out(type, FALSE)
<1>4. CASE Refused("endpoint", m) /\ UNCHANGED <<session, wire>>
           /\ (Continue \/ \E e \in Exceptions : Raise(e))
  <2>1. SentTypeOK' /\ EndpointInv' /\ WireStep
    BY <1>1, <1>4, Silent DEF SentTypeOK
  <2>2. QED
    BY <1>1, <1>2, <1>4, <2>1, RaisedKept, ContinueKept
<1>5. CASE ~Refused("endpoint", m) /\ (Accepted("endpoint", m) \/ Fails("endpoint", m))
           /\ (Continue \/ \E e \in Exceptions : Raise(e))
  <2>1. /\ SentTypeOK' /\ EndpointInv' /\ Protocol!Next
        /\ session'["middleware"] = session["middleware"]
    BY <1>1, <1>5, EndpointSends
  <2>2. QED
    BY <1>1, <1>2, <1>5, <2>1, RaisedKept, ContinueKept DEF WireStep
<1>6. QED
  BY <1>3, <1>4, <1>5

\* User code receives, is cancelled or raises.
LEMMA OfUserReceives ==
  ASSUME IInv, UserReceives \/ Cancelled \/ (\E e \in Raisable : UserRaises(e))
  PROVE  IInv' /\ WireStep
<1>1. /\ UserCode \/ pc = "receive"
      /\ pc # "over" /\ UNCHANGED <<kind, client, wire>>
      /\ Control /\ SentTypeOK /\ ClientTypeOK /\ EndpointInv
  BY Parts, InEndpoint DEF UserReceives, Cancelled, UserRaises, UserCode, Hooks
<1>2. ASSUME NEW e \in Exceptions, Raise(e), UNCHANGED <<session, inbox>>
      PROVE  IInv' /\ WireStep
  <2>1. SentTypeOK' /\ ClientTypeOK' /\ EndpointInv' /\ WireStep
    BY <1>1, <1>2, Silent DEF SentTypeOK, ClientTypeOK
  <2>2. QED
    BY <1>1, <1>2, <2>1, RaisedKept
<1>3. CASE UserReceives
  <2>1. CASE Throws("RuntimeError") /\ UNCHANGED <<session, inbox>>
    <3>1. CASE Raise("RuntimeError")
      BY <1>2, <2>1, <3>1 DEF Exceptions
    <3>2. CASE Continue
      <4>1. SentTypeOK' /\ ClientTypeOK' /\ EndpointInv' /\ WireStep
        BY <1>1, <2>1, Silent DEF SentTypeOK, ClientTypeOK
      <4>2. QED
        BY <1>1, <2>1, <3>2, <4>1, ContinueKept
    <3>3. QED
      BY <2>1, <3>1, <3>2 DEF Throws
  <2>2. CASE /\ inbox # <<>>
             /\ Takes(Head(inbox))
             /\ Continue \/ Raise("WebSocketDisconnect")
    <3>1. /\ SentTypeOK' /\ ClientTypeOK'
          /\ session'["endpoint"].application_state = session["endpoint"].application_state
          /\ session'["middleware"] = session["middleware"]
      BY <1>1, <2>2, Taken DEF Sessions
    <3>2. EndpointInv' /\ WireStep
      BY <1>1, <3>1, Silent
    <3>3. CASE Continue
      BY <1>1, <3>1, <3>2, <3>3, ContinueKept
    <3>4. CASE Raise("WebSocketDisconnect")
      <4>1. "WebSocketDisconnect" \in Exceptions
        BY DEF Exceptions
      <4>2. QED
        BY <1>1, <3>1, <3>2, <3>4, <4>1, RaisedKept
    <3>5. QED
      BY <2>2, <3>3, <3>4
  <2>3. QED
    BY <1>3, <2>1, <2>2 DEF UserReceives
<1>4. CASE Cancelled
  BY <1>2, <1>4 DEF Cancelled, Exceptions
<1>5. CASE \E e \in Raisable : UserRaises(e)
  BY <1>2, <1>5, RaisableAssumption DEF UserRaises, Exceptions
<1>6. QED
  BY <1>3, <1>4, <1>5

\* The client's disconnect ends the loop.
LEMMA LoopEnded ==
  ASSUME Control, pc = "receive", NEW m \in InMessage, LoopEnds(m), UNCHANGED kind
  PROVE  Control' /\ pc' = "on_disconnect"
<1>1. /\ ControlTypeOK /\ ControlInv
      /\ told.connected \in BOOLEAN /\ told.codes \in Seq(Codes \union {"1000", "1011"})
      /\ m.code \in Codes \union {"None"}
  BY DEF Control, ControlTypeOK, InMessage
<1>2. /\ pc' = "on_disconnect" /\ exc' = exc /\ kind' = kind
      /\ ending' = [how |-> "client", code |-> m.code]
      /\ close_code' = IF m.code = "None" THEN "1000" ELSE m.code
      /\ told' = [told EXCEPT !.codes = Append(@, close_code')]
  BY DEF LoopEnds
<1>3. told.codes = <<>> /\ told.connected /\ kind = "class" /\ exc = "none"
  BY <1>1 DEF ControlInv, ControlTypeOK
<1>4. close_code' \in (Codes \ {"None"}) \union {"1000", "1011"}
  BY <1>1, <1>2
<1>5. /\ told'.codes = <<close_code'>> /\ told'.connected
      /\ told' \in [connected : BOOLEAN, codes : Seq(Codes \union {"1000", "1011"})]
  <2>1. Append(told.codes, close_code') = <<close_code'>>
    BY <1>3
  <2>2. <<close_code'>> \in Seq(Codes \union {"1000", "1011"})
    BY <1>4
  <2>3. QED
    BY <1>1, <1>2, <1>3, <2>1, <2>2 DEF ControlTypeOK
<1>6. /\ ending'.how = "client" /\ ending'.code = m.code
      /\ ending' \in [how : {"none", "client", "error", "cancelled"}, code : Codes \union {"None"}]
  BY <1>1, <1>2
<1>7. ControlTypeOK'
  BY <1>1, <1>2, <1>4, <1>5, <1>6 DEF ControlTypeOK, Pcs
<1>8. Len(told'.codes) = 1 /\ told'.codes # <<>>
  BY <1>5
<1>9. ControlInv'
  BY <1>2, <1>3, <1>5, <1>6, <1>8 DEF ControlInv
<1>10. CloseCodeTold'
  BY <1>2, <1>5, <1>6 DEF CloseCodeTold
<1>11. QED
  BY <1>2, <1>7, <1>9, <1>10 DEF Control

\* The loop of dispatch() goes on, or the function returns.
LEMMA Resumed ==
  ASSUME Control, UNCHANGED <<kind, exc, close_code, ending>>,
         \/ /\ pc = "on_connect" /\ pc' = "receive"
            /\ told' = [told EXCEPT !.connected = TRUE]
         \/ /\ pc = "receive" /\ pc' \in {"on_receive", "decode"}
            /\ UNCHANGED told
         \/ /\ pc = "on_receive" /\ pc' = "receive"
            /\ UNCHANGED told
         \/ /\ pc = "on_disconnect" /\ pc' = IF exc = "none" THEN "over" ELSE "middleware"
            /\ UNCHANGED told
         \/ /\ pc = "function" /\ pc' = "over"
            /\ UNCHANGED told
  PROVE  Control'
<1>1. /\ ControlTypeOK /\ ControlInv /\ CloseCodeTold
      /\ told \in [connected : BOOLEAN, codes : Seq(Codes \union {"1000", "1011"})]
  BY DEF Control, ControlTypeOK
<1>2. CASE pc = "on_connect"
  <2>1. /\ told'.connected /\ told'.codes = told.codes
        /\ told' \in [connected : BOOLEAN, codes : Seq(Codes \union {"1000", "1011"})]
    BY <1>1, <1>2
  <2>2. ControlTypeOK' /\ CloseCodeTold'
    BY <1>1, <1>2, <2>1 DEF ControlTypeOK, CloseCodeTold, Pcs
  <2>3. ControlInv'
    BY <1>1, <1>2, <2>1 DEF ControlInv
  <2>4. QED
    BY <2>2, <2>3 DEF Control
<1>3. CASE pc \in {"receive", "on_receive", "on_disconnect", "function"}
  <2>1. ControlTypeOK' /\ CloseCodeTold'
    BY <1>1, <1>3 DEF ControlTypeOK, CloseCodeTold, Pcs
  <2>2. kind \in {"function", "class"}
    BY <1>1 DEF ControlTypeOK
  <2>3. told.codes = <<>> => Len(told.codes) = 0
    OBVIOUS
  <2>4. ControlInv'
    <3>1. CASE pc \in {"receive", "on_receive"}
      BY <1>1, <3>1, <2>2 DEF ControlInv
    <3>2. CASE pc \in {"on_disconnect", "function"}
      BY <1>1, <3>2, <2>2, <2>3 DEF ControlInv
    <3>3. QED
      BY <1>3, <3>1, <3>2
  <2>5. QED
    BY <2>1, <2>4 DEF Control
<1>4. QED
  BY <1>2, <1>3

\* Steps of the code between its awaits: nothing is sent or received.
LEMMA OfReturns ==
  ASSUME IInv, OnConnectReturns \/ OnReceiveReturns \/ OnDisconnectReturns \/ FunctionReturns
  PROVE  IInv' /\ WireStep
<1>1. /\ pc \in {"function", "on_connect", "on_receive", "on_disconnect"}
      /\ UNCHANGED <<kind, session, client, inbox, exc, close_code, ending, wire>>
      /\ Control /\ SentTypeOK /\ ClientTypeOK /\ EndpointInv
      /\ session["middleware"].application_state = "CONNECTING"
  BY Parts, InEndpoint DEF OnConnectReturns, OnReceiveReturns, OnDisconnectReturns, FunctionReturns
<1>2. SentTypeOK' /\ ClientTypeOK' /\ EndpointInv' /\ WireStep
  BY <1>1, Silent DEF SentTypeOK, ClientTypeOK
<1>3. Control'
  <2>1. CASE OnConnectReturns
    BY <1>1, <2>1, Resumed DEF OnConnectReturns
  <2>2. CASE OnReceiveReturns
    BY <1>1, <2>2, Resumed DEF OnReceiveReturns
  <2>3. CASE OnDisconnectReturns
    BY <1>1, <2>3, Resumed DEF OnDisconnectReturns
  <2>4. CASE FunctionReturns
    BY <1>1, <2>4, Resumed DEF FunctionReturns
  <2>5. QED
    BY <2>1, <2>2, <2>3, <2>4
<1>4. ErrorIsShown'
  <2>1. /\ pc = "function" => ending.how = "none"
        /\ pc = "on_disconnect" /\ exc = "none" => ending.how = "client"
    BY <1>1 DEF Control, ControlInv
  <2>2. \/ pc' # "over"
        \/ pc = "function"
        \/ pc = "on_disconnect" /\ exc = "none"
    BY DEF OnConnectReturns, OnReceiveReturns, OnDisconnectReturns, FunctionReturns
  <2>3. QED
    BY <1>1, <2>1, <2>2 DEF ErrorIsShown
<1>5. SentInv'
  BY <1>1, <1>2 DEF SentInv
<1>6. QED
  BY <1>2, <1>3, <1>4, <1>5, Types DEF IInv, Control

\* dispatch() receives.
LEMMA OfDispatchReceives ==
  ASSUME IInv, DispatchReceives
  PROVE  IInv' /\ WireStep
<1>1. /\ pc = "receive" /\ pc # "over" /\ UNCHANGED <<kind, client, wire>>
      /\ Control /\ SentTypeOK /\ ClientTypeOK /\ EndpointInv
  BY Parts, InEndpoint DEF DispatchReceives
<1>2. CASE Raise("RuntimeError") /\ UNCHANGED <<session, inbox>>
  <2>1. SentTypeOK' /\ ClientTypeOK' /\ EndpointInv' /\ WireStep
    BY <1>1, <1>2, Silent DEF SentTypeOK, ClientTypeOK
  <2>2. "RuntimeError" \in Exceptions
    BY DEF Exceptions
  <2>3. QED
    BY <1>1, <1>2, <2>1, <2>2, RaisedKept
<1>3. CASE MayReceive /\ inbox # <<>> /\ ~ (Raise("RuntimeError") /\ UNCHANGED <<session, inbox>>)
  <2> DEFINE m == Head(inbox)
  <2>1. /\ Takes(m)
        /\ \/ /\ m.type = "receive"
              /\ pc' = IF m.good THEN "on_receive" ELSE "decode"
              /\ UNCHANGED <<exc, close_code, ending, told>>
           \/ m.type = "connect" /\ Continue
           \/ m.type = "disconnect" /\ LoopEnds(m)
    BY <1>3 DEF DispatchReceives
  <2>2. /\ SentTypeOK' /\ ClientTypeOK' /\ m \in InMessage
        /\ session'["endpoint"].application_state = session["endpoint"].application_state
        /\ session'["middleware"] = session["middleware"]
    BY <1>1, <1>3, <2>1, Taken DEF Sessions
  <2>3. EndpointInv' /\ WireStep
    BY <1>1, <2>2, Silent
  <2>4. CASE LoopEnds(m)
    <3>1. Control' /\ pc' # "over"
      BY <1>1, <2>2, <2>4, LoopEnded
    <3>2. QED
      BY <1>1, <2>2, <2>3, <3>1, Kept
  <2>5. CASE Continue
    BY <1>1, <2>2, <2>3, <2>5, ContinueKept
  <2>6. CASE /\ pc' = IF m.good THEN "on_receive" ELSE "decode"
             /\ UNCHANGED <<exc, close_code, ending, told>>
    <3>1. pc' \in {"on_receive", "decode"}
      BY <2>6
    <3>2. Control' /\ pc' # "over"
      BY <1>1, <2>6, <3>1, Resumed
    <3>3. QED
      BY <1>1, <2>2, <2>3, <3>2, Kept
  <2>7. QED
    BY <2>1, <2>4, <2>5, <2>6
<1>4. QED
  BY <1>2, <1>3 DEF DispatchReceives

\* decode() rejects.
LEMMA OfDecodeRejects ==
  ASSUME IInv, DecodeRejects
  PROVE  IInv' /\ WireStep
<1> DEFINE m == Out("close", FALSE)
<1>1. /\ pc = "decode" /\ pc # "over" /\ UNCHANGED <<kind, client, inbox>>
      /\ Control /\ SentTypeOK /\ ClientTypeOK /\ EndpointInv
  BY Parts, InEndpoint DEF DecodeRejects
<1>2. ClientTypeOK'
  BY <1>1 DEF ClientTypeOK
<1>3. PICK e \in {"RuntimeError", "Other", "WebSocketDisconnect", "OSError"} :
        /\ Raise(e)
        /\ \/ UNCHANGED <<session, wire>>
           \/ ~Refused("endpoint", m) /\ (Accepted("endpoint", m) \/ Fails("endpoint", m))
  <2>1. ErrorOf("endpoint") \in {"WebSocketDisconnect", "OSError"}
    BY DEF ErrorOf
  <2>2. QED
    BY <2>1 DEF DecodeRejects
<1>4. e \in Exceptions
  BY <1>3 DEF Exceptions, UserExceptions
<1>5. CASE UNCHANGED <<session, wire>>
  <2>1. SentTypeOK' /\ EndpointInv' /\ WireStep
    BY <1>1, <1>5, Silent DEF SentTypeOK
  <2>2. QED
    BY <1>1, <1>2, <1>3, <1>4, <1>5, <2>1, RaisedKept
<1>6. CASE ~Refused("endpoint", m) /\ (Accepted("endpoint", m) \/ Fails("endpoint", m))
  <2>1. /\ SentTypeOK' /\ EndpointInv' /\ Protocol!Next
        /\ session'["middleware"] = session["middleware"]
    BY <1>1, <1>6, EndpointSends
  <2>2. QED
    BY <1>1, <1>2, <1>3, <1>4, <2>1, RaisedKept DEF WireStep
<1>7. QED
  BY <1>3, <1>5, <1>6

\* A wrapper answers or passes an exception on.
LEMMA Answered ==
  ASSUME IInv, pc \in {"route", "middleware", "denial"},
         UNCHANGED <<kind, client, inbox, close_code, ending, told>>,
         SentTypeOK', exc' \in Exceptions \union {"none"},
         \/ pc' = "over"
         \/ /\ pc' = "denial" /\ exc' # "none"
         \/ /\ pc' = "middleware" /\ kind = "function"
            /\ exc' \notin {"none", "HTTPException", "WebSocketException"},
         pc' # "over" => session'["middleware"] = session["middleware"],
         ErrorIsShown'
  PROVE  IInv'
<1>1. ControlTypeOK /\ ControlInv /\ CloseCodeTold /\ ClientTypeOK /\ pc # "over"
      /\ session["middleware"].application_state = "CONNECTING"
  BY Parts DEF Control
<1>2. ControlTypeOK' /\ ClientTypeOK' /\ CloseCodeTold'
  BY <1>1 DEF ControlTypeOK, ClientTypeOK, CloseCodeTold, Pcs
<1>3. ControlInv'
  BY <1>1 DEF ControlInv
<1>4. SentInv'
  BY <1>1 DEF SentInv, BeforeAnswer
<1>5. QED
  BY <1>2, <1>3, <1>4, Types DEF IInv

\* Which endpoint an exception comes from.
LEMMA Wrapped ==
  ASSUME ControlInv, kind \in {"function", "class"}, pc \in {"route", "middleware"}
  PROVE  /\ pc = "route" => kind = "function"
         /\ pc = "middleware" /\ exc \in {"HTTPException", "WebSocketException"} => kind = "class"
         /\ exc # "none"
BY DEF ControlInv

\* No handler.
LEMMA OfUnhandled ==
  ASSUME IInv, NEW w \in {"route", "middleware"}, Unhandled(w)
  PROVE  IInv' /\ WireStep
<1>1. /\ ControlTypeOK /\ ControlInv /\ SentTypeOK /\ pc = w
      /\ kind \in {"function", "class"} /\ exc \in Exceptions \union {"none"}
  BY Parts DEF Control, Unhandled, ControlTypeOK
<1>2. /\ UNCHANGED <<kind, session, client, inbox, exc, close_code, ending, told, wire>>
      /\ exc \notin {"HTTPException", "WebSocketException"}
      /\ pc' = IF w = "route" THEN "middleware" ELSE "over"
  BY DEF Unhandled, Escapes
<1>3. exc # "none" /\ (w = "route" => kind = "function")
  BY <1>1, Wrapped
<1>4. SentTypeOK' /\ ErrorIsShown' /\ WireStep
  BY <1>1, <1>2, <1>3 DEF SentTypeOK, ErrorIsShown, WireStep
<1>5. QED
  BY <1>1, <1>2, <1>3, <1>4, Answered

\* A close after what the endpoint has sent is legal, unless it has closed.
LEMMA CloseInOrder ==
  ASSUME SentTypeOK, EndpointInv, ~Closed, wire' = Append(wire, Out("close", FALSE))
  PROVE  Protocol!Next
<1> DEFINE m == Out("close", FALSE)
<1>1. /\ wire \in Seq(OutMessage) /\ m \in OutMessage /\ m.type = "close"
      /\ session["endpoint"].application_state \in States
  BY OutTypes DEF SentTypeOK, Sessions
<1>2. Protocol!Sends({"close"})
  BY <1>1, OneMore
<1>3. wire = <<>> \/ Protocol!Accepted
  BY <1>1 DEF EndpointInv, States
<1>4. QED
  BY <1>2, <1>3 DEF Protocol!Next, Protocol!Answer, Protocol!Data, Protocol!Sends

\* The default handler of WebSocketException closes.
LEMMA OfHandlesWebSocketException ==
  ASSUME IInv, NEW w \in {"route", "middleware"}, HandlesWebSocketException(w)
  PROVE  IInv' /\ WireStep
<1> DEFINE s == SessionOf(w)
           m == Out("close", FALSE)
<1>1. /\ ControlTypeOK /\ ControlInv /\ SentTypeOK /\ pc = w /\ exc = "WebSocketException"
      /\ kind \in {"function", "class"} /\ wire \in Seq(OutMessage)
      /\ session \in [Sessions -> [client_state : States, application_state : States]]
      /\ s \in Sessions /\ m \in OutMessage /\ m.type = "close"
      /\ UNCHANGED <<kind, client, inbox, close_code, ending, told>>
  BY Parts, OutTypes DEF Control, HandlesWebSocketException, ControlTypeOK, SentTypeOK, Sessions, SessionOf
<1>2. /\ w = "route" => kind = "function"
      /\ w = "middleware" => kind = "class"
  BY <1>1, Wrapped
<1>3. EndpointInv
  BY <1>1, <1>2, Parts DEF BeforeAnswer
<1>4. /\ {"RuntimeError", "WebSocketDisconnect", "OSError", "none"} \subseteq Exceptions \union {"none"}
  BY DEF Exceptions
<1>5. CASE Refused(s, m) /\ UNCHANGED <<session, wire>> /\ exc' = "RuntimeError" /\ pc' = Escapes(w)
  <2>1. SentTypeOK' /\ ErrorIsShown' /\ WireStep
    BY <1>1, <1>5 DEF SentTypeOK, ErrorIsShown, WireStep
  <2>2. QED
    BY <1>1, <1>2, <1>4, <1>5, <2>1, Answered DEF Escapes
<1>6. CASE ~Refused(s, m) /\ wire' = Append(wire, m)
  <2>1. PICK state \in States : session' = [session EXCEPT ![s].application_state = state]
    <3>1. AfterSend(session[s].application_state, m) = "DISCONNECTED"
      BY <1>1 DEF AfterSend
    <3>2. session' = [session EXCEPT ![s].application_state = "DISCONNECTED"]
      BY <1>1, <1>6, <3>1 DEF HandlesWebSocketException, Accepted, Fails
    <3>3. QED
      BY <3>2 DEF States
  <2>2. /\ session' \in [Sessions -> [client_state : States, application_state : States]]
        /\ \A t \in Sessions \ {s} : session'[t] = session[t]
    BY <1>1, <2>1, Assigned
  <2>3. wire' \in Seq(OutMessage) /\ wire' # <<>> /\ wire'[Len(wire')] = m
    BY <1>1, <1>6, OneMore
  <2>4. SentTypeOK' /\ (w = "route" => session'["middleware"] = session["middleware"])
    BY <2>2, <2>3 DEF SentTypeOK, SessionOf, Sessions
  <2>5. ErrorIsShown'
    BY <1>1, <2>3 DEF ErrorIsShown
  <2>6. \/ exc' = "none" /\ pc' = "over"
        \/ exc' \in {"WebSocketDisconnect", "OSError"} /\ pc' = Escapes(w)
    BY <1>6 DEF HandlesWebSocketException, ErrorOf
  <2>7. IInv'
    BY <1>1, <1>2, <1>4, <2>4, <2>5, <2>6, Answered DEF Escapes
  <2>8. WireStep
    <3>1. CASE w = "route"
      BY <1>1, <1>3, <1>6, <3>1, InOrder DEF WireStep, SessionOf
    <3>2. CASE w = "middleware"
      BY <1>1, <1>3, <1>6, <3>2, CloseInOrder DEF WireStep
    <3>3. QED
      BY <3>1, <3>2
  <2>9. QED
    BY <2>7, <2>8
<1>7. QED
  BY <1>5, <1>6 DEF HandlesWebSocketException, Accepted, Fails

\* The default handler of HTTPException sends a response.
LEMMA OfDenial ==
  ASSUME IInv, (\E w \in {"route", "middleware"} : SendsDenial(w)) \/ EndsDenial
  PROVE  IInv' /\ WireStep
<1>1. PICK w \in {"route", "middleware"}, m \in OutMessage :
        /\ wire' = Append(wire, m)
        /\ UNCHANGED <<kind, session, client, inbox, close_code, ending, told>>
        /\ \/ /\ pc = w /\ exc = "HTTPException"
              /\ pc' = "denial" /\ exc' = "HTTPException"
           \/ /\ pc = w /\ exc = "HTTPException"
              /\ pc' = Escapes(w) /\ exc' = "OSError"
           \/ /\ pc = "denial" /\ w = IF kind = "class" THEN "middleware" ELSE "route"
              /\ pc' = Escapes(w) /\ exc' = "OSError"
           \/ /\ pc = "denial" /\ w = IF kind = "class" THEN "middleware" ELSE "route"
              /\ m.type = "response.body" /\ pc' = "over" /\ exc' = "none"
  <2>1. CASE \E w \in {"route", "middleware"} : SendsDenial(w)
    <3>1. PICK w \in {"route", "middleware"} : SendsDenial(w)
      BY <2>1
    <3> DEFINE m == Out("response.start", FALSE)
    <3>2. /\ pc = w /\ exc = "HTTPException" /\ wire' = Append(wire, m)
          /\ \/ pc' = "denial" /\ exc' = "HTTPException"
             \/ pc' = Escapes(w) /\ exc' = "OSError"
          /\ UNCHANGED <<kind, session, client, inbox, close_code, ending, told>>
      BY <3>1 DEF SendsDenial, SendsRaw
    <3>3. m \in OutMessage
      BY OutTypes
    <3> HIDE DEF m
    <3>4. QED
      BY <3>2, <3>3
  <2>2. CASE EndsDenial
    <3> DEFINE m == Out("response.body", FALSE)
               w == IF kind = "class" THEN "middleware" ELSE "route"
    <3>1. /\ pc = "denial" /\ wire' = Append(wire, m)
          /\ \/ pc' = "over" /\ exc' = "none"
             \/ pc' = Escapes(w) /\ exc' = "OSError"
          /\ UNCHANGED <<kind, session, client, inbox, close_code, ending, told>>
      BY <2>2 DEF EndsDenial, SendsRaw
    <3>2. m \in OutMessage /\ m.type = "response.body" /\ w \in {"route", "middleware"}
      BY OutTypes
    <3> HIDE DEF m
    <3>3. QED
      BY <3>1, <3>2
  <2>3. QED
    BY <2>1, <2>2
<1>2. /\ ControlTypeOK /\ ControlInv /\ SentTypeOK /\ pc \in {"route", "middleware", "denial"}
      /\ kind \in {"function", "class"} /\ wire \in Seq(OutMessage) /\ m \in OutMessage
      /\ w = "route" => kind = "function"
  BY <1>1, Parts, Wrapped, OutTypes DEF Control, ControlTypeOK, SentTypeOK
<1>3. /\ wire' \in Seq(OutMessage) /\ wire' # <<>> /\ wire'[Len(wire')] = m
  BY <1>1, <1>2, OneMore
<1>4. SentTypeOK'
  BY <1>1, <1>2, <1>3 DEF SentTypeOK
<1>5. exc' \in Exceptions \union {"none"}
  BY <1>1 DEF Exceptions, UserExceptions
<1>6. ErrorIsShown'
  BY <1>1, <1>3 DEF ErrorIsShown
<1>7. IInv'
  BY <1>1, <1>2, <1>4, <1>5, <1>6, Answered DEF Escapes
<1>8. WireStep
  BY <1>1 DEF WireStep
<1>9. QED
  BY <1>7, <1>8

-----------------------------------------------------------------------------
(* The steps of the endpoint.                                              *)

LEMMA InitInvariant == Init => IInv
<1> SUFFICES ASSUME Init
             PROVE  IInv
  OBVIOUS
<1>1. kind \in {"function", "class"} /\ kind \in Kinds
  BY KindsAssumption DEF Init
<1>2. ControlTypeOK
  BY <1>1, KindsAssumption DEF Init, ControlTypeOK, Pcs
<1>3. Len(told.codes) = 0
  BY DEF Init
<1>4. ControlInv
  BY <1>1, <1>3 DEF Init, ControlInv
<1>5. SentTypeOK
  BY DEF Init, SentTypeOK, Sessions, States
<1>6. ClientTypeOK
  <2>1. \E m \in InMessage : inbox = <<m>>
    BY InTypes, Zenon DEF Init
  <2>2. inbox \in Seq(InMessage)
    BY <2>1
  <2>3. client \in [sent : 0..MaxReceive, here : BOOLEAN]
    BY MaxAssumption DEF Init
  <2>4. QED
    BY <2>2, <2>3 DEF ClientTypeOK
<1>7. SentInv
  BY DEF Init, SentInv, EndpointInv, Sessions
<1>8. CloseCodeTold /\ ErrorIsShown
  BY DEF Init, CloseCodeTold, ErrorIsShown
<1>9. QED
  BY <1>2, <1>4, <1>5, <1>6, <1>7, <1>8, Types DEF IInv

LEMMA NextInvariant == IInv /\ [Next]_vars => IInv' /\ WireStep
<1> SUFFICES ASSUME IInv, [Next]_vars
             PROVE  IInv' /\ WireStep
  OBVIOUS
<1>1. CASE (\E good \in BOOLEAN : ClientSends(good)) \/ (\E code \in Codes : ClientLeaves(code))
  BY <1>1, OfClient
<1>2. CASE UserSends
  BY <1>2, OfUserSends
<1>3. CASE UserReceives \/ Cancelled \/ (\E e \in Raisable : UserRaises(e))
  BY <1>3, OfUserReceives
<1>4. CASE OnConnectReturns \/ OnReceiveReturns \/ OnDisconnectReturns \/ FunctionReturns
  BY <1>4, OfReturns
<1>5. CASE DispatchReceives
  BY <1>5, OfDispatchReceives
<1>6. CASE DecodeRejects
  BY <1>6, OfDecodeRejects
<1>7. CASE Wrapper
  <2>1. CASE \E w \in {"route", "middleware"} : Unhandled(w)
    BY <2>1, OfUnhandled
  <2>2. CASE \E w \in {"route", "middleware"} : HandlesWebSocketException(w)
    BY <2>2, OfHandlesWebSocketException
  <2>3. CASE (\E w \in {"route", "middleware"} : SendsDenial(w)) \/ EndsDenial
    BY <2>3, OfDenial
  <2>4. QED
    BY <1>7, <2>1, <2>2, <2>3 DEF Wrapper
<1>8. CASE UNCHANGED vars
  <2>1. UNCHANGED <<kind, session, client, inbox, pc, exc, close_code, ending, told, wire>>
    BY <1>8 DEF vars
  <2>2. /\ ControlTypeOK' /\ SentTypeOK' /\ ClientTypeOK'
        /\ ControlInv' /\ CloseCodeTold' /\ ErrorIsShown' /\ SentInv'
    BY <2>1, Types DEF IInv, ControlTypeOK, SentTypeOK, ClientTypeOK, ControlInv, CloseCodeTold,
       ErrorIsShown, SentInv, BeforeAnswer, EndpointInv, Protocol!Accepted, Protocol!LastIs, Closed
  <2>3. QED
    BY <2>1, <2>2, Types DEF IInv, WireStep
<1>9. QED
  BY <1>1, <1>2, <1>3, <1>4, <1>5, <1>6, <1>7, <1>8 DEF Next, Dispatch

\* on_disconnect is told of the end at most once in any state, and has been once it is over.
LEMMA InvariantImplies == IInv => EndingTold
<1> SUFFICES ASSUME IInv
             PROVE  EndingTold
  OBVIOUS
<1>1. /\ ControlTypeOK /\ ControlInv /\ TypeOK /\ CloseCodeTold /\ ErrorIsShown
      /\ told \in [connected : BOOLEAN, codes : Seq(Codes \union {"1000", "1011"})]
      /\ pc \in Pcs
  BY Types DEF IInv, ControlTypeOK
<1>2. told.codes = <<>> => Len(told.codes) = 0
  OBVIOUS
<1>3. /\ Len(told.codes) = 0 \/ (told.connected /\ Len(told.codes) = 1)
      /\ pc = "over" /\ told.connected => Len(told.codes) = 1
  BY <1>1, <1>2 DEF ControlInv, Pcs
<1>4. ASSUME NEW n, n = 0 \/ (told.connected /\ n = 1)
      PROVE  n <= IF told.connected THEN 1 ELSE 0
  BY <1>4
<1>5. OnDisconnectOnce
  <2>1. Len(told.codes) <= IF told.connected THEN 1 ELSE 0
    BY <1>3, <1>4
  <2>2. QED
    BY <1>3, <2>1 DEF OnDisconnectOnce
<1>6. QED
  BY <1>1, <1>5 DEF EndingTold

-----------------------------------------------------------------------------
(* The tasks that share a WebSocket.                                       *)

\* What application_state says of the messages already sent.
WireInv ==
  /\ application_state = "CONNECTING" => wire = <<>>
  /\ application_state = "CONNECTED" => Shared!Protocol!Accepted
  /\ application_state = "RESPONSE" => Shared!Protocol!Denying

\* What the first message sent says, who sends, and where a send has failed.
LostInv ==
  /\ application_state = "CONNECTED" => wire # <<>> /\ wire[1].type = "accept"
  /\ application_state = "RESPONSE" => wire # <<>> /\ wire[1].type = "response.start"
  /\ lost # {} => wire # <<>>
  /\ "CONNECTED" \in lost => application_state = "DISCONNECTED"
  /\ "RESPONSE" \in lost => wire[1].type = "response.start"
  /\ "DISCONNECTED" \notin lost
  /\ \A t \in Tasks : task[t].at = "send" =>
       /\ wire # <<>> /\ task[t].seen # "DISCONNECTED"
       /\ task[t].seen = "RESPONSE" => wire[1].type = "response.start"

\* The connect message is the first that the server has, and the only one of its type.
InboxInv ==
  /\ client_state = "CONNECTING" => queue # <<>> /\ queue[1].type = "connect"
  /\ \A i \in DOMAIN queue :
       queue[i].type = "connect" => i = 1 /\ client_state = "CONNECTING"

\* Who waits for the connect message waits alone.
HandshakeInv ==
  \A t \in Tasks : task[t].at = "receive" =>
    /\ task[t].seen \in {"CONNECTING", "CONNECTED"}
    /\ task[t].seen = "CONNECTING" <=> client_state = "CONNECTING"
    /\ client_state = "CONNECTING" => \A u \in Tasks : task[u].at = "receive" => u = t

ReadInv == ~raced => InboxInv /\ HandshakeInv /\ delivered = taken

SharedInv == Shared!TypeOK /\ WireInv

-----------------------------------------------------------------------------
(* Lemmas: the states of a task, and one send().                           *)

\* The records of the model have the types that TypeOK gives them.
LEMMA RecordTypes ==
  /\ \A type \in {"connect", "receive", "disconnect"}, n \in Nat : Shared!In(type, n) \in Shared!InMessage
  /\ \A type \in {"accept", "send", "close", "response.start", "response.body"},
        more \in BOOLEAN : Shared!Out(type, more) \in Shared!OutMessage
BY DEF Shared!In, Shared!InMessage, Shared!Out, Shared!OutMessage

TaskState == [at : {"idle", "receive", "send"}, seen : Shared!States,
              for : {"receive", "data", "accept"},
              result : {"none", "ok", "RuntimeError", "WebSocketDisconnect",
                        "WebSocketDisconnect 1006", "OSError"}]

LEMMA TaskTypes ==
  /\ \A result \in {"none", "ok", "RuntimeError", "WebSocketDisconnect",
                    "WebSocketDisconnect 1006", "OSError"} : Shared!Idle(result) \in TaskState
  /\ \A seen \in Shared!States : Shared!Sending(seen) \in TaskState
  /\ \A seen \in Shared!States, for \in {"receive", "data", "accept"} :
       Shared!Receiving(seen, for) \in TaskState
BY DEF TaskState, Shared!Idle, Shared!Sending, Shared!Receiving, Shared!States

\* send() moves application_state with the wire, and the message it lets through is
\* the next one of the protocol.
LEMMA SendStep ==
  ASSUME Shared!TypeOK, WireInv, NEW t \in Tasks, NEW m \in Shared!OutMessage, Shared!Send(t, m)
  PROVE  /\ WireInv'
         /\ application_state' \in Shared!States
         /\ wire' \in Seq(Shared!OutMessage)
         /\ task' \in [Tasks -> TaskState]
         /\ Shared!Protocol!Next \/ wire' = wire
<1>1. /\ wire \in Seq(Shared!OutMessage)
      /\ application_state \in Shared!States
      /\ task \in [Tasks -> TaskState]
  BY DEF Shared!TypeOK, TaskState
<1>2. CASE m.type \notin Shared!Allowed(application_state)
  <2>1. /\ application_state' = application_state
        /\ wire' = wire
        /\ task' = [task EXCEPT ![t] = Shared!Idle("RuntimeError")]
    BY <1>2 DEF Shared!Send
  <2>2. task' \in [Tasks -> TaskState]
    BY <1>1, <2>1, TaskTypes
  <2>3. WireInv'
    BY <2>1 DEF WireInv, Shared!Protocol!Accepted, Shared!Protocol!Denying, Shared!Protocol!LastIs
  <2>4. QED
    BY <1>1, <2>1, <2>2, <2>3
<1>3. CASE m.type \in Shared!Allowed(application_state)
  <2>1. /\ application_state' = Shared!AfterSend(application_state, m)
        /\ wire' = Append(wire, m)
        /\ task' = [task EXCEPT ![t] = Shared!Sending(application_state)]
    BY <1>3 DEF Shared!Send
  <2>2. task' \in [Tasks -> TaskState]
    BY <1>1, <2>1, TaskTypes
  <2>3. /\ wire' \in Seq(Shared!OutMessage)
        /\ Len(wire') = Len(wire) + 1
        /\ wire'[Len(wire) + 1] = m
        /\ wire' # <<>>
    BY <1>1, <2>1
  <2>4. m.type \in {"accept", "send", "close", "response.start", "response.body"}
        /\ m.more_body \in BOOLEAN
    BY DEF Shared!OutMessage
  <2>5. Shared!Protocol!Sends({m.type})
    BY <2>1, <2>3 DEF Shared!Protocol!Sends
  <2>6. CASE application_state = "CONNECTING"
    <3>1. m.type \in {"accept", "close", "response.start"} /\ wire = <<>>
      BY <1>3, <2>6 DEF Shared!Allowed, WireInv
    <3>2. Shared!Protocol!Answer
      BY <3>1, <2>5 DEF Shared!Protocol!Answer, Shared!Protocol!Sends
    <3>3. /\ m.type = "accept" => application_state' = "CONNECTED"
          /\ m.type = "close" => application_state' = "DISCONNECTED"
          /\ m.type = "response.start" => application_state' = "RESPONSE"
      BY <2>1, <2>6 DEF Shared!AfterSend
    <3>5. WireInv' /\ application_state' \in Shared!States
      BY <2>3, <3>1, <3>3
         DEF WireInv, Shared!States, Shared!Protocol!Accepted, Shared!Protocol!Denying, Shared!Protocol!LastIs
    <3>6. QED
      BY <2>2, <2>3, <3>2, <3>5 DEF Shared!Protocol!Next
  <2>7. CASE application_state = "CONNECTED"
    <3>1. m.type \in {"send", "close"} /\ Shared!Protocol!Accepted
      BY <1>3, <2>7 DEF Shared!Allowed, WireInv
    <3>2. Shared!Protocol!Data
      BY <3>1, <2>5 DEF Shared!Protocol!Data, Shared!Protocol!Sends
    <3>3. /\ m.type = "send" => application_state' = "CONNECTED"
          /\ m.type = "close" => application_state' = "DISCONNECTED"
      BY <2>1, <2>7 DEF Shared!AfterSend
    <3>5. WireInv' /\ application_state' \in Shared!States
      BY <2>3, <3>1, <3>3
         DEF WireInv, Shared!States, Shared!Protocol!Accepted, Shared!Protocol!Denying, Shared!Protocol!LastIs
    <3>6. QED
      BY <2>2, <2>3, <3>2, <3>5 DEF Shared!Protocol!Next
  <2>8. CASE application_state = "RESPONSE"
    <3>1. m.type = "response.body" /\ Shared!Protocol!Denying
      BY <1>3, <2>8 DEF Shared!Allowed, WireInv
    <3>2. Shared!Protocol!Denial
      BY <3>1, <2>5 DEF Shared!Protocol!Denial, Shared!Protocol!Sends
    <3>3. application_state' = IF m.more_body THEN "RESPONSE" ELSE "DISCONNECTED"
      BY <2>1, <2>8, <3>1 DEF Shared!AfterSend
    <3>5. WireInv' /\ application_state' \in Shared!States
      BY <2>3, <2>4, <3>1, <3>3
         DEF WireInv, Shared!States, Shared!Protocol!Accepted, Shared!Protocol!Denying, Shared!Protocol!LastIs
    <3>6. QED
      BY <2>2, <2>3, <3>2, <3>5 DEF Shared!Protocol!Next
  <2>9. CASE application_state = "DISCONNECTED"
    BY <1>3, <2>9 DEF Shared!Allowed
  <2>10. QED
    BY <1>1, <2>6, <2>7, <2>8, <2>9 DEF Shared!States
<1>4. QED
  BY <1>2, <1>3

-----------------------------------------------------------------------------
(* The inductive invariant, one lemma for each group of actions.           *)

\* What every step does: it keeps the invariant, and it sends at most the next message of
\* the protocol.
GoodStep == SharedInv' /\ (Shared!Protocol!Next \/ wire' = wire)

\* The actions of the client, and a send() of the server that returns or fails.
LEMMA ServerStep ==
  ASSUME SharedInv, \/ Shared!ClientSends \/ Shared!ClientLeaves
               \/ \E t \in Tasks : Shared!SendReturns(t) \/ Shared!SendFails(t)
  PROVE  GoodStep
<1> USE DEF SharedInv, GoodStep
<1>1. /\ task \in [Tasks -> TaskState]
      /\ queue \in Seq(Shared!InMessage)
      /\ peer \in [sent : 0..MaxReceive, here : BOOLEAN]
  BY DEF Shared!TypeOK, TaskState
<1>2. CASE Shared!ClientSends
  <2>1. peer.sent + 1 \in 0..MaxReceive
    BY <1>1, <1>2, MaxAssumption DEF Shared!ClientSends
  <2>2. peer' \in [sent : 0..MaxReceive, here : BOOLEAN]
    BY <1>1, <1>2, <2>1 DEF Shared!ClientSends
  <2>3. peer'.sent \in Nat
    BY <2>2, MaxAssumption
  <2>4. queue' \in Seq(Shared!InMessage)
    BY <1>1, <1>2, <2>3, RecordTypes DEF Shared!ClientSends
  <2>5. Shared!TypeOK'
    BY <1>2, <2>2, <2>4 DEF Shared!ClientSends, Shared!TypeOK
  <2>6. WireInv' /\ wire' = wire
    BY <1>2 DEF Shared!ClientSends, WireInv, Shared!Protocol!Accepted, Shared!Protocol!Denying, Shared!Protocol!LastIs
  <2>7. QED
    BY <2>5, <2>6
<1>3. CASE Shared!ClientLeaves
  <2>1. peer' \in [sent : 0..MaxReceive, here : BOOLEAN]
    BY <1>1, <1>3 DEF Shared!ClientLeaves
  <2>2. queue' \in Seq(Shared!InMessage)
    BY <1>1, <1>3, RecordTypes DEF Shared!ClientLeaves
  <2>3. Shared!TypeOK'
    BY <1>3, <2>1, <2>2 DEF Shared!ClientLeaves, Shared!TypeOK
  <2>4. WireInv' /\ wire' = wire
    BY <1>3 DEF Shared!ClientLeaves, WireInv, Shared!Protocol!Accepted, Shared!Protocol!Denying, Shared!Protocol!LastIs
  <2>5. QED
    BY <2>3, <2>4
<1>4. ASSUME NEW t \in Tasks, Shared!SendReturns(t)
      PROVE  GoodStep
  <2>1. task' \in [Tasks -> TaskState]
    BY <1>1, <1>4, TaskTypes DEF Shared!SendReturns
  <2>2. Shared!TypeOK'
    BY <1>4, <2>1 DEF Shared!SendReturns, Shared!TypeOK, TaskState
  <2>3. WireInv' /\ wire' = wire
    BY <1>4 DEF Shared!SendReturns, WireInv, Shared!Protocol!Accepted, Shared!Protocol!Denying, Shared!Protocol!LastIs
  <2>4. QED
    BY <2>2, <2>3
<1>5. ASSUME NEW t \in Tasks, Shared!SendFails(t)
      PROVE  GoodStep
  <2>1. task' \in [Tasks -> TaskState]
    BY <1>1, <1>5, TaskTypes DEF Shared!SendFails, Shared!OnOSError
  <2>2. application_state' \in Shared!States /\ lost' \subseteq Shared!States
    BY <1>1, <1>5 DEF Shared!SendFails, Shared!OnOSError, Shared!TypeOK, Shared!States, TaskState
  <2>3. Shared!TypeOK'
    BY <1>5, <2>1, <2>2 DEF Shared!SendFails, Shared!TypeOK, TaskState
  <2>4. wire' = wire
    BY <1>5 DEF Shared!SendFails
  <2>5. \/ application_state' = "DISCONNECTED"
        \/ application_state' = application_state
    BY <1>5 DEF Shared!SendFails, Shared!OnOSError
  <2>6. WireInv'
    BY <2>4, <2>5 DEF WireInv, Shared!Protocol!Accepted, Shared!Protocol!Denying, Shared!Protocol!LastIs
  <2>7. QED
    BY <2>3, <2>4, <2>6
<1>6. QED
  BY <1>2, <1>3, <1>4, <1>5

\* The calls of a task.
LEMMA CallStep ==
  ASSUME SharedInv, NEW t \in Tasks,
         \/ Shared!StartSend(t) \/ Shared!StartAccept(t)
         \/ \E for \in {"receive", "data"} : Shared!StartReceive(t, for)
  PROVE  GoodStep
<1> USE DEF SharedInv, GoodStep
<1>1. /\ task \in [Tasks -> TaskState]
      /\ client_state \in Shared!States
  BY DEF Shared!TypeOK, TaskState
<1>6. raced' \in BOOLEAN
  BY DEF Shared!TypeOK, Shared!StartSend, Shared!StartAccept, Shared!StartReceive
<1>2. CASE Shared!StartSend(t)
  <2>1. PICK m \in Shared!OutMessage : Shared!Send(t, m)
    BY <1>2, RecordTypes DEF Shared!StartSend
  <2>2. lost' = lost
    BY <1>2 DEF Shared!StartSend
  <2>3. /\ WireInv'
        /\ application_state' \in Shared!States /\ wire' \in Seq(Shared!OutMessage)
        /\ task' \in [Tasks -> TaskState]
        /\ Shared!Protocol!Next \/ wire' = wire
    BY <2>1, SendStep
  <2>4. Shared!TypeOK'
    BY <1>2, <1>6, <2>3 DEF Shared!StartSend, Shared!TypeOK, TaskState
  <2>5. QED
    BY <2>3, <2>4
<1>3. CASE Shared!StartAccept(t)
  <2>1. lost' = lost /\ UNCHANGED <<client_state, peer, queue, taken, delivered>>
    BY <1>3 DEF Shared!StartAccept
  <2>2. CASE client_state = "CONNECTING"
    <3>1. /\ task' = [task EXCEPT ![t] = Shared!Receiving(client_state, "accept")]
          /\ UNCHANGED <<application_state, wire>>
      BY <1>3, <2>2 DEF Shared!StartAccept
    <3>2. task' \in [Tasks -> TaskState]
      BY <1>1, <3>1, TaskTypes
    <3>3. Shared!TypeOK'
      BY <1>6, <2>1, <3>1, <3>2 DEF Shared!TypeOK, TaskState
    <3>4. WireInv'
      BY <2>1, <3>1 DEF WireInv, Shared!Protocol!Accepted, Shared!Protocol!Denying, Shared!Protocol!LastIs
    <3>5. QED
      BY <3>1, <3>3, <3>4
  <2>3. CASE client_state # "CONNECTING"
    <3>1. Shared!Out("accept", FALSE) \in Shared!OutMessage /\ Shared!Send(t, Shared!Out("accept", FALSE))
      BY <1>3, <2>3, RecordTypes DEF Shared!StartAccept
    <3>2. /\ WireInv'
          /\ application_state' \in Shared!States /\ wire' \in Seq(Shared!OutMessage)
          /\ task' \in [Tasks -> TaskState]
          /\ Shared!Protocol!Next \/ wire' = wire
      BY <2>1, <3>1, SendStep
    <3>3. Shared!TypeOK'
      BY <1>6, <2>1, <3>2 DEF Shared!TypeOK, TaskState
    <3>4. QED
      BY <3>2, <3>3
  <2>4. QED
    BY <2>2, <2>3
<1>4. ASSUME NEW for \in {"receive", "data"}, Shared!StartReceive(t, for)
      PROVE  GoodStep
  <2>1. UNCHANGED <<client_state, application_state, peer, queue, taken, delivered, wire, lost>>
    BY <1>4 DEF Shared!StartReceive
  <2>2. \/ task' = [task EXCEPT ![t] = Shared!Idle("RuntimeError")]
        \/ task' = [task EXCEPT ![t] = Shared!Receiving(client_state, for)]
    BY <1>4 DEF Shared!StartReceive
  <2>3. task' \in [Tasks -> TaskState]
    BY <1>1, <2>2, TaskTypes
  <2>4. Shared!TypeOK'
    BY <1>6, <2>1, <2>3 DEF Shared!TypeOK, TaskState
  <2>5. WireInv'
    BY <2>1 DEF WireInv, Shared!Protocol!Accepted, Shared!Protocol!Denying, Shared!Protocol!LastIs
  <2>6. QED
    BY <2>1, <2>4, <2>5
<1>5. QED
  BY <1>2, <1>3, <1>4

\* A message of the server arrives in receive().
LEMMA ReceiveStep ==
  ASSUME SharedInv, NEW t \in Tasks, Shared!Receive(t)
  PROVE  GoodStep
<1> USE DEF SharedInv, GoodStep
<1> DEFINE m == Head(queue)
<1>1. /\ task \in [Tasks -> TaskState]
      /\ client_state \in Shared!States
      /\ queue \in Seq(Shared!InMessage) /\ queue # <<>>
      /\ taken \in Seq(Shared!InMessage) /\ delivered \in Seq(Shared!InMessage)
  BY DEF Shared!TypeOK, TaskState, Shared!Receive
<1>2. m \in Shared!InMessage /\ queue' \in Seq(Shared!InMessage) /\ taken' \in Seq(Shared!InMessage)
  BY <1>1 DEF Shared!Receive
<1>3. peer' = peer /\ lost' = lost /\ raced' = raced
  BY DEF Shared!Receive
<1>4. CASE m.type \notin Shared!Expected(task[t].seen)
  <2>1. /\ task' = [task EXCEPT ![t] = Shared!Idle("RuntimeError")]
        /\ UNCHANGED <<client_state, application_state, delivered, wire>>
    BY <1>4 DEF Shared!Receive
  <2>2. task' \in [Tasks -> TaskState]
    BY <1>1, <2>1, TaskTypes
  <2>3. Shared!TypeOK'
    BY <1>2, <1>3, <2>1, <2>2 DEF Shared!TypeOK, TaskState
  <2>4. WireInv'
    BY <1>3, <2>1 DEF WireInv, Shared!Protocol!Accepted, Shared!Protocol!Denying, Shared!Protocol!LastIs
  <2>5. QED
    BY <2>1, <2>3, <2>4
<1>5. CASE Shared!Deliver(t, m)
  <2>1. client_state' = Shared!AfterReceive(client_state, m) /\ delivered' = Append(delivered, m)
    BY <1>5 DEF Shared!Deliver
  <2>2. m.type \in {"connect", "receive", "disconnect"}
    BY <1>2 DEF Shared!InMessage
  <2>3. client_state' \in Shared!States /\ delivered' \in Seq(Shared!InMessage)
    BY <1>1, <1>2, <2>1, <2>2 DEF Shared!AfterReceive, Shared!States
  <2>4. CASE task[t].for = "accept"
    <3>1. Shared!Out("accept", FALSE) \in Shared!OutMessage /\ Shared!Send(t, Shared!Out("accept", FALSE))
      BY <1>5, <2>4, RecordTypes DEF Shared!Deliver
    <3>2. /\ WireInv'
          /\ application_state' \in Shared!States /\ wire' \in Seq(Shared!OutMessage)
          /\ task' \in [Tasks -> TaskState]
          /\ Shared!Protocol!Next \/ wire' = wire
      BY <1>3, <3>1, SendStep
    <3>3. Shared!TypeOK'
      BY <1>2, <1>3, <2>3, <3>2 DEF Shared!TypeOK, TaskState
    <3>4. QED
      BY <3>2, <3>3
  <2>5. CASE task[t].for # "accept"
    <3>1. /\ \/ task' = [task EXCEPT ![t] = Shared!Idle("WebSocketDisconnect")]
             \/ task' = [task EXCEPT ![t] = Shared!Idle("ok")]
          /\ UNCHANGED <<application_state, wire>>
      BY <1>5, <2>5 DEF Shared!Deliver
    <3>2. task' \in [Tasks -> TaskState]
      BY <1>1, <3>1, TaskTypes
    <3>3. Shared!TypeOK'
      BY <1>2, <1>3, <2>3, <3>1, <3>2 DEF Shared!TypeOK, TaskState
    <3>4. WireInv'
      BY <1>3, <3>1 DEF WireInv, Shared!Protocol!Accepted, Shared!Protocol!Denying, Shared!Protocol!LastIs
    <3>5. QED
      BY <3>1, <3>3, <3>4
  <2>6. QED
    BY <2>4, <2>5
<1>6. QED
  BY <1>4, <1>5 DEF Shared!Receive

-----------------------------------------------------------------------------
(* The steps of the tasks.                                                 *)

LEMMA SharedStarts ==
  ASSUME Shared!Init
  PROVE  SharedInv /\ Shared!Protocol!Init
<1>1. task \in [Tasks -> TaskState]
  BY TaskTypes DEF Shared!Init, Shared!Start
<1>2. queue \in Seq(Shared!InMessage)
  BY RecordTypes DEF Shared!Init, Shared!Start
<1>3. peer \in [sent : 0..MaxReceive, here : BOOLEAN]
  BY MaxAssumption DEF Shared!Init, Shared!Start
<1>4. Shared!TypeOK
  <2>1. taken \in Seq(Shared!InMessage) /\ delivered \in Seq(Shared!InMessage) /\ wire \in Seq(Shared!OutMessage)
    BY DEF Shared!Init, Shared!Start
  <2>2. client_state \in Shared!States /\ application_state \in Shared!States /\ lost \subseteq Shared!States /\ raced \in BOOLEAN
    BY DEF Shared!Init, Shared!Start, Shared!States
  <2>3. QED
    BY <1>1, <1>2, <1>3, <2>1, <2>2 DEF Shared!TypeOK, TaskState
<1>5. WireInv /\ Shared!Protocol!Init
  BY DEF Shared!Init, Shared!Start, WireInv, Shared!Protocol!Init
<1>6. QED
  BY <1>4, <1>5 DEF SharedInv

LEMMA SharedStep ==
  ASSUME SharedInv, (Shared!Next \/ UNCHANGED Shared!vars)
  PROVE  GoodStep
<1>1. CASE UNCHANGED Shared!vars
  BY <1>1 DEF Shared!vars, GoodStep, SharedInv, Shared!TypeOK, WireInv, Shared!Protocol!Accepted, Shared!Protocol!Denying,
              Shared!Protocol!LastIs
<1>2. CASE Shared!Next
  BY <1>2, ServerStep, CallStep, ReceiveStep DEF Shared!Next
<1>3. QED
  BY <1>1, <1>2

-----------------------------------------------------------------------------
(* The handshake by one task at a time.                                    *)

\* A step that takes nothing from the server, adds no connect message to the inbox,
\* and lets a task wait in receive() only as StartReceive() and StartAccept() do.
LEMMA QuietStep ==
  ASSUME SharedInv, ReadInv, ~raced,
         UNCHANGED <<client_state, taken, delivered>>,
         \/ queue' = queue
         \/ \E m \in Shared!InMessage : m.type # "connect" /\ queue' = Append(queue, m),
         \A t \in Tasks : task'[t].at = "receive" =>
           \/ task'[t] = task[t]
           \/ /\ ~Shared!Racing /\ client_state \in {"CONNECTING", "CONNECTED"}
              /\ task'[t].seen = client_state
              /\ \A u \in Tasks : u # t => task'[u] = task[u]
  PROVE  ReadInv'
<1>1. InboxInv /\ HandshakeInv /\ delivered = taken /\ queue \in Seq(Shared!InMessage)
  BY DEF ReadInv, SharedInv, Shared!TypeOK
<1>2. InboxInv'
  <2>1. CASE queue' = queue
    BY <1>1, <2>1 DEF InboxInv
  <2>2. ASSUME NEW m \in Shared!InMessage, m.type # "connect", queue' = Append(queue, m)
        PROVE  InboxInv'
    <3>1. /\ DOMAIN queue' = 1 .. Len(queue) + 1
          /\ DOMAIN queue = 1 .. Len(queue)
          /\ \A i \in DOMAIN queue : queue'[i] = queue[i]
          /\ queue'[Len(queue) + 1] = m
          /\ Len(queue) \in Nat
          /\ queue # <<>> => 1 \in DOMAIN queue
          /\ queue' # <<>>
      BY <1>1, <2>2
    <3>2. \A i \in DOMAIN queue' : i \in DOMAIN queue \/ i = Len(queue) + 1
      BY <3>1
    <3>3. QED
      BY <1>1, <2>2, <3>1, <3>2 DEF InboxInv
  <2>3. QED
    BY <2>1, <2>2
<1>3. HandshakeInv'
  <2>1. SUFFICES ASSUME NEW t \in Tasks, task'[t].at = "receive"
                 PROVE  /\ task'[t].seen \in {"CONNECTING", "CONNECTED"}
                        /\ task'[t].seen = "CONNECTING" <=> client_state = "CONNECTING"
                        /\ client_state = "CONNECTING" =>
                             \A u \in Tasks : task'[u].at = "receive" => u = t
    BY DEF HandshakeInv
  <2>2. /\ task'[t].seen \in {"CONNECTING", "CONNECTED"}
        /\ task'[t].seen = "CONNECTING" <=> client_state = "CONNECTING"
    BY <1>1, <2>1 DEF HandshakeInv
  <2>3. ASSUME client_state = "CONNECTING", NEW u \in Tasks, task'[u].at = "receive", u # t
        PROVE  FALSE
    <3>1. CASE task'[t] = task[t] /\ task'[u] = task[u]
      BY <1>1, <2>1, <2>3, <3>1 DEF HandshakeInv
    <3>2. CASE task'[t] # task[t]
      <4>1. ~Shared!Racing /\ task'[u] = task[u]
        BY <2>1, <2>3, <3>2
      <4>2. QED
        BY <2>3, <4>1 DEF Shared!Racing
    <3>3. CASE task'[u] # task[u]
      <4>1. ~Shared!Racing /\ task'[t] = task[t]
        BY <2>1, <2>3, <3>3
      <4>2. QED
        BY <2>1, <2>3, <4>1 DEF Shared!Racing
    <3>4. QED
      BY <3>1, <3>2, <3>3
  <2>4. QED
    BY <2>2, <2>3
<1>4. QED
  BY <1>1, <1>2, <1>3 DEF ReadInv

\* What send() does to the tasks: t no longer waits in receive(), the others go on.
LEMMA SendTask ==
  ASSUME Shared!TypeOK, NEW t \in Tasks, NEW m, Shared!Send(t, m)
  PROVE  task'[t].at # "receive" /\ \A u \in Tasks : u # t => task'[u] = task[u]
<1>1. \/ task' = [task EXCEPT ![t] = Shared!Idle("RuntimeError")]
      \/ task' = [task EXCEPT ![t] = Shared!Sending(application_state)]
  BY DEF Shared!Send
<1>2. task \in [Tasks -> TaskState]
  BY DEF Shared!TypeOK, TaskState
<1>3. QED
  BY <1>1, <1>2 DEF Shared!Idle, Shared!Sending

\* Every action but Receive is a quiet step.
LEMMA QuietActions ==
  ASSUME SharedInv, ReadInv, ~raced',
         \/ Shared!ClientSends \/ Shared!ClientLeaves
         \/ \E t \in Tasks :
              \/ Shared!StartSend(t) \/ Shared!SendReturns(t) \/ Shared!SendFails(t) \/ Shared!StartAccept(t)
              \/ \E for \in {"receive", "data"} : Shared!StartReceive(t, for)
  PROVE  ReadInv'
<1>0. task \in [Tasks -> TaskState] /\ Shared!TypeOK
  BY DEF SharedInv, Shared!TypeOK, TaskState
<1>10. ~raced
  BY <1>0 DEF Shared!TypeOK, Shared!ClientSends, Shared!ClientLeaves, Shared!StartSend, Shared!SendReturns, Shared!SendFails, Shared!StartAccept,
              Shared!StartReceive
<1>1. CASE Shared!ClientSends
  <2>1. peer.sent + 1 \in Nat /\ peer \in [sent : 0..MaxReceive, here : BOOLEAN]
    <3>1. peer \in [sent : 0..MaxReceive, here : BOOLEAN]
      BY DEF SharedInv, Shared!TypeOK
    <3>2. peer.sent \in 0..MaxReceive
      BY <3>1
    <3>3. QED
      BY <3>1, <3>2, MaxAssumption
  <2>2. Shared!In("receive", peer'.sent) \in Shared!InMessage /\ Shared!In("receive", peer'.sent).type # "connect"
    BY <1>1, <2>1, RecordTypes DEF Shared!ClientSends, Shared!In
  <2>3. QED
    BY <1>1, <2>2, <1>10, QuietStep DEF Shared!ClientSends
<1>2. CASE Shared!ClientLeaves
  <2>1. Shared!In("disconnect", 0) \in Shared!InMessage /\ Shared!In("disconnect", 0).type # "connect"
    BY RecordTypes DEF Shared!In
  <2>2. QED
    BY <1>2, <2>1, <1>10, QuietStep DEF Shared!ClientLeaves
<1>3. ASSUME NEW t \in Tasks, Shared!StartSend(t)
      PROVE  ReadInv'
  <2>1. task'[t].at # "receive" /\ \A u \in Tasks : u # t => task'[u] = task[u]
    BY <1>0, <1>3, SendTask DEF Shared!StartSend
  <2>2. \A u \in Tasks : task'[u].at = "receive" => task'[u] = task[u]
    BY <2>1
  <2>3. QED
    BY <1>3, <2>2, <1>10, QuietStep DEF Shared!StartSend
<1>4. ASSUME NEW t \in Tasks, Shared!SendReturns(t) \/ Shared!SendFails(t)
      PROVE  ReadInv'
  <2>1. \E result : task' = [task EXCEPT ![t] = Shared!Idle(result)]
    BY <1>4 DEF Shared!SendReturns, Shared!SendFails, Shared!OnOSError
  <2>2. \A u \in Tasks : task'[u].at = "receive" => task'[u] = task[u]
    BY <1>0, <2>1 DEF Shared!Idle
  <2>3. QED
    BY <1>4, <2>2, <1>10, QuietStep DEF Shared!SendReturns, Shared!SendFails
<1>5. ASSUME NEW t \in Tasks, Shared!StartAccept(t)
      PROVE  ReadInv'
  <2>1. UNCHANGED <<client_state, queue, taken, delivered>>
    BY <1>5 DEF Shared!StartAccept
  <2>2. CASE client_state = "CONNECTING"
    <3>1. /\ task' = [task EXCEPT ![t] = Shared!Receiving(client_state, "accept")]
          /\ ~Shared!Racing
      BY <1>5, <2>2 DEF Shared!StartAccept
    <3>2. /\ \A u \in Tasks : u # t => task'[u] = task[u]
          /\ task'[t].seen = client_state
      BY <1>0, <3>1 DEF Shared!Receiving
    <3>3. QED
      BY <2>1, <2>2, <3>1, <3>2, <1>10, QuietStep
  <2>3. CASE client_state # "CONNECTING"
    <3>1. Shared!Send(t, Shared!Out("accept", FALSE))
      BY <1>5, <2>3 DEF Shared!StartAccept
    <3>2. \A u \in Tasks : task'[u].at = "receive" => task'[u] = task[u]
      BY <1>0, <3>1, SendTask
    <3>3. QED
      BY <2>1, <3>2, <1>10, QuietStep
  <2>4. QED
    BY <2>2, <2>3
<1>6. ASSUME NEW t \in Tasks, NEW for \in {"receive", "data"}, Shared!StartReceive(t, for)
      PROVE  ReadInv'
  <2>1. UNCHANGED <<client_state, queue, taken, delivered>>
    BY <1>6 DEF Shared!StartReceive
  <2>2. CASE task' = [task EXCEPT ![t] = Shared!Idle("RuntimeError")]
    <3>1. \A u \in Tasks : task'[u].at = "receive" => task'[u] = task[u]
      BY <1>0, <2>2 DEF Shared!Idle
    <3>2. QED
      BY <2>1, <3>1, <1>10, QuietStep
  <2>3. CASE /\ task' = [task EXCEPT ![t] = Shared!Receiving(client_state, for)]
             /\ client_state \in {"CONNECTING", "CONNECTED"} /\ ~Shared!Racing
    <3>1. /\ \A u \in Tasks : u # t => task'[u] = task[u]
          /\ task'[t].seen = client_state
      BY <1>0, <2>3 DEF Shared!Receiving
    <3>2. QED
      BY <2>1, <2>3, <3>1, <1>10, QuietStep
  <2>4. QED
    BY <1>6, <2>2, <2>3 DEF Shared!StartReceive
<1>7. QED
  BY <1>1, <1>2, <1>3, <1>4, <1>5, <1>6

\* Receive delivers what it takes: the state seen before the wait still fits.
LEMMA DeliveredStep ==
  ASSUME SharedInv, ReadInv, ~raced', NEW t \in Tasks, Shared!Receive(t)
  PROVE  ReadInv'
<1> DEFINE m == Head(queue)
<1>1. /\ InboxInv /\ HandshakeInv /\ delivered = taken
      /\ Shared!TypeOK /\ task \in [Tasks -> TaskState]
      /\ queue \in Seq(Shared!InMessage) /\ queue # <<>>
      /\ task[t].at = "receive"
  BY DEF ReadInv, SharedInv, Shared!TypeOK, TaskState, Shared!Receive
<1>2. /\ m = queue[1] /\ 1 \in DOMAIN queue
      /\ m.type \in {"connect", "receive", "disconnect"}
      /\ queue' = Tail(queue)
  <2>1. m = queue[1] /\ 1 \in DOMAIN queue /\ m \in Shared!InMessage
    BY <1>1
  <2>2. m.type \in {"connect", "receive", "disconnect"}
    BY <2>1 DEF Shared!InMessage
  <2>3. QED
    BY <2>1, <2>2 DEF Shared!Receive
<1>3. m.type = "connect" <=> client_state = "CONNECTING"
  BY <1>1, <1>2 DEF InboxInv
<1>4. m.type \in Shared!Expected(task[t].seen)
  <2>1. task[t].seen = "CONNECTING" <=> client_state = "CONNECTING"
    BY <1>1 DEF HandshakeInv
  <2>2. QED
    BY <1>2, <1>3, <2>1 DEF Shared!Expected
<1>5. Shared!Deliver(t, m) /\ taken' = Append(taken, m)
  BY <1>4 DEF Shared!Receive
<1>6. delivered' = taken'
  BY <1>1, <1>5 DEF Shared!Deliver
<1>7. client_state' # "CONNECTING"
  BY <1>2, <1>3, <1>5 DEF Shared!Deliver, Shared!AfterReceive
<1>8. InboxInv'
  <2>1. \A i \in DOMAIN queue' : i + 1 \in DOMAIN queue /\ queue'[i] = queue[i + 1] /\ i + 1 # 1
    BY <1>1, <1>2
  <2>2. \A i \in DOMAIN queue' : queue'[i].type # "connect"
    BY <1>1, <2>1 DEF InboxInv
  <2>3. QED
    BY <1>7, <2>2 DEF InboxInv
<1>9. HandshakeInv'
  <2>1. task'[t].at # "receive" /\ \A u \in Tasks : u # t => task'[u] = task[u]
    <3>1. CASE task[t].for = "accept"
      BY <1>1, <1>5, <3>1, SendTask DEF Shared!Deliver
    <3>2. CASE task[t].for # "accept"
      <4>1. \E result : task' = [task EXCEPT ![t] = Shared!Idle(result)]
        BY <1>5, <3>2 DEF Shared!Deliver
      <4>2. QED
        BY <1>1, <4>1 DEF Shared!Idle
    <3>3. QED
      BY <3>1, <3>2
  <2>2. ASSUME NEW u \in Tasks, task'[u].at = "receive"
        PROVE  task'[u].seen = "CONNECTED"
    <3>1. u # t /\ task[u].at = "receive" /\ task'[u].seen = task[u].seen
      BY <2>1, <2>2
    <3>2. client_state # "CONNECTING"
      BY <1>1, <3>1 DEF HandshakeInv
    <3>3. QED
      BY <1>1, <3>1, <3>2 DEF HandshakeInv
  <2>3. QED
    BY <1>7, <2>2 DEF HandshakeInv
<1>10. QED
  BY <1>6, <1>8, <1>9 DEF ReadInv

-----------------------------------------------------------------------------
(* Sends that fail.                                                        *)

QuietStepOnceLost == lost # {} /\ wire' # wire => Shared!GoesOn

\* One send(): what it lets through once another has failed.
LEMMA SendLost ==
  ASSUME Shared!TypeOK, WireInv, LostInv, NEW t \in Tasks, NEW m \in Shared!OutMessage,
         Shared!Send(t, m), lost' = lost
  PROVE  LostInv' /\ QuietStepOnceLost
<1>1. /\ wire \in Seq(Shared!OutMessage) /\ application_state \in Shared!States
      /\ task \in [Tasks -> TaskState] /\ lost \subseteq Shared!States
  BY DEF Shared!TypeOK, TaskState
<1>2. CASE m.type \notin Shared!Allowed(application_state)
  <2>1. /\ UNCHANGED <<application_state, wire, lost>>
        /\ task' = [task EXCEPT ![t] = Shared!Idle("RuntimeError")]
    BY <1>2 DEF Shared!Send
  <2>2. task'[t].at = "idle" /\ \A u \in Tasks \ {t} : task'[u] = task[u]
    BY <1>1, <2>1 DEF Shared!Idle
  <2>3. QED
    BY <2>1, <2>2 DEF LostInv, QuietStepOnceLost
<1>3. CASE m.type \in Shared!Allowed(application_state)
  <2>1. /\ application_state' = Shared!AfterSend(application_state, m)
        /\ wire' = Append(wire, m)
        /\ task' = [task EXCEPT ![t] = Shared!Sending(application_state)]
    BY <1>3 DEF Shared!Send
  <2>2. /\ wire' # <<>> /\ wire'[Len(wire')] = m
        /\ wire'[1] = IF wire = <<>> THEN m ELSE wire[1]
    BY <1>1, <2>1
  <2>3. /\ task'[t].seen = application_state
        /\ \A u \in Tasks \ {t} : task'[u] = task[u]
    BY <1>1, <2>1 DEF Shared!Sending
  <2>4. /\ application_state = "CONNECTING" => wire = <<>> /\ lost = {}
        /\ application_state # "CONNECTING" => wire # <<>>
        /\ application_state # "DISCONNECTED"
    BY <1>1, <1>3 DEF WireInv, LostInv, Shared!Allowed, Shared!States
  <2>5. /\ application_state' = "CONNECTED" => wire'[1].type = "accept"
        /\ application_state' = "RESPONSE" => wire'[1].type = "response.start"
        /\ application_state = "RESPONSE" => wire'[1].type = "response.start"
    BY <1>1, <1>3, <2>1, <2>2, <2>4 DEF LostInv, Shared!Allowed, Shared!AfterSend, Shared!States
  <2>6. LostInv'
    BY <2>2, <2>3, <2>4, <2>5 DEF LostInv
  <2>7. QuietStepOnceLost
    <3>1. SUFFICES ASSUME lost # {} PROVE Shared!GoesOn
      BY DEF QuietStepOnceLost
    <3>2. CASE application_state = "CONNECTED"
      <4>1. "CONNECTED" \notin lost /\ "RESPONSE" \notin lost /\ "DISCONNECTED" \notin lost
        BY <3>2 DEF LostInv
      <4>2. lost = {"CONNECTING"}
        BY <1>1, <3>1, <4>1 DEF Shared!States
      <4>3. m.type \in {"send", "close"}
        BY <1>3, <3>2 DEF Shared!Allowed
      <4>4. QED
        BY <2>2, <3>2, <4>2, <4>3 DEF LostInv, Shared!GoesOn
    <3>3. CASE application_state = "RESPONSE"
      <4>1. m.type = "response.body"
        BY <1>3, <3>3 DEF Shared!Allowed
      <4>2. QED
        BY <2>2, <3>3, <4>1 DEF LostInv, Shared!GoesOn
    <3>4. QED
      BY <1>1, <2>4, <3>1, <3>2, <3>3 DEF Shared!States
  <2>8. QED
    BY <2>6, <2>7
<1>4. QED
  BY <1>2, <1>3

\* The steps that send nothing.
LEMMA NothingSent ==
  ASSUME LostInv, UNCHANGED <<application_state, wire, lost>>,
         \A t \in Tasks : task'[t] = task[t] \/ task'[t].at # "send"
  PROVE  LostInv' /\ QuietStepOnceLost
BY DEF LostInv, QuietStepOnceLost

LEMMA LostStep ==
  ASSUME SharedInv, LostInv, Shared!Next
  PROVE  LostInv' /\ QuietStepOnceLost
<1> USE DEF SharedInv
<1>1. /\ task \in [Tasks -> TaskState] /\ lost \subseteq Shared!States
      /\ application_state \in Shared!States
  BY DEF Shared!TypeOK, TaskState
<1>2. CASE Shared!ClientSends \/ Shared!ClientLeaves
  BY <1>2, NothingSent DEF Shared!ClientSends, Shared!ClientLeaves
<1>3. ASSUME NEW t \in Tasks, NEW result, task' = [task EXCEPT ![t] = Shared!Idle(result)]
      PROVE  \A u \in Tasks : task'[u] = task[u] \/ task'[u].at # "send"
  BY <1>1, <1>3 DEF Shared!Idle
<1>4. ASSUME NEW t \in Tasks, Shared!SendReturns(t) PROVE LostInv' /\ QuietStepOnceLost
  BY <1>3, <1>4, NothingSent DEF Shared!SendReturns
<1>5. ASSUME NEW t \in Tasks, Shared!SendFails(t) PROVE LostInv' /\ QuietStepOnceLost
  <2>1. /\ task[t].at = "send" /\ wire' = wire
        /\ lost' = lost \union {task[t].seen}
        /\ IF task[t].seen = "CONNECTED" THEN application_state' = "DISCONNECTED"
                                         ELSE application_state' = application_state
    BY <1>5 DEF Shared!SendFails, Shared!OnOSError
  <2>2. \A u \in Tasks : task'[u] = task[u] \/ task'[u].at # "send"
    BY <1>3, <1>5 DEF Shared!SendFails, Shared!OnOSError
  <2>3. QED
    BY <2>1, <2>2 DEF LostInv, QuietStepOnceLost
<1>6. ASSUME NEW t \in Tasks, Shared!StartSend(t) PROVE LostInv' /\ QuietStepOnceLost
  <2>1. PICK m \in Shared!OutMessage : Shared!Send(t, m)
    BY <1>6, RecordTypes DEF Shared!StartSend
  <2>2. QED
    BY <1>6, <2>1, SendLost DEF Shared!StartSend
<1>7. Shared!Out("accept", FALSE) \in Shared!OutMessage
  BY RecordTypes
<1>8. ASSUME NEW t \in Tasks, NEW seen, NEW for, task' = [task EXCEPT ![t] = Shared!Receiving(seen, for)]
      PROVE  \A u \in Tasks : task'[u] = task[u] \/ task'[u].at # "send"
  BY <1>1, <1>8 DEF Shared!Receiving
<1>9. ASSUME NEW t \in Tasks, Shared!StartAccept(t) PROVE LostInv' /\ QuietStepOnceLost
  <2>1. lost' = lost
    BY <1>9 DEF Shared!StartAccept
  <2>2. CASE Shared!Send(t, Shared!Out("accept", FALSE))
    BY <1>7, <2>1, <2>2, SendLost
  <2>3. CASE /\ task' = [task EXCEPT ![t] = Shared!Receiving(client_state, "accept")]
             /\ UNCHANGED <<application_state, wire>>
    BY <1>8, <2>1, <2>3, NothingSent
  <2>4. QED
    BY <1>9, <2>2, <2>3 DEF Shared!StartAccept
<1>10. ASSUME NEW t \in Tasks, NEW for \in {"receive", "data"}, Shared!StartReceive(t, for)
       PROVE  LostInv' /\ QuietStepOnceLost
  <2>1. \/ task' = [task EXCEPT ![t] = Shared!Idle("RuntimeError")]
        \/ task' = [task EXCEPT ![t] = Shared!Receiving(client_state, for)]
    BY <1>10 DEF Shared!StartReceive
  <2>2. \A u \in Tasks : task'[u] = task[u] \/ task'[u].at # "send"
    BY <1>3, <1>8, <2>1
  <2>3. QED
    BY <1>10, <2>2, NothingSent DEF Shared!StartReceive
<1>11. ASSUME NEW t \in Tasks, Shared!Receive(t) PROVE LostInv' /\ QuietStepOnceLost
  <2>1. lost' = lost
    BY <1>11 DEF Shared!Receive
  <2>2. CASE Shared!Send(t, Shared!Out("accept", FALSE))
    BY <1>7, <2>1, <2>2, SendLost
  <2>3. CASE /\ \E result : task' = [task EXCEPT ![t] = Shared!Idle(result)]
             /\ UNCHANGED <<application_state, wire>>
    BY <1>3, <2>1, <2>3, NothingSent
  <2>4. QED
    BY <1>11, <2>2, <2>3 DEF Shared!Receive, Shared!Deliver
<1>12. QED
  BY <1>2, <1>4, <1>5, <1>6, <1>9, <1>10, <1>11 DEF Shared!Next

-----------------------------------------------------------------------------
(* The theorems.                                                           *)

\* Of the two, the one that is not followed is as at the start.
Unfollowed ==
  /\ TypeOK
  /\ pc \in {"function", "on_connect"} /\ exc = "none"
  /\ ending.how = "none" /\ told.codes = <<>>

SessionsInv ==
  /\ shares => Unfollowed /\ SharedInv /\ ReadInv /\ LostInv
  /\ ~shares => IInv /\ lost = {} /\ taken = delivered

\* What a step of either does to the wire.
SessionsStep == WireStep /\ QuietStepOnceLost

LEMMA SameMessages == Shared!OutMessage = OutMessage
BY DEF Shared!OutMessage, OutMessage

LEMMA SameProtocol == Shared!Protocol!Next => Protocol!Next
BY DEF Shared!Protocol!Next, Shared!Protocol!Answer, Shared!Protocol!Data, Shared!Protocol!Denial,
       Shared!Protocol!Sends, Shared!Protocol!Accepted, Shared!Protocol!Denying,
       Shared!Protocol!LastIs, Protocol!Next, Protocol!Answer, Protocol!Data, Protocol!Denial,
       Protocol!Sends, Protocol!Accepted, Protocol!Denying, Protocol!LastIs

LEMMA SessionsStart == SessionsInit => SessionsInv
<1> SUFFICES ASSUME SessionsInit PROVE SessionsInv
  OBVIOUS
<1>1. IInv
  BY InitInvariant DEF SessionsInit
<1>2. Unfollowed
  <2>1. pc \in {"function", "on_connect"} /\ exc = "none"
        /\ ending.how = "none" /\ told.codes = <<>>
    BY DEF SessionsInit, Init
  <2>2. QED
    BY <1>1, <2>1 DEF IInv, Unfollowed
<1>3. SharedInv
  BY SharedStarts DEF SessionsInit
<1>4. lost = {} /\ taken = delivered
  BY DEF SessionsInit, Shared!Init, Shared!Start
<1>5. InboxInv /\ HandshakeInv
  <2>1. queue = <<Shared!In("connect", 0)>> /\ client_state = "CONNECTING"
    BY DEF SessionsInit, Shared!Init, Shared!Start
  <2>2. InboxInv
    BY <2>1 DEF InboxInv, Shared!In
  <2>3. HandshakeInv
    BY DEF SessionsInit, Shared!Init, Shared!Start, HandshakeInv, Shared!Idle
  <2>4. QED
    BY <2>2, <2>3
<1>6. ReadInv
  BY <1>4, <1>5 DEF ReadInv
<1>7. LostInv
  BY <1>4 DEF SessionsInit, Shared!Init, Shared!Start, LostInv, Shared!Idle
<1>8. QED
  BY <1>1, <1>2, <1>3, <1>4, <1>6, <1>7 DEF SessionsInv

LEMMA SessionsKept ==
  ASSUME SessionsInv, [SessionsNext]_sessionsVars
  PROVE  SessionsInv' /\ SessionsStep
<1>1. CASE Routed(Next)
  <2>1. /\ ~shares /\ ~shares' /\ IInv /\ lost = {} /\ lost' = {} /\ taken' = delivered'
        /\ Next
    BY <1>1 DEF Routed, sharing, SessionsInv
  <2>2. IInv' /\ WireStep
    BY <2>1, NextInvariant
  <2>3. QED
    BY <2>1, <2>2 DEF SessionsInv, SessionsStep, QuietStepOnceLost
<1>2. CASE ByTasks(Shared!Next)
  <2>1. /\ shares /\ shares' /\ Unfollowed /\ SharedInv /\ ReadInv /\ LostInv
        /\ Shared!Next
        /\ UNCHANGED <<kind, session, client, inbox, pc, exc, close_code, ending, told>>
    BY <1>2 DEF ByTasks, endpoint, SessionsInv
  <2>2. GoodStep
    BY <2>1, SharedStep
  <2>3. ReadInv'
    <3>1. CASE raced'
      BY <3>1 DEF ReadInv
    <3>2. CASE ~raced'
      BY <2>1, <3>2, QuietActions, DeliveredStep DEF Shared!Next
    <3>3. QED
      BY <3>1, <3>2
  <2>4. wire' \in Seq(OutMessage)
    BY <2>2, SameMessages DEF GoodStep, SharedInv, Shared!TypeOK
  <2>5. Unfollowed'
    BY <2>1, <2>4 DEF Unfollowed, TypeOK
  <2>6. Protocol!Next \/ wire' = wire
    BY <2>2, SameProtocol DEF GoodStep
  <2>7. LostInv' /\ QuietStepOnceLost
    BY <2>1, LostStep
  <2>8. QED
    BY <2>1, <2>2, <2>3, <2>5, <2>6, <2>7 DEF SessionsInv, SessionsStep, GoodStep, WireStep
<1>3. CASE UNCHANGED sessionsVars
  <2>1. /\ UNCHANGED <<kind, session, client, inbox, pc, exc, close_code, ending, told, wire, shares>>
        /\ UNCHANGED <<client_state, application_state, peer, queue, task, taken, delivered, lost, raced>>
    BY <1>3 DEF sessionsVars, vars, sharing
  <2>2. UNCHANGED vars /\ UNCHANGED Shared!vars
    BY <2>1 DEF vars, Shared!vars
  <2>3. IInv => IInv'
    BY <2>2, NextInvariant
  <2>4. SharedInv => SharedInv'
    BY <2>2, SharedStep DEF GoodStep
  <2>5. Unfollowed => Unfollowed'
    BY <2>1 DEF Unfollowed, TypeOK
  <2>6. ReadInv => ReadInv'
    BY <2>1 DEF ReadInv, InboxInv, HandshakeInv
  <2>7. LostInv => LostInv'
    BY <2>1 DEF LostInv
  <2>8. QED
    BY <2>1, <2>3, <2>4, <2>5, <2>6, <2>7 DEF SessionsInv, SessionsStep, WireStep, QuietStepOnceLost
<1>4. QED
  BY <1>1, <1>2, <1>3 DEF SessionsNext

\* The inductive invariant: what was raised and told says where the endpoint is, and
\* application_state always tells what may be sent next.
THEOREM Invariant == SessionsSpec => []SessionsInv
<1>1. SessionsInv /\ [SessionsNext]_sessionsVars => SessionsInv'
  BY SessionsKept
<1>2. QED
  BY SessionsStart, <1>1, PTL DEF SessionsSpec

\* For any client and any code of the endpoint: on_disconnect is called exactly once for an
\* established session and is told how it ended, and an error of the loop leaves the
\* application, or closes or denies the connection.
THEOREM EndingIsTold == SessionsSpec => []EndingTold
<1>1. SessionsInv => EndingTold
  <2>1. SUFFICES ASSUME SessionsInv PROVE EndingTold
    OBVIOUS
  <2>2. CASE ~shares
    BY <2>1, <2>2, InvariantImplies DEF SessionsInv
  <2>3. CASE shares
    <3>1. Unfollowed
      BY <2>1, <2>3 DEF SessionsInv
    <3>2. Len(told.codes) = 0 /\ DOMAIN told.codes = {} /\ pc # "over"
      BY <3>1 DEF Unfollowed
    <3>3. OnDisconnectOnce
      BY <3>2 DEF OnDisconnectOnce
    <3>4. CloseCodeTold /\ ErrorIsShown
      BY <3>2 DEF CloseCodeTold, ErrorIsShown
    <3>5. QED
      BY <3>1, <3>3, <3>4 DEF Unfollowed, EndingTold
  <2>4. QED
    BY <2>2, <2>3
<1>2. QED
  BY <1>1, Invariant, PTL

\* However many tasks call send(), accept(), close() and the denial response, and however
\* they interleave, and whatever the endpoint and the wrappers send, it is in the order of the
\* protocol, but for the two exceptions that WireInOrder names.
THEOREM Refinement == SessionsSpec => WireInOrder
<1>1. SessionsInv /\ [SessionsNext]_sessionsVars =>
        [exc # "HTTPException" /\ pc # "denial" /\ (pc = "middleware" => ~Closed)
           => Protocol!Next]_wire
  BY SessionsKept DEF SessionsStep, WireStep
<1>2. QED
  BY Invariant, <1>1, PTL DEF SessionsSpec, WireInOrder

\* Once a send() has failed on an accepted connection no task sends anything; once accept()
\* or a part of a denial response has, nothing but what would follow it.
THEOREM QuietOnceLost == SessionsSpec => SilentOnceLost
<1>1. SessionsInv /\ [SessionsNext]_sessionsVars =>
        [lost # {} /\ wire' # wire => Shared!GoesOn]_(Shared!vars)
  BY SessionsKept DEF SessionsStep, QuietStepOnceLost
<1>2. QED
  BY <1>1, Invariant, PTL DEF SessionsSpec, SilentOnceLost, Shared!SilentOnceLost

\* While one task at a time waits for the connect message, every message taken from
\* the server is returned to, or raised at, a task of the endpoint, in order: the
\* state that receive() looked at before its wait is never stale when it is used.
THEOREM Delivered == SessionsSpec => []NothingLost
<1>1. SessionsInv => NothingLost
  BY DEF SessionsInv, ReadInv, NothingLost, Shared!NothingLost
<1>2. QED
  BY <1>1, Invariant, PTL

=============================================================================
