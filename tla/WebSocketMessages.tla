--------------------------- MODULE WebSocketMessages ---------------------------
(***************************************************************************)
(* The ASGI messages of a WebSocket connection, without payloads and close *)
(* codes, and the two state machines of starlette.websockets.WebSocket     *)
(* that say which of them may come next.                                   *)
(***************************************************************************)
EXTENDS Naturals, Sequences

\* WebSocketState, of client_state and of application_state.
States == {"CONNECTING", "CONNECTED", "DISCONNECTED", "RESPONSE"}

OutMessage == [type : {"accept", "send", "close", "response.start", "response.body"},
               more_body : BOOLEAN]
Out(type, more) == [type |-> type, more_body |-> more]

\* The messages that send() lets through in an application_state.
Allowed(state) ==
  CASE state = "CONNECTING" -> {"accept", "close", "response.start"}
    [] state = "CONNECTED" -> {"send", "close"}
    [] state = "RESPONSE" -> {"response.body"}
    [] state = "DISCONNECTED" -> {}

\* The application_state that it sets before it awaits the server.
AfterSend(state, m) ==
  CASE m.type = "accept" -> "CONNECTED"
    [] m.type = "response.start" -> "RESPONSE"
    [] m.type = "close" -> "DISCONNECTED"
    [] m.type = "response.body" -> IF m.more_body THEN state ELSE "DISCONNECTED"
    [] m.type = "send" -> state

\* Mutant of Expected: a disconnect is not expected among the data.
ExpectedNoDisconnect(seen) == IF seen = "CONNECTING" THEN {"connect"} ELSE {"receive"}

\* The message types that receive() lets through, by the state it saw.
Expected(seen) == IF seen = "CONNECTING" THEN {"connect"} ELSE {"receive", "disconnect"}

\* Mutant of AfterReceive: a disconnect leaves the session connected.
AfterReceiveConnected(state, m) == IF m.type = "connect" THEN "CONNECTED" ELSE state

\* The client_state that it sets when the message is there.
AfterReceive(state, m) ==
  CASE m.type = "connect" -> "CONNECTED"
    [] m.type = "disconnect" -> "DISCONNECTED"
    [] m.type = "receive" -> state

=============================================================================
