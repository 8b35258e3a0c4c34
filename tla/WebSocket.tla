------------------------------- MODULE WebSocket -------------------------------
(***************************************************************************)
(* One starlette.websockets.WebSocket shared by the tasks of an endpoint:  *)
(* receive(), accept(), send(), close() and the denial response, with the  *)
(* two state attributes that keep a session within the ASGI protocol.      *)
(*                                                                         *)
(* A step of a task ends where the code awaits the server's receive() or   *)
(* send().  receive() looks at client_state before its await and assigns   *)
(* it after; send() does both before.  Payloads and close codes are left   *)
(* out; the client's messages are numbered.                                *)
(***************************************************************************)
EXTENDS WebSocketMessages

CONSTANTS
  Tasks,        \* the tasks of the endpoint that use the session
  MaxReceive,   \* bound: data messages of the client
  MaxSend       \* bound: messages of the application

VARIABLES
  client_state,
  application_state,
  client,     \* the client: data messages sent, whether it is still there
  inbox,      \* messages the server has ready for receive()
  task,       \* what each task awaits, and how its last operation ended
  taken,      \* history: messages taken from the server
  delivered,  \* history: messages returned to, or raised at, a task of the endpoint
  wire,       \* messages passed to the server's send()
  lost,       \* history: the states in which a send() has found the client gone
  raced       \* history: two tasks have waited for the connect message at once

vars == <<client_state, application_state, client, inbox, task, taken, delivered, wire, lost, raced>>

InMessage == [type : {"connect", "receive", "disconnect"}, n : Nat]
In(type, n) == [type |-> type, n |-> n]

\* What a task does: nothing, or await the server in receive() (called for itself,
\* by receive_text() and the like, or by accept()), or await it in send().
Idle(result) == [at |-> "idle", seen |-> "CONNECTING", for |-> "receive", result |-> result]
Receiving(seen, for) == [at |-> "receive", seen |-> seen, for |-> for, result |-> "none"]
Sending(seen) == [at |-> "send", seen |-> seen, for |-> "receive", result |-> "none"]

TypeOK ==
  /\ client_state \in States
  /\ application_state \in States
  /\ client \in [sent : 0..MaxReceive, here : BOOLEAN]
  /\ inbox \in Seq(InMessage)
  /\ task \in [Tasks -> [at : {"idle", "receive", "send"}, seen : States,
                         for : {"receive", "data", "accept"},
                         result : {"none", "ok", "RuntimeError", "WebSocketDisconnect",
                                   "WebSocketDisconnect 1006", "OSError"}]]
  /\ taken \in Seq(InMessage)
  /\ delivered \in Seq(InMessage)
  /\ wire \in Seq(OutMessage)
  /\ lost \subseteq States
  /\ raced \in BOOLEAN

\* WebSocket.__init__(), when the server has the connect message of the client.
Start(receiving, sending) ==
  /\ client_state = receiving
  /\ application_state = sending
  /\ client = [sent |-> 0, here |-> TRUE]
  /\ inbox = <<In("connect", 0)>>
  /\ task = [t \in Tasks |-> Idle("none")]
  /\ taken = <<>>
  /\ delivered = <<>>
  /\ wire = <<>>
  /\ lost = {}
  /\ raced = FALSE

Init == Start("CONNECTING", "CONNECTING")

-----------------------------------------------------------------------------
(* The client, through the server (external).                              *)

ClientSends ==
  /\ client.here
  /\ client.sent < MaxReceive
  /\ client' = [client EXCEPT !.sent = @ + 1]
  /\ inbox' = Append(inbox, In("receive", client'.sent))
  /\ UNCHANGED <<client_state, application_state, task, taken, delivered, wire, lost, raced>>

ClientLeaves ==
  /\ client.here
  /\ client' = [client EXCEPT !.here = FALSE]
  /\ inbox' = Append(inbox, In("disconnect", 0))
  /\ UNCHANGED <<client_state, application_state, task, taken, delivered, wire, lost, raced>>

-----------------------------------------------------------------------------
(* WebSocket.send().                                                       *)

\* Mutant of Send: the state is not set before the server is awaited.
SendThenAssign(t, m) ==
  \/ /\ m.type \in Allowed(application_state)
     /\ wire' = Append(wire, m)
     /\ task' = [task EXCEPT ![t] = Sending(application_state)]
     /\ UNCHANGED application_state
  \/ /\ m.type \notin Allowed(application_state)
     /\ task' = [task EXCEPT ![t] = Idle("RuntimeError")]
     /\ UNCHANGED <<application_state, wire>>

\* send(m) of task t, up to `await self._send(message)` or to its RuntimeError.
Send(t, m) ==
  \/ /\ m.type \in Allowed(application_state)
     /\ application_state' = AfterSend(application_state, m)
     /\ wire' = Append(wire, m)
     /\ task' = [task EXCEPT ![t] = Sending(application_state)]
  \/ /\ m.type \notin Allowed(application_state)
     /\ task' = [task EXCEPT ![t] = Idle("RuntimeError")]
     /\ UNCHANGED <<application_state, wire>>

\* send_text(), send_bytes(), send_json(), close(), and the messages of a denial
\* response, called by the endpoint.
StartSend(t) ==
  /\ task[t].at = "idle"
  /\ Len(wire) < MaxSend
  /\ \E m \in {Out("send", FALSE), Out("close", FALSE), Out("response.start", FALSE),
               Out("response.body", FALSE), Out("response.body", TRUE)} : Send(t, m)
  /\ UNCHANGED <<client_state, client, inbox, taken, delivered, lost, raced>>

\* The server's send() returns.
SendReturns(t) ==
  /\ task[t].at = "send"
  /\ task' = [task EXCEPT ![t] = Idle("ok")]
  /\ UNCHANGED <<client_state, application_state, client, inbox, taken, delivered, wire, lost, raced>>

\* Mutant of OnOSError: the exception becomes a WebSocketDisconnect, but the
\* session stays as it was.
OnOSErrorConnected(t) ==
  /\ task' = [task EXCEPT ![t] = Idle(IF task[t].seen = "CONNECTED"
                                      THEN "WebSocketDisconnect 1006" ELSE "OSError")]
  /\ UNCHANGED application_state

\* What an OSError of the server's send() becomes: only a session that was CONNECTED
\* turns it into a WebSocketDisconnect and is disconnected by it.  One that was
\* CONNECTING (accept(), close() or the start of a denial response) or in RESPONSE is
\* left in the state that the message leads to, as if it had been sent.
OnOSError(t) ==
  \/ /\ task[t].seen = "CONNECTED"
     /\ application_state' = "DISCONNECTED"
     /\ task' = [task EXCEPT ![t] = Idle("WebSocketDisconnect 1006")]
  \/ /\ task[t].seen # "CONNECTED"
     /\ task' = [task EXCEPT ![t] = Idle("OSError")]
     /\ UNCHANGED application_state

\* The server's send() raises: the client is gone.
SendFails(t) ==
  /\ task[t].at = "send"
  /\ ~client.here
  /\ OnOSError(t)
  /\ lost' = lost \union {task[t].seen}
  /\ UNCHANGED <<client_state, client, inbox, taken, delivered, wire, raced>>

-----------------------------------------------------------------------------
(* WebSocket.receive(), receive_text() and the like, accept().             *)

\* Another task waits for the connect message already.
Racing == client_state = "CONNECTING" /\ \E u \in Tasks : task[u].at = "receive"

\* receive(), or receive_text() (bytes, json) that needs an accepted connection first.
StartReceive(t, for) ==
  /\ task[t].at = "idle"
  /\ LET refused == \/ for = "data" /\ application_state # "CONNECTED"
                    \/ client_state \notin {"CONNECTING", "CONNECTED"}
     IN  \/ /\ refused
            /\ task' = [task EXCEPT ![t] = Idle("RuntimeError")]
            /\ UNCHANGED raced
         \/ /\ ~refused
            /\ task' = [task EXCEPT ![t] = Receiving(client_state, for)]
            /\ raced' = (raced \/ Racing)
  /\ UNCHANGED <<client_state, application_state, client, inbox, taken, delivered, wire, lost>>

\* accept(): wait for the connect message first, unless it has been received.
StartAccept(t) ==
  /\ task[t].at = "idle"
  /\ Len(wire) < MaxSend
  /\ \/ /\ client_state = "CONNECTING"
        /\ task' = [task EXCEPT ![t] = Receiving(client_state, "accept")]
        /\ raced' = (raced \/ Racing)
        /\ UNCHANGED <<application_state, wire>>
     \/ /\ client_state # "CONNECTING"
        /\ Send(t, Out("accept", FALSE))
        /\ UNCHANGED raced
  /\ UNCHANGED <<client_state, client, inbox, taken, delivered, lost>>

\* receive() returns m to its caller: the endpoint, receive_text(), which raises a
\* disconnect, or accept(), which goes on to send.
Deliver(t, m) ==
  /\ client_state' = AfterReceive(client_state, m)
  /\ delivered' = Append(delivered, m)
  /\ IF task[t].for = "accept"
     THEN Send(t, Out("accept", FALSE))
     ELSE /\ task' = [task EXCEPT ![t] =
                        Idle(IF task[t].for = "data" /\ m.type = "disconnect"
                             THEN "WebSocketDisconnect" ELSE "ok")]
          /\ UNCHANGED <<application_state, wire>>

\* The server's receive() returns; a message of an unexpected type raises and is lost.
Receive(t) ==
  /\ task[t].at = "receive"
  /\ inbox # <<>>
  /\ inbox' = Tail(inbox)
  /\ LET m == Head(inbox)
     IN  /\ taken' = Append(taken, m)
         /\ \/ m.type \in Expected(task[t].seen) /\ Deliver(t, m)
            \/ /\ m.type \notin Expected(task[t].seen)
               /\ task' = [task EXCEPT ![t] = Idle("RuntimeError")]
               /\ UNCHANGED <<client_state, application_state, delivered, wire>>
  /\ UNCHANGED <<client, lost, raced>>

-----------------------------------------------------------------------------
Next ==
  \/ ClientSends
  \/ ClientLeaves
  \/ \E t \in Tasks :
       \/ StartSend(t) \/ SendReturns(t) \/ SendFails(t)
       \/ \E for \in {"receive", "data"} : StartReceive(t, for)
       \/ StartAccept(t) \/ Receive(t)

\* The event loop resumes a task whose message is there, and a client leaves one day.
Fairness == WF_vars(ClientLeaves) /\ \A t \in Tasks : WF_vars(Receive(t))

Spec == Init /\ [][Next]_vars /\ Fairness

-----------------------------------------------------------------------------
(* Properties.                                                             *)

Protocol == INSTANCE WebSocketProtocol WITH wire <- wire

\* A step that sends what follows an accept() that failed, or a part of a denial that did.
GoesOn ==
  LET sent == wire'[Len(wire')].type
  IN  \/ lost = {"CONNECTING"} /\ wire[1].type = "accept" /\ sent \in {"send", "close"}
      \/ "CONNECTED" \notin lost /\ wire[1].type = "response.start" /\ sent = "response.body"

\* When a send has failed on an accepted connection, no task sends again.  Where accept()
\* or a part of a denial response has failed, which the session does not catch, tasks may
\* go on with the data or the body, but none answers the handshake anew.
SilentOnceLost == [][lost # {} /\ wire' # wire => GoesOn]_vars

\* No message of the client is lost while the tasks do not race for the handshake: the
\* tasks of the endpoint are given all that is taken from the server, in order.  (Of
\* two tasks that wait for the connect message, one is handed a later message that it
\* does not expect: a RuntimeError, and the message is gone.)
NothingLost == ~raced => delivered = taken

\* A task never waits for ever in receive(): it gets the client's messages and then
\* its disconnect, after which receive() refuses to wait.  (Of several tasks that wait
\* at once only one is told of the disconnect.)
ReaderReturns ==
  \A t \in Tasks :
    (task[t].at = "receive") ~> (task[t].at # "receive" \/ client_state = "DISCONNECTED" \/ raced)

=============================================================================
