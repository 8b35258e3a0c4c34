--------------------------- MODULE WebSocketProtocol ---------------------------
(***************************************************************************)
(* What an application promises the server on a WebSocket connection: the  *)
(* order of the ASGI messages it passes to send().  The handshake is       *)
(* answered once, by an accept, a close or an HTTP denial response; data   *)
(* follows an accept only; after a close, or the end of the denial         *)
(* response, nothing is sent.                                              *)
(***************************************************************************)
EXTENDS Naturals, Sequences

VARIABLE wire    \* the messages passed to the server, in order

LastIs(types) == wire # <<>> /\ wire[Len(wire)].type \in types

Accepted == LastIs({"accept", "send"})
Denying == LastIs({"response.start"}) \/ (LastIs({"response.body"}) /\ wire[Len(wire)].more_body)

Init == wire = <<>>

\* One more message, of one of these types, is sent.
Sends(types) ==
  /\ Len(wire') = Len(wire) + 1
  /\ wire' = Append(wire, wire'[Len(wire) + 1])
  /\ wire'[Len(wire) + 1].type \in types

Answer == wire = <<>> /\ Sends({"accept", "close", "response.start"})
Data == Accepted /\ Sends({"send", "close"})
Denial == Denying /\ Sends({"response.body"})

Next == Answer \/ Data \/ Denial

Spec == Init /\ [][Next]_wire

=============================================================================
