--------------------------- MODULE ResponseProtocol ---------------------------
(***************************************************************************)
(* What an HTTP application promises the server: the order in which it     *)
(* passes ASGI messages to send().  At most one response is started, body  *)
(* messages follow its start, and nothing follows the end of the body      *)
(* (the last body message, or a pathsend).  Starlette states it piecewise: *)
(* in the assertions of BaseHTTPMiddleware.call_next and body_stream, in   *)
(* the response classes that produce the messages and in TestClient, which *)
(* rejects anything else.                                                  *)
(***************************************************************************)
EXTENDS Naturals, Sequences

VARIABLE wire    \* the messages accepted by the server, in order

LastIs(types) == wire # <<>> /\ wire[Len(wire)].type \in types

Open == LastIs({"start"}) \/ (LastIs({"body"}) /\ wire[Len(wire)].more_body)
Complete == LastIs({"pathsend"}) \/ (LastIs({"body"}) /\ ~wire[Len(wire)].more_body)

Init == wire = <<>>

\* One more message, of one of these types, is sent.
Sends(types) ==
  /\ Len(wire') = Len(wire) + 1
  /\ wire' = Append(wire, wire'[Len(wire) + 1])
  /\ wire'[Len(wire) + 1].type \in types

SendDebug == wire = <<>> /\ Sends({"debug"})
SendStart == (wire = <<>> \/ LastIs({"debug"})) /\ Sends({"start"})
SendBody == Open /\ Sends({"body", "pathsend"})

Next == SendDebug \/ SendStart \/ SendBody

Spec == Init /\ [][Next]_wire

=============================================================================
