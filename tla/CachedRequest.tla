---------------------------- MODULE CachedRequest ----------------------------
(***************************************************************************)
(* The request body below BaseHTTPMiddleware: Request.stream(),            *)
(* Request.body() and Request.is_disconnected() as the middleware's        *)
(* dispatch() calls them, and _CachedRequest.wrapped_receive(), through    *)
(* which the downstream application reads the same ASGI receive channel.   *)
(*                                                                         *)
(* A body is abstracted to the numbers of the chunks it is made of: the    *)
(* client uploads chunks 1, 2, 3, ... and <<>> is b"".  An atomic step     *)
(* ends where the code awaits; a task waiting in `await self._receive()`   *)
(* acts on the flags as they are when the message arrives.                 *)
(***************************************************************************)
EXTENDS Naturals, Sequences, Functions

CONSTANTS
  MaxMessages,         \* bound: http.request messages the client sends
  RepeatDisconnect     \* the server answers every later receive() with http.disconnect

ASSUME MaxMessagesAssumption == MaxMessages \in Nat
ASSUME RepeatDisconnectAssumption == RepeatDisconnect \in BOOLEAN

VARIABLES
  client,    \* the uploading client, as the server sees it
  queue,     \* messages the server has ready for receive()
  req,       \* the attributes of the _CachedRequest
  mid,       \* dispatch()'s own pending read of the body
  rcv,       \* downstream's pending wrapped_receive()
  streamed,  \* history: chunks dispatch() took through stream()
  polled,    \* history: messages is_disconnected() took and dropped
  beside,    \* history: dispatch() has read the body after downstream began to
  down       \* history: what wrapped_receive() has returned downstream

reqVars == <<client, queue, req, mid, rcv, streamed, polled, beside, down>>

Chunk == Nat \ {0}
Message == [type : {"http.request", "http.disconnect"},
            body : Seq(Chunk), more_body : BOOLEAN]

Disconnect == [type |-> "http.disconnect", body |-> <<>>, more_body |-> FALSE]
RequestMessage(body, more) ==
  [type |-> "http.request", body |-> body, more_body |-> more]

TypeOK ==
  /\ client \in [messages : 0..MaxMessages, chunks : Nat,
                 state : {"uploading", "complete", "gone"}, complete : BOOLEAN]
  /\ queue \in Seq(Message)
  /\ req \in [stream_consumed : BOOLEAN, is_disconnected : BOOLEAN,
              cached : BOOLEAN, body : Seq(Chunk),   \* hasattr(_body), _body
              rcv_consumed : BOOLEAN, rcv_disconnected : BOOLEAN]
  /\ mid \in [op : {"idle", "stream", "body"}, chunks : Seq(Chunk)]
  /\ rcv \in {"idle", "stream", "disconnect", "closed"}
  /\ streamed \subseteq Chunk
  /\ polled \in Seq(Message)
  /\ beside \in BOOLEAN
  /\ down \in [data : Seq(Chunk), finals : Nat, gone : BOOLEAN]

-----------------------------------------------------------------------------
(* The initial state: Request.__init__ and _CachedRequest.__init__.        *)

InitRequest ==
  [stream_consumed |-> FALSE, is_disconnected |-> FALSE, cached |-> FALSE, body |-> <<>>,
   rcv_consumed |-> FALSE, rcv_disconnected |-> FALSE]

InitBody ==
  /\ client = [messages |-> 0, chunks |-> 0, state |-> "uploading", complete |-> FALSE]
  /\ queue = <<>>
  /\ req = InitRequest
  /\ mid = [op |-> "idle", chunks |-> <<>>]
  /\ rcv = "idle"
  /\ streamed = {}
  /\ polled = <<>>
  /\ beside = FALSE
  /\ down = [data |-> <<>>, finals |-> 0, gone |-> FALSE]

-----------------------------------------------------------------------------
(* The client and the server (external).                                   *)

\* The client uploads one more message: a chunk or an empty one, the last or not.
Upload(empty, more) ==
  /\ client.state = "uploading"
  /\ client.messages < MaxMessages
  /\ LET c == client.chunks + 1
     IN  /\ queue' = Append(queue, RequestMessage(IF empty THEN <<>> ELSE <<c>>, more))
         /\ client' = [client EXCEPT !.messages = @ + 1,
                                     !.chunks = IF empty THEN @ ELSE c,
                                     !.state = IF more THEN "uploading" ELSE "complete",
                                     !.complete = ~more]
  /\ UNCHANGED <<req, mid, rcv, streamed, polled, beside, down>>

\* The connection is closed.  A server may drop what was not read yet.
Leave(drop) ==
  /\ client.state # "gone"
  /\ client' = [client EXCEPT !.state = "gone"]
  /\ queue' = IF drop THEN <<Disconnect>> ELSE Append(queue, Disconnect)
  /\ UNCHANGED <<req, mid, rcv, streamed, polled, beside, down>>

\* `await receive()` of the server returns Head(queue).
Take ==
  /\ queue # <<>>
  /\ queue' = IF Head(queue).type = "http.disconnect" /\ RepeatDisconnect
              THEN queue ELSE Tail(queue)

-----------------------------------------------------------------------------
(* dispatch() reading the request: Request.stream, body, is_disconnected.  *)

\* Downstream has begun to read.
Began == rcv # "idle" \/ down.gone \/ down.finals > 0 \/ down.data # <<>>

\* stream().__anext__() or body() reaches `await self._receive()`.  With _body
\* cached both return it, after a consumed stream both raise: no state changes.
StartRead(op) ==
  /\ mid.op = "idle"
  /\ ~req.cached
  /\ ~req.stream_consumed
  /\ mid' = [op |-> op, chunks |-> <<>>]
  /\ beside' = (beside \/ Began)
  /\ UNCHANGED <<client, queue, req, rcv, streamed, polled, down>>

\* One message for dispatch(): stream() yields a chunk and is left there, body()
\* collects until the last message; an http.disconnect raises ClientDisconnect.
MidReceive ==
  /\ mid.op # "idle"
  /\ Take
  /\ LET m == Head(queue) IN
       /\ \/ /\ m.type = "http.request"
             /\ LET consumed == req.stream_consumed \/ ~m.more_body
                    chunks == mid.chunks \o m.body
                    body == mid.op = "body"
                    goOn == ~consumed /\ (body \/ m.body = <<>>)
                IN  /\ req' = [req EXCEPT !.stream_consumed = consumed,
                                          !.cached = @ \/ (body /\ consumed),
                                          !.body = IF body /\ consumed THEN chunks ELSE @]
                    /\ streamed' = IF body THEN streamed
                                           ELSE streamed \union {m.body[i] : i \in DOMAIN m.body}
                    /\ mid' = IF goOn THEN [mid EXCEPT !.chunks = chunks]
                                      ELSE [op |-> "idle", chunks |-> <<>>]
          \/ /\ m.type = "http.disconnect"
             /\ req' = [req EXCEPT !.is_disconnected = TRUE]
             /\ mid' = [op |-> "idle", chunks |-> <<>>]
             /\ streamed' = streamed \union {mid.chunks[i] : i \in DOMAIN mid.chunks}
  /\ UNCHANGED <<client, rcv, polled, beside, down>>

\* is_disconnected(): take a message if one is ready; one that is not
\* http.disconnect is dropped.
IsDisconnected ==
  /\ mid.op = "idle"
  /\ ~req.is_disconnected
  /\ Take
  /\ LET m == Head(queue) IN
       /\ req' = [req EXCEPT !.is_disconnected = m.type = "http.disconnect"]
       /\ polled' = IF m.type = "http.disconnect" THEN polled ELSE Append(polled, m)
  /\ beside' = (beside \/ Began)
  /\ UNCHANGED <<client, mid, rcv, streamed, down>>

-----------------------------------------------------------------------------
(* _CachedRequest.wrapped_receive().                                       *)

Returned(m) ==
  IF m.type = "http.disconnect"
  THEN [down EXCEPT !.gone = TRUE]
  ELSE [down EXCEPT !.data = @ \o m.body, !.finals = IF m.more_body THEN @ ELSE @ + 1]

\* A disconnect that is already known is returned without waiting.
ReceiveKnownDisconnect ==
  /\ req.rcv_disconnected \/ (req.rcv_consumed /\ req.is_disconnected)
  /\ req' = [req EXCEPT !.rcv_disconnected = TRUE]
  /\ down' = Returned(Disconnect)
  /\ UNCHANGED rcv

\* The body is consumed: all that is left to wait for is the disconnect.
AwaitDisconnect ==
  /\ ~req.rcv_disconnected
  /\ req.rcv_consumed
  /\ ~req.is_disconnected
  /\ rcv' = "disconnect"
  /\ UNCHANGED <<req, down>>

\* body() was called upstream: downstream gets all of it, in one message.
ReceiveCachedBody ==
  /\ ~req.rcv_disconnected
  /\ ~req.rcv_consumed
  /\ req.cached
  /\ req' = [req EXCEPT !.rcv_consumed = TRUE]
  /\ down' = Returned(RequestMessage(req.body, FALSE))
  /\ UNCHANGED rcv

\* Mutant: _stream_consumed is looked at before _body.
ReceiveEmptyBodyFirst ==
  /\ ~req.rcv_disconnected
  /\ ~req.rcv_consumed
  /\ req.stream_consumed
  /\ req' = [req EXCEPT !.rcv_consumed = TRUE]
  /\ down' = Returned(RequestMessage(<<>>, FALSE))
  /\ UNCHANGED rcv

\* Mutant: after a consumed stream only a disconnect is waited for.
AwaitDisconnectAfterStream ==
  /\ ~req.rcv_disconnected
  /\ ~req.rcv_consumed
  /\ ~req.cached
  /\ req.stream_consumed
  /\ req' = [req EXCEPT !.rcv_consumed = TRUE]
  /\ rcv' = "disconnect"
  /\ UNCHANGED down

\* stream() was read to its end upstream: downstream gets an empty body.
ReceiveEmptyBody ==
  /\ ~req.rcv_disconnected
  /\ ~req.rcv_consumed
  /\ ~req.cached
  /\ req.stream_consumed
  /\ req' = [req EXCEPT !.rcv_consumed = TRUE]
  /\ down' = Returned(RequestMessage(<<>>, FALSE))
  /\ UNCHANGED rcv

\* Neither: wait for the next message of the client.
AwaitChunk ==
  /\ ~req.rcv_disconnected
  /\ ~req.rcv_consumed
  /\ ~req.cached
  /\ ~req.stream_consumed
  /\ rcv' = "stream"
  /\ UNCHANGED <<req, down>>

\* Downstream calls wrapped_receive(): up to its return or its first await.
WrappedReceive ==
  /\ rcv = "idle"
  /\ beside' = (beside \/ mid.op # "idle")
  /\ \/ ReceiveKnownDisconnect
     \/ AwaitDisconnect
     \/ ReceiveCachedBody
     \/ ReceiveEmptyBody
     \/ AwaitChunk
  /\ UNCHANGED <<client, queue, mid, streamed, polled>>

\* Mutant: _wrapped_rcv_consumed is not set by the last chunk.
NeverConsumed(m, consumed) ==
  /\ req' = [req EXCEPT !.stream_consumed = consumed]
  /\ down' = Returned(RequestMessage(m.body, ~consumed))
  /\ rcv' = "idle"

\* stream().__anext__() yields the body of m.
YieldChunk(m, consumed) ==
  /\ req' = [req EXCEPT !.stream_consumed = consumed, !.rcv_consumed = consumed]
  /\ down' = Returned(RequestMessage(m.body, ~consumed))
  /\ rcv' = "idle"

\* The next message reaches stream() below wrapped_receive(); an empty message that
\* is not the last goes on waiting.
OnChunk(m) ==
  LET consumed == req.stream_consumed \/ ~m.more_body
  IN  IF m.body = <<>> /\ ~consumed
      THEN UNCHANGED <<req, rcv, down>>
      ELSE YieldChunk(m, consumed)

\* Mutant: ClientDisconnect ends the body.
DisconnectEndsBody(m) ==
  /\ req' = [req EXCEPT !.is_disconnected = TRUE, !.rcv_consumed = TRUE]
  /\ down' = Returned(RequestMessage(<<>>, FALSE))
  /\ rcv' = "idle"

\* `except ClientDisconnect` of wrapped_receive().
OnClientDisconnect(m) ==
  /\ req' = [req EXCEPT !.is_disconnected = TRUE, !.rcv_disconnected = TRUE]
  /\ down' = Returned(m)
  /\ rcv' = "idle"

\* The message that wrapped_receive() waits for, to pass it on, arrives.
WrappedChunk ==
  /\ rcv = "stream"
  /\ Take
  /\ LET m == Head(queue) IN
       \/ m.type = "http.request" /\ OnChunk(m)
       \/ m.type = "http.disconnect" /\ OnClientDisconnect(m)
  /\ UNCHANGED <<client, mid, streamed, polled, beside>>

\* The wait for the disconnect ends.
WrappedDisconnect ==
  /\ rcv = "disconnect"
  /\ Take
  /\ LET m == Head(queue) IN
       /\ m.type = "http.disconnect"
       /\ req' = [req EXCEPT !.rcv_disconnected = TRUE]
       /\ down' = Returned(m)
  /\ rcv' = "idle"
  /\ UNCHANGED <<client, mid, streamed, polled, beside>>

\* The response has been sent: a wait is cancelled, having taken nothing, and
\* receive_or_disconnect() does not call wrapped_receive() again.
WrappedCancelled ==
  /\ rcv # "closed"
  /\ rcv' = "closed"
  /\ UNCHANGED <<client, queue, req, mid, streamed, polled, beside, down>>

-----------------------------------------------------------------------------
Client == \/ \E empty, more \in BOOLEAN : Upload(empty, more)
          \/ \E drop \in BOOLEAN : Leave(drop)
Dispatch == \/ \E op \in {"stream", "body"} : StartRead(op)
            \/ MidReceive
            \/ IsDisconnected
Downstream == WrappedReceive \/ WrappedChunk \/ WrappedDisconnect \/ WrappedCancelled

NextBody == Client \/ Dispatch \/ Downstream

\* The event loop resumes a task whose message has arrived, and a downstream
\* application that reads its request keeps asking for it.
BodyFairness ==
  /\ WF_reqVars(WrappedReceive)
  /\ WF_reqVars(WrappedChunk)
  /\ WF_reqVars(WrappedDisconnect)

BodySpec == InitBody /\ [][NextBody]_reqVars /\ BodyFairness

-----------------------------------------------------------------------------
(* Properties.                                                             *)

Elements(s) == {s[i] : i \in DOMAIN s}
Increasing(s) == \A i, j \in DOMAIN s : i < j => s[i] < s[j]

\* While dispatch() leaves the body alone once downstream reads it, the chunks that
\* wrapped_receive() hands downstream are in upload order, whatever dispatch() had
\* read before.  (Beside downstream it fails: a body() of dispatch() that takes every
\* other chunk is handed on, out of order, after the raw chunks.)
DownstreamInOrder == ~beside => Increasing(down.data)

\* Whoever reads what and in whatever order the two tasks are resumed, no chunk
\* reaches downstream twice (once raw and once more in a cached body, say).
NothingTwice == IsInjective(down.data)

\* When downstream is told that the body is complete, each uploaded chunk is
\* accounted for: delivered downstream, or taken by dispatch() through stream()
\* (or by a body() that is still running or that failed), or dropped by
\* is_disconnected().
NothingLost ==
  down.finals > 0 =>
    1..client.chunks \subseteq
      Elements(down.data) \union streamed \union Elements(mid.chunks)
        \union UNION {Elements(polled[i].body) : i \in DOMAIN polled}

\* A body cached by body() is complete downstream once downstream has its end:
\* reading it in dispatch() takes nothing away.
CachedBodyDelivered ==
  down.finals > 0 /\ req.cached => Elements(req.body) \subseteq Elements(down.data)

\* An upload the client broke off is never passed on as a complete body: downstream
\* sees more_body=False only after the client sent it.
NoFalseEnd == down.finals > 0 => client.complete

\* wrapped_receive() waits for the disconnect only when nothing else can come: its
\* "Unexpected message received" RuntimeError is never raised.
OnlyDisconnectLeft ==
  rcv = "disconnect" => \A i \in DOMAIN queue : queue[i].type = "http.disconnect"

\* After the end of the body, or after a disconnect, downstream is given nothing
\* but disconnects.
NothingAfterTheEnd ==
  [][down.gone \/ down.finals > 0 =>
       down'.data = down.data /\ down'.finals = down.finals]_reqVars

\* A downstream application that reads its request to the end does get there even
\* though the client then stays connected in silence -- also when dispatch() has read
\* the body before it ("so that downstream apps don't hang forever").
EndReachesDownstream ==
  (client.state = "complete" /\ mid.op = "idle" /\ polled = <<>> /\ ~beside)
    ~> (\/ down.finals > 0 \/ client.state = "gone" \/ rcv = "closed"
        \/ mid.op # "idle" \/ polled # <<>> \/ beside)

\* The four together: each chunk of a body reaches downstream once, in order and in full,
\* through wrapped_receive(), whatever dispatch() reads before or beside it.
BodyDelivered == NothingTwice /\ NothingLost /\ CachedBodyDelivered /\ DownstreamInOrder

\* The end that wrapped_receive() sees and tells is the end: of what the client sends, and
\* of what can still arrive.
EndIsTrue == OnlyDisconnectLeft /\ NoFalseEnd

=============================================================================
