---------------------- MODULE BaseHTTPMiddleware_proof ----------------------
(***************************************************************************)
(* Theorems about CachedRequest, for every number of messages, every       *)
(* server and every interleaving of dispatch() with the application: what  *)
(* the end of the body means, and where each of its chunks goes.           *)
(*                                                                         *)
(* And about BaseHTTPMiddleware around it, for any number of chunks in     *)
(* both directions and every interleaving of dispatch(), the application   *)
(* and the client.                                                         *)
(***************************************************************************)
EXTENDS BaseHTTPMiddleware, TLAPS

-----------------------------------------------------------------------------
(* CachedRequest.                                                          *)


\* The message that ends the upload.
IsLast(m) == m.type = "http.request" /\ ~m.more_body

\* Nothing but disconnects is left to receive.
OnlyDisconnects == \A i \in DOMAIN queue : queue[i].type = "http.disconnect"

\* The inductive invariant: how the messages in the server's queue, the flags of the
\* request and what downstream was told hang together.
UploadInv ==
  client.state = "uploading" =>
    /\ ~client.complete
    /\ \A i \in DOMAIN queue : queue[i].type = "http.request" /\ queue[i].more_body

QueueInv ==
  /\ \A i \in DOMAIN queue : IsLast(queue[i]) => client.complete
  /\ \A i, j \in DOMAIN queue : i < j /\ IsLast(queue[i]) => queue[j].type = "http.disconnect"

ConsumedInv ==
  /\ req.stream_consumed => client.complete /\ OnlyDisconnects
  /\ req.cached => req.stream_consumed
  /\ req.rcv_consumed => req.stream_consumed

WaitInv ==
  /\ rcv = "stream" => ~req.rcv_consumed /\ ~req.rcv_disconnected
  /\ rcv = "disconnect" => req.rcv_consumed

DownInv ==
  /\ down.finals > 0 => req.rcv_consumed
  /\ down.gone => req.rcv_disconnected

IInv == TypeOK /\ UploadInv /\ QueueInv /\ ConsumedInv /\ WaitInv /\ DownInv

-----------------------------------------------------------------------------
(* Lemmas about the messages and the queue of the server.                  *)

\* The messages the model builds are messages.
LEMMA MessageTypes ==
  /\ Disconnect \in Message
  /\ \A body \in Seq(Chunk), more \in BOOLEAN : RequestMessage(body, more) \in Message
  /\ \A c \in Chunk : <<c>> \in Seq(Chunk)
  /\ <<>> \in Seq(Chunk)
<1>1. <<>> \in Seq(Chunk)
  OBVIOUS
<1>2. \A c \in Chunk : <<c>> \in Seq(Chunk)
  OBVIOUS
<1>3. Disconnect \in Message
  BY <1>1 DEF Disconnect, Message
<1>4. \A body \in Seq(Chunk), more \in BOOLEAN : RequestMessage(body, more) \in Message
  BY DEF RequestMessage, Message
<1>5. QED
  BY <1>1, <1>2, <1>3, <1>4

\* The flags of the request and the history of downstream, as records.
RequestRecord ==
  req \in [stream_consumed : BOOLEAN, is_disconnected : BOOLEAN, cached : BOOLEAN,
           body : Seq(Chunk), rcv_consumed : BOOLEAN, rcv_disconnected : BOOLEAN]
HistoryRecord == down \in [data : Seq(Chunk), finals : Nat, gone : BOOLEAN]

LEMMA RequestIsRecord == TypeOK => RequestRecord /\ HistoryRecord
BY DEF TypeOK, RequestRecord, HistoryRecord

\* What wrapped_receive() returns keeps the type of the history.
LEMMA ReturnedType ==
  ASSUME TypeOK, NEW m \in Message
  PROVE  Returned(m) \in [data : Seq(Chunk), finals : Nat, gone : BOOLEAN]
<1>1. /\ down \in [data : Seq(Chunk), finals : Nat, gone : BOOLEAN]
      /\ m.body \in Seq(Chunk)
  BY DEF TypeOK, Message
<1>2. down.data \o m.body \in Seq(Chunk)
  BY <1>1
<1>3. CASE m.type = "http.disconnect"
  BY <1>1, <1>3 DEF Returned
<1>4. CASE m.type # "http.disconnect"
  <2>1. (IF m.more_body THEN down.finals ELSE down.finals + 1) \in Nat
    BY <1>1
  <2>2. Returned(m) = [down EXCEPT !.data = down.data \o m.body,
                                   !.finals = IF m.more_body THEN down.finals ELSE down.finals + 1]
    BY <1>1, <1>4 DEF Returned
  <2>3. QED
    BY <1>1, <1>2, <2>1, <2>2
<1>5. QED
  BY <1>3, <1>4

\* What receive() does to the queue: its head is the message received; the rest stays
\* in order, and a repeated disconnect leaves the queue as it is.
LEMMA TakeFacts ==
  ASSUME queue \in Seq(Message), Take
  PROVE  /\ Head(queue) \in Message
         /\ queue' \in Seq(Message)
         /\ 1 \in DOMAIN queue
         /\ Head(queue) = queue[1]
         /\ \/ queue' = queue /\ Head(queue).type = "http.disconnect"
            \/ \A j \in DOMAIN queue' : j + 1 \in DOMAIN queue /\ queue'[j] = queue[j + 1]
BY DEF Take

\* A received message leaves less to receive: if it is the last of the upload nothing
\* but disconnects is left, and what held of the queue still holds.
LEMMA TakeKeeps ==
  ASSUME TypeOK, QueueInv, Take
  PROVE  /\ \A i \in DOMAIN queue' : IsLast(queue'[i]) => client.complete
         /\ \A i, j \in DOMAIN queue' :
              i < j /\ IsLast(queue'[i]) => queue'[j].type = "http.disconnect"
         /\ IsLast(Head(queue)) => client.complete /\ OnlyDisconnects'
         /\ OnlyDisconnects => Head(queue).type = "http.disconnect" /\ OnlyDisconnects'
         /\ (\A i \in DOMAIN queue : queue[i].type = "http.request" /\ queue[i].more_body) =>
              \A i \in DOMAIN queue' : queue'[i].type = "http.request" /\ queue'[i].more_body
<1>1. queue \in Seq(Message)
  BY DEF TypeOK
<1>2. /\ Head(queue) \in Message
      /\ queue' \in Seq(Message)
      /\ 1 \in DOMAIN queue
      /\ Head(queue) = queue[1]
      /\ \/ queue' = queue /\ Head(queue).type = "http.disconnect"
         \/ \A j \in DOMAIN queue' : j + 1 \in DOMAIN queue /\ queue'[j] = queue[j + 1]
  BY <1>1, TakeFacts
<1>3. /\ DOMAIN queue = 1..Len(queue) /\ Len(queue) \in Nat
      /\ DOMAIN queue' = 1..Len(queue') /\ Len(queue') \in Nat
  BY <1>1, <1>2
<1>4. CASE queue' = queue /\ Head(queue).type = "http.disconnect"
  BY <1>2, <1>4 DEF QueueInv, OnlyDisconnects, IsLast
<1>5. CASE \A j \in DOMAIN queue' : j + 1 \in DOMAIN queue /\ queue'[j] = queue[j + 1]
  <2>1. \A i \in DOMAIN queue' : IsLast(queue'[i]) => client.complete
    BY <1>5 DEF QueueInv
  <2>2. \A i, j \in DOMAIN queue' :
          i < j /\ IsLast(queue'[i]) => queue'[j].type = "http.disconnect"
    BY <1>3, <1>5 DEF QueueInv
  <2>3. IsLast(Head(queue)) => client.complete /\ OnlyDisconnects'
    BY <1>2, <1>3, <1>5 DEF QueueInv, OnlyDisconnects
  <2>4. OnlyDisconnects => Head(queue).type = "http.disconnect" /\ OnlyDisconnects'
    BY <1>2, <1>5 DEF OnlyDisconnects
  <2>5. (\A i \in DOMAIN queue : queue[i].type = "http.request" /\ queue[i].more_body) =>
          \A i \in DOMAIN queue' : queue'[i].type = "http.request" /\ queue'[i].more_body
    BY <1>5
  <2>6. QED
    BY <2>1, <2>2, <2>3, <2>4, <2>5
<1>6. QED
  BY <1>2, <1>4, <1>5

-----------------------------------------------------------------------------
(* Type correctness.                                                       *)

\* Every step keeps every variable in its type.
LEMMA TypeStep == TypeOK /\ [NextBody]_reqVars => TypeOK'
<1> SUFFICES ASSUME TypeOK, [NextBody]_reqVars PROVE TypeOK'
  OBVIOUS
<1> USE MaxMessagesAssumption
<1>1. ASSUME NEW empty \in BOOLEAN, NEW more \in BOOLEAN, Upload(empty, more)
      PROVE  TypeOK'
  <2> DEFINE c == client.chunks + 1
  <2> DEFINE m == RequestMessage(IF empty THEN <<>> ELSE <<c>>, more)
  <2>1. c \in Chunk
    BY DEF TypeOK, Chunk
  <2>2. (IF empty THEN <<>> ELSE <<c>>) \in Seq(Chunk)
    BY <2>1, MessageTypes
  <2>3. m \in Message
    BY <2>2, MessageTypes
  <2>4. queue' \in Seq(Message)
    BY <1>1, <2>3 DEF Upload, TypeOK
  <2>5. client' \in [messages : 0..MaxMessages, chunks : Nat,
                     state : {"uploading", "complete", "gone"}, complete : BOOLEAN]
    <3> DEFINE chunks == IF empty THEN client.chunks ELSE c
    <3>1. /\ client.messages + 1 \in 0..MaxMessages
          /\ chunks \in Nat
          /\ (IF more THEN "uploading" ELSE "complete") \in {"uploading", "complete", "gone"}
          /\ (~more) \in BOOLEAN
      <4>1. client.messages \in 0..MaxMessages /\ client.messages < MaxMessages
        BY <1>1 DEF Upload, TypeOK
      <4>2. chunks \in Nat
        BY DEF TypeOK
      <4>3. QED
        BY <4>1, <4>2
    <3>2. client' = [client EXCEPT !.messages = client.messages + 1,
                                   !.chunks = IF empty THEN client.chunks ELSE c,
                                   !.state = IF more THEN "uploading" ELSE "complete",
                                   !.complete = ~more]
      BY <1>1 DEF Upload, TypeOK
    <3>3. QED
      BY <3>1, <3>2 DEF TypeOK
  <2>6. QED
    BY <1>1, <2>4, <2>5 DEF Upload, TypeOK
<1>2. ASSUME NEW drop \in BOOLEAN, Leave(drop)
      PROVE  TypeOK'
  <2>1. queue' \in Seq(Message)
    BY <1>2, MessageTypes DEF Leave, TypeOK
  <2>2. client' \in [messages : 0..MaxMessages, chunks : Nat,
                     state : {"uploading", "complete", "gone"}, complete : BOOLEAN]
    <3>1. client \in [messages : 0..MaxMessages, chunks : Nat,
                      state : {"uploading", "complete", "gone"}, complete : BOOLEAN]
      BY DEF TypeOK
    <3>2. client' = [client EXCEPT !.state = "gone"]
      BY <1>2 DEF Leave
    <3>3. QED
      BY <3>1, <3>2
  <2>3. UNCHANGED <<req, mid, rcv, streamed, polled, beside, down>>
    BY <1>2 DEF Leave
  <2>4. QED
    BY <2>1, <2>2, <2>3 DEF TypeOK
<1>3. ASSUME NEW op \in {"stream", "body"}, StartRead(op)
      PROVE  TypeOK'
  <2>1. mid' \in [op : {"idle", "stream", "body"}, chunks : Seq(Chunk)]
    BY <1>3, MessageTypes DEF StartRead
  <2>2. QED
    BY <1>3, <2>1 DEF StartRead, TypeOK
<1>4. CASE MidReceive
  <2> DEFINE m == Head(queue)
  <2>1. m \in Message /\ queue' \in Seq(Message)
    BY <1>4, TakeFacts DEF MidReceive, TypeOK
  <2>2. m.body \in Seq(Chunk) /\ mid.chunks \in Seq(Chunk) /\ mid.chunks \o m.body \in Seq(Chunk)
    BY <2>1 DEF TypeOK, Message
  <2>3. /\ {m.body[i] : i \in DOMAIN m.body} \subseteq Chunk
        /\ {mid.chunks[i] : i \in DOMAIN mid.chunks} \subseteq Chunk
    BY <2>2
  <2>4. <<>> \in Seq(Chunk)
    BY MessageTypes
  <2>5. CASE m.type = "http.request"
    <3>1. req' \in [stream_consumed : BOOLEAN, is_disconnected : BOOLEAN,
                    cached : BOOLEAN, body : Seq(Chunk),
                    rcv_consumed : BOOLEAN, rcv_disconnected : BOOLEAN]
      <4> DEFINE consumed == req.stream_consumed \/ ~m.more_body
                 done == mid.op = "body" /\ consumed
      <4>1. req' = [req EXCEPT !.stream_consumed = consumed, !.cached = @ \/ done,
                               !.body = IF done THEN mid.chunks \o m.body ELSE @]
        BY <1>4, <2>5 DEF MidReceive
      <4>2. req \in [stream_consumed : BOOLEAN, is_disconnected : BOOLEAN,
                     cached : BOOLEAN, body : Seq(Chunk),
                     rcv_consumed : BOOLEAN, rcv_disconnected : BOOLEAN]
        BY DEF TypeOK
      <4>3. consumed \in BOOLEAN /\ done \in BOOLEAN
        OBVIOUS
      <4>4. QED
        BY <2>2, <4>1, <4>2, <4>3
    <3>2. mid' \in [op : {"idle", "stream", "body"}, chunks : Seq(Chunk)]
      <4>1. \/ mid' = [mid EXCEPT !.chunks = mid.chunks \o m.body]
            \/ mid' = [op |-> "idle", chunks |-> <<>>]
        BY <1>4, <2>5 DEF MidReceive, TypeOK
      <4>2. mid \in [op : {"idle", "stream", "body"}, chunks : Seq(Chunk)]
        BY DEF TypeOK
      <4>3. \A cs \in Seq(Chunk) :
              [mid EXCEPT !.chunks = cs] \in [op : {"idle", "stream", "body"}, chunks : Seq(Chunk)]
        BY <4>2
      <4>4. [op |-> "idle", chunks |-> <<>>] \in [op : {"idle", "stream", "body"}, chunks : Seq(Chunk)]
        BY <2>4
      <4>5. QED
        BY <2>2, <4>1, <4>3, <4>4
    <3>3. streamed' \subseteq Chunk
      BY <1>4, <2>3, <2>5 DEF MidReceive, TypeOK
    <3>4. QED
      BY <1>4, <2>1, <3>1, <3>2, <3>3 DEF MidReceive, TypeOK
  <2>6. CASE m.type = "http.disconnect"
    <3>1. req' \in [stream_consumed : BOOLEAN, is_disconnected : BOOLEAN,
                    cached : BOOLEAN, body : Seq(Chunk),
                    rcv_consumed : BOOLEAN, rcv_disconnected : BOOLEAN]
      BY <1>4, <2>6 DEF MidReceive, TypeOK
    <3>2. mid' \in [op : {"idle", "stream", "body"}, chunks : Seq(Chunk)]
      <4>1. mid' = [op |-> "idle", chunks |-> <<>>]
        BY <1>4, <2>6 DEF MidReceive
      <4>2. QED
        BY <2>4, <4>1
    <3>3. streamed' \subseteq Chunk
      BY <1>4, <2>3, <2>6 DEF MidReceive, TypeOK
    <3>4. QED
      BY <1>4, <2>1, <3>1, <3>2, <3>3 DEF MidReceive, TypeOK
  <2>7. QED
    BY <2>1, <2>5, <2>6 DEF Message
<1>5. CASE IsDisconnected
  <2>1. Head(queue) \in Message /\ queue' \in Seq(Message)
    BY <1>5, TakeFacts DEF IsDisconnected, TypeOK
  <2>2. polled' \in Seq(Message)
    BY <1>5, <2>1 DEF IsDisconnected, TypeOK
  <2>3. QED
    BY <1>5, <2>1, <2>2 DEF IsDisconnected, TypeOK
<1>6. CASE WrappedReceive
  <2>1. down' \in [data : Seq(Chunk), finals : Nat, gone : BOOLEAN]
    <3>1. /\ Disconnect \in Message
          /\ RequestMessage(req.body, FALSE) \in Message
          /\ RequestMessage(<<>>, FALSE) \in Message
      BY MessageTypes DEF TypeOK
    <3>2. \/ down' = down
          \/ down' = Returned(Disconnect)
          \/ down' = Returned(RequestMessage(req.body, FALSE))
          \/ down' = Returned(RequestMessage(<<>>, FALSE))
      BY <1>6 DEF WrappedReceive, ReceiveKnownDisconnect, AwaitDisconnect, ReceiveCachedBody,
                  ReceiveEmptyBody, AwaitChunk
    <3>3. down \in [data : Seq(Chunk), finals : Nat, gone : BOOLEAN]
      BY DEF TypeOK
    <3>4. QED
      BY <3>1, <3>2, <3>3, ReturnedType
  <2>2. req' \in [stream_consumed : BOOLEAN, is_disconnected : BOOLEAN,
                  cached : BOOLEAN, body : Seq(Chunk),
                  rcv_consumed : BOOLEAN, rcv_disconnected : BOOLEAN]
    <3>1. \/ req' = req
          \/ req' = [req EXCEPT !.rcv_disconnected = TRUE]
          \/ req' = [req EXCEPT !.rcv_consumed = TRUE]
      BY <1>6 DEF WrappedReceive, ReceiveKnownDisconnect, AwaitDisconnect, ReceiveCachedBody,
                  ReceiveEmptyBody, AwaitChunk
    <3>2. RequestRecord
      BY RequestIsRecord
    <3>3. QED
      BY <3>1, <3>2 DEF RequestRecord
  <2>3. rcv' \in {"idle", "stream", "disconnect", "closed"}
    BY <1>6 DEF WrappedReceive, ReceiveKnownDisconnect, AwaitDisconnect, ReceiveCachedBody,
                ReceiveEmptyBody, AwaitChunk, TypeOK
  <2>4. QED
    BY <1>6, <2>1, <2>2, <2>3 DEF WrappedReceive, TypeOK
<1>7. CASE WrappedChunk
  <2> DEFINE m == Head(queue)
  <2>1. m \in Message /\ queue' \in Seq(Message)
    BY <1>7, TakeFacts DEF WrappedChunk, TypeOK
  <2>2. \A more \in BOOLEAN : RequestMessage(m.body, more) \in Message
    BY <2>1, MessageTypes DEF Message
  <2>3. CASE m.type = "http.request" /\ OnChunk(m)
    <3> DEFINE consumed == req.stream_consumed \/ ~m.more_body
    <3>1. CASE UNCHANGED <<req, rcv, down>>
      BY <1>7, <2>1, <3>1 DEF WrappedChunk, TypeOK
    <3>2. CASE YieldChunk(m, consumed)
      <4>1. consumed \in BOOLEAN
        OBVIOUS
      <4>2. RequestMessage(m.body, ~consumed) \in Message
        BY <2>2
      <4>3. down' \in [data : Seq(Chunk), finals : Nat, gone : BOOLEAN]
        BY <3>2, <4>2, ReturnedType DEF YieldChunk
      <4>4. req' \in [stream_consumed : BOOLEAN, is_disconnected : BOOLEAN,
                      cached : BOOLEAN, body : Seq(Chunk),
                      rcv_consumed : BOOLEAN, rcv_disconnected : BOOLEAN]
        BY <3>2, <4>1 DEF YieldChunk, TypeOK
      <4>5. rcv' = "idle"
        BY <3>2 DEF YieldChunk
      <4>6. QED
        BY <1>7, <2>1, <4>3, <4>4, <4>5 DEF WrappedChunk, TypeOK
    <3>3. QED
      BY <2>3, <3>1, <3>2 DEF OnChunk
  <2>4. CASE OnClientDisconnect(m)
    BY <1>7, <2>1, <2>4, ReturnedType DEF WrappedChunk, OnClientDisconnect, TypeOK
  <2>5. QED
    BY <1>7, <2>3, <2>4 DEF WrappedChunk
<1>8. CASE WrappedDisconnect
  <2>1. Head(queue) \in Message /\ queue' \in Seq(Message)
    BY <1>8, TakeFacts DEF WrappedDisconnect, TypeOK
  <2>2. down' \in [data : Seq(Chunk), finals : Nat, gone : BOOLEAN]
    BY <1>8, <2>1, ReturnedType DEF WrappedDisconnect
  <2>3. QED
    BY <1>8, <2>1, <2>2 DEF WrappedDisconnect, TypeOK
<1>9. CASE WrappedCancelled
  BY <1>9 DEF WrappedCancelled, TypeOK
<1>10. CASE UNCHANGED reqVars
  BY <1>10 DEF reqVars, TypeOK
<1>11. QED
  BY <1>1, <1>2, <1>3, <1>4, <1>5, <1>6, <1>7, <1>8, <1>9, <1>10
     DEF NextBody, Client, Dispatch, Downstream

\* The initial state is well typed.
LEMMA InitType == InitBody => TypeOK
<1> SUFFICES ASSUME InitBody PROVE TypeOK
  OBVIOUS
<1>1. <<>> \in Seq(Chunk) /\ <<>> \in Seq(Message)
  BY MessageTypes
<1>2. client \in [messages : 0..MaxMessages, chunks : Nat,
                 state : {"uploading", "complete", "gone"}, complete : BOOLEAN]
  BY MaxMessagesAssumption DEF InitBody
<1>3. req \in [stream_consumed : BOOLEAN, is_disconnected : BOOLEAN,
              cached : BOOLEAN, body : Seq(Chunk),
              rcv_consumed : BOOLEAN, rcv_disconnected : BOOLEAN]
  BY <1>1 DEF InitBody, InitRequest
<1>4. /\ mid \in [op : {"idle", "stream", "body"}, chunks : Seq(Chunk)]
      /\ down \in [data : Seq(Chunk), finals : Nat, gone : BOOLEAN]
  BY <1>1 DEF InitBody
<1>5. beside \in BOOLEAN /\ streamed \subseteq Chunk
  BY DEF InitBody
<1>6. QED
  BY <1>1, <1>2, <1>3, <1>4, <1>5 DEF InitBody, TypeOK

\* Every variable has its type, always.
THEOREM TypeCorrect == BodySpec => []TypeOK
<1>1. InitBody => TypeOK
  BY InitType
<1>2. QED
  BY <1>1, TypeStep, PTL DEF BodySpec

-----------------------------------------------------------------------------
(* The inductive invariant.                                                *)

\* Steps of the client only append to the queue, while it may.
LEMMA ClientStep == ASSUME IInv, Client, TypeOK' PROVE IInv'
<1>1. ASSUME NEW empty \in BOOLEAN, NEW more \in BOOLEAN, Upload(empty, more)
      PROVE  IInv'
  <2> DEFINE m == RequestMessage(IF empty THEN <<>> ELSE <<client.chunks + 1>>, more)
  <2>1. /\ queue' = Append(queue, m) /\ m.type = "http.request" /\ m.more_body = more
        /\ UNCHANGED <<req, rcv, down>>
    BY <1>1 DEF Upload, RequestMessage
  <2>2. /\ client'.complete = (~more)
        /\ client'.state = IF more THEN "uploading" ELSE "complete"
        /\ client.state = "uploading"
    BY <1>1 DEF Upload, IInv, TypeOK
  <2>3. /\ Len(queue) \in Nat /\ DOMAIN queue = 1..Len(queue)
        /\ DOMAIN queue' = 1..(Len(queue) + 1)
        /\ \A i \in 1..Len(queue) : queue'[i] = queue[i]
        /\ queue'[Len(queue) + 1] = m
    BY <2>1 DEF IInv, TypeOK
  <2>4. \A i \in 1..Len(queue) : queue[i].type = "http.request" /\ queue[i].more_body
    BY <2>2, <2>3 DEF IInv, UploadInv
  <2>5. \A i \in DOMAIN queue' : i \in 1..Len(queue) \/ i = Len(queue) + 1
    BY <2>3
  <2>6. UploadInv'
    <3>1. SUFFICES ASSUME client'.state = "uploading"
                   PROVE  /\ ~client'.complete
                          /\ \A i \in DOMAIN queue' :
                               queue'[i].type = "http.request" /\ queue'[i].more_body
      BY DEF UploadInv
    <3>2. more /\ ~client'.complete
      BY <2>2, <3>1
    <3>3. ASSUME NEW i \in DOMAIN queue'
          PROVE  queue'[i].type = "http.request" /\ queue'[i].more_body
      <4>1. CASE i \in 1..Len(queue)
        BY <4>1, <2>3, <2>4
      <4>2. CASE i = Len(queue) + 1
        <5>1. queue'[i] = m
          BY <4>2, <2>3
        <5>2. QED
          BY <5>1, <2>1, <3>2
      <4>3. QED
        BY <3>3, <4>1, <4>2, <2>5
    <3>4. QED
      BY <3>2, <3>3
  <2>7. QueueInv'
    <3>1. \A i \in DOMAIN queue' : IsLast(queue'[i]) => i = Len(queue) + 1 /\ ~more
      BY <2>1, <2>3, <2>4, <2>5 DEF IsLast
    <3>2. \A i, j \in DOMAIN queue' : i < j => ~IsLast(queue'[i])
      BY <2>3, <3>1
    <3>3. \A i \in DOMAIN queue' : IsLast(queue'[i]) => client'.complete
      BY <2>2, <3>1
    <3>4. QED
      BY <3>2, <3>3 DEF QueueInv
  <2>8. ~req.stream_consumed
    BY <2>2 DEF IInv, UploadInv, ConsumedInv
  <2>9. ConsumedInv' /\ WaitInv' /\ DownInv'
    BY <2>1, <2>8 DEF IInv, ConsumedInv, WaitInv, DownInv
  <2>10. QED
    BY <2>6, <2>7, <2>9 DEF IInv
<1>2. ASSUME NEW drop \in BOOLEAN, Leave(drop)
      PROVE  IInv'
  <2>1. /\ queue' = <<Disconnect>> \/ queue' = Append(queue, Disconnect)
        /\ Disconnect.type = "http.disconnect"
        /\ UNCHANGED <<req, rcv, down>>
        /\ client'.state = "gone" /\ client'.complete = client.complete
    BY <1>2 DEF Leave, Disconnect, IInv, TypeOK
  <2>2. CASE queue' = <<Disconnect>>
    <3>1. \A i \in DOMAIN queue' : i = 1 /\ queue'[i] = Disconnect
      BY <2>2
    <3>2. OnlyDisconnects' /\ QueueInv'
      BY <2>1, <3>1 DEF OnlyDisconnects, QueueInv, IsLast
    <3>3. QED
      BY <2>1, <3>2 DEF IInv, UploadInv, ConsumedInv, WaitInv, DownInv
  <2>3. CASE queue' = Append(queue, Disconnect)
    <3>1. /\ Len(queue) \in Nat /\ DOMAIN queue = 1..Len(queue)
          /\ DOMAIN queue' = 1..(Len(queue) + 1)
          /\ \A i \in 1..Len(queue) : queue'[i] = queue[i]
          /\ queue'[Len(queue) + 1] = Disconnect
      <4>1. queue \in Seq(Message)
        BY DEF IInv, TypeOK
      <4>2. QED
        BY <2>3, <4>1
    <3>2. \A i \in DOMAIN queue' : i \in 1..Len(queue) \/ queue'[i].type = "http.disconnect"
      BY <2>1, <3>1
    <3>3. \A i, j \in DOMAIN queue' : i < j => i \in 1..Len(queue)
      BY <3>1
    <3>4. QueueInv'
      BY <2>1, <3>1, <3>2, <3>3 DEF IInv, QueueInv, IsLast
    <3>5. OnlyDisconnects => OnlyDisconnects'
      BY <3>1, <3>2 DEF OnlyDisconnects
    <3>6. QED
      BY <2>1, <3>4, <3>5 DEF IInv, UploadInv, ConsumedInv, WaitInv, DownInv
  <2>4. QED
    BY <2>1, <2>2, <2>3
<1>3. QED
  BY <1>1, <1>2 DEF Client

\* Steps of dispatch() never touch what belongs to wrapped_receive().
LEMMA DispatchStep == ASSUME IInv, Dispatch, TypeOK' PROVE IInv'
<1>1. ASSUME NEW op \in {"stream", "body"}, StartRead(op)
      PROVE  IInv'
  BY <1>1 DEF StartRead, IInv, UploadInv, QueueInv, ConsumedInv, WaitInv, DownInv, OnlyDisconnects
<1>2. CASE MidReceive
  <2> DEFINE m == Head(queue)
  <2>1. Take /\ UNCHANGED <<client, rcv, down>>
    BY <1>2 DEF MidReceive
  <2>2. m \in Message
    BY <2>1, TakeFacts DEF IInv, TypeOK
  <2>3. /\ req'.rcv_consumed = req.rcv_consumed
        /\ req'.rcv_disconnected = req.rcv_disconnected
        /\ req.stream_consumed => req'.stream_consumed
        /\ req'.stream_consumed => req.stream_consumed \/ IsLast(m)
        /\ req'.cached => req.cached \/ req'.stream_consumed
    <3> DEFINE consumed == req.stream_consumed \/ ~m.more_body
               body == mid.op = "body"
               chunks == mid.chunks \o m.body
    <3>1. RequestRecord
      BY RequestIsRecord DEF IInv
    <3>2. m.more_body \in BOOLEAN
      BY <2>2 DEF Message
    <3>3. CASE /\ m.type = "http.request"
               /\ req' = [req EXCEPT !.stream_consumed = consumed,
                                     !.cached = req.cached \/ (body /\ consumed),
                                     !.body = IF body /\ consumed THEN chunks ELSE req.body]
      <4>1. /\ req'.rcv_consumed = req.rcv_consumed
            /\ req'.rcv_disconnected = req.rcv_disconnected
            /\ req'.stream_consumed = consumed
            /\ req'.cached = (req.cached \/ (body /\ consumed))
        BY <3>1, <3>3 DEF RequestRecord
      <4>2. QED
        BY <3>1, <3>2, <3>3, <4>1 DEF IsLast, RequestRecord
    <3>4. CASE req' = [req EXCEPT !.is_disconnected = TRUE]
      BY <3>1, <3>4 DEF RequestRecord
    <3>5. QED
      BY <1>2, <3>3, <3>4 DEF MidReceive
  <2>4. UploadInv'
    BY <2>1, <2>3, TakeKeeps DEF IInv, UploadInv
  <2>5. QueueInv'
    BY <2>1, TakeKeeps DEF IInv, QueueInv
  <2>6. ConsumedInv'
    BY <2>1, <2>3, TakeKeeps DEF IInv, ConsumedInv
  <2>7. WaitInv' /\ DownInv'
    BY <2>1, <2>3 DEF IInv, WaitInv, DownInv
  <2>8. QED
    BY <2>4, <2>5, <2>6, <2>7 DEF IInv
<1>3. CASE IsDisconnected
  <2>1. Take /\ UNCHANGED <<client, rcv, down>>
    BY <1>3 DEF IsDisconnected
  <2>2. /\ req'.rcv_consumed = req.rcv_consumed
        /\ req'.rcv_disconnected = req.rcv_disconnected
        /\ req'.stream_consumed = req.stream_consumed
        /\ req'.cached = req.cached
    BY <1>3 DEF IsDisconnected, IInv, TypeOK
  <2>3. UploadInv' /\ QueueInv'
    BY <2>1, <2>2, TakeKeeps DEF IInv, UploadInv, QueueInv
  <2>4. ConsumedInv' /\ WaitInv' /\ DownInv'
    BY <2>1, <2>2, TakeKeeps DEF IInv, ConsumedInv, WaitInv, DownInv
  <2>5. QED
    BY <2>3, <2>4 DEF IInv
<1>4. QED
  BY <1>1, <1>2, <1>3 DEF Dispatch

\* Steps of wrapped_receive().
LEMMA DownstreamStep == ASSUME IInv, Downstream, TypeOK' PROVE IInv'
<1>1. CASE WrappedReceive
  <2>1. UNCHANGED <<client, queue>>
    BY <1>1 DEF WrappedReceive
  <2>2. RequestRecord /\ HistoryRecord
    BY RequestIsRecord DEF IInv
  <2>3. /\ req'.stream_consumed = req.stream_consumed
        /\ req'.cached = req.cached
        /\ req'.rcv_consumed => req.stream_consumed
        /\ rcv' = "stream" => ~req'.rcv_consumed /\ ~req'.rcv_disconnected
        /\ rcv' = "disconnect" => req'.rcv_consumed
        /\ down'.finals > 0 => req'.rcv_consumed
        /\ down'.gone => req'.rcv_disconnected
    <3>1. /\ rcv = "idle"
          /\ req.cached => req.stream_consumed
          /\ req.rcv_consumed => req.stream_consumed
          /\ down.finals > 0 => req.rcv_consumed
          /\ down.gone => req.rcv_disconnected
      BY <1>1 DEF WrappedReceive, IInv, ConsumedInv, DownInv
    <3>2. CASE ReceiveKnownDisconnect
      <4>1. /\ req' = [req EXCEPT !.rcv_disconnected = TRUE]
            /\ down' = [down EXCEPT !.gone = TRUE]
            /\ rcv' = rcv
        BY <3>2 DEF ReceiveKnownDisconnect, Returned, Disconnect
      <4>2. QED
        BY <2>2, <3>1, <4>1 DEF RequestRecord, HistoryRecord
    <3>3. CASE AwaitDisconnect
      BY <3>1, <3>3 DEF AwaitDisconnect
    <3>4. CASE ReceiveCachedBody
      <4>1. /\ req.cached
            /\ req' = [req EXCEPT !.rcv_consumed = TRUE]
            /\ rcv' = rcv
        BY <3>4 DEF ReceiveCachedBody
      <4>2. down'.gone = down.gone
        BY <2>2, <3>4 DEF ReceiveCachedBody, Returned, RequestMessage, HistoryRecord
      <4>3. QED
        BY <2>2, <3>1, <4>1, <4>2 DEF RequestRecord
    <3>5. CASE ReceiveEmptyBody
      <4>1. /\ req.stream_consumed
            /\ req' = [req EXCEPT !.rcv_consumed = TRUE]
            /\ rcv' = rcv
        BY <3>5 DEF ReceiveEmptyBody
      <4>2. down'.gone = down.gone
        BY <2>2, <3>5 DEF ReceiveEmptyBody, Returned, RequestMessage, HistoryRecord
      <4>3. QED
        BY <2>2, <3>1, <4>1, <4>2 DEF RequestRecord
    <3>6. CASE AwaitChunk
      BY <3>1, <3>6 DEF AwaitChunk
    <3>7. QED
      BY <1>1, <3>2, <3>3, <3>4, <3>5, <3>6 DEF WrappedReceive
  <2>4. UploadInv' /\ QueueInv'
    BY <2>1 DEF IInv, UploadInv, QueueInv
  <2>5. ConsumedInv'
    BY <2>1, <2>3 DEF IInv, ConsumedInv, OnlyDisconnects
  <2>6. WaitInv' /\ DownInv'
    BY <2>3 DEF WaitInv, DownInv
  <2>7. QED
    BY <2>4, <2>5, <2>6 DEF IInv
<1>2. CASE WrappedChunk
  <2> DEFINE m == Head(queue)
  <2>1. Take /\ UNCHANGED client /\ rcv = "stream"
    BY <1>2 DEF WrappedChunk
  <2>2. m \in Message
    BY <2>1, TakeFacts DEF IInv, TypeOK
  <2>3. ~req.rcv_consumed /\ ~req.rcv_disconnected /\ ~(down.finals > 0) /\ ~down.gone
    BY <2>1 DEF IInv, WaitInv, DownInv
  <2>4. RequestRecord /\ HistoryRecord /\ m.more_body \in BOOLEAN
    BY <2>2, RequestIsRecord DEF IInv, Message
  <2>5. /\ rcv' = "idle" \/ (rcv' = "stream" /\ req' = req)
        /\ req.stream_consumed => req'.stream_consumed
        /\ req'.stream_consumed => req.stream_consumed \/ IsLast(m)
        /\ req'.cached = req.cached
        /\ req'.rcv_consumed => req'.stream_consumed
        /\ down'.finals > 0 => req'.rcv_consumed
        /\ down'.gone => req'.rcv_disconnected
    <3> DEFINE consumed == req.stream_consumed \/ ~m.more_body
    <3>1. CASE UNCHANGED <<req, rcv, down>>
      BY <2>1, <2>3, <3>1
    <3>2. CASE m.type = "http.request" /\ YieldChunk(m, consumed)
      <4>1. /\ req' = [req EXCEPT !.stream_consumed = consumed, !.rcv_consumed = consumed]
            /\ down' = Returned(RequestMessage(m.body, ~consumed))
            /\ rcv' = "idle"
        BY <3>2 DEF YieldChunk
      <4>2. /\ req'.stream_consumed = consumed
            /\ req'.rcv_consumed = consumed
            /\ req'.rcv_disconnected = req.rcv_disconnected
            /\ req'.cached = req.cached
        BY <2>4, <4>1 DEF RequestRecord
      <4>3. /\ down'.gone = down.gone
            /\ ~consumed => down'.finals = down.finals
        BY <2>4, <4>1 DEF Returned, RequestMessage, HistoryRecord
      <4>4. QED
        BY <2>3, <2>4, <3>2, <4>1, <4>2, <4>3 DEF IsLast
    <3>3. CASE m.type = "http.disconnect" /\ OnClientDisconnect(m)
      <4>1. /\ req' = [req EXCEPT !.is_disconnected = TRUE, !.rcv_disconnected = TRUE]
            /\ down' = [down EXCEPT !.gone = TRUE]
            /\ rcv' = "idle"
        BY <3>3 DEF OnClientDisconnect, Returned
      <4>2. /\ req'.stream_consumed = req.stream_consumed
            /\ req'.rcv_consumed = req.rcv_consumed
            /\ req'.rcv_disconnected
            /\ req'.cached = req.cached
            /\ down'.finals = down.finals
        BY <2>4, <4>1 DEF RequestRecord, HistoryRecord
      <4>3. QED
        BY <2>3, <4>1, <4>2
    <3>4. QED
      BY <1>2, <3>1, <3>2, <3>3 DEF WrappedChunk, OnChunk
  <2>6. UploadInv' /\ QueueInv'
    BY <2>1, <2>5, TakeKeeps DEF IInv, UploadInv, QueueInv
  <2>7. ConsumedInv'
    BY <2>1, <2>5, TakeKeeps DEF IInv, ConsumedInv
  <2>8. WaitInv' /\ DownInv'
    BY <2>3, <2>5 DEF WaitInv, DownInv
  <2>9. QED
    BY <2>6, <2>7, <2>8 DEF IInv
<1>3. CASE WrappedDisconnect
  <2>1. Take /\ UNCHANGED client /\ rcv' = "idle" /\ Head(queue).type = "http.disconnect"
    BY <1>3 DEF WrappedDisconnect
  <2>2. /\ req' = [req EXCEPT !.rcv_disconnected = TRUE]
        /\ down' = [down EXCEPT !.gone = TRUE]
    BY <1>3, <2>1 DEF WrappedDisconnect, Returned
  <2>3. UploadInv' /\ QueueInv'
    BY <2>1, <2>2, TakeKeeps DEF IInv, TypeOK, UploadInv, QueueInv
  <2>4. ConsumedInv' /\ WaitInv' /\ DownInv'
    BY <2>1, <2>2, TakeKeeps DEF IInv, TypeOK, ConsumedInv, WaitInv, DownInv
  <2>5. QED
    BY <2>3, <2>4 DEF IInv
<1>4. CASE WrappedCancelled
  BY <1>4 DEF WrappedCancelled, IInv, UploadInv, QueueInv, ConsumedInv, WaitInv, DownInv,
              OnlyDisconnects
<1>5. QED
  BY <1>1, <1>2, <1>3, <1>4 DEF Downstream

\* The invariant holds initially.
LEMMA InvariantInit == InitBody => IInv
<1>1. InitBody => TypeOK
  BY InitType
<1>2. InitBody => UploadInv /\ QueueInv /\ ConsumedInv /\ WaitInv /\ DownInv
  BY DEF InitBody, InitRequest, UploadInv, QueueInv, ConsumedInv, WaitInv, DownInv,
         OnlyDisconnects
<1>3. QED
  BY <1>1, <1>2 DEF IInv

\* It is kept by every step.
LEMMA InvariantStep == IInv /\ [NextBody]_reqVars => IInv'
<1> SUFFICES ASSUME IInv, [NextBody]_reqVars PROVE IInv'
  OBVIOUS
<1>1. TypeOK'
  BY TypeStep DEF IInv
<1>2. CASE UNCHANGED reqVars
  BY <1>1, <1>2 DEF reqVars, IInv, UploadInv, QueueInv, ConsumedInv, WaitInv, DownInv,
                    OnlyDisconnects
<1>3. QED
  BY <1>1, <1>2, ClientStep, DispatchStep, DownstreamStep DEF NextBody

\* So it holds in every state, whatever dispatch() and downstream read.
THEOREM Invariant == BodySpec => []IInv
BY InvariantInit, InvariantStep, PTL DEF BodySpec

\* What the invariant is for.
LEMMA InvariantIsSafe == IInv => EndIsTrue
BY DEF IInv, WaitInv, ConsumedInv, DownInv, OnlyDisconnects, EndIsTrue, OnlyDisconnectLeft,
       NoFalseEnd

\* wrapped_receive() never waits for a disconnect while the client may still send
\* something else (its RuntimeError is unreachable), and never ends a body that the
\* client did not end.
THEOREM Safe == BodySpec => []EndIsTrue
BY InvariantIsSafe, Invariant, PTL

LEMMA AfterTheEndStep ==
  ASSUME IInv, NextBody, down.gone \/ down.finals > 0
  PROVE  down'.data = down.data /\ down'.finals = down.finals
<1>1. req.rcv_disconnected \/ req.rcv_consumed
  BY DEF IInv, DownInv
<1>2. rcv # "stream"
  BY <1>1 DEF IInv, WaitInv
<1>3. QED
  BY <1>1, <1>2 DEF NextBody, Client, Upload, Leave, Dispatch, StartRead, MidReceive,
    IsDisconnected, Downstream, WrappedReceive, ReceiveKnownDisconnect, AwaitDisconnect,
    ReceiveCachedBody, ReceiveEmptyBody, AwaitChunk, WrappedChunk, WrappedDisconnect,
    WrappedCancelled, Returned, Disconnect, IInv, TypeOK

\* After the end of the body or a disconnect downstream gets only disconnects.
THEOREM AfterTheEnd == BodySpec => NothingAfterTheEnd
<1>1. IInv /\ [NextBody]_reqVars =>
        [down.gone \/ down.finals > 0 =>
           down'.data = down.data /\ down'.finals = down.finals]_reqVars
  BY AfterTheEndStep
<1>2. QED
  BY <1>1, Invariant, PTL DEF BodySpec, NothingAfterTheEnd

-----------------------------------------------------------------------------
(* Where the chunks of the body are: still to be received, held by the     *)
(* request or by downstream, or taken out by dispatch().                   *)

Below(S, T) == \A c \in S, d \in T : c < d
Pending == UNION {Elements(queue[i].body) : i \in DOMAIN queue}
Held == Elements(down.data) \union Elements(mid.chunks) \union Elements(req.body)
Dropped == UNION {Elements(polled[i].body) : i \in DOMAIN polled}

\* The end of the body may still come, or has come.
Live == \/ client.state = "uploading"
        \/ \E i \in DOMAIN queue : IsLast(queue[i])
        \/ req.stream_consumed

\* What is still to be received is in upload order, and after all that is held.
OrderInv ==
  /\ \A i \in DOMAIN queue :
       /\ Increasing(queue[i].body)
       /\ queue[i].type = "http.disconnect" => queue[i].body = <<>>
  /\ \A i, j \in DOMAIN queue :
       i < j => Below(Elements(queue[i].body), Elements(queue[j].body))
  /\ Pending \union Held \subseteq 1..client.chunks
  /\ Below(Held, Pending)

\* What dispatch() collects, what it has cached and what downstream was given.
KeptInv ==
  /\ Increasing(mid.chunks) /\ Increasing(req.body) /\ IsInjective(down.data)
  /\ mid.op # "body" => mid.chunks = <<>>
  /\ req.cached => mid.op = "idle"
  /\ ~req.cached => req.body = <<>>
  /\ Elements(mid.chunks) \intersect Elements(down.data) = {}
  /\ ~req.rcv_consumed => Elements(req.body) \intersect Elements(down.data) = {}
  /\ req.cached /\ req.rcv_consumed => Elements(req.body) \subseteq Elements(down.data)

\* While dispatch() does not read beside it, downstream begins when dispatch() is done.
BesideInv ==
  ~beside =>
    /\ Increasing(down.data)
    /\ mid.op # "idle" \/ (req.cached /\ ~req.rcv_consumed) => down.data = <<>> /\ rcv # "stream"

\* No chunk of a body that is not broken off has gone.
AccountInv ==
  Live => 1..client.chunks \subseteq Held \union streamed \union Dropped \union Pending

DeliveryInv == OrderInv /\ KeptInv /\ BesideInv /\ AccountInv

\* A chunk is pending when it is in a message of the queue.
LEMMA PendingIs ==
  /\ \A c : c \in Pending <=> \E i \in DOMAIN queue : c \in Elements(queue[i].body)
  /\ \A c : c \in Pending' <=> \E i \in DOMAIN queue' : c \in Elements(queue'[i].body)
BY DEF Pending

\* Short sequences.
LEMMA ShortFacts ==
  /\ Elements(<<>>) = {} /\ Increasing(<<>>) /\ IsInjective(<<>>)
  /\ \A c : Elements(<<c>>) = {c} /\ Increasing(<<c>>)
BY DEF Elements, Increasing, IsInjective

\* One sequence of chunks after another.
LEMMA Concat ==
  ASSUME NEW s \in Seq(Chunk), NEW t \in Seq(Chunk)
  PROVE  /\ s \o t \in Seq(Chunk)
         /\ Elements(s \o t) = Elements(s) \union Elements(t)
         /\ Increasing(s) /\ Increasing(t) /\ Below(Elements(s), Elements(t)) => Increasing(s \o t)
         /\ IsInjective(s) /\ IsInjective(t) /\ Elements(s) \intersect Elements(t) = {}
              => IsInjective(s \o t)
<1> DEFINE u == s \o t
<1>1. /\ u \in Seq(Chunk) /\ Len(u) = Len(s) + Len(t) /\ Len(s) \in Nat /\ Len(t) \in Nat
      /\ DOMAIN s = 1..Len(s) /\ DOMAIN t = 1..Len(t) /\ DOMAIN u = 1..(Len(s) + Len(t))
  OBVIOUS
<1>2. /\ \A i \in 1..Len(s) : u[i] = s[i]
      /\ \A i \in 1..Len(t) : u[Len(s) + i] = t[i]
  OBVIOUS
<1>3. \A i \in DOMAIN u : \/ i \in DOMAIN s /\ u[i] = s[i]
                          \/ i > Len(s) /\ i - Len(s) \in DOMAIN t /\ u[i] = t[i - Len(s)]
  <2>1. TAKE i \in DOMAIN u
  <2>2. CASE i \in 1..Len(s)
    BY <1>1, <1>2, <2>2
  <2>3. CASE i \notin 1..Len(s)
    <3>1. i - Len(s) \in 1..Len(t) /\ i > Len(s) /\ i = Len(s) + (i - Len(s))
      BY <1>1, <2>3
    <3>2. QED
      BY <1>1, <1>2, <3>1
  <2>4. QED
    BY <2>2, <2>3
<1>4. \A i \in DOMAIN t : Len(s) + i \in DOMAIN u
  BY <1>1
<1>5. DOMAIN s \subseteq DOMAIN u
  BY <1>1
<1> HIDE DEF u
<1>6. Elements(u) = Elements(s) \union Elements(t)
  BY <1>1, <1>2, <1>3, <1>4, <1>5 DEF Elements
<1>7. /\ \A i \in DOMAIN s : s[i] \in Elements(s)
      /\ \A i \in DOMAIN t : t[i] \in Elements(t)
  BY DEF Elements
<1>8. ASSUME Increasing(s), Increasing(t), Below(Elements(s), Elements(t))
      PROVE  Increasing(u)
  <2>1. SUFFICES ASSUME NEW i \in DOMAIN u, NEW j \in DOMAIN u, i < j
                 PROVE  u[i] < u[j]
    BY DEF Increasing
  <2>2. i \in Nat /\ j \in Nat
    BY <1>1
  <2>3. CASE i \in DOMAIN s /\ u[i] = s[i] /\ j \in DOMAIN s /\ u[j] = s[j]
    BY <1>8, <2>1, <2>3 DEF Increasing
  <2>4. CASE i \in DOMAIN s /\ u[i] = s[i] /\ j - Len(s) \in DOMAIN t /\ u[j] = t[j - Len(s)]
    BY <1>7, <1>8, <2>4 DEF Below
  <2>5. CASE i - Len(s) \in DOMAIN t /\ u[i] = t[i - Len(s)] /\ j - Len(s) \in DOMAIN t /\ u[j] = t[j - Len(s)]
    <3>1. i - Len(s) < j - Len(s)
      BY <1>1, <2>1, <2>2
    <3>2. QED
      BY <1>8, <2>5, <3>1 DEF Increasing
  <2>6. QED
    BY <1>1, <1>3, <2>1, <2>2, <2>3, <2>4, <2>5
<1>9. ASSUME IsInjective(s), IsInjective(t), Elements(s) \intersect Elements(t) = {}
      PROVE  IsInjective(u)
  <2>1. SUFFICES ASSUME NEW i \in DOMAIN u, NEW j \in DOMAIN u, u[i] = u[j]
                 PROVE  i = j
    BY DEF IsInjective
  <2>2. i \in Nat /\ j \in Nat
    BY <1>1
  <2>3. CASE i \in DOMAIN s /\ u[i] = s[i] /\ j \in DOMAIN s /\ u[j] = s[j]
    BY <1>9, <2>1, <2>3 DEF IsInjective
  <2>4. ASSUME NEW k \in DOMAIN s, NEW l \in DOMAIN t PROVE s[k] # t[l]
    BY <1>7, <1>9
  <2>5. CASE i - Len(s) \in DOMAIN t /\ u[i] = t[i - Len(s)] /\ j - Len(s) \in DOMAIN t /\ u[j] = t[j - Len(s)]
    <3>1. i - Len(s) = j - Len(s)
      BY <1>9, <2>1, <2>5 DEF IsInjective
    <3>2. QED
      BY <1>1, <2>2, <3>1
  <2>6. QED
    BY <1>3, <2>1, <2>3, <2>4, <2>5
<1>10. QED
  BY <1>1, <1>6, <1>8, <1>9 DEF u

\* Chunks in order are different chunks.
LEMMA IncreasingIsInjective ==
  ASSUME NEW s \in Seq(Chunk), Increasing(s)
  PROVE  IsInjective(s)
<1>1. SUFFICES ASSUME NEW i \in DOMAIN s, NEW j \in DOMAIN s, s[i] = s[j]
               PROVE  i = j
  BY DEF IsInjective
<1>2. i \in Nat /\ j \in Nat /\ s[i] \in Nat /\ s[j] \in Nat
  BY DEF Chunk
<1>3. ~(i < j) /\ ~(j < i)
  BY <1>1, <1>2 DEF Increasing
<1>4. QED
  BY <1>2, <1>3

\* What receiving a message does to the chunks that are still to come.
LEMMA TakeOrder ==
  ASSUME TypeOK, OrderInv, Take
  PROVE  /\ Elements(Head(queue).body) \subseteq Pending
         /\ Pending' \subseteq Pending
         /\ Pending \subseteq Elements(Head(queue).body) \union Pending'
         /\ Below(Elements(Head(queue).body), Pending')
         /\ Increasing(Head(queue).body)
         /\ Head(queue).type = "http.disconnect" => Head(queue).body = <<>>
         /\ \A i \in DOMAIN queue' :
              /\ Increasing(queue'[i].body)
              /\ queue'[i].type = "http.disconnect" => queue'[i].body = <<>>
         /\ \A i, j \in DOMAIN queue' :
              i < j => Below(Elements(queue'[i].body), Elements(queue'[j].body))
         /\ (\E i \in DOMAIN queue' : IsLast(queue'[i])) => \E i \in DOMAIN queue : IsLast(queue[i])
         /\ IsLast(Head(queue)) => \E i \in DOMAIN queue : IsLast(queue[i])
<1> DEFINE m == Head(queue)
<1>1. queue \in Seq(Message) /\ Len(queue) \in Nat /\ DOMAIN queue = 1..Len(queue)
  BY DEF TypeOK
<1>2. 1 \in DOMAIN queue /\ m = queue[1]
  BY <1>1, TakeFacts
<1>3. /\ Increasing(m.body)
      /\ m.type = "http.disconnect" => m.body = <<>>
      /\ Elements(m.body) \subseteq Pending
      /\ IsLast(m) => \E i \in DOMAIN queue : IsLast(queue[i])
  BY <1>2, PendingIs DEF OrderInv
<1>4. CASE queue' = queue /\ m.type = "http.disconnect"
  <2>1. Elements(m.body) = {}
    BY <1>3, <1>4, ShortFacts
  <2>2. Pending' = Pending
    BY <1>4 DEF Pending
  <2>3. QED
    BY <1>3, <1>4, <2>1, <2>2 DEF OrderInv, Below
<1>5. CASE queue' = Tail(queue)
  <2>1. /\ DOMAIN queue' = 1..(Len(queue) - 1)
        /\ \A i \in DOMAIN queue' : i + 1 \in DOMAIN queue /\ queue'[i] = queue[i + 1]
        /\ \A i \in DOMAIN queue : i = 1 \/ (i - 1 \in DOMAIN queue' /\ queue'[i - 1] = queue[i])
    BY <1>1, <1>2, <1>5
  <2>2. Pending' \subseteq Pending
    BY <2>1, PendingIs
  <2>3. Pending \subseteq Elements(m.body) \union Pending'
    BY <1>2, <2>1, PendingIs
  <2>4. Below(Elements(m.body), Pending')
    <3>1. ASSUME NEW c \in Elements(m.body), NEW d \in Pending' PROVE c < d
      <4>1. PICK i \in DOMAIN queue' : d \in Elements(queue'[i].body)
        BY PendingIs
      <4>2. i + 1 \in DOMAIN queue /\ queue'[i] = queue[i + 1] /\ 1 < i + 1
        BY <2>1
      <4>3. QED
        BY <1>2, <4>1, <4>2 DEF OrderInv, Below
    <3>2. QED
      BY <3>1 DEF Below
  <2>5. \A i \in DOMAIN queue' :
          /\ Increasing(queue'[i].body)
          /\ queue'[i].type = "http.disconnect" => queue'[i].body = <<>>
    BY <2>1 DEF OrderInv
  <2>6. \A i, j \in DOMAIN queue' :
          i < j => Below(Elements(queue'[i].body), Elements(queue'[j].body))
    BY <2>1 DEF OrderInv
  <2>7. (\E i \in DOMAIN queue' : IsLast(queue'[i])) => \E i \in DOMAIN queue : IsLast(queue[i])
    BY <2>1
  <2>8. QED
    BY <1>3, <2>2, <2>3, <2>4, <2>5, <2>6, <2>7
<1>6. QED
  BY <1>4, <1>5 DEF Take

\* A message is taken, and its chunks held, or not.
LEMMA OrderTaken ==
  ASSUME TypeOK, OrderInv, Take, UNCHANGED client,
         Held' \subseteq Held \union Elements(Head(queue).body)
  PROVE  OrderInv'
<1>1. Pending' \union Held' \subseteq 1..client.chunks
  BY TakeOrder DEF OrderInv
<1>2. Below(Held', Pending')
  BY TakeOrder DEF OrderInv, Below
<1>3. QED
  BY <1>1, <1>2, TakeOrder DEF OrderInv

\* No chunk of it is forgotten.
LEMMA AccountTaken ==
  ASSUME TypeOK, OrderInv, AccountInv, Take, UNCHANGED client,
         req'.stream_consumed => req.stream_consumed \/ IsLast(Head(queue)),
         Held \union streamed \union Dropped \union Elements(Head(queue).body)
           \subseteq Held' \union streamed' \union Dropped'
  PROVE  AccountInv'
<1>1. Live' => Live
  BY TakeOrder DEF Live
<1>2. QED
  BY <1>1, TakeOrder DEF AccountInv

\* Nothing is received.
LEMMA NothingTaken ==
  ASSUME OrderInv, AccountInv, UNCHANGED <<queue, client>>, Held' = Held,
         UNCHANGED <<streamed, polled>>, req'.stream_consumed = req.stream_consumed
  PROVE  OrderInv' /\ AccountInv'
<1>1. Pending' = Pending /\ Dropped' = Dropped /\ Live' = Live
  BY DEF Pending, Dropped, Live
<1>2. QED
  BY <1>1 DEF OrderInv, AccountInv

\* The types that the proofs below use.
LEMMA ChunkTypes ==
  ASSUME TypeOK
  PROVE  /\ RequestRecord /\ HistoryRecord
         /\ req.body \in Seq(Chunk) /\ down.data \in Seq(Chunk)
         /\ mid \in [op : {"idle", "stream", "body"}, chunks : Seq(Chunk)]
         /\ mid.chunks \in Seq(Chunk) /\ mid.op \in {"idle", "stream", "body"}
         /\ client.chunks \in Nat
         /\ queue \in Seq(Message)
BY DEF TypeOK, RequestRecord, HistoryRecord

\* The client uploads a chunk, or leaves.
LEMMA ClientDelivers ==
  ASSUME IInv, DeliveryInv, Client
  PROVE  DeliveryInv'
<1>0. /\ TypeOK /\ OrderInv /\ KeptInv /\ BesideInv /\ AccountInv
      /\ queue \in Seq(Message) /\ client.chunks \in Nat
      /\ Len(queue) \in Nat /\ DOMAIN queue = 1..Len(queue)
  BY ChunkTypes DEF IInv, DeliveryInv
<1>1. UNCHANGED <<req, mid, rcv, streamed, polled, beside, down>>
  BY DEF Client, Upload, Leave
<1>2. KeptInv' /\ BesideInv' /\ Held' = Held /\ Dropped' = Dropped
  BY <1>0, <1>1 DEF KeptInv, BesideInv, Held, Dropped
<1>3. ASSUME NEW empty \in BOOLEAN, NEW more \in BOOLEAN, Upload(empty, more)
      PROVE  OrderInv' /\ AccountInv'
  <2> DEFINE body == IF empty THEN <<>> ELSE <<client.chunks + 1>>
             m == RequestMessage(body, more)
  <2>1. /\ queue' = Append(queue, m) /\ m.body = body /\ m.type = "http.request"
        /\ client.state = "uploading"
        /\ client'.chunks = IF empty THEN client.chunks ELSE client.chunks + 1
    BY <1>3 DEF Upload, RequestMessage, IInv, TypeOK
  <2>2. /\ DOMAIN queue' = 1..(Len(queue) + 1)
        /\ \A i \in DOMAIN queue : i \in DOMAIN queue' /\ queue'[i] = queue[i]
        /\ Len(queue) + 1 \in DOMAIN queue' /\ queue'[Len(queue) + 1] = m
        /\ \A i \in DOMAIN queue' : i \in DOMAIN queue \/ i = Len(queue) + 1
    BY <1>0, <2>1
  <2>3. /\ Elements(body) = IF empty THEN {} ELSE {client.chunks + 1}
        /\ Increasing(body)
    BY ShortFacts
  <2> HIDE DEF m, body
  <2>4. Pending' = Pending \union Elements(body)
    BY <2>1, <2>2, PendingIs
  <2>5. \A c \in Pending \union Held : c \in Nat /\ c <= client.chunks /\ c \in 1..client'.chunks
    BY <1>0, <2>1 DEF OrderInv
  <2>6. \A d \in Elements(body) : d = client.chunks + 1 /\ d \in 1..client'.chunks
    BY <1>0, <2>1, <2>3
  <2>7. Pending' \union Held' \subseteq 1..client'.chunks
    BY <1>2, <2>4, <2>5, <2>6
  <2>8. Below(Held', Pending')
    BY <1>0, <1>2, <2>4, <2>5, <2>6 DEF OrderInv, Below
  <2>9. \A i \in DOMAIN queue' :
          /\ Increasing(queue'[i].body)
          /\ queue'[i].type = "http.disconnect" => queue'[i].body = <<>>
    BY <1>0, <2>1, <2>2, <2>3 DEF OrderInv
  <2>10. ASSUME NEW i \in DOMAIN queue', NEW j \in DOMAIN queue', i < j
         PROVE  Below(Elements(queue'[i].body), Elements(queue'[j].body))
    <3>1. i \in DOMAIN queue /\ queue'[i] = queue[i]
      BY <1>0, <2>2, <2>10
    <3>2. CASE j \in DOMAIN queue
      BY <1>0, <2>2, <2>10, <3>1, <3>2 DEF OrderInv
    <3>3. CASE j = Len(queue) + 1
      <4>1. Elements(queue[i].body) \subseteq Pending
        BY <3>1, PendingIs
      <4>2. queue'[j].body = body
        BY <2>1, <2>2, <3>3
      <4>3. QED
        BY <2>5, <2>6, <3>1, <4>1, <4>2, <1>0 DEF Below
    <3>4. QED
      BY <2>2, <2>10, <3>2, <3>3
  <2>11. OrderInv'
    BY <2>7, <2>8, <2>9, <2>10 DEF OrderInv
  <2>12. Live
    BY <2>1 DEF Live
  <2>13. 1..client'.chunks \subseteq 1..client.chunks \union Elements(body)
    BY <1>0, <2>1, <2>3
  <2>14. AccountInv'
    BY <1>0, <1>1, <1>2, <2>4, <2>12, <2>13 DEF AccountInv
  <2>15. QED
    BY <2>11, <2>14
<1>4. ASSUME NEW drop \in BOOLEAN, Leave(drop)
      PROVE  OrderInv' /\ AccountInv'
  <2>1. /\ queue' = <<Disconnect>> \/ queue' = Append(queue, Disconnect)
        /\ Disconnect.type = "http.disconnect" /\ Disconnect.body = <<>>
        /\ client'.state = "gone" /\ client'.chunks = client.chunks
        /\ ~IsLast(Disconnect)
    BY <1>4 DEF Leave, Disconnect, IInv, TypeOK, IsLast
  <2>2. Elements(Disconnect.body) = {} /\ Increasing(Disconnect.body)
    BY <2>1, ShortFacts
  <2>3. CASE queue' = <<Disconnect>>
    <3>1. \A i \in DOMAIN queue' : i = 1 /\ queue'[i] = Disconnect
      BY <2>3
    <3>2. Pending' = {}
      BY <2>2, <3>1, PendingIs
    <3>3. OrderInv'
      BY <1>0, <1>2, <2>1, <2>2, <3>1, <3>2 DEF OrderInv, Below
    <3>4. Live' => req.stream_consumed
      BY <1>1, <2>1, <3>1 DEF Live
    <3>5. req.stream_consumed => Pending = {}
      <4>1. req.stream_consumed => \A i \in DOMAIN queue : Elements(queue[i].body) = {}
        BY <1>0, ShortFacts DEF IInv, ConsumedInv, OnlyDisconnects, OrderInv
      <4>2. QED
        BY <4>1, PendingIs
    <3>6. AccountInv'
      BY <1>0, <1>1, <1>2, <2>1, <3>4, <3>5 DEF AccountInv, Live
    <3>7. QED
      BY <3>3, <3>6
  <2>4. CASE queue' = Append(queue, Disconnect)
    <3>1. /\ DOMAIN queue' = 1..(Len(queue) + 1)
          /\ \A i \in DOMAIN queue : i \in DOMAIN queue' /\ queue'[i] = queue[i]
          /\ queue'[Len(queue) + 1] = Disconnect
          /\ \A i \in DOMAIN queue' : i \in DOMAIN queue \/ i = Len(queue) + 1
      BY <1>0, <2>4
    <3>2. Pending' = Pending
      BY <2>2, <3>1, PendingIs
    <3>3. \A i, j \in DOMAIN queue' :
            i < j => Below(Elements(queue'[i].body), Elements(queue'[j].body))
      BY <1>0, <2>2, <3>1 DEF OrderInv, Below
    <3>4. OrderInv'
      BY <1>0, <1>2, <2>1, <2>2, <3>1, <3>2, <3>3 DEF OrderInv
    <3>5. Live' => Live
      BY <1>1, <2>1, <3>1 DEF Live
    <3>6. AccountInv'
      BY <1>0, <1>1, <1>2, <2>1, <3>2, <3>5 DEF AccountInv
    <3>7. QED
      BY <3>4, <3>6
  <2>5. QED
    BY <2>1, <2>3, <2>4
<1>5. QED
  BY <1>2, <1>3, <1>4 DEF Client, DeliveryInv

\* A request message can only be received while the body is not consumed.
LEMMA NotConsumed ==
  ASSUME IInv, KeptInv, Take, Head(queue).type = "http.request"
  PROVE  ~req.stream_consumed /\ ~req.cached /\ ~req.rcv_consumed /\ req.body = <<>>
<1>1. ~OnlyDisconnects
  BY TakeFacts DEF OnlyDisconnects, IInv, TypeOK
<1>2. QED
  BY <1>1 DEF IInv, ConsumedInv, KeptInv

\* What is held comes before what is received.
LEMMA HeldBelow ==
  ASSUME TypeOK, OrderInv, Take
  PROVE  Below(Held, Elements(Head(queue).body))
BY TakeOrder DEF OrderInv, Below

\* dispatch() takes a message of the body.
LEMMA MidReceiveDelivers ==
  ASSUME IInv, DeliveryInv, MidReceive, Head(queue).type = "http.request"
  PROVE  DeliveryInv'
<1> DEFINE m == Head(queue)
           consumed == req.stream_consumed \/ ~m.more_body
           chunks == mid.chunks \o m.body
           body == mid.op = "body"
           goOn == ~consumed /\ (body \/ m.body = <<>>)
<1>1. /\ TypeOK /\ OrderInv /\ KeptInv /\ BesideInv /\ AccountInv
      /\ Take /\ mid.op # "idle" /\ UNCHANGED <<client, rcv, polled, beside, down>>
  BY DEF IInv, DeliveryInv, MidReceive
<1>2. /\ ~req.stream_consumed /\ ~req.cached /\ ~req.rcv_consumed /\ req.body = <<>>
  BY <1>1, NotConsumed
<1>3. /\ m \in Message /\ m.body \in Seq(Chunk) /\ m.more_body \in BOOLEAN
  BY <1>1, TakeFacts, ChunkTypes DEF Message
<1>4. /\ req' = [req EXCEPT !.stream_consumed = consumed,
                            !.cached = @ \/ (body /\ consumed),
                            !.body = IF body /\ consumed THEN chunks ELSE @]
      /\ streamed' = IF body THEN streamed ELSE streamed \union Elements(m.body)
      /\ mid' = IF goOn THEN [mid EXCEPT !.chunks = chunks] ELSE [op |-> "idle", chunks |-> <<>>]
  BY <1>1 DEF MidReceive, Elements
<1>5. /\ req'.stream_consumed = consumed
      /\ req'.cached = (body /\ consumed)
      /\ req'.rcv_consumed = FALSE
      /\ req'.body = IF body /\ consumed THEN chunks ELSE <<>>
  BY <1>1, <1>2, <1>4, ChunkTypes DEF RequestRecord
<1>6. /\ chunks \in Seq(Chunk) /\ Elements(chunks) = Elements(mid.chunks) \union Elements(m.body)
      /\ Increasing(chunks)
  <2>1. Increasing(mid.chunks) /\ Increasing(m.body) /\ Below(Elements(mid.chunks), Elements(m.body))
    BY <1>1, HeldBelow, TakeOrder DEF KeptInv, Held, Below
  <2>2. QED
    BY <1>1, <1>3, <2>1, Concat, ChunkTypes
<1>7. Elements(chunks) \intersect Elements(down.data) = {}
  <2>1. Elements(down.data) \subseteq Nat /\ Elements(m.body) \subseteq Nat
    BY <1>1, <1>3, ChunkTypes DEF Elements, Chunk
  <2>2. Below(Elements(down.data), Elements(m.body))
    BY <1>1, HeldBelow DEF Held, Below
  <2>3. Elements(down.data) \intersect Elements(m.body) = {}
    BY <2>1, <2>2 DEF Below
  <2>4. QED
    BY <1>1, <1>6, <2>3 DEF KeptInv
<1>8. IsLast(m) <=> ~m.more_body
  BY DEF IsLast
<1>9. Dropped' = Dropped
  BY <1>1 DEF Dropped
<1> HIDE DEF chunks
<1>10. CASE body
  <2>1. /\ goOn => mid'.op = "body" /\ mid'.chunks = chunks /\ req'.body = <<>> /\ ~req'.cached
        /\ ~goOn => mid'.op = "idle" /\ mid'.chunks = <<>> /\ req'.body = chunks /\ req'.cached
    BY <1>1, <1>2, <1>3, <1>4, <1>5, <1>10, ChunkTypes
  <2>2. KeptInv'
    BY <1>1, <1>5, <1>6, <1>7, <2>1, ShortFacts DEF KeptInv
  <2>3. Held' = Held \union Elements(m.body)
    BY <1>1, <1>2, <1>6, <2>1, ShortFacts DEF Held
  <2>4. streamed' = streamed
    BY <1>4, <1>10
  <2>5. OrderInv'
    BY <1>1, <2>3, OrderTaken
  <2>6. AccountInv'
    BY <1>1, <1>2, <1>5, <1>8, <1>9, <2>3, <2>4, AccountTaken
  <2>7. BesideInv'
    BY <1>1, <1>10 DEF BesideInv
  <2>8. QED
    BY <2>2, <2>5, <2>6, <2>7 DEF DeliveryInv
<1>11. CASE ~body
  <2>1. mid.chunks = <<>> /\ mid.op # "body"
    BY <1>1, <1>11 DEF KeptInv
  <2>2. m.body = <<>> => chunks = <<>>
    BY <2>1 DEF chunks
  <2>3. mid'.op # "body" /\ mid'.chunks = <<>>
    BY <1>1, <1>4, <1>11, <2>1, <2>2, ChunkTypes
  <2>4. req'.body = <<>> /\ ~req'.cached
    BY <1>5, <1>11
  <2>5. KeptInv'
    BY <1>1, <1>5, <2>3, <2>4, ShortFacts DEF KeptInv
  <2>6. Held' = Held /\ streamed' = streamed \union Elements(m.body)
    BY <1>1, <1>2, <1>4, <1>11, <2>1, <2>3, <2>4 DEF Held
  <2>7. OrderInv'
    BY <1>1, <2>6, OrderTaken
  <2>8. AccountInv'
    BY <1>1, <1>2, <1>5, <1>8, <1>9, <2>6, AccountTaken
  <2>9. BesideInv'
    BY <1>1, <2>4 DEF BesideInv
  <2>10. QED
    BY <2>5, <2>7, <2>8, <2>9 DEF DeliveryInv
<1>12. QED
  BY <1>10, <1>11

\* dispatch() begins to read, is told of the disconnect, or drops a message.
LEMMA DispatchDelivers ==
  ASSUME IInv, DeliveryInv, Dispatch
  PROVE  DeliveryInv'
<1>0. /\ TypeOK /\ OrderInv /\ KeptInv /\ BesideInv /\ AccountInv /\ RequestRecord
  BY ChunkTypes DEF IInv, DeliveryInv
<1>1. ASSUME NEW op \in {"stream", "body"}, StartRead(op)
      PROVE  DeliveryInv'
  <2>1. /\ mid.op = "idle" /\ mid.chunks = <<>> /\ ~req.cached
        /\ mid'.op = op /\ mid'.chunks = <<>>
        /\ beside' = (beside \/ Began)
        /\ UNCHANGED <<client, queue, req, rcv, streamed, polled, down>>
    BY <1>0, <1>1 DEF StartRead, KeptInv
  <2>2. Held' = Held
    BY <2>1 DEF Held
  <2>3. OrderInv' /\ AccountInv'
    BY <1>0, <2>1, <2>2, NothingTaken
  <2>4. KeptInv'
    BY <1>0, <2>1 DEF KeptInv
  <2>5. BesideInv'
    BY <1>0, <2>1 DEF BesideInv, Began
  <2>6. QED
    BY <2>3, <2>4, <2>5 DEF DeliveryInv
<1>2. CASE MidReceive
  <2>1. CASE Head(queue).type = "http.request"
    BY <1>2, <2>1, MidReceiveDelivers
  <2>2. CASE Head(queue).type = "http.disconnect"
    <3>0. /\ req' = [req EXCEPT !.is_disconnected = TRUE]
          /\ mid' = [op |-> "idle", chunks |-> <<>>]
          /\ streamed' = streamed \union {mid.chunks[i] : i \in DOMAIN mid.chunks}
          /\ Take /\ UNCHANGED <<client, rcv, polled, beside, down>> /\ mid.op # "idle"
      BY <1>2, <2>2 DEF MidReceive
    <3>1. /\ Take /\ UNCHANGED <<client, rcv, polled, beside, down>>
          /\ mid'.op = "idle" /\ mid'.chunks = <<>> /\ mid.op # "idle"
          /\ streamed' = streamed \union Elements(mid.chunks)
      BY <3>0 DEF Elements
    <3>2. /\ req'.stream_consumed = req.stream_consumed /\ req'.cached = req.cached
          /\ req'.body = req.body /\ req'.rcv_consumed = req.rcv_consumed
      BY <1>0, <3>0 DEF RequestRecord
    <3>3. Elements(Head(queue).body) = {}
      BY <1>0, <2>2, <3>1, TakeOrder, ShortFacts
    <3>4. Elements(mid'.chunks) = {} /\ Increasing(mid'.chunks) /\ Dropped' = Dropped
      BY <3>1, ShortFacts DEF Dropped
    <3>5. KeptInv'
      BY <1>0, <3>1, <3>2, <3>4 DEF KeptInv
    <3>6. Held' \subseteq Held /\ Held \subseteq Held' \union Elements(mid.chunks)
      BY <3>1, <3>2, <3>4 DEF Held
    <3>7. OrderInv'
      BY <1>0, <3>1, <3>6, OrderTaken
    <3>8. AccountInv'
      BY <1>0, <3>1, <3>2, <3>3, <3>4, <3>6, AccountTaken
    <3>9. BesideInv'
      BY <1>0, <3>1, <3>2 DEF BesideInv
    <3>10. QED
      BY <3>5, <3>7, <3>8, <3>9 DEF DeliveryInv
  <2>3. QED
    BY <1>2, <2>1, <2>2 DEF MidReceive
<1>3. CASE IsDisconnected
  <2> DEFINE m == Head(queue)
  <2>1. /\ Take /\ UNCHANGED <<client, mid, rcv, streamed, down>>
        /\ req' = [req EXCEPT !.is_disconnected = m.type = "http.disconnect"]
        /\ polled' = IF m.type = "http.disconnect" THEN polled ELSE Append(polled, m)
        /\ beside' = (beside \/ Began) /\ mid.op = "idle"
    BY <1>3 DEF IsDisconnected
  <2>2. /\ req'.stream_consumed = req.stream_consumed /\ req'.cached = req.cached
        /\ req'.body = req.body /\ req'.rcv_consumed = req.rcv_consumed
    BY <1>0, <2>1 DEF RequestRecord
  <2>3. m \in Message /\ polled \in Seq(Message)
    BY <1>0, <2>1, TakeFacts, ChunkTypes DEF TypeOK
  <2>4. Dropped \union Elements(m.body) \subseteq Dropped'
    <3>1. CASE m.type = "http.disconnect"
      <4>1. Elements(m.body) = {}
        BY <1>0, <2>1, <3>1, TakeOrder, ShortFacts
      <4>2. QED
        BY <2>1, <3>1, <4>1 DEF Dropped
    <3>2. CASE m.type # "http.disconnect"
      <4>1. /\ \A i \in DOMAIN polled : i \in DOMAIN polled' /\ polled'[i] = polled[i]
            /\ Len(polled) + 1 \in DOMAIN polled' /\ polled'[Len(polled) + 1] = m
        BY <2>1, <2>3, <3>2
      <4>2. m = polled'[Len(polled) + 1] /\ \A i \in DOMAIN polled : polled[i] = polled'[i]
        BY <4>1
      <4>3. Elements(m.body) \subseteq Dropped'
        BY <4>1, <4>2 DEF Dropped
      <4>4. Dropped \subseteq Dropped'
        BY <4>1, <4>2 DEF Dropped
      <4>5. QED
        BY <4>3, <4>4
    <3>3. QED
      BY <3>1, <3>2
  <2>5. Held' = Held
    BY <2>1, <2>2 DEF Held
  <2>6. OrderInv'
    BY <1>0, <2>1, <2>5, OrderTaken
  <2>7. AccountInv'
    BY <1>0, <2>1, <2>2, <2>4, <2>5, AccountTaken
  <2>8. KeptInv' /\ BesideInv'
    BY <1>0, <2>1, <2>2 DEF KeptInv, BesideInv
  <2>9. QED
    BY <2>6, <2>7, <2>8 DEF DeliveryInv
<1>4. QED
  BY <1>1, <1>2, <1>3 DEF Dispatch

\* Downstream is given more of the body.
LEMMA HandsOn ==
  ASSUME TypeOK, NEW body \in Seq(Chunk), NEW more \in BOOLEAN,
         down' = Returned(RequestMessage(body, more))
  PROVE  /\ down'.data = down.data \o body
         /\ Elements(down'.data) = Elements(down.data) \union Elements(body)
         /\ body = <<>> => down'.data = down.data
<1>1. down.data \in Seq(Chunk) /\ HistoryRecord
  BY ChunkTypes
<1>2. down'.data = down.data \o body
  BY <1>1 DEF Returned, RequestMessage, HistoryRecord
<1>3. body = <<>> => down.data \o body = down.data
  BY <1>1
<1>4. QED
  BY <1>1, <1>2, <1>3, Concat

\* Or a disconnect.
LEMMA HandsOnDisconnect ==
  ASSUME TypeOK, NEW m, m.type = "http.disconnect", down' = Returned(m)
  PROVE  down'.data = down.data
BY ChunkTypes DEF Returned, HistoryRecord

\* wrapped_receive() is called.
LEMMA WrappedReceiveDelivers ==
  ASSUME IInv, DeliveryInv, WrappedReceive
  PROVE  DeliveryInv'
<1>0. /\ TypeOK /\ OrderInv /\ KeptInv /\ BesideInv /\ AccountInv /\ RequestRecord
      /\ beside' = (beside \/ mid.op # "idle")
      /\ UNCHANGED <<client, queue, mid, streamed, polled>>
      /\ rcv = "idle"
      /\ req.body \in Seq(Chunk) /\ down.data \in Seq(Chunk)
      /\ <<>> \in Seq(Chunk)
  BY ChunkTypes, MessageTypes DEF IInv, DeliveryInv, WrappedReceive
<1>1. /\ req'.stream_consumed = req.stream_consumed
      /\ req'.cached = req.cached /\ req'.body = req.body
  BY <1>0 DEF WrappedReceive, ReceiveKnownDisconnect, AwaitDisconnect, ReceiveCachedBody,
              ReceiveEmptyBody, AwaitChunk, RequestRecord
<1>2. CASE ReceiveKnownDisconnect \/ AwaitDisconnect
  <2>1. down'.data = down.data /\ req'.rcv_consumed = req.rcv_consumed
    BY <1>0, <1>2, HandsOnDisconnect
       DEF ReceiveKnownDisconnect, AwaitDisconnect, RequestRecord, Disconnect
  <2>2. rcv' = rcv \/ (rcv' = "disconnect" /\ req.rcv_consumed)
    BY <1>2 DEF ReceiveKnownDisconnect, AwaitDisconnect
  <2>3. Held' = Held
    BY <1>0, <1>1, <2>1 DEF Held
  <2>4. KeptInv'
    BY <1>0, <1>1, <2>1 DEF KeptInv
  <2>5. BesideInv'
    BY <1>0, <1>1, <2>1, <2>2 DEF BesideInv
  <2>6. QED
    BY <1>0, <1>1, <2>3, <2>4, <2>5, NothingTaken DEF DeliveryInv
<1>3. CASE ReceiveCachedBody
  <2>1. /\ req.cached /\ ~req.rcv_consumed /\ req'.rcv_consumed
        /\ down' = Returned(RequestMessage(req.body, FALSE))
        /\ rcv' = rcv
    BY <1>0, <1>3 DEF ReceiveCachedBody, RequestRecord
  <2>2. /\ down'.data = down.data \o req.body
        /\ Elements(down'.data) = Elements(down.data) \union Elements(req.body)
    BY <1>0, <2>1, HandsOn
  <2>3. mid.chunks = <<>> /\ mid.op = "idle" /\ Elements(mid.chunks) = {}
    BY <1>0, <2>1, ShortFacts DEF KeptInv
  <2>4. IsInjective(down'.data)
    <3>1. /\ IsInjective(req.body) /\ IsInjective(down.data)
          /\ Elements(down.data) \intersect Elements(req.body) = {}
      BY <1>0, <2>1, IncreasingIsInjective DEF KeptInv
    <3>2. QED
      BY <1>0, <2>2, <3>1, Concat
  <2>5. KeptInv'
    BY <1>0, <1>1, <2>1, <2>2, <2>3, <2>4 DEF KeptInv
  <2>6. Held' = Held
    BY <1>0, <1>1, <2>2 DEF Held
  <2>7. ~beside' => down'.data = req.body
    <3>1. <<>> \o req.body = req.body
      BY <1>0
    <3>2. QED
      BY <1>0, <2>1, <2>2, <3>1 DEF BesideInv
  <2>8. BesideInv'
    BY <1>0, <1>1, <2>1, <2>3, <2>7 DEF BesideInv, KeptInv
  <2>9. QED
    BY <1>0, <1>1, <2>5, <2>6, <2>8, NothingTaken DEF DeliveryInv
<1>4. CASE ReceiveEmptyBody
  <2>1. /\ ~req.cached /\ req'.rcv_consumed /\ rcv' = rcv
        /\ down' = Returned(RequestMessage(<<>>, FALSE))
    BY <1>0, <1>4 DEF ReceiveEmptyBody, RequestRecord
  <2>2. down'.data = down.data
    BY <1>0, <2>1, HandsOn
  <2>3. Held' = Held
    BY <1>0, <1>1, <2>2 DEF Held
  <2>4. KeptInv'
    BY <1>0, <1>1, <2>1, <2>2 DEF KeptInv
  <2>5. BesideInv'
    BY <1>0, <1>1, <2>1, <2>2 DEF BesideInv
  <2>6. QED
    BY <1>0, <1>1, <2>3, <2>4, <2>5, NothingTaken DEF DeliveryInv
<1>5. CASE AwaitChunk
  <2>1. ~req.cached /\ rcv' = "stream" /\ UNCHANGED <<req, down>>
    BY <1>5 DEF AwaitChunk
  <2>2. Held' = Held
    BY <1>0, <2>1 DEF Held
  <2>3. KeptInv'
    BY <1>0, <2>1 DEF KeptInv
  <2>4. BesideInv'
    BY <1>0, <2>1 DEF BesideInv
  <2>5. QED
    BY <1>0, <1>1, <2>2, <2>3, <2>4, NothingTaken DEF DeliveryInv
<1>6. QED
  BY <1>2, <1>3, <1>4, <1>5 DEF WrappedReceive

\* A message arrives for it.
LEMMA WrappedChunkDelivers ==
  ASSUME IInv, DeliveryInv, WrappedChunk, Head(queue).type = "http.request"
  PROVE  DeliveryInv'
<1> DEFINE m == Head(queue)
           consumed == req.stream_consumed \/ ~m.more_body
<1>1. /\ TypeOK /\ OrderInv /\ KeptInv /\ BesideInv /\ AccountInv /\ RequestRecord
      /\ Take /\ rcv = "stream" /\ OnChunk(m)
      /\ UNCHANGED <<client, mid, streamed, polled, beside>>
      /\ down.data \in Seq(Chunk)
  BY ChunkTypes DEF IInv, DeliveryInv, WrappedChunk
<1>2. ~req.stream_consumed /\ ~req.cached /\ ~req.rcv_consumed /\ req.body = <<>>
  BY <1>1, NotConsumed
<1>3. /\ m \in Message /\ m.body \in Seq(Chunk) /\ m.more_body \in BOOLEAN
  BY <1>1, TakeFacts, ChunkTypes DEF Message
<1>4. Dropped' = Dropped
  BY <1>1 DEF Dropped
<1>5. CASE m.body = <<>> /\ UNCHANGED <<req, rcv, down>>
  <2>1. Held' = Held /\ Elements(m.body) = {}
    BY <1>1, <1>5, ShortFacts DEF Held
  <2>2. OrderInv'
    BY <1>1, <2>1, OrderTaken
  <2>3. AccountInv'
    BY <1>1, <1>4, <1>5, <2>1, AccountTaken
  <2>4. KeptInv' /\ BesideInv'
    BY <1>1, <1>5 DEF KeptInv, BesideInv
  <2>5. QED
    BY <2>2, <2>3, <2>4 DEF DeliveryInv
<1>6. CASE YieldChunk(m, consumed)
  <2>1. /\ req' = [req EXCEPT !.stream_consumed = consumed, !.rcv_consumed = consumed]
        /\ down' = Returned(RequestMessage(m.body, ~consumed))
        /\ rcv' = "idle"
    BY <1>6 DEF YieldChunk
  <2>2. /\ req'.stream_consumed = consumed /\ ~req'.cached /\ req'.body = <<>>
    BY <1>1, <1>2, <2>1 DEF RequestRecord
  <2>3. /\ down'.data = down.data \o m.body
        /\ Elements(down'.data) = Elements(down.data) \union Elements(m.body)
    BY <1>1, <1>3, <2>1, HandsOn
  <2>4. /\ Below(Elements(down.data), Elements(m.body))
        /\ Below(Elements(mid.chunks), Elements(m.body))
    BY <1>1, HeldBelow DEF Held, Below
  <2>5. /\ Elements(down.data) \subseteq Nat /\ Elements(m.body) \subseteq Nat
        /\ Elements(mid.chunks) \subseteq Nat
    BY <1>1, <1>3, ChunkTypes DEF Elements, Chunk
  <2>6. /\ Elements(down.data) \intersect Elements(m.body) = {}
        /\ Elements(mid.chunks) \intersect Elements(m.body) = {}
    BY <2>4, <2>5 DEF Below
  <2>7. /\ IsInjective(down'.data)
        /\ Increasing(down.data) => Increasing(down'.data)
    <3>1. Increasing(m.body) /\ IsInjective(m.body) /\ IsInjective(down.data)
      BY <1>1, <1>3, TakeOrder, IncreasingIsInjective DEF KeptInv
    <3>2. QED
      BY <1>1, <1>3, <2>3, <2>4, <2>6, <3>1, Concat
  <2>8. KeptInv'
    BY <1>1, <2>2, <2>3, <2>6, <2>7, ShortFacts DEF KeptInv
  <2>9. Held' = Held \union Elements(m.body)
    BY <1>1, <1>2, <2>2, <2>3 DEF Held
  <2>10. OrderInv'
    BY <1>1, <2>9, OrderTaken
  <2>11. req'.stream_consumed => IsLast(m)
    BY <1>2, <2>2 DEF IsLast
  <2>12. AccountInv'
    BY <1>1, <1>4, <2>9, <2>11, AccountTaken
  <2>13. BesideInv'
    BY <1>1, <2>2, <2>7 DEF BesideInv
  <2>14. QED
    BY <2>8, <2>10, <2>12, <2>13 DEF DeliveryInv
<1>7. QED
  BY <1>1, <1>5, <1>6 DEF OnChunk

\* The steps of downstream.
LEMMA DownstreamDelivers ==
  ASSUME IInv, DeliveryInv, Downstream
  PROVE  DeliveryInv'
<1>0. /\ TypeOK /\ OrderInv /\ KeptInv /\ BesideInv /\ AccountInv /\ RequestRecord
  BY ChunkTypes DEF IInv, DeliveryInv
<1>1. ASSUME Take, Head(queue).type = "http.disconnect",
             WrappedChunk \/ WrappedDisconnect
      PROVE  DeliveryInv'
  <2>1. /\ UNCHANGED <<client, mid, streamed, polled, beside>>
        /\ down' = Returned(Head(queue)) /\ rcv' = "idle"
        /\ \/ req' = [req EXCEPT !.is_disconnected = TRUE, !.rcv_disconnected = TRUE]
           \/ req' = [req EXCEPT !.rcv_disconnected = TRUE]
    BY <1>1 DEF WrappedChunk, WrappedDisconnect, OnClientDisconnect
  <2>2. /\ req'.stream_consumed = req.stream_consumed /\ req'.cached = req.cached
        /\ req'.body = req.body /\ req'.rcv_consumed = req.rcv_consumed
    BY <1>0, <2>1 DEF RequestRecord
  <2>3. down'.data = down.data
    BY <1>0, <1>1, <2>1, HandsOnDisconnect
  <2>4. Held' = Held /\ Dropped' = Dropped
    BY <2>1, <2>2, <2>3 DEF Held, Dropped
  <2>5. Elements(Head(queue).body) = {}
    BY <1>0, <1>1, TakeOrder, ShortFacts
  <2>6. OrderInv'
    BY <1>0, <1>1, <2>1, <2>4, OrderTaken
  <2>7. AccountInv'
    BY <1>0, <1>1, <2>1, <2>2, <2>4, <2>5, AccountTaken
  <2>8. KeptInv' /\ BesideInv'
    BY <1>0, <2>1, <2>2, <2>3 DEF KeptInv, BesideInv
  <2>9. QED
    BY <2>6, <2>7, <2>8 DEF DeliveryInv
<1>2. CASE WrappedCancelled
  <2>1. /\ rcv' = "closed"
        /\ UNCHANGED <<client, queue, req, mid, streamed, polled, beside, down>>
    BY <1>2 DEF WrappedCancelled
  <2>2. Held' = Held /\ KeptInv' /\ BesideInv'
    BY <1>0, <2>1 DEF Held, KeptInv, BesideInv
  <2>3. QED
    BY <1>0, <2>1, <2>2, NothingTaken DEF DeliveryInv
<1>3. CASE WrappedChunk
  <2>1. Take /\ Head(queue).type \in {"http.request", "http.disconnect"}
    BY <1>3 DEF WrappedChunk
  <2>2. QED
    BY <1>1, <1>3, <2>1, WrappedChunkDelivers
<1>4. CASE WrappedDisconnect
  BY <1>1, <1>4 DEF WrappedDisconnect
<1>5. QED
  BY <1>2, <1>3, <1>4, WrappedReceiveDelivers DEF Downstream

\* Initially nothing is anywhere.
LEMMA DeliveryInit == InitBody => DeliveryInv
<1> SUFFICES ASSUME InitBody
             PROVE  DeliveryInv
  OBVIOUS
<1>1. /\ queue = <<>> /\ down.data = <<>> /\ mid.chunks = <<>> /\ req.body = <<>> /\ polled = <<>>
      /\ ~req.cached /\ mid.op = "idle" /\ client.chunks = 0 /\ ~beside
  BY DEF InitBody, InitRequest
<1>2. Pending = {} /\ Held = {} /\ DOMAIN queue = {}
  BY <1>1, ShortFacts DEF Pending, Held
<1>3. OrderInv
  BY <1>2 DEF OrderInv, Below
<1>4. KeptInv
  BY <1>1, ShortFacts DEF KeptInv
<1>5. BesideInv
  BY <1>1, ShortFacts DEF BesideInv, InitBody
<1>6. AccountInv
  BY <1>1 DEF AccountInv
<1>7. QED
  BY <1>3, <1>4, <1>5, <1>6 DEF DeliveryInv

\* Every step keeps each chunk where it belongs.
LEMMA DeliveryStep == IInv /\ DeliveryInv /\ [NextBody]_reqVars => DeliveryInv'
<1> SUFFICES ASSUME IInv, DeliveryInv, [NextBody]_reqVars
             PROVE  DeliveryInv'
  OBVIOUS
<1>1. CASE UNCHANGED reqVars
  <2>1. UNCHANGED <<client, queue, req, mid, rcv, streamed, polled, beside, down>>
    BY <1>1 DEF reqVars
  <2>2. Held' = Held /\ KeptInv' /\ BesideInv'
    BY <2>1 DEF DeliveryInv, Held, KeptInv, BesideInv
  <2>3. QED
    BY <2>1, <2>2, NothingTaken DEF DeliveryInv
<1>2. QED
  BY <1>1, ClientDelivers, DispatchDelivers, DownstreamDelivers DEF NextBody

\* What it is for: the end of the body is told when each chunk has been given or taken out.
LEMMA DeliveryIsTrue == IInv /\ DeliveryInv => BodyDelivered
<1> SUFFICES ASSUME IInv, DeliveryInv
             PROVE  BodyDelivered
  OBVIOUS
<1>1. NothingTwice /\ DownstreamInOrder
  BY DEF DeliveryInv, KeptInv, BesideInv, NothingTwice, DownstreamInOrder
<1>2. down.finals > 0 => req.rcv_consumed /\ req.stream_consumed /\ OnlyDisconnects
  BY DEF IInv, DownInv, ConsumedInv
<1>3. CachedBodyDelivered
  BY <1>2 DEF DeliveryInv, KeptInv, CachedBodyDelivered
<1>4. OnlyDisconnects => Pending = {}
  <2>1. OnlyDisconnects => \A i \in DOMAIN queue : Elements(queue[i].body) = {}
    BY ShortFacts DEF DeliveryInv, OrderInv, OnlyDisconnects
  <2>2. QED
    BY <2>1, PendingIs
<1>5. req.rcv_consumed => Elements(req.body) \subseteq Elements(down.data)
  BY ShortFacts DEF DeliveryInv, KeptInv, IInv, TypeOK
<1>6. NothingLost
  BY <1>2, <1>4, <1>5 DEF DeliveryInv, AccountInv, Live, Held, Dropped, NothingLost
<1>7. QED
  BY <1>1, <1>3, <1>6 DEF BodyDelivered

\* However dispatch() and downstream interleave, no chunk reaches downstream twice, none is
\* lost behind the end, a cached body is complete, and without reads beside downstream the
\* chunks are in order.
THEOREM Delivers == BodySpec => []BodyDelivered
BY InvariantInit, InvariantStep, DeliveryInit, DeliveryStep, DeliveryIsTrue, PTL DEF BodySpec

-----------------------------------------------------------------------------
(* BaseHTTPMiddleware.                                                     *)


\* dispatch() has not returned yet.
Dispatching == main.pc \in {"dispatch", "first", "second", "response", "caught"}

\* The response of call_next() is being sent, and the end of any response.
Streaming == main.pc \in {"sendDebug", "sendStart", "sendChunk", "sendPath", "sendEnd"}
Ending == main.pc \in {"background", "joining", "returned"}

\* What the attributes of the main task say of each other, by where it is.
FlagsInv ==
  /\ Dispatching => main.reply = "none" /\ ~main.drain
  /\ Streaming => main.reply = "app"
  /\ main.reply # "none" => ~main.drain
  /\ main.pc = "pull" => main.reply = IF main.drain THEN "none" ELSE "app"
  /\ main.pc \in {"ownStart", "ownBody"} => main.reply # "app"
  /\ Ending \/ main.pc \in {"ownStart", "ownBody"} => main.reply # "none" \/ main.drain
  /\ Dispatching \/ main.reply = "own" \/ main.pc \in {"sendDebug", "sendStart"} =>
       main.data = <<>>

\* The exception of the application: kept when coro() is over, raised by call_next() at
\* most once, and then answered by dispatch() or passed on.
ExceptionInv ==
  /\ app_exc => app.pc = "done"
  /\ exception_already_raised = main.caught
  /\ main.caught =>
       /\ app_exc
       /\ \/ main.pc = "caught"
          \/ main.pc \in {"cancelling", "raised"}
          \/ main.reply = "own"
  /\ main.pc = "caught" => main.err = IF main.caught THEN "app" ELSE "other"
  /\ main.pc \in {"cancelling", "raised"} /\ main.err # "other" =>
       ~(main.caught /\ main.reply = "own")
  /\ main.pc = "returned" => app.pc \in {"none", "done"} /\ (app_exc => main.caught)

\* The first n messages of the wire are the start and chunks of the application.
ChunksTo(n) ==
  /\ Leading <= n
  /\ n <= Len(wire)
  /\ wire[Leading].type = "start"
  /\ \A i \in 1..n : /\ wire[i].data = IF i <= Leading THEN <<>> ELSE <<i - Leading>>
                     /\ i > Leading => wire[i].type = "body" /\ wire[i].more_body

\* What has been sent, by where the main task is.
WireInv ==
  /\ Dispatching \/ main.pc \in {"sendDebug", "ownStart"} => wire = <<>>
  /\ main.pc = "pull" /\ main.drain => wire = <<>>
  /\ main.pc = "sendStart" =>
       wire = <<>> \/ (Len(wire) = 1 /\ wire[1].type = "debug" /\ wire[1].data = <<>>)
  /\ main.pc = "ownBody" => Len(wire) = 1 /\ wire[1].type = "start" /\ wire[1].data = <<>>
  /\ main.pc \in {"pull", "sendChunk", "sendPath", "sendEnd"} /\ ~main.drain =>
       ChunksTo(Len(wire))
  /\ Ending /\ main.reply = "app" =>
       ChunksTo(Len(wire) - 1) /\ wire[Len(wire)].data = <<>>
  /\ Ending /\ main.drain => Len(wire) = 2 /\ wire[2].data = main.data

\* The number of chunks of the application that the main task has taken.
Taken ==
  IF main.drain THEN Len(main.data)
  ELSE IF main.pc \in {"pull", "sendPath", "sendEnd"} THEN Len(wire) - Leading
  ELSE IF main.pc = "sendChunk" THEN Len(wire) - Leading + 1
  ELSE IF Ending /\ main.reply = "app" THEN Len(wire) - 1 - Leading
  ELSE 0

\* What the main task holds of them.
HeldInv ==
  /\ main.drain => main.data = [k \in 1..Len(main.data) |-> k]
  /\ main.pc = "sendChunk" => main.data = <<Taken>>

\* The messages of the application: the phase one may be sent in, and the one it reaches.
May(phase, m) ==
  \/ m.type = "debug" /\ m.data = Empty /\ phase = "nothing"
  \/ m.type = "start" /\ m.data = Empty /\ phase \in {"nothing", "debugged"}
  \/ m.type = "pathsend" /\ m.data = Empty /\ phase = "started"
  \/ m.type = "body" /\ phase = "started"
After(m) ==
  IF m.type = "debug" THEN "debugged"
  ELSE IF m.type = "start" \/ (m.type = "body" /\ m.more_body) THEN "started"
  ELSE "finished"

\* The phase of the response as the main task has seen it, and with what box holds.
Stage == IF main.pc \in {"dispatch", "first"} THEN "nothing"
         ELSE IF main.pc = "second" THEN "debugged" ELSE "started"
Handed == box \notin {Nothing, Waiting, EndOfStream}
HandedStage == IF Handed THEN After(box) ELSE Stage

\* The main task goes on to read what the application sends.
Reads ==
  \/ main.pc \in {"dispatch", "first", "second", "response", "sendDebug", "sendStart", "pull"}
  \/ main.pc = "sendChunk" /\ ~main.last

\* One more if the message m is a chunk.
Count(m) == IF m.data = Empty THEN 0 ELSE 1

\* What the main task has taken, what it was handed and what the application is blocked
\* with are, in this order, all that the application has sent.
FlowInv ==
  Reads =>
    /\ Handed => /\ May(Stage, box)
                 /\ box.data # Empty => box.data = Taken + 1
    /\ IF app.pc = "sending"
       THEN /\ May(HandedStage, app.item)
            /\ app.phase = After(app.item)
            /\ app.item.data # Empty => app.item.data = app.n
       ELSE app.phase = HandedStage
    /\ app.n = Taken + (IF Handed THEN Count(box) ELSE 0)
                     + (IF app.pc = "sending" THEN Count(app.item) ELSE 0)

\* What holds of the two ends of the stream.
StreamInv ==
  /\ app.pc = "none" => app.phase = "nothing" /\ app.n = 0
  /\ main.pc = "dispatch" => app.pc = "none"
  /\ box # Nothing => main.pc \in {"first", "second", "pull"}
  /\ box = EndOfStream => app.pc = "done"
  /\ box = Waiting => app.pc \notin {"sending", "done"}
  /\ response_sent => main.pc \in {"joining", "returned", "raised"}

\* Once the main task has stopped reading it has all of the body.
Stopped ==
  \/ main.pc \in {"sendChunk", "sendPath", "sendEnd"} /\ ~Reads
  \/ Ending /\ UsesAppBody
  \/ main.pc \in {"ownStart", "ownBody"} /\ main.drain
TakenInv == Stopped => app.n = Taken /\ (app.phase = "finished" \/ app.pc = "done")

\* The inductive invariant.
ResponseInv ==
  /\ RespTypeOK /\ FlagsInv /\ ExceptionInv /\ StreamInv
  /\ WireInv /\ HeldInv /\ ChunksInOrder /\ FlowInv /\ TakenInv

-----------------------------------------------------------------------------
(* Lemmas about the types.                                                 *)

Mains ==
  [pc : MainPcs, info : BOOLEAN, background : BOOLEAN, last : BOOLEAN,
   drain : BOOLEAN, data : Seq(Chunk), reply : {"none", "app", "own"},
   err : {"none", "app", "other"}, caught : BOOLEAN]
Apps ==
  [pc : {"none", "ready", "sending", "receiving", "done"}, item : AppMessage,
   phase : {"nothing", "debugged", "started", "finished"}, n : Nat]
WireMessage ==
  [type : {"debug", "start", "body", "pathsend"}, data : Seq(Chunk), more_body : BOOLEAN]

LEMMA Records ==
  RespTypeOK <=>
    /\ main \in Mains /\ app \in Apps
    /\ box \in AppMessage \union {Nothing, Waiting, EndOfStream}
    /\ response_sent \in BOOLEAN /\ app_exc \in BOOLEAN
    /\ exception_already_raised \in BOOLEAN
    /\ wire \in Seq(WireMessage)
BY DEF RespTypeOK, Mains, Apps, WireMessage

LEMMA NextRecords ==
  ASSUME main' \in Mains, app' \in Apps,
         box' \in AppMessage \union {Nothing, Waiting, EndOfStream},
         response_sent' \in BOOLEAN, app_exc' \in BOOLEAN,
         exception_already_raised' \in BOOLEAN, wire' \in Seq(WireMessage)
  PROVE  RespTypeOK'
BY DEF RespTypeOK, Mains, Apps, WireMessage

\* The type of a message and of the signals.
LEMMA Messages ==
  /\ \A m \in AppMessage : /\ m \notin {Nothing, Waiting, EndOfStream}
                           /\ m.type \in {"debug", "start", "body", "pathsend"}
                           /\ m.data \in Nat /\ m.more_body \in BOOLEAN
  /\ Nothing # Waiting /\ Nothing # EndOfStream /\ Waiting # EndOfStream
  /\ Signal("debug") \in AppMessage /\ Signal("start") \in AppMessage
  /\ Signal("pathsend") \in AppMessage /\ NoItem \in AppMessage
  /\ \A d \in Nat, more \in BOOLEAN : Msg("body", d, more) \in AppMessage
BY DEF AppMessage, Nothing, Waiting, EndOfStream, NoItem, Signal, Msg, Empty

LEMMA MainData ==
  /\ <<>> \in Seq(Chunk)
  /\ \A c \in Chunk : <<c>> \in Seq(Chunk)
  /\ \A s \in Seq(Chunk), c \in Chunk : Append(s, c) \in Seq(Chunk)
OBVIOUS

\* What the main task does with a message, or the end, keeps the types.
LEMMA OnMessageType ==
  ASSUME RespTypeOK, NEW m \in AppMessage \union {EndOfStream}, OnMessage(m), Receiving
  PROVE  /\ main' \in Mains
         /\ exception_already_raised' \in BOOLEAN
         /\ UNCHANGED <<app_exc, response_sent, wire>>
<1>1. main \in Mains /\ exception_already_raised \in BOOLEAN /\ app_exc \in BOOLEAN
  BY Records
<1>2. CASE main.pc = "pull"
  <2>1. OnBody(m)
    BY <1>2 DEF OnMessage
  <2>2. \A k \in Mains :
          BodyOver(k) \in Mains
    BY DEF BodyOver, Mains, MainPcs
  <2>3. m # EndOfStream => m.data \in Nat /\ (m.data # Empty => m.data \in Chunk) /\ Last(m) \in BOOLEAN
    BY Messages DEF Empty, Chunk, Last
  <2>4. m # EndOfStream /\ m.data # Empty =>
          /\ [main EXCEPT !.data = Append(@, m.data)] \in Mains
          /\ [main EXCEPT !.pc = "sendChunk", !.data = <<m.data>>, !.last = Last(m)] \in Mains
    BY <1>1, <2>3, MainData DEF Mains, MainPcs
  <2>5. [main EXCEPT !.pc = "sendPath"] \in Mains
    BY <1>1 DEF Mains, MainPcs
  <2>6. QED
    BY <1>1, <2>1, <2>2, <2>3, <2>4, <2>5 DEF OnBody
<1>3. CASE main.pc # "pull"
  <2>1. OnFirst(m)
    BY <1>3 DEF OnMessage
  <2>2. Raised \in Mains
    BY <1>1 DEF Raised, Mains, MainPcs
  <2>3. /\ [main EXCEPT !.pc = "second", !.info = TRUE] \in Mains
        /\ [main EXCEPT !.pc = "response"] \in Mains
    BY <1>1 DEF Mains, MainPcs
  <2>4. QED
    BY <1>1, <2>1, <2>2, <2>3 DEF OnFirst, CallNextRaises
<1>4. QED
  BY <1>2, <1>3

\* The steps of the main task, one by one.
LEMMA MainType ==
  ASSUME RespTypeOK, UserDispatch \/ Main \/ MainSendFails
  PROVE  RespTypeOK'
<1>1. /\ main \in Mains /\ app \in Apps /\ app_exc \in BOOLEAN /\ response_sent \in BOOLEAN
      /\ exception_already_raised \in BOOLEAN /\ wire \in Seq(WireMessage)
      /\ box \in AppMessage \union {Nothing, Waiting, EndOfStream}
  BY Records
<1>2. CASE DispatchReads \/ OwnReads
  BY <1>1, <1>2, NextRecords DEF DispatchReads, OwnReads, respVars
<1>3. CASE CallNext
  <2>1. main' \in Mains /\ app' \in Apps
    BY <1>1, <1>3 DEF CallNext, Mains, Apps, MainPcs
  <2>2. QED
    BY <1>1, <1>3, <2>1, NextRecords DEF CallNext
<1>4. CASE Drain \/ DispatchRaises
  <2>1. main' \in Mains
    <3>1. /\ [main EXCEPT !.pc = "pull", !.drain = TRUE] \in Mains
          /\ \A err \in {"none", "app", "other"} :
               [main EXCEPT !.pc = "cancelling", !.err = err] \in Mains
      BY <1>1 DEF Mains, MainPcs
    <3>2. main.err \in {"none", "app", "other"}
      BY <1>1 DEF Mains
    <3>3. QED
      BY <1>4, <3>1, <3>2 DEF Drain, DispatchRaises, Fails
  <2>2. QED
    BY <1>1, <1>4, <2>1, NextRecords DEF Drain, DispatchRaises
<1>5. ASSUME NEW background \in BOOLEAN, ReturnResponse(background) \/ ReturnOwn(background)
      PROVE  RespTypeOK'
  <2>1. main' \in Mains
    <3>1. CASE ReturnResponse(background)
      BY <1>1, <3>1, <1>5 DEF ReturnResponse, Mains, MainPcs
    <3>2. CASE ReturnOwn(background)
      BY <1>1, <3>2, <1>5 DEF ReturnOwn, Mains, MainPcs
    <3>3. QED
      BY <1>5, <3>1, <3>2
  <2>2. QED
    BY <1>1, <1>5, <2>1, NextRecords DEF ReturnResponse, ReturnOwn
<1>6. CASE BackgroundRaises \/ BackgroundEnds \/ MainSendFails
  <2>1. main' \in Mains
    <3>1. /\ [main EXCEPT !.pc = "cancelling", !.err = "other"] \in Mains
          /\ [main EXCEPT !.background = FALSE] \in Mains
      BY <1>1 DEF Mains, MainPcs
    <3>2. QED
      BY <1>6, <3>1 DEF BackgroundRaises, BackgroundEnds, MainSendFails, Fails
  <2>2. QED
    BY <1>1, <1>6, <2>1, NextRecords DEF BackgroundRaises, BackgroundEnds, MainSendFails
<1>7. CASE MainReceive
  <2>1. CASE app.pc = "sending" /\ app' = [app EXCEPT !.pc = "ready"] /\ OnMessage(app.item)
             /\ UNCHANGED box
    <3>1. app.item \in AppMessage /\ app' \in Apps
      BY <1>1, <2>1 DEF Apps
    <3>2. main' \in Mains /\ exception_already_raised' \in BOOLEAN
          /\ UNCHANGED <<app_exc, response_sent, wire>>
      BY <1>7, <2>1, <3>1, OnMessageType DEF MainReceive
    <3>3. QED
      BY <1>1, <2>1, <3>1, <3>2, NextRecords
  <2>2. CASE OnMessage(EndOfStream) /\ UNCHANGED <<app, box>>
    <3>1. main' \in Mains /\ exception_already_raised' \in BOOLEAN
          /\ UNCHANGED <<app_exc, response_sent, wire>>
      BY <1>7, <2>2, OnMessageType DEF MainReceive
    <3>2. QED
      BY <1>1, <2>2, <3>1, NextRecords
  <2>3. CASE box' = Waiting
             /\ UNCHANGED <<main, app, response_sent, app_exc, exception_already_raised, wire>>
    BY <1>1, <2>3, NextRecords
  <2>4. QED
    BY <1>7, <2>1, <2>2, <2>3 DEF MainReceive
<1>8. CASE MainResume
  <2>1. box \in AppMessage \union {EndOfStream}
    BY <1>1, <1>8 DEF MainResume
  <2>2. main' \in Mains /\ exception_already_raised' \in BOOLEAN
        /\ UNCHANGED <<app_exc, response_sent, wire>>
    BY <1>8, <2>1, OnMessageType DEF MainResume
  <2>3. QED
    BY <1>1, <1>8, <2>2, NextRecords DEF MainResume
<1>9. CASE MainSend
  <2>1. main' \in Mains
    BY <1>1, <1>9 DEF MainSend, Sending, AfterSend, Mains, MainPcs
  <2>2. Outgoing \in WireMessage
    <3>1. main.data \in Seq(Chunk) /\ <<>> \in Seq(Chunk)
      BY <1>1 DEF Mains
    <3>2. QED
      BY <1>9, <3>1 DEF MainSend, Sending, Outgoing, WireMessage
  <2>3. wire' \in Seq(WireMessage)
    BY <1>1, <1>9, <2>2 DEF MainSend
  <2>4. QED
    BY <1>1, <1>9, <2>1, <2>3, NextRecords DEF MainSend
<1>10. CASE ResponseDone \/ Joined \/ Cancelled
  <2>1. /\ \A pc \in {"joining", "returned", "raised"} : [main EXCEPT !.pc = pc] \in Mains
        /\ [main EXCEPT !.pc = "raised", !.err = "app"] \in Mains
    BY <1>1 DEF Mains, MainPcs
  <2>2. QED
    <3>1. main' \in Mains
      BY <1>10, <2>1 DEF ResponseDone, Joined, Cancelled
    <3>2. QED
      BY <1>1, <1>10, <3>1, NextRecords DEF ResponseDone, Joined, Cancelled
<1>11. QED
  BY <1>2, <1>3, <1>4, <1>5, <1>6, <1>7, <1>8, <1>9, <1>10 DEF UserDispatch, Main

\* The messages the application may send, and what its record then is.
LEMMA AppSends ==
  ASSUME RespTypeOK, AppSend
  PROVE  \E m \in AppMessage :
           /\ May(app.phase, m)
           /\ m.data # Empty => m.data = app.n + 1
           /\ SendNoError(m, [app EXCEPT !.phase = After(m),
                                         !.n = IF m.data = Empty THEN app.n ELSE m.data])
<1>1. PICK next \in NextMessages :
        SendNoError(next[1], [app EXCEPT !.phase = next[2],
                                         !.n = IF next[1].data = Empty THEN app.n ELSE next[1].data])
  BY DEF AppSend
<1>2. app.n \in Nat /\ app.phase \in {"nothing", "debugged", "started", "finished"}
  BY Records DEF Apps
<1>3. /\ next[1] \in AppMessage
      /\ May(app.phase, next[1])
      /\ next[1].data # Empty => next[1].data = app.n + 1
      /\ next[2] = After(next[1])
  <2>1. CASE next \in {<<Signal("debug"), "debugged">>, <<Signal("start"), "started">>,
                       <<Signal("pathsend"), "finished">>}
    <3>1. CASE next = <<Signal("debug"), "debugged">>
      <4>1. app.phase = "nothing"
        BY <1>1, <1>2, <3>1 DEF NextMessages, Signal, Msg, Empty
      <4>2. QED
        BY <3>1, <4>1, Messages DEF May, After, Signal, Msg, Empty
    <3>2. CASE next = <<Signal("start"), "started">>
      <4>1. app.phase \in {"nothing", "debugged"}
        BY <1>1, <1>2, <3>2 DEF NextMessages, Signal, Msg, Empty
      <4>2. QED
        BY <3>2, <4>1, Messages DEF May, After, Signal, Msg, Empty
    <3>3. CASE next = <<Signal("pathsend"), "finished">>
      <4>1. app.phase = "started"
        BY <1>1, <1>2, <3>3 DEF NextMessages, Signal, Msg, Empty
      <4>2. QED
        BY <3>3, <4>1, Messages DEF May, After, Signal, Msg, Empty
    <3>4. QED
      BY <2>1, <3>1, <3>2, <3>3
  <2>2. CASE next \notin {<<Signal("debug"), "debugged">>, <<Signal("start"), "started">>,
                          <<Signal("pathsend"), "finished">>}
    <3>1. app.phase = "started" /\
          \E d \in {Empty} \union {c \in {app.n + 1} : c <= MaxBody}, more \in BOOLEAN :
            next = <<Msg("body", d, more), IF more THEN "started" ELSE "finished">>
      BY <1>1, <1>2, <2>2 DEF NextMessages
    <3>2. PICK d \in {Empty} \union {app.n + 1}, more \in BOOLEAN :
            next = <<Msg("body", d, more), IF more THEN "started" ELSE "finished">>
      BY <3>1
    <3>3. d \in Nat
      BY <1>2, <3>2 DEF Empty
    <3>4. Msg("body", d, more) \in AppMessage
      BY <3>3, Messages
    <3>5. QED
      BY <3>1, <3>2, <3>4 DEF May, After, Msg, Empty
  <2>3. QED
    BY <2>1, <2>2
<1>4. QED
  BY <1>1, <1>3

LEMMA AppType ==
  ASSUME RespTypeOK, App \/ AppMessageArrives \/ AppResumes
  PROVE  RespTypeOK'
<1>1. /\ main \in Mains /\ app \in Apps /\ app_exc \in BOOLEAN /\ response_sent \in BOOLEAN
      /\ exception_already_raised \in BOOLEAN /\ wire \in Seq(WireMessage)
      /\ box \in AppMessage \union {Nothing, Waiting, EndOfStream}
  BY Records
<1>2. CASE AppSend
  <2>1. PICK m \in AppMessage :
           /\ May(app.phase, m)
           /\ m.data # Empty => m.data = app.n + 1
           /\ SendNoError(m, [app EXCEPT !.phase = After(m),
                                         !.n = IF m.data = Empty THEN app.n ELSE m.data])
    BY <1>2, AppSends
  <2>2. [app EXCEPT !.phase = After(m), !.n = IF m.data = Empty THEN app.n ELSE m.data] \in Apps
    BY <1>1, <2>1, Messages DEF Apps, After
  <2>3. app' \in Apps /\ box' \in AppMessage \union {Nothing, Waiting, EndOfStream}
    BY <1>1, <2>1, <2>2 DEF SendNoError, Apps
  <2>4. QED
    BY <1>1, <1>2, <2>3, NextRecords DEF AppSend
<1>3. CASE AppReceive \/ AppSendBroken \/ AppReceived
  <2>1. app' \in Apps
    BY <1>1, <1>3 DEF AppReceive, AppSendBroken, AppReceived, Apps
  <2>2. QED
    BY <1>1, <1>3, <2>1, NextRecords DEF AppReceive, AppSendBroken, AppReceived
<1>4. ASSUME AppDone, UNCHANGED <<main, response_sent, exception_already_raised, wire>>,
             app_exc' \in BOOLEAN
      PROVE  RespTypeOK'
  <2>1. app' \in Apps /\ box' \in AppMessage \union {Nothing, Waiting, EndOfStream}
    BY <1>1, <1>4 DEF AppDone, Apps
  <2>2. QED
    BY <1>1, <1>4, <2>1, NextRecords
<1>5. CASE AppCancelled \/ \E raises \in BOOLEAN : AppEnds(raises)
  BY <1>1, <1>4, <1>5 DEF AppCancelled, AppEnds
<1>6. CASE AppMessageArrives
  BY <1>1, <1>6, NextRecords DEF AppMessageArrives, respVars
<1>7. QED
  BY <1>2, <1>3, <1>5, <1>6 DEF App, AppResumes

-----------------------------------------------------------------------------
(* The attributes of the main task.                                        *)

\* A message, or the end, as the main task takes it: OnMessage in the order of its cases.
LEMMA Takes ==
  ASSUME RespTypeOK, NEW m \in AppMessage \union {EndOfStream}, OnMessage(m), Receiving
  PROVE  \/ /\ main.pc # "pull" /\ m = EndOfStream
            /\ main' = Raised
            /\ exception_already_raised' = (exception_already_raised \/ app_exc)
         \/ /\ main.pc # "pull" /\ m # EndOfStream
            /\ main' = IF m.type = "debug" THEN [main EXCEPT !.pc = "second", !.info = TRUE]
                       ELSE [main EXCEPT !.pc = "response"]
            /\ exception_already_raised' = exception_already_raised
         \/ /\ main.pc = "pull"
            /\ exception_already_raised' = exception_already_raised
            /\ \/ /\ \/ m = EndOfStream
                     \/ m.type = "pathsend" /\ main.drain
                     \/ m.type # "pathsend" /\ m.data = Empty /\ ~m.more_body
                  /\ main' = BodyOver(main)
               \/ /\ m # EndOfStream /\ m.type = "pathsend" /\ ~main.drain
                  /\ main' = [main EXCEPT !.pc = "sendPath"]
               \/ /\ m # EndOfStream /\ m.type # "pathsend" /\ m.data = Empty /\ m.more_body
                  /\ main' = main
               \/ /\ m # EndOfStream /\ m.type # "pathsend" /\ m.data # Empty /\ main.drain
                  /\ main' = LET kept == [main EXCEPT !.data = Append(main.data, m.data)]
                             IN  IF m.more_body THEN kept ELSE BodyOver(kept)
               \/ /\ m # EndOfStream /\ m.type # "pathsend" /\ m.data # Empty /\ ~main.drain
                  /\ main' = [main EXCEPT !.pc = "sendChunk", !.data = <<m.data>>,
                                          !.last = ~m.more_body]
<1>1. main \in Mains
  BY Records
<1>2. CASE main.pc = "pull"
  BY <1>1, <1>2 DEF OnMessage, OnBody, Last
<1>3. CASE main.pc # "pull"
  BY <1>1, <1>3 DEF OnMessage, OnFirst, CallNextRaises
<1>4. QED
  BY <1>2, <1>3

\* A step of receive() takes a message of the blocked application, or what box holds, or
\* the end of the stream; or waits.
LEMMA Receives ==
  ASSUME RespTypeOK, MainReceive \/ MainResume
  PROVE  /\ UNCHANGED <<sideVars, app_exc, response_sent, wire>>
         /\ main.pc \in {"first", "second", "pull"}
         /\ \/ /\ box = Nothing /\ app.pc = "sending" /\ app' = [app EXCEPT !.pc = "ready"]
               /\ app.item \in AppMessage /\ OnMessage(app.item) /\ box' = box
            \/ /\ box = Nothing /\ app.pc = "done" /\ app' = app
               /\ OnMessage(EndOfStream) /\ box' = box
            \/ /\ box = Nothing /\ app.pc \notin {"sending", "done"} /\ box' = Waiting
               /\ UNCHANGED <<main, app, exception_already_raised>>
            \/ /\ box \in AppMessage \union {EndOfStream} /\ OnMessage(box) /\ box' = Nothing
               /\ app' = app
<1>1. /\ app.item \in AppMessage
      /\ box \in AppMessage \union {Nothing, Waiting, EndOfStream}
      /\ EndOfStream \in AppMessage \union {EndOfStream}
  BY Records DEF Apps
<1>2. CASE MainReceive
  <2>1. main.pc \in {"first", "second", "pull"} /\ box = Nothing /\ UNCHANGED sideVars
    BY <1>2 DEF MainReceive, Receiving
  <2>2. CASE app.pc = "sending" /\ app' = [app EXCEPT !.pc = "ready"] /\ OnMessage(app.item)
             /\ UNCHANGED box
    BY <1>1, <1>2, <2>1, <2>2, OnMessageType DEF MainReceive
  <2>3. CASE app.pc = "done" /\ OnMessage(EndOfStream) /\ UNCHANGED <<app, box>>
    BY <1>1, <1>2, <2>1, <2>3, OnMessageType DEF MainReceive
  <2>4. CASE /\ app.pc \notin {"sending", "done"} /\ box' = Waiting
             /\ UNCHANGED <<main, app, response_sent, app_exc, exception_already_raised, wire>>
    BY <2>1, <2>4
  <2>5. QED
    BY <1>2, <2>2, <2>3, <2>4 DEF MainReceive
<1>3. CASE MainResume
  <2>1. box \in AppMessage \union {EndOfStream} /\ Receiving
    BY <1>1, <1>3 DEF MainResume
  <2>2. OnMessage(box)
    BY <1>3 DEF MainResume
  <2>3. UNCHANGED <<app_exc, response_sent, wire>>
    BY <2>1, <2>2, OnMessageType
  <2>4. QED
    BY <1>3, <2>1, <2>2, <2>3 DEF MainResume, Receiving
<1>4. QED
  BY <1>2, <1>3

\* The attributes after a message of the body, or the end: body_stream() goes on, or is left.
LEMMA PullFields ==
  ASSUME RespTypeOK, NEW m \in AppMessage \union {EndOfStream}, OnMessage(m), main.pc = "pull"
  PROVE  /\ main'.pc \in IF main.drain THEN {"pull", "ownStart"}
                          ELSE {"pull", "sendChunk", "sendPath", "sendEnd"}
         /\ main'.drain = main.drain /\ main'.reply = main.reply
         /\ main'.err = main.err /\ main'.caught = main.caught
         /\ exception_already_raised' = exception_already_raised
<1>1. main \in Mains /\ Receiving
  BY Records DEF Receiving
<1>2. /\ exception_already_raised' = exception_already_raised
      /\ \/ main' = BodyOver(main)
         \/ ~main.drain /\ main' = [main EXCEPT !.pc = "sendPath"]
         \/ main' = main
         \/ main.drain /\ main' = LET kept == [main EXCEPT !.data = Append(main.data, m.data)]
                                IN  IF m.more_body THEN kept ELSE BodyOver(kept)
         \/ ~main.drain /\ main' = [main EXCEPT !.pc = "sendChunk", !.data = <<m.data>>,
                                               !.last = ~m.more_body]
  BY <1>1, Takes
<1>3. QED
  BY <1>1, <1>2 DEF BodyOver, Mains

\* What the main task holds after a message, or the end, of the application.
LEMMA TakesKeeps ==
  ASSUME RespTypeOK, FlagsInv, ExceptionInv, NEW m \in AppMessage \union {EndOfStream},
         main.pc \in {"first", "second", "pull"}, OnMessage(m),
         (app' = [app EXCEPT !.pc = "ready"] /\ app.pc = "sending") \/ app' = app
  PROVE  FlagsInv' /\ ExceptionInv'
<1>1. /\ main \in Mains /\ app \in Apps /\ app_exc \in BOOLEAN
      /\ exception_already_raised \in BOOLEAN /\ UNCHANGED app_exc
      /\ Receiving
  BY Records, OnMessageType DEF Receiving
<1>2. /\ app_exc' => app'.pc = "done"
      /\ main.caught = FALSE
      /\ exception_already_raised = FALSE
  BY <1>1 DEF ExceptionInv, FlagsInv, Dispatching, Mains, Apps
<1>3. CASE /\ main.pc # "pull" /\ m = EndOfStream
           /\ main' = Raised
           /\ exception_already_raised' = (exception_already_raised \/ app_exc)
  BY <1>1, <1>2, <1>3 DEF Raised, Mains, FlagsInv, ExceptionInv, Dispatching, Streaming, Ending
<1>4. CASE /\ main.pc # "pull" /\ m # EndOfStream
           /\ main' = IF m.type = "debug" THEN [main EXCEPT !.pc = "second", !.info = TRUE]
                      ELSE [main EXCEPT !.pc = "response"]
           /\ exception_already_raised' = exception_already_raised
  BY <1>1, <1>2, <1>4 DEF Mains, FlagsInv, ExceptionInv, Dispatching, Streaming, Ending
<1>5. CASE main.pc = "pull"
  <2>1. main'.pc \in IF main.drain THEN {"pull", "ownStart"}
                     ELSE {"pull", "sendChunk", "sendPath", "sendEnd"}
    BY <1>1, <1>5, PullFields
  <2>2. /\ main'.drain = main.drain /\ main'.reply = main.reply
        /\ main'.err = main.err /\ main'.caught = main.caught
        /\ exception_already_raised' = exception_already_raised
    BY <1>1, <1>5, PullFields
  <2>3. /\ main.reply = IF main.drain THEN "none" ELSE "app"
        /\ main.drain \in BOOLEAN
    BY <1>1, <1>5 DEF FlagsInv, Mains
  <2>4. FlagsInv'
    BY <2>1, <2>2, <2>3 DEF FlagsInv, Dispatching, Streaming, Ending
  <2>5. ExceptionInv'
    BY <1>2, <2>1, <2>2, <2>3 DEF ExceptionInv
  <2>6. QED
    BY <2>4, <2>5
<1>6. QED
  BY <1>1, <1>3, <1>4, <1>5, Takes

LEMMA AttributesStep ==
  ASSUME RespTypeOK, FlagsInv, ExceptionInv, StreamInv, [Next]_vars
  PROVE  FlagsInv' /\ ExceptionInv'
<1>1. /\ main \in Mains /\ app \in Apps /\ app_exc \in BOOLEAN
      /\ exception_already_raised \in BOOLEAN
  BY Records
<1>2. CASE UNCHANGED respVars
  BY <1>2 DEF respVars, FlagsInv, ExceptionInv, Dispatching, Streaming, Ending
<1>3. CASE CallNext
  BY <1>1, <1>3 DEF CallNext, InDispatch, Mains, Apps, FlagsInv, ExceptionInv, StreamInv, Dispatching,
                    Streaming, Ending
<1>4. CASE Drain
  BY <1>1, <1>4 DEF Drain, InDispatch, Mains, FlagsInv, ExceptionInv, Dispatching, Streaming, Ending
<1>5. CASE DispatchRaises
  BY <1>1, <1>5 DEF DispatchRaises, InDispatch, Fails, Mains, FlagsInv, ExceptionInv, Dispatching,
                    Streaming, Ending
<1>6. ASSUME NEW background \in BOOLEAN, ReturnResponse(background)
      PROVE  FlagsInv' /\ ExceptionInv'
  BY <1>1, <1>6 DEF ReturnResponse, InDispatch, Mains, FlagsInv, ExceptionInv, Dispatching,
                    Streaming, Ending
<1>7. ASSUME NEW background \in BOOLEAN, ReturnOwn(background)
      PROVE  FlagsInv' /\ ExceptionInv'
  <2>1. /\ main'.pc = "ownStart" /\ main'.reply = "own" /\ main'.err = "none"
        /\ main'.drain = main.drain /\ main'.caught = main.caught /\ main'.data = main.data
        /\ UNCHANGED <<app, app_exc, exception_already_raised>>
    BY <1>1, <1>7 DEF ReturnOwn, Mains
  <2>2. Dispatching
    BY <1>7 DEF ReturnOwn, InDispatch, Dispatching
  <2>3. FlagsInv'
    BY <2>1, <2>2 DEF FlagsInv, Dispatching, Streaming, Ending
  <2>4. ExceptionInv'
    BY <2>1 DEF ExceptionInv
  <2>5. QED
    BY <2>3, <2>4
<1>8. CASE BackgroundRaises \/ BackgroundEnds
  <2>1. /\ main'.drain = main.drain /\ main'.caught = main.caught /\ main'.data = main.data
        /\ main'.reply = main.reply /\ main.pc = "background"
        /\ \/ main'.pc = "cancelling" /\ main'.err = "other"
           \/ main'.pc = "background" /\ main'.err = main.err
        /\ UNCHANGED <<app, app_exc, exception_already_raised>>
    BY <1>1, <1>8 DEF BackgroundRaises, BackgroundEnds, Fails, Mains
  <2>2. FlagsInv'
    BY <2>1 DEF FlagsInv, Dispatching, Streaming, Ending
  <2>3. ExceptionInv'
    BY <2>1 DEF ExceptionInv
  <2>4. QED
    BY <2>2, <2>3
<1>9. CASE MainSendFails
  BY <1>1, <1>9 DEF MainSendFails, Fails, Sending, Mains, FlagsInv, ExceptionInv, Dispatching,
                    Streaming, Ending
<1>10. CASE MainReceive \/ MainResume
  <2>1. CASE UNCHANGED <<main, app, app_exc, exception_already_raised>>
    BY <2>1 DEF FlagsInv, ExceptionInv, Dispatching, Streaming, Ending
  <2>2. QED
    BY <1>10, <2>1, Receives, TakesKeeps
<1>11. CASE MainSend
  <2>1. /\ main'.drain = main.drain /\ main'.caught = main.caught /\ main'.data = main.data
        /\ main'.reply = main.reply /\ main'.err = main.err /\ main'.pc = AfterSend
        /\ UNCHANGED <<app, app_exc, exception_already_raised>>
    BY <1>1, <1>11 DEF MainSend, Mains
  <2>2. Sending
    BY <1>11 DEF MainSend
  <2>3. FlagsInv'
    BY <2>1, <2>2 DEF FlagsInv, Dispatching, Streaming, Ending, AfterSend, Sending
  <2>4. ExceptionInv'
    BY <2>1, <2>2 DEF ExceptionInv, AfterSend, Sending
  <2>5. QED
    BY <2>3, <2>4
<1>12. CASE ResponseDone \/ Joined \/ Cancelled
  <2>1. /\ main'.drain = main.drain /\ main'.caught = main.caught /\ main'.data = main.data
        /\ main'.reply = main.reply
        /\ UNCHANGED <<app, app_exc, exception_already_raised>>
        /\ \/ main.pc = "background" /\ main'.pc = "joining" /\ main'.err = main.err
           \/ main.pc = "joining" /\ main'.pc = "raised" /\ main'.err = "app" /\ ~main.caught
           \/ /\ main.pc = "joining" /\ main'.pc = "returned" /\ main'.err = main.err
              /\ app.pc \in {"none", "done"} /\ (app_exc => main.caught)
           \/ main.pc = "cancelling" /\ main'.pc = "raised" /\ main'.err = main.err
    <3>1. CASE ResponseDone \/ Cancelled
      BY <1>1, <3>1 DEF ResponseDone, Cancelled, Mains
    <3>2. CASE Joined
      <4>1. exception_already_raised = main.caught
        BY DEF ExceptionInv
      <4>2. CASE app_exc /\ ~exception_already_raised
        BY <1>1, <3>2, <4>1, <4>2 DEF Joined, Mains
      <4>3. CASE ~(app_exc /\ ~exception_already_raised)
        BY <1>1, <3>2, <4>1, <4>3 DEF Joined, Mains
      <4>4. QED
        BY <4>2, <4>3
    <3>3. QED
      BY <1>12, <3>1, <3>2
  <2>2. FlagsInv'
    BY <2>1 DEF FlagsInv, Dispatching, Streaming, Ending
  <2>3. ExceptionInv'
    BY <2>1 DEF ExceptionInv
  <2>4. QED
    BY <2>2, <2>3
<1>13. ASSUME UNCHANGED <<main, exception_already_raised>>, app_exc' => app'.pc = "done",
              app_exc => app_exc',
              app.pc \in {"none", "done"} => UNCHANGED <<app_exc, app>>,
              main.pc = "returned" => UNCHANGED <<app_exc, app>>
       PROVE  FlagsInv' /\ ExceptionInv'
  BY <1>1, <1>13 DEF Mains, FlagsInv, ExceptionInv, Dispatching, Streaming, Ending
<1>14. CASE App \/ AppResumes
  <2>1. app.pc \notin {"none", "done"} /\ ~app_exc /\ main.pc # "returned"
    BY <1>1, <1>14 DEF App, AppSend, AppReceive, AppEnds, Running, AppResumes, AppSendBroken,
                       AppReceived, AppCancelled, ExceptionInv
  <2>2. UNCHANGED <<main, exception_already_raised>>
    BY <1>14 DEF App, AppSend, AppReceive, AppEnds, AppResumes, AppSendBroken, AppReceived,
                 AppCancelled
  <2>3. app_exc' => app'.pc = "done"
    BY <1>1, <1>14, <2>1 DEF App, AppSend, AppReceive, AppEnds, AppDone, AppResumes,
                             AppSendBroken, AppReceived, AppCancelled, Apps
  <2>4. QED
    BY <1>13, <2>1, <2>2, <2>3
<1>15. CASE AppMessageArrives \/ DispatchReads \/ OwnReads \/ (Client /\ UNCHANGED <<respVars, given>>)
  BY <1>2, <1>15 DEF AppMessageArrives, DispatchReads, OwnReads
<1>16. QED
  BY <1>2, <1>3, <1>4, <1>5, <1>6, <1>7, <1>8, <1>9, <1>10, <1>11, <1>12, <1>14, <1>15
     DEF Next, vars, UserDispatch, Main

-----------------------------------------------------------------------------
(* The two ends of the stream.                                             *)

\* Steps of the main task outside of receive(), where nothing is in box.
Outside ==
  \/ CallNext \/ Drain \/ DispatchRaises
  \/ \E background \in BOOLEAN : ReturnResponse(background) \/ ReturnOwn(background)
  \/ BackgroundRaises \/ BackgroundEnds \/ MainSend \/ MainSendFails
  \/ ResponseDone \/ Joined \/ Cancelled

\* Where such a step goes.
LEMMA OutsideSteps ==
  ASSUME RespTypeOK, Outside
  PROVE  /\ main.pc \notin {"first", "second", "pull", "returned", "raised"}
         /\ main'.pc # "dispatch"
         /\ main'.pc \in {"first", "second"} => CallNext
         /\ box' = box /\ app_exc' = app_exc
         /\ UNCHANGED app \/ (CallNext /\ app' = [app EXCEPT !.pc = "ready"])
         /\ response_sent' = response_sent \/ main'.pc = "joining"
         /\ main.pc = "joining" => main'.pc \in {"returned", "raised"}
<1>1. main \in Mains
  BY Records
<1>2. CASE CallNext \/ Drain
  BY <1>1, <1>2 DEF CallNext, Drain, InDispatch, Mains
<1>3. CASE DispatchRaises \/ BackgroundRaises \/ BackgroundEnds \/ MainSendFails
  BY <1>1, <1>3 DEF DispatchRaises, BackgroundRaises, BackgroundEnds, MainSendFails, Fails,
                    InDispatch, Sending, Mains
<1>4. ASSUME NEW background \in BOOLEAN, ReturnResponse(background)
      PROVE  main'.pc \in {"sendDebug", "sendStart"} /\ main.pc = "response"
             /\ UNCHANGED <<app, box, app_exc, response_sent>>
  BY <1>1, <1>4 DEF ReturnResponse, InDispatch, Mains
<1>5. ASSUME NEW background \in BOOLEAN, ReturnOwn(background)
      PROVE  main'.pc = "ownStart" /\ main.pc \in {"dispatch", "response", "caught"}
             /\ UNCHANGED <<app, box, app_exc, response_sent>>
  BY <1>1, <1>5 DEF ReturnOwn, InDispatch, Mains
<1>6. CASE MainSend
  <2>1. main'.pc = AfterSend /\ Sending /\ UNCHANGED <<app, box, app_exc, response_sent>>
    BY <1>1, <1>6 DEF MainSend, Mains
  <2>2. QED
    BY <2>1 DEF AfterSend, Sending
<1>7. CASE ResponseDone \/ Joined \/ Cancelled
  BY <1>1, <1>7 DEF ResponseDone, Joined, Cancelled, Mains
<1>8. QED
  BY <1>2, <1>3, <1>4, <1>5, <1>6, <1>7 DEF Outside

\* A step of the application: it goes on, ends, or does not touch the stream.
LEMMA AppSteps ==
  ASSUME RespTypeOK, App \/ AppResumes
  PROVE  /\ UNCHANGED <<main, response_sent, exception_already_raised, wire>>
         /\ app.pc \in {"ready", "sending", "receiving"}
         /\ \/ AppSend /\ app.pc = "ready" /\ main.pc # "cancelling"
            \/ /\ \/ app.pc \in {"ready", "receiving"}
                  \/ app.pc = "sending" /\ response_sent
               /\ app' = [app EXCEPT !.pc = app'.pc] /\ app'.pc \in {"ready", "receiving"}
               /\ UNCHANGED <<box, app_exc>>
            \/ AppDone /\ (app.pc = "ready" \/ main.pc = "cancelling")
<1>1. app \in Apps
  BY Records
<1>2. CASE AppSend
  BY <1>2 DEF AppSend, Running
<1>3. CASE AppReceive \/ AppSendBroken \/ AppReceived
  BY <1>1, <1>3 DEF AppReceive, AppSendBroken, AppReceived, Running, Apps
<1>4. CASE AppCancelled \/ \E raises \in BOOLEAN : AppEnds(raises)
  BY <1>4 DEF AppCancelled, AppEnds, Running
<1>5. QED
  BY <1>2, <1>3, <1>4 DEF App, AppResumes

\* call_next() is not called again.
LEMMA TakesGoOn ==
  ASSUME RespTypeOK, NEW m \in AppMessage \union {EndOfStream},
         main.pc \in {"first", "second", "pull"}, OnMessage(m)
  PROVE  main'.pc \notin {"dispatch", "first"}
<1>1. Receiving /\ main \in Mains
  BY Records DEF Receiving
<1>2. CASE main.pc = "pull"
  BY <1>1, <1>2, PullFields DEF Mains
<1>3. CASE main.pc # "pull" /\ m = EndOfStream
  BY <1>1, <1>3, Takes DEF Raised, Mains
<1>4. CASE main.pc # "pull" /\ m # EndOfStream
  BY <1>1, <1>4, Takes DEF Mains
<1>5. QED
  BY <1>2, <1>3, <1>4

LEMMA StreamStep ==
  ASSUME RespTypeOK, FlagsInv, StreamInv, [Next]_vars
  PROVE  StreamInv'
<1>1. main \in Mains /\ app \in Apps
  BY Records
<1>2. CASE UNCHANGED respVars
  BY <1>2 DEF respVars, StreamInv
<1>3. CASE Outside
  <2>1. CASE UNCHANGED app
    BY <1>3, <2>1, OutsideSteps DEF StreamInv, CallNext, InDispatch
  <2>2. CASE CallNext /\ app' = [app EXCEPT !.pc = "ready"]
    BY <1>1, <1>3, <2>2, OutsideSteps DEF StreamInv, CallNext, Apps, Mains
  <2>3. QED
    BY <1>3, <2>1, <2>2, OutsideSteps
<1>4. CASE MainReceive \/ MainResume
  <2>1. /\ main.pc \in {"first", "second", "pull"} /\ UNCHANGED response_sent /\ ~response_sent
        /\ app'.phase = app.phase /\ app'.n = app.n
        /\ app'.pc = "none" => app.pc = "none"
        /\ \/ box' = Nothing
           \/ box' = Waiting /\ main'.pc = main.pc /\ app.pc \notin {"sending", "done"}
              /\ app'.pc = app.pc
    BY <1>1, <1>4, Receives DEF StreamInv, Apps
  <2>2. main'.pc # "dispatch"
    <3>1. CASE UNCHANGED main
      BY <2>1, <3>1
    <3>2. QED
      BY <1>4, <3>1, Receives, TakesGoOn
  <2>3. QED
    BY <2>1, <2>2, Messages DEF StreamInv
<1>5. CASE App \/ AppResumes
  <2>1. CASE AppSend
    <3>1. PICK m \in AppMessage :
            SendNoError(m, [app EXCEPT !.phase = After(m),
                                       !.n = IF m.data = Empty THEN app.n ELSE m.data])
      BY <2>1, AppSends
    <3>2. /\ app'.pc \in {"ready", "sending"} /\ app.pc = "ready"
          /\ \/ box' = m /\ box = Waiting
             \/ box' = box /\ (box = Waiting => response_sent)
      BY <1>1, <1>5, <2>1, <3>1 DEF AppSend, Running, SendNoError, Apps
    <3>3. QED
      BY <1>5, <3>2, AppSteps, Messages DEF StreamInv
  <2>2. CASE AppDone
    BY <1>1, <1>5, <2>2, AppSteps, Messages DEF StreamInv, AppDone, Apps
  <2>3. CASE app' = [app EXCEPT !.pc = app'.pc] /\ app'.pc \in {"ready", "receiving"} /\ UNCHANGED box
    BY <1>1, <1>5, <2>3, AppSteps DEF StreamInv, Apps
  <2>4. QED
    BY <1>5, <2>1, <2>2, <2>3, AppSteps
<1>6. CASE AppMessageArrives \/ DispatchReads \/ OwnReads \/ (Client /\ UNCHANGED <<respVars, given>>)
  BY <1>2, <1>6 DEF AppMessageArrives, DispatchReads, OwnReads
<1>7. QED
  BY <1>2, <1>3, <1>4, <1>5, <1>6 DEF Next, vars, UserDispatch, Main, Outside

-----------------------------------------------------------------------------
(* What is on the wire.                                                    *)

LEMMA Appended ==
  ASSUME wire \in Seq(WireMessage), NEW m \in WireMessage, wire' = Append(wire, m)
  PROVE  /\ wire' \in Seq(WireMessage) /\ wire' # <<>>
         /\ Len(wire) \in Nat /\ Len(wire') = Len(wire) + 1
         /\ wire'[Len(wire) + 1] = m
         /\ \A i \in 1..Len(wire) : wire'[i] = wire[i]
         /\ Leading' = IF wire = <<>> THEN IF m.type = "debug" THEN 2 ELSE 1 ELSE Leading
<1>1. /\ wire' \in Seq(WireMessage) /\ wire' # <<>>
      /\ Len(wire) \in Nat /\ Len(wire') = Len(wire) + 1
      /\ wire'[Len(wire) + 1] = m
      /\ \A i \in 1..Len(wire) : wire'[i] = wire[i]
  OBVIOUS
<1>2. wire = <<>> => Len(wire) = 0
  OBVIOUS
<1>3. wire # <<>> => Len(wire) > 0
  OBVIOUS
<1>4. QED
  BY <1>1, <1>2, <1>3 DEF Leading

\* After the start of the response: one more chunk in its place, or the end.
LEMMA OneMore ==
  ASSUME wire \in Seq(WireMessage), NEW m \in WireMessage, wire' = Append(wire, m),
         ChunksTo(Len(wire))
  PROVE  /\ Leading' = Leading /\ Leading \in {1, 2} /\ Len(wire) >= Leading
         /\ Len(wire') = Len(wire) + 1 /\ wire'[Len(wire')] = m
         /\ ChunksTo(Len(wire) - 1)'
         /\ (m.type = "body" /\ m.more_body /\ m.data = <<Len(wire) + 1 - Leading>>)
              => ChunksTo(Len(wire))'
<1>1. Leading \in {1, 2} /\ Len(wire) >= Leading /\ wire # <<>>
  BY DEF ChunksTo, Leading
<1>2. /\ Leading' = Leading /\ Len(wire) \in Nat /\ Len(wire') = Len(wire) + 1
      /\ wire'[Len(wire) + 1] = m
      /\ \A i \in 1..Len(wire) : wire'[i] = wire[i]
  BY <1>1, Appended
<1>3. Leading \in 1..Len(wire)
  BY <1>1, <1>2
<1>4. ChunksTo(Len(wire) - 1)'
  <2>1. \A i \in 1..Len(wire) :
          /\ wire'[i].data = IF i <= Leading THEN <<>> ELSE <<i - Leading>>
          /\ i > Leading => wire'[i].type = "body" /\ wire'[i].more_body
    BY <1>2 DEF ChunksTo
  <2>2. wire'[Leading].type = "start" /\ Len(wire') - 1 = Len(wire)
    BY <1>2, <1>3 DEF ChunksTo
  <2>3. QED
    BY <1>1, <1>2, <2>1, <2>2 DEF ChunksTo
<1>5. ASSUME m.type = "body", m.more_body, m.data = <<Len(wire) + 1 - Leading>>
      PROVE  ChunksTo(Len(wire))'
  <2>1. \A i \in 1..Len(wire') : i \in 1..Len(wire) \/ i = Len(wire) + 1
    BY <1>2
  <2>2. Len(wire) + 1 > Leading
    BY <1>1, <1>2
  <2>3. \A i \in 1..Len(wire') :
          /\ wire'[i].data = IF i <= Leading THEN <<>> ELSE <<i - Leading>>
          /\ i > Leading => wire'[i].type = "body" /\ wire'[i].more_body
    <3>1. SUFFICES ASSUME NEW i \in 1..Len(wire')
                   PROVE  /\ wire'[i].data = IF i <= Leading THEN <<>> ELSE <<i - Leading>>
                          /\ i > Leading => wire'[i].type = "body" /\ wire'[i].more_body
      OBVIOUS
    <3>2. CASE i \in 1..Len(wire)
      BY <1>2, <3>2 DEF ChunksTo
    <3>3. CASE i = Len(wire) + 1
      BY <1>1, <1>2, <1>5, <2>2, <3>3
    <3>4. QED
      BY <2>1, <3>2, <3>3
  <2>4. wire'[Leading].type = "start"
    BY <1>2, <1>3 DEF ChunksTo
  <2>5. QED
    BY <1>1, <1>2, <2>3, <2>4 DEF ChunksTo
<1>6. QED
  BY <1>1, <1>2, <1>4, <1>5

LEMMA TakenType == RespTypeOK => Taken \in Int /\ Leading \in {1, 2}
<1>1. RespTypeOK => main \in Mains /\ Len(wire) \in Nat
  BY Records
<1>2. Leading \in {1, 2}
  BY DEF Leading
<1>3. QED
  BY <1>1, <1>2 DEF Taken, Mains

\* What the main task is about to take: the message follows what it has seen, and a chunk
\* follows those that it has taken.
LEMMA Heads ==
  ASSUME RespTypeOK, StreamInv, FlowInv, main.pc \in {"first", "second", "pull"}
  PROVE  /\ (box = Nothing /\ app.pc = "sending") =>
              /\ May(Stage, app.item) /\ app.phase = After(app.item)
              /\ app.n = Taken + Count(app.item)
              /\ app.item.data # Empty => app.item.data = app.n
         /\ box \in AppMessage =>
              /\ May(Stage, box)
              /\ box.data # Empty => box.data = Taken + 1
<1>1. Reads /\ app \in Apps
  BY Records DEF Reads
<1>2. ~Handed <=> box \notin AppMessage
  BY Messages, Records DEF Handed
<1>3. Taken \in Int /\ app.n \in Nat
  BY <1>1, TakenType DEF Apps
<1>4. ASSUME box = Nothing, app.pc = "sending"
      PROVE  /\ May(Stage, app.item) /\ app.phase = After(app.item)
             /\ app.n = Taken + Count(app.item)
             /\ app.item.data # Empty => app.item.data = app.n
  <2>1. ~Handed /\ Count(app.item) \in Int
    BY <1>2, <1>4, Messages DEF Count
  <2>2. /\ May(HandedStage, app.item) /\ app.phase = After(app.item)
        /\ app.n = Taken + 0 + Count(app.item)
        /\ app.item.data # Empty => app.item.data = app.n
    BY <1>1, <1>4, <2>1 DEF FlowInv
  <2>3. QED
    BY <1>3, <2>1, <2>2 DEF HandedStage
<1>5. QED
  BY <1>1, <1>2, <1>4 DEF FlowInv

\* The message that a step of receive() takes, if any.
LEMMA TakesNext ==
  ASSUME RespTypeOK, StreamInv, FlowInv, MainReceive \/ MainResume
  PROVE  \/ UNCHANGED <<main, wire>>
         \/ \E m \in AppMessage \union {EndOfStream} :
              /\ main.pc \in {"first", "second", "pull"} /\ OnMessage(m)
              /\ wire' = wire
              /\ m # EndOfStream => /\ May(Stage, m)
                                    /\ m.data # Empty => m.data = Taken + 1
<1>1. CASE box = Nothing /\ app.pc = "sending" /\ OnMessage(app.item) /\ app.item \in AppMessage
  <2>1. May(Stage, app.item) /\ (app.item.data # Empty => app.item.data = Taken + 1)
    BY <1>1, Heads, Receives DEF Count
  <2>2. QED
    BY <1>1, <2>1, Receives
<1>2. CASE OnMessage(EndOfStream)
  BY <1>2, Receives
<1>3. CASE box \in AppMessage \union {EndOfStream} /\ OnMessage(box)
  BY <1>3, Receives, Heads
<1>4. CASE UNCHANGED <<main, wire>>
  BY <1>4
<1>5. QED
  BY <1>1, <1>2, <1>3, <1>4, Receives

\* A message, or the end, that the main task takes.
LEMMA TakenWire ==
  ASSUME RespTypeOK, FlagsInv, WireInv, HeldInv, ChunksInOrder,
         NEW m \in AppMessage \union {EndOfStream}, main.pc \in {"first", "second", "pull"},
         OnMessage(m), wire' = wire,
         m # EndOfStream => May(Stage, m) /\ (m.data # Empty => m.data = Taken + 1)
  PROVE  WireInv' /\ HeldInv' /\ ChunksInOrder'
<1>1. main \in Mains /\ Receiving /\ Leading' = Leading
  BY Records DEF Receiving, Leading
<1>2. CASE main.pc # "pull"
  <2>1. wire = <<>> /\ ~main.drain
    BY <1>2 DEF WireInv, FlagsInv, Dispatching
  <2>2. ~main'.drain /\ main'.pc \in {"caught", "second", "response"}
    <3>1. CASE m = EndOfStream
      BY <1>1, <1>2, <2>1, <3>1, Takes DEF Raised, Mains
    <3>2. CASE m # EndOfStream
      BY <1>1, <1>2, <2>1, <3>2, Takes DEF Mains
    <3>3. QED
      BY <3>1, <3>2
  <2>3. QED
    BY <2>1, <2>2 DEF WireInv, HeldInv, ChunksInOrder, Dispatching, Ending
<1>3. CASE main.pc = "pull" /\ main.drain
  <2>1. wire = <<>>
    BY <1>3 DEF WireInv
  <2>2. main'.drain /\ main'.pc \in {"pull", "ownStart"}
    BY <1>1, <1>3, PullFields
  <2>3. \/ main'.data = main.data
        \/ main'.data = Append(main.data, m.data) /\ m # EndOfStream /\ m.data # Empty
    BY <1>1, <1>3, Takes DEF BodyOver, Mains
  <2>4. main.data \in Seq(Chunk) /\ main.data = [k \in 1..Len(main.data) |-> k]
        /\ Taken = Len(main.data)
    BY <1>1, <1>3 DEF Mains, HeldInv, Taken
  <2>5. main'.data = [k \in 1..Len(main'.data) |-> k]
    <3>1. CASE main'.data = main.data
      BY <2>4, <3>1
    <3>2. CASE main'.data = Append(main.data, m.data) /\ m # EndOfStream /\ m.data # Empty
      <4>1. m.data = Len(main.data) + 1
        BY <2>4, <3>2
      <4> DEFINE s == main.data
      <4>2. s \in Seq(Nat) /\ s = [k \in 1..Len(s) |-> k]
        BY <2>4 DEF Chunk
      <4>3. main'.data = Append(s, Len(s) + 1)
        BY <3>2, <4>1
      <4> HIDE DEF s
      <4>4. Append(s, Len(s) + 1) = [k \in 1..Len(Append(s, Len(s) + 1)) |-> k]
        <5>1. Len(s) \in Nat /\ Len(Append(s, Len(s) + 1)) = Len(s) + 1
          BY <4>2
        <5>2. \A k \in 1..(Len(s) + 1) : Append(s, Len(s) + 1)[k] = k
          BY <4>2, <5>1
        <5>3. QED
          BY <4>2, <5>1, <5>2
      <4>5. QED
        BY <4>3, <4>4
    <3>3. QED
      BY <2>3, <3>1, <3>2
  <2>6. QED
    BY <2>1, <2>2, <2>5 DEF WireInv, HeldInv, ChunksInOrder, Dispatching, Ending
<1>4. CASE main.pc = "pull" /\ ~main.drain
  <2>1. ~main'.drain /\ main'.pc \in {"pull", "sendChunk", "sendPath", "sendEnd"}
    BY <1>1, <1>4, PullFields
  <2>2. ChunksTo(Len(wire)) /\ Taken = Len(wire) - Leading
    BY <1>4 DEF WireInv, Taken
  <2>3. main'.pc = "sendChunk" => main'.data = <<Len(wire) - Leading + 1>>
    <3>1. CASE main' = [main EXCEPT !.pc = "sendChunk", !.data = <<m.data>>, !.last = ~m.more_body]
               /\ m # EndOfStream /\ m.data # Empty
      BY <1>1, <2>2, <3>1 DEF Mains
    <3>2. CASE main' = BodyOver(main) \/ main' = [main EXCEPT !.pc = "sendPath"] \/ main' = main
      BY <1>1, <1>4, <3>2 DEF BodyOver, Mains
    <3>3. QED
      BY <1>1, <1>4, <3>1, <3>2, Takes
  <2>4. ChunksTo(Len(wire))'
    BY <1>1, <2>2 DEF ChunksTo
  <2>5. HeldInv' /\ ChunksInOrder'
    BY <1>1, <1>4, <2>1, <2>3 DEF HeldInv, Taken, ChunksInOrder
  <2>6. WireInv'
    BY <2>1, <2>4 DEF WireInv, Dispatching, Ending
  <2>7. QED
    BY <2>5, <2>6
<1>5. QED
  BY <1>1, <1>2, <1>3, <1>4 DEF Mains

\* A message that the response sends.
LEMMA SentWire ==
  ASSUME RespTypeOK, FlagsInv, WireInv, HeldInv, ChunksInOrder, MainSend
  PROVE  WireInv' /\ HeldInv' /\ ChunksInOrder'
<1>1. main \in Mains /\ wire \in Seq(WireMessage)
  BY Records
<1>2. /\ main'.pc = AfterSend /\ Sending /\ wire' = Append(wire, Outgoing)
      /\ main'.drain = main.drain /\ main'.data = main.data /\ main'.reply = main.reply
  BY <1>1 DEF MainSend, Mains
<1>3. Outgoing \in WireMessage
  <2>1. main.data \in Seq(Chunk) /\ <<>> \in Seq(Chunk)
    BY <1>1 DEF Mains
  <2>2. QED
    BY <1>2, <2>1 DEF Sending, Outgoing, WireMessage
<1>4. CASE main.pc = "sendDebug"
  <2>1. /\ wire = <<>> /\ ~main.drain /\ main'.pc = "sendStart"
        /\ Outgoing.type = "debug" /\ Outgoing.data = <<>>
    BY <1>2, <1>4 DEF WireInv, FlagsInv, Streaming, AfterSend, Outgoing
  <2>2. Len(wire') = 1 /\ wire'[1] = Outgoing /\ wire' # <<>>
    BY <1>1, <1>2, <1>3, <2>1, Appended
  <2>3. QED
    BY <1>2, <2>1, <2>2 DEF WireInv, HeldInv, ChunksInOrder, Dispatching, Ending
<1>5. CASE main.pc = "sendStart"
  <2>1. /\ ~main.drain /\ main'.pc = "pull"
        /\ Outgoing.type = "start" /\ Outgoing.data = <<>>
    BY <1>2, <1>5 DEF FlagsInv, Streaming, AfterSend, Outgoing
  <2>2. /\ Len(wire') = Leading' /\ Leading' \in {1, 2} /\ wire'[Leading'] = Outgoing
        /\ \A i \in 1..Len(wire') : wire'[i].data = <<>>
    <3>1. CASE wire = <<>>
      BY <1>1, <1>2, <1>3, <2>1, <3>1, Appended
    <3>2. CASE Len(wire) = 1 /\ wire[1].type = "debug" /\ wire[1].data = <<>>
      <4>1. wire # <<>>
        <5>1. Len(wire) = 1
          BY <3>2
        <5>2. wire = <<>> => Len(wire) = 0
          OBVIOUS
        <5>3. QED
          BY <5>1, <5>2
      <4>2. Leading = 2
        BY <3>2, <4>1 DEF Leading
      <4>3. Len(wire') = 2 /\ Leading' = 2 /\ wire'[2] = Outgoing /\ wire'[1] = wire[1]
        BY <1>1, <1>2, <1>3, <3>2, <4>1, <4>2, Appended
      <4>4. QED
        BY <2>1, <3>2, <4>3
    <3>3. QED
      BY <1>5, <3>1, <3>2 DEF WireInv
  <2>3. ChunksTo(Len(wire))'
    BY <2>1, <2>2 DEF ChunksTo
  <2>4. QED
    BY <1>2, <2>1, <2>2, <2>3 DEF WireInv, HeldInv, ChunksInOrder, Dispatching, Ending
<1>6. CASE main.pc = "ownStart"
  <2>1. /\ wire = <<>> /\ main'.pc = "ownBody"
        /\ Outgoing.type = "start" /\ Outgoing.data = <<>>
    BY <1>2, <1>6 DEF WireInv, AfterSend, Outgoing
  <2>2. Len(wire') = 1 /\ wire'[1] = Outgoing
    BY <1>1, <1>2, <1>3, <2>1, Appended
  <2>3. QED
    BY <1>2, <2>1, <2>2 DEF WireInv, HeldInv, ChunksInOrder, Dispatching, Ending
<1>7. CASE main.pc = "ownBody"
  <2>1. /\ Len(wire) = 1 /\ wire[1].type = "start" /\ wire[1].data = <<>>
        /\ main'.pc = "background" /\ Outgoing.data = main.data /\ main.reply # "app"
    BY <1>2, <1>7 DEF WireInv, AfterSend, Outgoing, FlagsInv
  <2>2. Len(wire') = 2 /\ wire'[1] = wire[1] /\ wire'[2] = Outgoing
    BY <1>1, <1>2, <1>3, <2>1, Appended
  <2>3. main.drain \/ main.data = <<>>
    BY <1>1, <1>7, <2>1 DEF FlagsInv, Mains
  <2>4. HeldInv'
    BY <1>2, <2>1 DEF HeldInv
  <2>5. ChunksInOrder'
    BY <1>1, <1>2, <2>1, <2>2, <2>3 DEF ChunksInOrder, HeldInv
  <2>6. WireInv'
    BY <1>2, <2>1, <2>2 DEF WireInv, Dispatching, Ending
  <2>7. QED
    BY <2>4, <2>5, <2>6
<1>8. CASE main.pc \in {"sendChunk", "sendPath", "sendEnd"}
  <2>1. /\ ~main.drain /\ main.reply = "app" /\ ChunksTo(Len(wire))
    BY <1>8 DEF FlagsInv, WireInv, Streaming
  <2>2. /\ Leading' = Leading /\ Leading \in {1, 2} /\ Len(wire) >= Leading
        /\ Len(wire') = Len(wire) + 1 /\ wire'[Len(wire')] = Outgoing /\ Len(wire) \in Nat
        /\ ChunksTo(Len(wire) - 1)'
        /\ (Outgoing.type = "body" /\ Outgoing.more_body
              /\ Outgoing.data = <<Len(wire) + 1 - Leading>>) => ChunksTo(Len(wire))'
    BY <1>1, <1>2, <1>3, <2>1, OneMore
  <2>3. CASE main.pc = "sendChunk"
    <3>1. main.data = <<Len(wire) + 1 - Leading>>
      BY <2>1, <2>2, <2>3 DEF HeldInv, Taken
    <3>2. Outgoing.type = "body" /\ Outgoing.more_body /\ Outgoing.data = main.data
      BY <2>3 DEF Outgoing
    <3>3. ChunksTo(Len(wire))' /\ main'.pc \in {"pull", "sendEnd"}
      BY <1>2, <2>2, <2>3, <3>1, <3>2 DEF AfterSend
    <3>4. ChunksInOrder'
      <4>1. \A i \in 1..Len(wire') : wire'[i].data = IF i <= Leading THEN <<>> ELSE <<i - Leading>>
        BY <2>2, <3>3 DEF ChunksTo
      <4>2. DOMAIN wire' = 1..Len(wire')
        BY <1>1, <1>2, <1>3, Appended
      <4>3. QED
        BY <1>2, <2>1, <2>2, <4>1, <4>2 DEF ChunksInOrder
    <3>5. QED
      BY <1>2, <2>1, <3>3, <3>4 DEF WireInv, HeldInv, Dispatching, Ending
  <2>4. CASE main.pc \in {"sendPath", "sendEnd"}
    <3>1. Outgoing.data = <<>> /\ main'.pc = "background"
      BY <1>2, <2>4 DEF Outgoing, AfterSend
    <3>2. \A i \in DOMAIN wire' : i \in 1..(Len(wire') - 1) \/ i = Len(wire')
      BY <1>1, <1>2, <1>3, <2>2, Appended
    <3>3. ChunksInOrder'
      BY <1>2, <2>1, <2>2, <3>1, <3>2 DEF ChunksInOrder, ChunksTo
    <3>4. QED
      BY <1>2, <2>1, <2>2, <3>1, <3>3 DEF WireInv, HeldInv, Dispatching, Ending
  <2>5. QED
    BY <1>8, <2>3, <2>4
<1>9. QED
  BY <1>2, <1>4, <1>5, <1>6, <1>7, <1>8 DEF Sending

LEMMA WireStep ==
  ASSUME RespTypeOK, FlagsInv, StreamInv, FlowInv, WireInv, HeldInv, ChunksInOrder, [Next]_vars
  PROVE  WireInv' /\ HeldInv' /\ ChunksInOrder'
<1>1. main \in Mains
  BY Records
<1> DEFINE Goal == WireInv' /\ HeldInv' /\ ChunksInOrder'
<1>2. CASE UNCHANGED <<main, wire>>
  BY <1>2 DEF WireInv, HeldInv, ChunksInOrder, Dispatching, Ending, ChunksTo, Leading, Taken
<1>3. ASSUME wire' = wire, main'.drain = main.drain, main'.data = main.data,
             main'.reply = main.reply, main'.pc \in {"cancelling", "raised"}
      PROVE  Goal
  BY <1>3 DEF WireInv, HeldInv, ChunksInOrder, Dispatching, Ending, Leading
<1>4. CASE DispatchRaises \/ BackgroundRaises \/ MainSendFails \/ Cancelled
  BY <1>1, <1>3, <1>4 DEF DispatchRaises, BackgroundRaises, MainSendFails, Cancelled, Fails, Mains
<1>5. ASSUME wire' = wire, main'.drain = main.drain, main'.data = main.data,
             Dispatching, main'.pc \in {"first", "sendDebug", "sendStart", "ownStart"}
      PROVE  Goal
  <2>1. wire' = <<>> /\ ~main'.drain
    BY <1>5 DEF WireInv, FlagsInv
  <2>2. QED
    BY <1>5, <2>1 DEF WireInv, HeldInv, ChunksInOrder, Dispatching, Ending
<1>6. CASE CallNext
  BY <1>1, <1>5, <1>6 DEF CallNext, InDispatch, Dispatching, Mains
<1>7. ASSUME NEW background \in BOOLEAN, ReturnResponse(background) PROVE Goal
  BY <1>1, <1>5, <1>7 DEF ReturnResponse, InDispatch, Dispatching, Mains
<1>8. ASSUME NEW background \in BOOLEAN, ReturnOwn(background) PROVE Goal
  BY <1>1, <1>5, <1>8 DEF ReturnOwn, InDispatch, Dispatching, Mains
<1>9. CASE Drain
  <2>1. /\ wire' = <<>> /\ main'.drain /\ main'.data = <<>> /\ main'.pc = "pull"
        /\ main'.reply = "none"
    BY <1>1, <1>9 DEF Drain, InDispatch, Mains, WireInv, FlagsInv, Dispatching
  <2>2. <<>> = [k \in 1..Len(<<>>) |-> k]
    OBVIOUS
  <2>3. QED
    BY <2>1, <2>2 DEF WireInv, HeldInv, ChunksInOrder, Dispatching, Ending
<1>10. CASE BackgroundEnds \/ ResponseDone \/ Joined
  <2>1. /\ wire' = wire /\ main'.drain = main.drain /\ main'.data = main.data
        /\ main'.reply = main.reply /\ Ending
        /\ main'.pc \in {"background", "joining", "returned", "raised"}
    BY <1>1, <1>10 DEF BackgroundEnds, ResponseDone, Joined, Mains, Ending
  <2>2. CASE main'.pc = "raised"
    BY <1>3, <2>1, <2>2
  <2>3. CASE main'.pc # "raised"
    <3>1. Leading' = Leading /\ (ChunksTo(Len(wire) - 1)' <=> ChunksTo(Len(wire) - 1))
      BY <2>1 DEF Leading, ChunksTo
    <3>2. WireInv'
      BY <2>1, <2>3, <3>1 DEF WireInv, Ending, Dispatching
    <3>3. HeldInv' /\ ChunksInOrder'
      BY <2>1, <2>3, <3>1 DEF HeldInv, ChunksInOrder
    <3>4. QED
      BY <3>2, <3>3
  <2>4. QED
    BY <2>2, <2>3
<1>11. CASE MainSend
  BY <1>11, SentWire
<1>12. CASE MainReceive \/ MainResume
  <2>1. CASE UNCHANGED <<main, wire>>
    BY <1>2, <2>1
  <2>2. CASE ~UNCHANGED <<main, wire>>
    <3>1. PICK m \in AppMessage \union {EndOfStream} :
              /\ main.pc \in {"first", "second", "pull"} /\ OnMessage(m)
              /\ wire' = wire
              /\ m # EndOfStream => /\ May(Stage, m)
                                    /\ m.data # Empty => m.data = Taken + 1
      BY <1>12, <2>2, TakesNext
    <3>2. QED
      BY <3>1, TakenWire
  <2>3. QED
    BY <2>1, <2>2
<1>13. CASE App \/ AppResumes
  BY <1>2, <1>13, AppSteps
<1>14. CASE AppMessageArrives \/ DispatchReads \/ OwnReads \/ (Client /\ UNCHANGED <<respVars, given>>) \/ UNCHANGED vars
  BY <1>2, <1>14 DEF AppMessageArrives, DispatchReads, OwnReads, respVars, vars
<1>15. QED
  BY <1>4, <1>6, <1>7, <1>8, <1>9, <1>10, <1>11, <1>12, <1>13, <1>14
     DEF Next, UserDispatch, Main

-----------------------------------------------------------------------------
(* The flow of the chunks from the application to the wire.                *)

\* The main task goes on after a message to what may follow it, one chunk further if the
\* message was one; it stops at the last message only.
LEMMA TakesMessage ==
  ASSUME RespTypeOK, FlagsInv, WireInv, HeldInv, NEW m \in AppMessage,
         main.pc \in {"first", "second", "pull"}, OnMessage(m), wire' = wire,
         May(Stage, m), m.data # Empty => m.data = Taken + 1
  PROVE  /\ Taken' = Taken + Count(m)
         /\ Reads' => Stage' = After(m)
         /\ ~Reads' => main.pc = "pull" /\ After(m) = "finished"
<1>1. /\ main \in Mains /\ Receiving /\ Leading' = Leading /\ Leading \in {1, 2}
      /\ Len(wire) \in Nat /\ m # EndOfStream /\ m.more_body \in BOOLEAN /\ m.data \in Nat
      /\ main.drain \in BOOLEAN
  BY Records, TakenType, Messages DEF Receiving, Leading, Mains
<1>2. CASE main.pc # "pull"
  <2>1. /\ m.type \in {"debug", "start"} /\ m.data = Empty /\ main.drain = FALSE
        /\ m.type = "debug" => main.pc = "first"
    BY <1>1, <1>2 DEF May, Stage, FlagsInv, Dispatching
  <2>2. /\ main'.pc = (IF m.type = "debug" THEN "second" ELSE "response")
        /\ main'.drain = FALSE
    BY <1>1, <1>2, <2>1, Takes DEF Mains
  <2>3. Taken = 0 /\ Taken' = 0
    BY <1>2, <2>1, <2>2 DEF Taken, Ending
  <2>4. QED
    BY <1>2, <2>1, <2>2, <2>3 DEF Count, Reads, Stage, After
<1>3. CASE main.pc = "pull"
  <2>1. /\ m.type \in {"body", "pathsend"} /\ (m.type = "pathsend" => m.data = Empty)
        /\ Taken = IF main.drain THEN Len(main.data) ELSE Len(wire) - Leading
        /\ main.data \in Seq(Chunk) /\ Len(main.data) \in Nat
    BY <1>1, <1>3 DEF May, Stage, Taken, Mains
  <2>2. CASE main' = BodyOver(main) /\ m.data = Empty
             /\ (m.type = "pathsend" \/ ~m.more_body)
    <3>1. /\ main'.drain = main.drain /\ main'.data = main.data
          /\ main'.pc = (IF main.drain THEN "ownStart" ELSE "sendEnd")
      BY <1>1, <2>2 DEF BodyOver, Mains
    <3>2. Taken' = Taken /\ Count(m) = 0
      BY <1>1, <2>1, <2>2, <3>1 DEF Taken, Count
    <3>3. QED
      BY <1>1, <1>3, <2>1, <2>2, <3>1, <3>2 DEF Reads, After
  <2>3. CASE m.type = "pathsend" /\ ~main.drain /\ main' = [main EXCEPT !.pc = "sendPath"]
    <3>1. main'.drain = main.drain /\ main'.pc = "sendPath"
      BY <1>1, <2>3 DEF Mains
    <3>2. Taken' = Taken /\ Count(m) = 0
      BY <1>1, <2>1, <2>3, <3>1 DEF Taken, Count
    <3>3. QED
      BY <1>1, <1>3, <2>1, <2>3, <3>1, <3>2 DEF Reads, After
  <2>4. CASE m.type # "pathsend" /\ m.data = Empty /\ m.more_body /\ main' = main
    <3>1. Taken' = Taken /\ Count(m) = 0
      BY <1>1, <2>1, <2>4 DEF Taken, Count, Ending
    <3>2. QED
      BY <1>1, <1>3, <2>1, <2>4, <3>1 DEF Reads, After, Stage
  <2>5. CASE m.type # "pathsend" /\ m.data # Empty /\ main.drain
    <3>1. main' = LET kept == [main EXCEPT !.data = Append(main.data, m.data)]
                  IN  IF m.more_body THEN kept ELSE BodyOver(kept)
      BY <1>1, <1>3, <2>5, Takes
    <3>2. /\ main'.drain = main.drain /\ main'.data = Append(main.data, m.data)
          /\ main'.pc = (IF m.more_body THEN "pull" ELSE "ownStart")
      BY <1>1, <1>3, <2>5, <3>1 DEF BodyOver, Mains
    <3>3. Len(main'.data) = Len(main.data) + 1
      BY <2>1, <3>2
    <3>4. Taken' = Taken + 1 /\ Count(m) = 1
      BY <1>1, <2>1, <2>5, <3>2, <3>3 DEF Taken, Count
    <3>5. QED
      BY <1>1, <1>3, <2>1, <2>5, <3>2, <3>4 DEF Reads, After, Stage
  <2>6. CASE m.type # "pathsend" /\ m.data # Empty /\ ~main.drain
    <3>1. main' = [main EXCEPT !.pc = "sendChunk", !.data = <<m.data>>, !.last = ~m.more_body]
      BY <1>1, <1>3, <2>6, Takes
    <3>2. main'.drain = main.drain /\ main'.pc = "sendChunk" /\ main'.last = ~m.more_body
      BY <1>1, <3>1 DEF Mains
    <3>3. Taken' = Taken + 1 /\ Count(m) = 1
      BY <1>1, <2>1, <2>6, <3>2 DEF Taken, Count
    <3>4. QED
      BY <1>1, <1>3, <2>1, <2>6, <3>2, <3>3 DEF Reads, After, Stage
  <2>7. QED
    BY <1>1, <1>3, <2>1, <2>2, <2>3, <2>4, <2>5, <2>6, Takes
<1>4. QED
  BY <1>2, <1>3

\* At the end of the stream the main task stops, with what it has.
LEMMA TakesEnd ==
  ASSUME RespTypeOK, FlagsInv, WireInv, main.pc \in {"first", "second", "pull"},
         OnMessage(EndOfStream), wire' = wire
  PROVE  ~Reads' /\ (main.pc = "pull" => Taken' = Taken)
         /\ (main.pc # "pull" => main'.pc = "caught")
<1>1. main \in Mains /\ Receiving /\ Leading' = Leading /\ main.drain \in BOOLEAN
  BY Records DEF Receiving, Leading, Mains
<1>2. CASE main.pc # "pull"
  <2>1. main'.pc = "caught"
    BY <1>1, <1>2, Takes DEF Raised, Mains
  <2>2. QED
    BY <1>2, <2>1 DEF Reads
<1>3. CASE main.pc = "pull"
  <2>1. main' = BodyOver(main)
    BY <1>1, <1>3, Takes
  <2>2. /\ main'.drain = main.drain /\ main'.data = main.data
        /\ main'.pc = (IF main.drain THEN "ownStart" ELSE "sendEnd")
    BY <1>1, <2>1 DEF BodyOver, Mains
  <2>3. QED
    BY <1>1, <1>3, <2>2 DEF Taken, Reads
<1>4. QED
  BY <1>2, <1>3

\* A step of the main task outside of receive() neither takes nor loses a chunk.
LEMMA OutsideTaken ==
  ASSUME RespTypeOK, FlagsInv, WireInv, Outside
  PROVE  /\ Reads' => /\ Reads /\ Stage' = Stage
                      /\ Taken' = Taken
         /\ Stopped' => Stopped /\ Taken' = Taken
<1>1. main \in Mains /\ wire \in Seq(WireMessage)
  BY Records
<1>2. CASE CallNext
  <2>1. main.pc = "dispatch" /\ main'.pc = "first" /\ main'.drain = main.drain /\ wire' = wire
        /\ main'.data = main.data
    BY <1>1, <1>2 DEF CallNext, InDispatch, Mains
  <2>2. QED
    BY <2>1 DEF Stopped, Reads, Stage, Taken, Ending
<1>3. CASE Drain
  <2>1. /\ main.pc = "response" /\ main'.pc = "pull" /\ main'.drain /\ ~main.drain
        /\ main'.data = <<>>
    BY <1>1, <1>3 DEF Drain, InDispatch, Mains, FlagsInv, Dispatching
  <2>2. Taken = 0 /\ Taken' = 0
    BY <2>1 DEF Taken, Ending
  <2>3. QED
    BY <2>1, <2>2 DEF Stopped, Reads, Stage, Ending
<1>4. CASE DispatchRaises \/ BackgroundRaises \/ MainSendFails \/ Cancelled
  <2>1. main'.pc \in {"cancelling", "raised"}
    BY <1>1, <1>4 DEF DispatchRaises, BackgroundRaises, MainSendFails, Cancelled, Fails, Mains
  <2>2. QED
    BY <2>1 DEF Stopped, Reads, Ending
<1>5. ASSUME NEW background \in BOOLEAN, ReturnResponse(background)
      PROVE  /\ main.pc = "response" /\ main'.pc \in {"sendDebug", "sendStart"}
             /\ main'.drain = main.drain /\ ~main.drain /\ Taken' = Taken
  <2>1. /\ main.pc = "response" /\ main'.pc \in {"sendDebug", "sendStart"}
        /\ main'.drain = main.drain /\ ~main.drain
    BY <1>1, <1>5 DEF ReturnResponse, InDispatch, Mains, FlagsInv, Dispatching
  <2>2. QED
    BY <2>1 DEF Taken, Ending
<1>6. ASSUME NEW background \in BOOLEAN, ReturnOwn(background)
      PROVE  main'.pc = "ownStart" /\ ~main'.drain
  BY <1>1, <1>6 DEF ReturnOwn, InDispatch, Mains, FlagsInv, Dispatching
<1>7. CASE BackgroundEnds \/ ResponseDone \/ Joined
  <2>1. /\ Ending /\ main'.drain = main.drain /\ main'.data = main.data /\ wire' = wire
        /\ main'.reply = main.reply
        /\ main'.pc \in {"background", "joining", "returned", "raised"}
    BY <1>1, <1>7 DEF BackgroundEnds, ResponseDone, Joined, Mains, Ending
  <2>2. Leading' = Leading
    BY <2>1 DEF Leading
  <2>3. QED
    BY <2>1, <2>2 DEF Stopped, Reads, Ending, Taken, UsesAppBody
<1>8. CASE MainSend
  <2>1. /\ main'.pc = AfterSend /\ Sending /\ wire' = Append(wire, Outgoing)
        /\ main'.drain = main.drain /\ main'.data = main.data /\ main'.reply = main.reply
        /\ main'.last = main.last
    BY <1>1, <1>8 DEF MainSend, Mains
  <2>2. Outgoing \in WireMessage
    <3>1. main.data \in Seq(Chunk) /\ <<>> \in Seq(Chunk)
      BY <1>1 DEF Mains
    <3>2. QED
      BY <2>1, <3>1 DEF Sending, Outgoing, WireMessage
  <2>3. CASE main.pc = "sendDebug"
    <3>1. main'.pc = "sendStart" /\ ~main.drain
      BY <2>1, <2>3 DEF AfterSend, FlagsInv, Streaming
    <3>2. QED
      BY <2>1, <2>3, <3>1 DEF Stopped, Reads, Stage, Taken, Ending
  <2>4. CASE main.pc = "sendStart"
    <3>1. main'.pc = "pull" /\ ~main.drain /\ Outgoing.type = "start"
      BY <2>1, <2>4 DEF AfterSend, FlagsInv, Streaming, Outgoing
    <3>2. Len(wire') - Leading' = 0
      <4>1. CASE wire = <<>>
        BY <1>1, <2>1, <2>2, <3>1, <4>1, Appended
      <4>2. CASE wire # <<>>
        <5>1. Len(wire) = 1 /\ Leading = 2
          BY <2>4, <4>2 DEF WireInv, Leading
        <5>2. QED
          BY <1>1, <2>1, <2>2, <4>2, <5>1, Appended
      <4>3. QED
        BY <4>1, <4>2
    <3>3. QED
      BY <2>1, <2>4, <3>1, <3>2 DEF Stopped, Reads, Stage, Taken, Ending
  <2>5. CASE main.pc \in {"ownStart", "ownBody"}
    <3>1. main'.pc = (IF main.pc = "ownStart" THEN "ownBody" ELSE "background")
          /\ main.reply # "app"
      BY <2>1, <2>5 DEF AfterSend, FlagsInv
    <3>2. QED
      BY <2>1, <2>5, <3>1 DEF Stopped, Reads, Taken, Ending, UsesAppBody
  <2>6. CASE main.pc \in {"sendChunk", "sendPath", "sendEnd"}
    <3>1. main.reply = "app" /\ ~main.drain /\ ChunksTo(Len(wire))
      BY <2>6 DEF FlagsInv, WireInv, Streaming
    <3>2. Leading' = Leading /\ Leading \in {1, 2} /\ Len(wire) \in Nat /\ Len(wire') = Len(wire) + 1
      BY <1>1, <2>1, <2>2, <3>1, OneMore
    <3>3. main'.pc = IF main.pc = "sendChunk" THEN IF main.last THEN "sendEnd" ELSE "pull"
                     ELSE "background"
      BY <2>1, <2>6 DEF AfterSend
    <3>4. Taken' = Taken
      BY <2>1, <2>6, <3>1, <3>2, <3>3 DEF Taken, Ending
    <3>5. QED
      BY <2>1, <2>6, <3>1, <3>3, <3>4 DEF Stopped, Reads, Stage, Ending, UsesAppBody
  <2>7. QED
    BY <2>1, <2>3, <2>4, <2>5, <2>6 DEF Sending
<1>9. QED
  BY <1>2, <1>3, <1>4, <1>5, <1>6, <1>7, <1>8 DEF Outside, Stopped, Reads, Stage, Ending

\* A message of the application goes to a waiting main task, or stays with the application.
LEMMA FlowSends ==
  ASSUME RespTypeOK, StreamInv, FlowInv, TakenInv, AppSend
  PROVE  FlowInv' /\ TakenInv'
<1>1. app \in Apps /\ UNCHANGED <<main, response_sent, wire>> /\ app.pc = "ready" /\ app.n \in Nat
  BY Records DEF AppSend, Running, Apps
<1>2. /\ (Reads' <=> Reads) /\ (Stopped' <=> Stopped) /\ Stage' = Stage /\ Taken' = Taken
      /\ Taken \in Int
  BY <1>1, TakenType DEF Reads, Stopped, Stage, Taken, Leading, Ending, UsesAppBody
<1>3. PICK m \in AppMessage :
        /\ May(app.phase, m)
        /\ m.data # Empty => m.data = app.n + 1
        /\ SendNoError(m, [app EXCEPT !.phase = After(m),
                                      !.n = IF m.data = Empty THEN app.n ELSE m.data])
  BY AppSends
<1>4. app.phase # "finished"
  BY <1>3 DEF May
<1>5. ~Stopped
  BY <1>1, <1>4 DEF TakenInv
<1>6. /\ app'.phase = After(m)
      /\ app'.n = app.n + Count(m)
      /\ Count(m) \in Nat
      /\ m.data # Empty => m.data = app'.n
  <2> DEFINE n == IF m.data = Empty THEN app.n ELSE m.data
  <2>1. app'.phase = After(m) /\ app'.n = n
    BY <1>1, <1>3 DEF SendNoError, Apps
  <2>2. n = app.n + Count(m) /\ Count(m) \in Nat /\ (m.data # Empty => m.data = n)
    BY <1>1, <1>3 DEF Count
  <2>3. QED
    BY <2>1, <2>2
<1>7. CASE ~Reads
  BY <1>2, <1>5, <1>7 DEF FlowInv, TakenInv
<1>8. CASE Reads
  <2>1. ~response_sent
    BY <1>8 DEF StreamInv, Reads
  <2>2. /\ app.phase = HandedStage
        /\ app.n = Taken + (IF Handed THEN Count(box) ELSE 0) + 0
    BY <1>1, <1>8 DEF FlowInv
  <2>3. CASE box = Waiting
    <3>1. ~Handed
      BY <2>3 DEF Handed
    <3>2. box' = m /\ app'.pc = "ready"
      BY <1>1, <1>3, <2>1, <2>3 DEF SendNoError, Apps
    <3>3. Handed' /\ HandedStage' = After(m)
      BY <3>2, Messages DEF Handed, HandedStage
    <3>4. May(Stage, m) /\ app.n = Taken
      BY <1>2, <1>3, <2>2, <3>1 DEF HandedStage
    <3>5. app'.n = Taken' + (IF Handed' THEN Count(m) ELSE 0) + (IF app'.pc = "sending" THEN Count(app'.item) ELSE 0)
      BY <1>2, <1>6, <3>2, <3>3, <3>4
    <3>6. m.data # Empty => m.data = Taken' + 1
      BY <1>2, <1>3, <3>4
    <3>7. FlowInv'
      BY <1>2, <1>6, <3>2, <3>3, <3>4, <3>5, <3>6 DEF FlowInv, Count
    <3>8. QED
      BY <1>2, <1>5, <3>7 DEF TakenInv
  <2>4. CASE box # Waiting
    <3>1. box' = box /\ app'.pc = "sending" /\ app'.item = m
      BY <1>1, <1>3, <2>1, <2>4 DEF SendNoError, Apps
    <3>2. (Handed' <=> Handed) /\ HandedStage' = HandedStage
      BY <1>2, <3>1 DEF Handed, HandedStage
    <3>3. app'.n = Taken' + (IF Handed' THEN Count(box') ELSE 0) + Count(app'.item)
      <4>1. app.n = Taken + (IF Handed THEN Count(box) ELSE 0)
        BY <1>1, <1>2, <2>2 DEF Count
      <4>2. QED
        BY <1>2, <1>6, <3>1, <3>2, <4>1
    <3>4. /\ May(HandedStage', app'.item) /\ app'.phase = After(app'.item)
          /\ app'.item.data # Empty => app'.item.data = app'.n
      BY <1>3, <1>6, <2>2, <3>1, <3>2
    <3>5. Handed' => May(Stage', box') /\ (box'.data # Empty => box'.data = Taken' + 1)
      BY <1>2, <1>8, <3>1, <3>2 DEF FlowInv
    <3>6. FlowInv'
      BY <3>1, <3>3, <3>4, <3>5 DEF FlowInv
    <3>7. QED
      BY <1>2, <1>5, <3>6 DEF TakenInv
  <2>5. QED
    BY <2>3, <2>4
<1>9. QED
  BY <1>7, <1>8

\* A message that the main task takes, from box or from the blocked application.
LEMMA FlowTakes ==
  ASSUME RespTypeOK, FlagsInv, StreamInv, FlowInv, WireInv, HeldInv, TakenInv,
         MainReceive \/ MainResume
  PROVE  FlowInv' /\ TakenInv'
<1>1. /\ app \in Apps /\ main \in Mains /\ app.n \in Nat /\ Taken \in Int
      /\ main.pc \in {"first", "second", "pull"} /\ wire' = wire /\ Reads
      /\ box \in AppMessage \union {Nothing, Waiting, EndOfStream}
  BY Records, Receives, TakenType DEF Apps, Reads
<1>2. ~(Handed /\ box \notin AppMessage) /\ (box \in AppMessage => Handed)
  BY <1>1, Messages DEF Handed
<1>3. CASE box = Nothing /\ app.pc = "sending" /\ app' = [app EXCEPT !.pc = "ready"]
           /\ app.item \in AppMessage /\ OnMessage(app.item) /\ box' = box
  <2>1. /\ May(Stage, app.item) /\ app.phase = After(app.item)
        /\ app.n = Taken + Count(app.item)
        /\ app.item.data # Empty => app.item.data = app.n
    BY <1>1, <1>3, Heads
  <2>2. app.item.data # Empty => app.item.data = Taken + 1
    BY <1>1, <2>1 DEF Count
  <2>3. /\ Taken' = Taken + Count(app.item)
        /\ Reads' => Stage' = After(app.item)
        /\ ~Reads' => main.pc = "pull" /\ After(app.item) = "finished"
    BY <1>1, <1>3, <2>1, <2>2, TakesMessage
  <2>4. app'.pc = "ready" /\ app'.phase = app.phase /\ app'.n = app.n /\ ~Handed'
    BY <1>1, <1>3 DEF Apps, Handed
  <2>5. app'.n = Taken' /\ Taken' \in Int
    BY <1>1, <2>1, <2>3, <2>4
  <2>6. FlowInv'
    BY <2>1, <2>3, <2>4, <2>5 DEF FlowInv, HandedStage
  <2>7. Stopped' => ~Reads'
    BY DEF Stopped, Reads, Ending
  <2>8. TakenInv'
    BY <2>1, <2>3, <2>4, <2>5, <2>7 DEF TakenInv
  <2>9. QED
    BY <2>6, <2>8
<1>4. CASE box \in AppMessage /\ OnMessage(box) /\ box' = Nothing /\ app' = app
  <2>1. May(Stage, box) /\ (box.data # Empty => box.data = Taken + 1) /\ Handed
    BY <1>1, <1>2, <1>4, Heads
  <2>2. /\ Taken' = Taken + Count(box)
        /\ Reads' => Stage' = After(box)
        /\ ~Reads' => main.pc = "pull" /\ After(box) = "finished"
    BY <1>1, <1>4, <2>1, TakesMessage
  <2>3. HandedStage = After(box) /\ ~Handed' /\ HandedStage' = Stage' /\ Count(box) \in Nat
    BY <1>4, <2>1 DEF HandedStage, Handed, Count
  <2>4. /\ app.n = Taken + Count(box) + (IF app.pc = "sending" THEN Count(app.item) ELSE 0)
        /\ IF app.pc = "sending"
           THEN /\ May(After(box), app.item)
                /\ app.phase = After(app.item)
                /\ app.item.data # Empty => app.item.data = app.n
           ELSE app.phase = After(box)
    BY <1>1, <2>1, <2>3 DEF FlowInv
  <2>5. FlowInv'
    <3>1. SUFFICES ASSUME Reads' PROVE FlowInv'
      BY DEF FlowInv
    <3>2. HandedStage' = After(box)
      BY <2>2, <2>3, <3>1
    <3>3. app.n = Taken' + 0 + (IF app.pc = "sending" THEN Count(app.item) ELSE 0)
      <4>1. Taken' = Taken + Count(box) /\ Taken' \in Int
        BY <1>1, <2>2, <2>3
      <4>2. Taken' + 0 = Taken'
        BY <4>1
      <4>3. QED
        BY <2>4, <4>1, <4>2
    <3>4. QED
      BY <1>4, <2>3, <2>4, <3>2, <3>3 DEF FlowInv
  <2>6. TakenInv'
    <3>1. SUFFICES ASSUME Stopped' PROVE app.n = Taken' /\ app.phase = "finished"
      BY <1>4 DEF TakenInv
    <3>2. ~Reads'
      BY <3>1 DEF Stopped, Reads, Ending
    <3>3. After(box) = "finished"
      BY <2>2, <3>2
    <3>4. app.pc # "sending"
      BY <2>4, <3>3 DEF May
    <3>5. QED
      BY <1>1, <2>2, <2>3, <2>4, <3>3, <3>4
  <2>7. QED
    BY <2>5, <2>6
<1>5. CASE OnMessage(EndOfStream) /\ app' = app /\ app.pc = "done" /\ ~Handed
  <2>1. ~Reads' /\ (main.pc = "pull" => Taken' = Taken) /\ (main.pc # "pull" => main'.pc = "caught")
    BY <1>1, <1>5, TakesEnd
  <2>2. app.n = Taken
    BY <1>1, <1>5 DEF FlowInv
  <2>3. Stopped' => main.pc = "pull"
    BY <2>1 DEF Stopped, Ending
  <2>4. QED
    BY <1>5, <2>1, <2>2, <2>3 DEF FlowInv, TakenInv
<1>6. CASE box = Nothing /\ box' = Waiting /\ UNCHANGED <<main, app, wire>>
  <2>1. /\ (Reads' <=> Reads) /\ (Stopped' <=> Stopped) /\ Stage' = Stage /\ Taken' = Taken
    BY <1>6 DEF Reads, Stopped, Stage, Taken, Leading, Ending, UsesAppBody
  <2>2. ~Handed /\ ~Handed' /\ HandedStage = Stage /\ HandedStage' = Stage'
    BY <1>6 DEF Handed, HandedStage
  <2>3. FlowInv'
    BY <1>6, <2>1, <2>2 DEF FlowInv
  <2>4. QED
    BY <1>6, <2>1, <2>3 DEF TakenInv
<1>7. box = EndOfStream => app.pc = "done"
  BY DEF StreamInv
<1>8. QED
  BY <1>1, <1>2, <1>3, <1>4, <1>5, <1>6, <1>7, Receives, Messages DEF Handed

\* The other steps of the application touch no message.
LEMMA FlowRest ==
  ASSUME RespTypeOK, FlagsInv, StreamInv, FlowInv, TakenInv, App \/ AppResumes, ~AppSend
  PROVE  FlowInv' /\ TakenInv'
<1>1. app \in Apps /\ UNCHANGED <<main, wire, response_sent>>
  BY Records, AppSteps
<1>2. /\ (Reads' <=> Reads) /\ (Stopped' <=> Stopped) /\ Stage' = Stage /\ Taken' = Taken
  BY <1>1 DEF Reads, Stopped, Stage, Taken, Leading, Ending, UsesAppBody
<1>3. ASSUME app'.phase = app.phase, app'.n = app.n, app.pc = "done" => app'.pc = "done",
             ~Reads \/ (/\ app.pc # "sending" /\ app'.pc # "sending"
                        /\ Handed' <=> Handed
                        /\ Handed => box' = box)
      PROVE  FlowInv' /\ TakenInv'
  <2>1. TakenInv'
    BY <1>2, <1>3 DEF TakenInv
  <2>2. FlowInv'
    <3>1. SUFFICES ASSUME Reads PROVE FlowInv'
      BY <1>2 DEF FlowInv
    <3>2. HandedStage' = HandedStage
      BY <1>2, <1>3, <3>1 DEF HandedStage
    <3>3. QED
      BY <1>2, <1>3, <3>1, <3>2 DEF FlowInv
  <2>3. QED
    BY <2>1, <2>2
<1>4. app.pc # "done"
  BY AppSteps
<1>5. CASE app' = [app EXCEPT !.pc = app'.pc] /\ app'.pc \in {"ready", "receiving"} /\ UNCHANGED box
           /\ (app.pc = "sending" => response_sent)
  <2>1. app'.phase = app.phase /\ app'.n = app.n /\ (Handed' <=> Handed)
    BY <1>1, <1>5 DEF Apps, Handed
  <2>2. app.pc = "sending" => ~Reads
    BY <1>5 DEF StreamInv, Reads
  <2>3. QED
    BY <1>3, <1>4, <1>5, <2>1, <2>2
<1>6. CASE AppDone /\ (app.pc = "ready" \/ main.pc = "cancelling")
  <2>1. app'.phase = app.phase /\ app'.n = app.n /\ app'.pc = "done"
    BY <1>1, <1>6 DEF AppDone, Apps
  <2>2. (Handed' <=> Handed) /\ (Handed => box' = box)
    BY <1>6 DEF AppDone, Handed
  <2>3. main.pc = "cancelling" => ~Reads
    BY DEF Reads
  <2>4. QED
    BY <1>3, <1>6, <2>1, <2>2, <2>3
<1>7. QED
  BY <1>5, <1>6, AppSteps

LEMMA FlowStep ==
  ASSUME RespTypeOK, FlagsInv, StreamInv, FlowInv, WireInv, HeldInv, TakenInv, [Next]_vars
  PROVE  FlowInv' /\ TakenInv'
<1>1. CASE UNCHANGED <<main, app, box, wire>>
  <2>1. /\ (Reads' <=> Reads) /\ (Stopped' <=> Stopped) /\ Stage' = Stage /\ Taken' = Taken
        /\ (Handed' <=> Handed) /\ HandedStage' = HandedStage
    BY <1>1 DEF Reads, Stopped, Stage, Taken, Leading, Ending, UsesAppBody, Handed, HandedStage
  <2>2. QED
    BY <1>1, <2>1 DEF FlowInv, TakenInv
<1>2. CASE Outside
  <2>1. ~Handed /\ ~Handed' /\ app \in Apps
    BY <1>2, OutsideSteps, Records DEF StreamInv, Handed
  <2>2. /\ app'.phase = app.phase /\ app'.n = app.n
        /\ app'.pc = app.pc \/ (app.pc = "none" /\ app'.pc = "ready")
        /\ app.pc = "sending" => app' = app
    <3>1. CASE UNCHANGED app
      BY <3>1
    <3>2. CASE CallNext /\ app' = [app EXCEPT !.pc = "ready"]
      BY <2>1, <3>2 DEF Apps, StreamInv, CallNext, InDispatch
    <3>3. QED
      BY <1>2, <3>1, <3>2, OutsideSteps
  <2>3. /\ Reads' => Reads /\ Stage' = Stage /\ Taken' = Taken
        /\ Stopped' => Stopped /\ Taken' = Taken
    BY <1>2, OutsideTaken
  <2>4. FlowInv'
    BY <2>1, <2>2, <2>3 DEF FlowInv, HandedStage
  <2>5. TakenInv'
    BY <2>2, <2>3 DEF TakenInv
  <2>6. QED
    BY <2>4, <2>5
<1>3. CASE MainReceive \/ MainResume
  BY <1>3, FlowTakes
<1>4. CASE App \/ AppResumes
  BY <1>4, FlowSends, FlowRest
<1>5. CASE AppMessageArrives \/ DispatchReads \/ OwnReads \/ (Client /\ UNCHANGED <<respVars, given>>) \/ UNCHANGED vars
  BY <1>1, <1>5 DEF AppMessageArrives, DispatchReads, OwnReads, respVars, vars
<1>6. QED
  BY <1>2, <1>3, <1>4, <1>5 DEF Next, UserDispatch, Main, Outside

-----------------------------------------------------------------------------
(* The theorems.                                                           *)

LEMMA ResponseInit == Init => ResponseInv
<1> SUFFICES ASSUME Init PROVE ResponseInv
  OBVIOUS
<1>1. /\ main = [pc |-> "dispatch", info |-> FALSE, background |-> FALSE, last |-> FALSE,
                 drain |-> FALSE, data |-> <<>>, reply |-> "none", err |-> "none", caught |-> FALSE]
      /\ app = [pc |-> "none", item |-> NoItem, phase |-> "nothing", n |-> 0]
      /\ box = Nothing /\ response_sent = FALSE /\ app_exc = FALSE
      /\ exception_already_raised = FALSE /\ wire = <<>>
  BY DEF Init, InitResp, Start
<1>2. RespTypeOK
  <2>1. main \in Mains /\ app \in Apps /\ wire \in Seq(WireMessage)
    BY <1>1, Messages, MainData DEF Mains, Apps, MainPcs
  <2>2. QED
    BY <1>1, <2>1, Records
<1>3. FlagsInv /\ ExceptionInv /\ StreamInv
  BY <1>1, Messages DEF FlagsInv, ExceptionInv, StreamInv, Dispatching, Streaming, Ending
<1>4. WireInv /\ HeldInv /\ ChunksInOrder
  BY <1>1 DEF WireInv, HeldInv, ChunksInOrder, Dispatching, Ending
<1>5. FlowInv /\ TakenInv
  <2>1. Taken = 0 /\ ~Handed /\ Stage = "nothing" /\ ~Stopped
    BY <1>1 DEF Taken, Handed, Stage, Stopped, Ending
  <2>2. QED
    BY <1>1, <2>1 DEF FlowInv, TakenInv, HandedStage
<1>6. QED
  BY <1>2, <1>3, <1>4, <1>5 DEF ResponseInv

LEMMA ResponseStep == ResponseInv /\ [Next]_vars => ResponseInv'
<1> SUFFICES ASSUME ResponseInv, [Next]_vars PROVE ResponseInv'
  OBVIOUS
<1> USE DEF ResponseInv
<1>1. CASE UNCHANGED respVars
  <2>1. RespTypeOK'
    BY <1>1 DEF respVars, RespTypeOK
  <2>2. QED
    BY <2>1, AttributesStep, StreamStep, WireStep, FlowStep
<1>2. CASE ~UNCHANGED respVars
  <2>1. RespTypeOK'
    BY <1>2, MainType, AppType DEF Next, vars
  <2>2. QED
    BY <2>1, AttributesStep, StreamStep, WireStep, FlowStep
<1>3. QED
  BY <1>1, <1>2

\* Where the main task is and what its attributes, the stream and the wire hold agree, for
\* any number of chunks and any interleaving of __call__ with coro().
THEOREM MiddlewareInvariant == Spec => []ResponseInv
BY ResponseInit, ResponseStep, PTL DEF Spec

\* The server is sent one response, in protocol order: also when dispatch() drops the
\* response of call_next(), when the application fails half way or a send() does.
THEOREM MiddlewareInOrder == Spec => WireInOrder
<1>1. Init => Protocol!Init
  BY DEF Init, InitResp, Start, Protocol!Init
<1>2. ResponseInv /\ [Next]_vars => [Protocol!Next]_wire
  <2> SUFFICES ASSUME ResponseInv, [Next]_vars, wire' # wire PROVE Protocol!Next
    OBVIOUS
  <2> USE DEF ResponseInv
  <2>1. main \in Mains /\ wire \in Seq(WireMessage)
    BY Records
  <2>2. MainSend
    <3>1. CASE Outside
      BY <3>1 DEF Outside, CallNext, Drain, DispatchRaises, ReturnResponse, ReturnOwn,
        BackgroundRaises, BackgroundEnds, MainSendFails, ResponseDone, Joined, Cancelled
    <3>2. CASE MainReceive \/ MainResume
      BY <3>2, Receives
    <3>3. CASE App \/ AppResumes
      BY <3>3, AppSteps
    <3>4. QED
      BY <3>1, <3>2, <3>3 DEF Next, vars, respVars, UserDispatch, Main, Outside, DispatchReads,
                              OwnReads, AppMessageArrives
  <2>3. Sending /\ wire' = Append(wire, Outgoing)
    BY <2>2 DEF MainSend
  <2>4. Outgoing \in WireMessage
    <3>1. main.data \in Seq(Chunk) /\ <<>> \in Seq(Chunk)
      BY <2>1 DEF Mains
    <3>2. QED
      BY <2>3, <3>1 DEF Sending, Outgoing, WireMessage
  <2>5. Len(wire') = Len(wire) + 1 /\ wire'[Len(wire) + 1] = Outgoing /\ Len(wire) \in Nat
    BY <2>1, <2>3, <2>4, Appended
  <2>6. CASE main.pc = "sendDebug"
    BY <2>3, <2>5, <2>6 DEF WireInv, Outgoing, Protocol!Next, Protocol!SendDebug, Protocol!Sends
  <2>7. CASE main.pc \in {"sendStart", "ownStart"}
    <3>1. wire = <<>> \/ Protocol!LastIs({"debug"})
      BY <2>7 DEF WireInv, Protocol!LastIs
    <3>2. QED
      BY <2>3, <2>5, <2>7, <3>1 DEF Outgoing, Protocol!Next, Protocol!SendStart, Protocol!Sends
  <2>8. CASE main.pc \in {"ownBody", "sendChunk", "sendPath", "sendEnd"}
    <3>1. Protocol!Open
      <4>1. CASE main.pc = "ownBody"
        <5>1. Len(wire) = 1 /\ wire[1].type = "start"
          BY <4>1 DEF WireInv
        <5>2. wire = <<>> => Len(wire) = 0
          OBVIOUS
        <5>3. wire # <<>>
          BY <5>1, <5>2
        <5>4. QED
          BY <5>1, <5>3 DEF Protocol!Open, Protocol!LastIs
      <4>2. CASE main.pc # "ownBody"
        <5>1. ChunksTo(Len(wire)) /\ wire # <<>> /\ Leading \in {1, 2}
          BY <2>8, <4>2, TakenType DEF WireInv, FlagsInv, Streaming, ChunksTo
        <5>2. CASE Leading = Len(wire)
          BY <5>1, <5>2 DEF ChunksTo, Protocol!Open, Protocol!LastIs
        <5>3. CASE Leading # Len(wire)
          <6>1. Len(wire) \in 1..Len(wire) /\ Len(wire) > Leading
            BY <2>5, <5>1, <5>3 DEF ChunksTo
          <6>2. QED
            BY <5>1, <6>1 DEF ChunksTo, Protocol!Open, Protocol!LastIs
        <5>4. QED
          BY <5>2, <5>3
      <4>3. QED
        BY <4>1, <4>2
    <3>2. Outgoing.type \in {"body", "pathsend"}
      BY <2>8 DEF Outgoing
    <3>3. QED
      BY <2>3, <2>5, <3>1, <3>2 DEF Protocol!Next, Protocol!SendBody, Protocol!Sends
  <2>9. QED
    BY <2>3, <2>6, <2>7, <2>8 DEF Sending
<1>3. QED
  BY <1>1, <1>2, MiddlewareInvariant, PTL DEF Spec, WireInOrder, Protocol!Spec

\* What the server gets of the body is what the application sent, in order; if __call__
\* returns it is all of it, and an exception of the application leaves __call__, unless
\* dispatch() has answered it.
THEOREM MiddlewareComplete == Spec => []BodyComplete
<1>1. ASSUME ResponseInv PROVE NoSilentTruncation
  <2> USE <1>1 DEF ResponseInv
  <2>1. SUFFICES ASSUME main.pc = "returned", UsesAppBody
                 PROVE  ~app_exc /\ (app.n > 0 => EndsWith(app.n))
    BY DEF NoSilentTruncation
  <2>2. ~app_exc
    BY <2>1 DEF ExceptionInv, FlagsInv, UsesAppBody
  <2>3. app.n = Taken /\ Ending /\ wire \in Seq(WireMessage) /\ Len(wire) \in Nat
    BY <2>1, Records DEF TakenInv, Stopped, Ending
  <2>4. ASSUME app.n > 0 PROVE EndsWith(app.n)
    <3>1. CASE main.drain
      <4>1. Len(wire) = 2 /\ wire[2].data = main.data /\ app.n = Len(main.data)
        BY <2>1, <2>3, <3>1 DEF WireInv, Taken
      <4>2. main.data = [k \in 1..Len(main.data) |-> k] /\ Len(main.data) \in Nat
        BY <3>1, Records DEF HeldInv, Mains
      <4>3. main.data[Len(main.data)] = Len(main.data) /\ main.data # <<>>
        BY <2>4, <4>1, <4>2
      <4>4. 2 \in DOMAIN wire
        BY <2>3, <4>1
      <4>5. QED
        BY <4>1, <4>3, <4>4 DEF EndsWith
    <3>2. CASE ~main.drain
      <4>1. main.reply = "app" /\ ChunksTo(Len(wire) - 1) /\ Leading \in {1, 2}
        BY <2>1, <2>3, <3>2, TakenType DEF UsesAppBody, WireInv
      <4>2. app.n = Len(wire) - 1 - Leading
        BY <2>1, <2>3, <3>2, <4>1 DEF Taken, Ending
      <4> DEFINE i == Len(wire) - 1
      <4>3. i \in 1..i /\ i > Leading /\ i \in DOMAIN wire /\ i - Leading = app.n
        <5>1. i - Leading = app.n /\ i > Leading /\ i \in Int
          BY <2>3, <2>4, <4>1, <4>2
        <5>2. i \in 1..i /\ i \in 1..Len(wire)
          BY <2>3, <4>1, <5>1
        <5>3. DOMAIN wire = 1..Len(wire)
          BY <2>3
        <5>4. QED
          BY <4>1, <5>1, <5>2, <5>3
      <4>4. wire[i].data = <<app.n>>
        <5>1. wire[i].data = IF i <= Leading THEN <<>> ELSE <<i - Leading>>
          BY <4>1, <4>3 DEF ChunksTo
        <5>2. ~(i <= Leading)
          BY <2>3, <4>1, <4>3
        <5>3. QED
          BY <4>3, <5>1, <5>2
      <4>5. wire[i].data # <<>> /\ wire[i].data[Len(wire[i].data)] = app.n
        BY <4>4
      <4> HIDE DEF i
      <4>6. QED
        BY <4>3, <4>5 DEF EndsWith
    <3>3. QED
      BY <3>1, <3>2
  <2>5. QED
    BY <2>2, <2>4
<1>2. ResponseInv => AppExceptionOnce
  BY DEF ResponseInv, ExceptionInv, FlagsInv, AppExceptionOnce
<1>3. ResponseInv => BodyComplete
  BY <1>1, <1>2 DEF BodyComplete, ResponseInv
<1>4. QED
  BY <1>3, MiddlewareInvariant, PTL

-----------------------------------------------------------------------------
(* What the application is given of the request.                           *)

\* A step of the middleware is a step of CachedRequest, or none, on the request side.
LEMMA RequestStep == [Next]_vars => [NextBody]_reqVars
BY DEF Next, vars, respVars, sideVars, NextBody, Downstream, UserDispatch, DispatchReads, CallNext,
  Drain, DispatchRaises, ReturnResponse, ReturnOwn, OwnReads, BackgroundRaises, BackgroundEnds,
  Main, MainReceive, MainResume, MainSend, ResponseDone, Joined, Cancelled, MainSendFails, App,
  AppSend, AppReceive, AppEnds, AppMessageArrives, AppResumes, AppSendBroken, AppReceived,
  AppCancelled

\* Who knows of a disconnect, the server included, knows that the client has left.
GoneInv ==
  /\ \A i \in DOMAIN queue : queue[i].type = "http.disconnect" => client.state = "gone"
  /\ req.is_disconnected \/ req.rcv_disconnected => client.state = "gone"

LEMMA GoneStep == IInv /\ GoneInv /\ [NextBody]_reqVars => GoneInv'
<1> SUFFICES ASSUME IInv, GoneInv, [NextBody]_reqVars PROVE GoneInv'
  OBVIOUS
<1>1. /\ queue \in Seq(Message) /\ RequestRecord
      /\ client \in [messages : 0..MaxMessages, chunks : Nat,
                     state : {"uploading", "complete", "gone"}, complete : BOOLEAN]
  BY RequestIsRecord DEF IInv, TypeOK
<1>2. ASSUME Take
      PROVE  /\ \A i \in DOMAIN queue' : queue'[i].type = "http.disconnect" => client.state = "gone"
             /\ Head(queue).type = "http.disconnect" => client.state = "gone"
  BY <1>1, <1>2, TakeFacts DEF GoneInv
<1>3. ASSUME NEW empty \in BOOLEAN, NEW more \in BOOLEAN, Upload(empty, more) PROVE GoneInv'
  <2>1. client.state = "uploading" /\ req' = req
    BY <1>3 DEF Upload
  <2>2. PICK body : queue' = Append(queue, RequestMessage(body, more))
    BY <1>3 DEF Upload
  <2>3. \A i \in DOMAIN queue' : queue'[i].type # "http.disconnect"
    BY <1>1, <2>1, <2>2 DEF GoneInv, RequestMessage
  <2>4. QED
    BY <2>1, <2>3 DEF GoneInv
<1>4. ASSUME NEW drop \in BOOLEAN, Leave(drop) PROVE GoneInv'
  <2>1. client'.state = "gone"
    BY <1>1, <1>4 DEF Leave
  <2>2. QED
    BY <2>1 DEF GoneInv
<1>5. ASSUME client' = client, queue' = queue \/ Take,
             req'.is_disconnected \/ req'.rcv_disconnected =>
               \/ req.is_disconnected \/ req.rcv_disconnected
               \/ Take /\ Head(queue).type = "http.disconnect"
      PROVE  GoneInv'
  BY <1>2, <1>5 DEF GoneInv
<1>6. CASE (\E op \in {"stream", "body"} : StartRead(op)) \/ WrappedCancelled \/ UNCHANGED reqVars
  BY <1>5, <1>6 DEF StartRead, WrappedCancelled, reqVars
<1>7. CASE MidReceive
  BY <1>1, <1>5, <1>7 DEF MidReceive, RequestRecord
<1>8. CASE IsDisconnected
  BY <1>1, <1>5, <1>8 DEF IsDisconnected, RequestRecord
<1>9. CASE WrappedReceive
  BY <1>1, <1>5, <1>9 DEF WrappedReceive, ReceiveKnownDisconnect, AwaitDisconnect,
    ReceiveCachedBody, ReceiveEmptyBody, AwaitChunk, RequestRecord
<1>10. CASE WrappedChunk
  BY <1>1, <1>5, <1>10 DEF WrappedChunk, OnChunk, YieldChunk, OnClientDisconnect, RequestRecord
<1>11. CASE WrappedDisconnect
  BY <1>1, <1>5, <1>11 DEF WrappedDisconnect, RequestRecord
<1>12. QED
  BY <1>3, <1>4, <1>6, <1>7, <1>8, <1>9, <1>10, <1>11 DEF NextBody, Client, Dispatch, Downstream

\* What the application was given against what wrapped_receive() has returned.
GivenInv ==
  /\ GivenTypeOK
  /\ main.pc = "dispatch" => given = down
  /\ app.pc \in {"ready", "sending"} /\ ~response_sent => given = down
  /\ given.finals > 0 => given.data = down.data /\ down.finals > 0
  /\ given.gone => down.gone \/ response_sent

\* What downstream has got stays, or another message comes to it.
LEMMA ReturnedOrNot ==
  ASSUME TypeOK, [NextBody]_reqVars
  PROVE  down' = down \/ \E m \in Message : down' = Returned(m)
<1>1. /\ queue \in Seq(Message) /\ RequestRecord
      /\ Disconnect \in Message /\ <<>> \in Seq(Chunk)
      /\ \A body \in Seq(Chunk), more \in BOOLEAN : RequestMessage(body, more) \in Message
  BY MessageTypes, RequestIsRecord DEF TypeOK
<1>2. CASE Client \/ Dispatch \/ WrappedCancelled \/ UNCHANGED reqVars
  BY <1>2 DEF Client, Upload, Leave, Dispatch, StartRead, MidReceive, IsDisconnected,
    WrappedCancelled, reqVars
<1>3. CASE WrappedReceive
  BY <1>1, <1>3 DEF WrappedReceive, ReceiveKnownDisconnect, AwaitDisconnect, ReceiveCachedBody,
    ReceiveEmptyBody, AwaitChunk, RequestRecord
<1>4. CASE WrappedChunk \/ WrappedDisconnect
  <2>1. Head(queue) \in Message
    BY <1>1, <1>4, TakeFacts DEF WrappedChunk, WrappedDisconnect
  <2>2. Head(queue).body \in Seq(Chunk)
    BY <2>1 DEF Message
  <2>3. QED
    BY <1>1, <1>4, <2>1, <2>2 DEF WrappedChunk, WrappedDisconnect, OnChunk, YieldChunk,
      OnClientDisconnect
<1>5. QED
  BY <1>2, <1>3, <1>4 DEF NextBody, Downstream

\* What wrapped_receive() has told stays told.
LEMMA ToldStays ==
  ASSUME IInv, [NextBody]_reqVars
  PROVE  /\ down.gone => down'.gone
         /\ down.finals > 0 => down'.data = down.data /\ down'.finals > 0
<1>1. HistoryRecord
  BY RequestIsRecord DEF IInv
<1>2. \A m \in Message : down.gone => Returned(m).gone
  BY <1>1 DEF Returned, HistoryRecord
<1>3. down.gone => down'.gone
  <2>1. CASE down' = down
    BY <2>1
  <2>2. CASE \E m \in Message : down' = Returned(m)
    BY <1>2, <2>2
  <2>3. QED
    BY <2>1, <2>2, ReturnedOrNot DEF IInv
<1>4. down.finals > 0 => down'.data = down.data /\ down'.finals > 0
  BY AfterTheEndStep DEF reqVars
<1>5. QED
  BY <1>3, <1>4

\* A step of the middleware keeps what is said of what the application was given.
LEMMA GivenStep ==
  ASSUME ResponseInv, IInv, GivenInv, [Next]_vars
  PROVE  GivenInv'
<1>1. /\ main \in Mains /\ app \in Apps /\ response_sent \in BOOLEAN
  BY Records DEF ResponseInv
<1>2. HistoryRecord /\ HistoryRecord'
  BY RequestStep, TypeStep DEF IInv, TypeOK, HistoryRecord
<1>3. /\ down.gone => down'.gone
      /\ down.finals > 0 => down'.data = down.data /\ down'.finals > 0
  BY RequestStep, ToldStays
<1>4. ASSUME given' = given, response_sent => response_sent',
             main'.pc = "dispatch" => main.pc = "dispatch" /\ down' = down,
             app'.pc \in {"ready", "sending"} /\ ~response_sent' => given' = down'
      PROVE  GivenInv'
  BY <1>3, <1>4 DEF GivenInv, GivenTypeOK
<1>5. CASE UNCHANGED <<main, app, response_sent, given, down>>
  BY <1>4, <1>5 DEF GivenInv
<1>6. CASE Outside
  <2>1. UNCHANGED sideVars /\ (response_sent => response_sent')
    <3>1. CASE ResponseDone
      BY <3>1 DEF ResponseDone
    <3>2. CASE ~ResponseDone
      <4>1. UNCHANGED <<sideVars, response_sent>>
        BY <1>6, <3>2 DEF Outside, CallNext, Drain, DispatchRaises, ReturnResponse, ReturnOwn,
          BackgroundRaises, BackgroundEnds, MainSend, MainSendFails, Joined, Cancelled, Fails
      <4>2. QED
        BY <4>1
    <3>3. QED
      BY <3>1, <3>2
  <2>2. main'.pc # "dispatch" /\ (app' = app \/ main.pc = "dispatch")
    BY <1>6, OutsideSteps DEF ResponseInv, CallNext
  <2>3. UNCHANGED <<given, down>>
    BY <2>1 DEF sideVars, reqVars
  <2>4. QED
    BY <1>4, <2>1, <2>2, <2>3 DEF GivenInv
<1>7. CASE MainReceive \/ MainResume
  <2>1. UNCHANGED <<sideVars, response_sent>> /\ main.pc \in {"first", "second", "pull"}
    BY <1>7, Receives DEF ResponseInv
  <2>2. main'.pc # "dispatch"
    BY <1>7, <2>1, Receives, TakesGoOn DEF ResponseInv
  <2>3. app'.pc = app.pc \/ app.pc = "sending"
    BY <1>7, Receives DEF ResponseInv
  <2>4. QED
    BY <1>4, <2>1, <2>2, <2>3 DEF GivenInv, sideVars, reqVars
<1>8. CASE OwnReads \/ AppMessageArrives
  <2>1. /\ UNCHANGED <<main, app, response_sent, given>>
        /\ app.pc \in {"none", "done", "receiving"} /\ main.pc # "dispatch"
    BY <1>8 DEF OwnReads, AppMessageArrives, respVars, ResponseInv, StreamInv, FlagsInv
  <2>2. QED
    BY <1>4, <2>1
<1>9. CASE App \/ AppResumes
  <2>1. UNCHANGED <<main, response_sent>> /\ main.pc # "dispatch"
    BY <1>9, AppSteps DEF ResponseInv, StreamInv, FlagsInv
  <2>2. CASE AppSend \/ AppSendBroken \/ AppCancelled \/ \E raises \in BOOLEAN : AppEnds(raises)
    <3>1. given' = given /\ down' = down
      BY <2>2 DEF AppSend, AppSendBroken, AppCancelled, AppEnds, sideVars, reqVars, WrappedCancelled
    <3>2. app'.pc \in {"ready", "sending"} => app.pc = "ready" \/ (app.pc = "sending" /\ response_sent)
      <4>1. CASE AppSend
        BY <4>1 DEF AppSend, Running
      <4>2. CASE AppSendBroken
        BY <4>2 DEF AppSendBroken
      <4>3. CASE AppCancelled \/ \E raises \in BOOLEAN : AppEnds(raises)
        BY <1>1, <4>3 DEF AppCancelled, AppEnds, AppDone, Apps
      <4>4. QED
        BY <2>2, <4>1, <4>2, <4>3
    <3>3. QED
      BY <1>4, <2>1, <3>1, <3>2 DEF GivenInv
  <2>3. CASE AppReceive
    <3>1. CASE response_sent /\ given' = GivenDisconnect /\ UNCHANGED <<reqVars, app>>
      BY <2>1, <3>1 DEF GivenInv, GivenTypeOK, GivenDisconnect, reqVars
    <3>2. CASE app' = [app EXCEPT !.pc = "receiving"] /\ UNCHANGED given
      <4>1. app'.pc = "receiving"
        BY <1>1, <3>2 DEF Apps
      <4>2. QED
        BY <1>4, <2>1, <3>2, <4>1
    <3>3. QED
      BY <2>3, <3>1, <3>2 DEF AppReceive
  <2>4. CASE AppReceived
    <3>1. down' = down /\ given' = Given
      BY <2>4 DEF AppReceived, WrappedCancelled, reqVars
    <3>2. CASE response_sent
      BY <2>1, <3>1, <3>2 DEF Given, GivenInv, GivenTypeOK, GivenDisconnect
    <3>3. CASE ~response_sent
      BY <1>2, <2>1, <3>1, <3>3 DEF Given, GivenInv, GivenTypeOK, HistoryRecord
    <3>4. QED
      BY <3>2, <3>3
  <2>5. QED
    BY <1>9, <2>2, <2>3, <2>4 DEF App, AppResumes
<1>10. QED
  BY <1>5, <1>6, <1>7, <1>8, <1>9 DEF Next, UserDispatch, Main, Outside, DispatchReads, Dispatch,
    StartRead, MidReceive, IsDisconnected, Client, Upload, Leave, vars, respVars, reqVars

\* What the application below is given of the request is true: a message taken for it is
\* thrown away only once the response has been sent, never out of a body that it is then
\* told is complete, and from then on it gets only disconnects.
THEOREM MiddlewareGives == Spec => RequestGiven
<1> DEFINE I == ResponseInv /\ IInv /\ GoneInv /\ GivenInv
<1>1. Init => I
  <2>1. Init => GoneInv
    BY DEF Init, InitBody, GoneInv, InitRequest
  <2>2. Init => GivenInv
    <3>1. ASSUME Init PROVE HistoryRecord
      BY <3>1, InvariantInit, RequestIsRecord DEF Init, IInv
    <3>2. QED
      BY <3>1 DEF Init, InitBody, InitResp, Start, GivenInv, GivenTypeOK, HistoryRecord
  <2>3. QED
    BY <2>1, <2>2, ResponseInit, InvariantInit DEF Init
<1>2. I /\ [Next]_vars => I'
  BY ResponseStep, RequestStep, InvariantStep, GoneStep, GivenStep
<1>3. I => GivenTypeOK /\ GivenTrue
  BY DEF IInv, DownInv, ConsumedInv, GoneInv, GivenInv, GivenTrue
<1>4. I /\ [Next]_vars => [OnlyDisconnectsGiven]_vars
  <2> SUFFICES ASSUME I, Next, response_sent
               PROVE  given'.data = given.data /\ given'.finals = given.finals
    BY DEF OnlyDisconnectsGiven
  <2>1. given' \in {given, GivenDisconnect}
    BY DEF Next, respVars, sideVars, UserDispatch, DispatchReads, CallNext, Drain, DispatchRaises,
      ReturnResponse, ReturnOwn, OwnReads, BackgroundRaises, BackgroundEnds, Main, MainReceive,
      MainResume, MainSend, ResponseDone, Joined, Cancelled, MainSendFails, App, AppSend,
      AppReceive, AppEnds, AppMessageArrives, AppResumes, AppSendBroken, AppReceived,
      AppCancelled, Given
  <2>2. QED
    BY <2>1 DEF GivenInv, GivenTypeOK, GivenDisconnect
<1> HIDE DEF I
<1>5. QED
  BY <1>1, <1>2, <1>3, <1>4, PTL DEF Spec, RequestGiven

\* So what is proved of the request side holds below the middleware: an upload that was
\* broken off is never complete downstream, and the RuntimeError of wrapped_receive() is
\* never raised.
THEOREM MiddlewareSafe == Spec => []EndIsTrue
BY RequestStep, InvariantInit, InvariantStep, InvariantIsSafe, PTL DEF Spec, Init

\* And each chunk of the request reaches the application below once, in order and in full,
\* whatever dispatch() of the middleware reads.
THEOREM MiddlewareDelivers == Spec => []BodyDelivered
BY RequestStep, InvariantInit, InvariantStep, DeliveryInit, DeliveryStep, DeliveryIsTrue, PTL
   DEF Spec, Init

=============================================================================
