------------------------- MODULE StreamedAnswers_proof -------------------------
(***************************************************************************)
(* Theorems about StreamedAnswers, for any number of chunks, messages and  *)
(* calls of start_response(): whichever of the two answers, the server is  *)
(* sent one response in order; and what follows the stream of a            *)
(* StreamingResponse, the background tasks or an error, follows its end;   *)
(* and __call__ of the WSGIMiddleware loses no chunk and no error.         *)
(***************************************************************************)
EXTENDS StreamedAnswers, SequenceTheorems, FiniteSetTheorems, TLAPS

\* How the two tasks of a StreamingResponse stand to each other.
TasksInv ==
  /\ iterator # "idle" => stream.pc = "next"
  /\ stream.err # "none" => stream.pc = "done"
  /\ stream.cancelled \/ stream.err = "Cancelled" => gone
  /\ call.pc \in {"call", "streaming"} => ~stream.cancelled /\ stream.err # "Cancelled"
  /\ stream.pc = "ready" <=> call.pc = "call"
  /\ mounted => stream.pc = "ready"
  /\ \A i \in DOMAIN inbox : inbox[i] = "disconnect" => gone
  /\ call.pc \in {"background", "over"} => stream.pc = "done"

\* What is behind the background tasks, and behind the end of __call__.
OutcomeInv ==
  /\ Background => /\ call.pc \in {"background", "over"}
                   /\ stream.err \in {"none", "Cancelled"}
  /\ call.pc = "over" /\ stream.err \in {"OSError", "Other"} => call.err # "none"

\* Where the stream is says what the server may be sent next.
StreamWire ==
  ~mounted =>
    /\ stream.pc \in {"ready", "start"} => wire = <<>>
    /\ stream.pc \in {"next", "chunk", "last"} => Protocol!Open
    /\ stream.pc = "done" /\ stream.err = "none" => Protocol!Complete

\* How the thread of the WSGI application, its sender and the two ends of the stream
\* between them stand to each other.
ThreadInv ==
  /\ caller.pc = "reading" <=> thread = "none"
  /\ sender.pc = "none" <=> thread = "none"
  /\ thread = "none" => ~response_started
  /\ memory.receive_open <=> sender.pc # "done"
  /\ app.starts > 0 => response_started
  /\ ~response_started => /\ mounted => wire = <<>>
                          /\ memory.messages = <<>> /\ sender.pc # "sending"

\* The messages that wait in the stream: the start is the first of all, and the last one
\* of the body is the last.
QueueInv ==
  \A i \in DOMAIN memory.messages :
    /\ memory.messages[i].type = "start" => i = 1 /\ wire = <<>> /\ sender.pc # "sending"
    /\ memory.messages[i].type = "body" /\ ~memory.messages[i].more_body =>
         i = Len(memory.messages) /\ thread = "returned"

\* The message that the sender holds is the next one of the protocol.
HeldInv ==
  sender.pc = "sending" =>
    /\ sender.held.type = "start" => wire = <<>>
    /\ sender.held.type = "body" => Protocol!Open
    /\ sender.held.type = "body" /\ ~sender.held.more_body =>
         memory.messages = <<>> /\ thread = "returned"

\* And when it holds none, the next one is the first that waits, or one that is yet to come.
NextInv ==
  sender.pc = "receiving" =>
    /\ memory.messages # <<>> /\ memory.messages[1].type = "body" => Protocol!Open
    /\ memory.messages = <<>> /\ response_started /\ thread = "app" => Protocol!Open

BridgeWire == mounted /\ ~refused /\ sender.pc # "done" => QueueInv /\ HeldInv /\ NextInv

StreamSide == TasksInv /\ OutcomeInv /\ StreamWire
BridgeSide == ThreadInv /\ BridgeWire
Types == TypeOK /\ Wsgi!TypeOK /\ mounted \in BOOLEAN
IInv == Types /\ StreamSide /\ BridgeSide

GoodStep == IInv' /\ (~refused' => Protocol!Next \/ wire' = wire)

-----------------------------------------------------------------------------
(* Lemmas: one message more on the wire.                                   *)

WireMessage == [type : {"start", "body"}, more_body : BOOLEAN]

LEMMA MessageTypes ==
  /\ \A type \in {"start", "body"}, more \in BOOLEAN :
       [type |-> type, more_body |-> more] \in WireMessage
  /\ \A m \in WireMessage : m.type \in {"start", "body"} /\ m.more_body \in BOOLEAN
  /\ Wsgi!Messages = WireMessage
BY DEF WireMessage, Wsgi!Messages

\* A start as the first message, or a body after an open response.
LEMMA OneMore ==
  ASSUME wire \in Seq(WireMessage), NEW m \in WireMessage, wire' = Append(wire, m),
         m.type = "start" => wire = <<>>,
         m.type = "body" => Protocol!Open
  PROVE  /\ Protocol!Next
         /\ m.type = "start" \/ m.more_body => Protocol!Open'
         /\ m.type = "body" /\ ~m.more_body => Protocol!Complete'
<1>1. /\ wire' \in Seq(WireMessage) /\ wire' # <<>> /\ Len(wire') = Len(wire) + 1
      /\ wire'[Len(wire')] = m /\ wire'[Len(wire) + 1] = m
  OBVIOUS
<1>2. m.type \in {"start", "body"} /\ m.more_body \in BOOLEAN
  BY MessageTypes
<1>3. \A types : Protocol!LastIs(types)' <=> m.type \in types
  BY <1>1 DEF Protocol!LastIs
<1>4. CASE m.type = "start"
  <2>1. Protocol!SendStart
    BY <1>1, <1>4 DEF Protocol!SendStart, Protocol!Sends
  <2>2. QED
    BY <2>1, <1>1, <1>4 DEF Protocol!Next, Protocol!Open, Protocol!Complete, Protocol!LastIs
<1>5. CASE m.type = "body"
  <2>1. Protocol!SendBody
    BY <1>1, <1>5 DEF Protocol!SendBody, Protocol!Sends
  <2>2. QED
    BY <2>1, <1>1, <1>2, <1>5 DEF Protocol!Next, Protocol!Open, Protocol!Complete, Protocol!LastIs
<1>6. QED
  BY <1>2, <1>4, <1>5

-----------------------------------------------------------------------------
(* The steps of a StreamingResponse.                                       *)

StreamGoal == TypeOK' /\ TasksInv' /\ OutcomeInv' /\ StreamWire' /\ (Protocol!Next \/ wire' = wire)

\* The types of what the steps assign.
LEMMA StreamTypes ==
  ASSUME TypeOK
  PROVE  /\ spec_version \in {"2.3", "2.4"} /\ threaded \in BOOLEAN /\ gone \in BOOLEAN
         /\ inbox \in Seq({"request", "disconnect"})
         /\ stream = [pc |-> stream.pc, cancelled |-> stream.cancelled, err |-> stream.err]
         /\ stream.pc \in {"ready", "start", "next", "chunk", "last", "done"}
         /\ stream.cancelled \in BOOLEAN /\ stream.err \in Errors
         /\ iterator \in {"idle", "asked", "yields", "ends", "OSError", "Other"}
         /\ call = [pc |-> call.pc, err |-> call.err]
         /\ call.pc \in {"call", "streaming", "listening", "joining", "background", "over"}
         /\ call.err \in Errors \ {"Cancelled"}
         /\ tasks \in 0..MaxTasks /\ MaxTasks \in Nat
         /\ wire \in Seq(WireMessage)
BY BoundsAssumption DEF TypeOK, WireMessage

\* The stream is in flight: it sends, or it ends.
LEMMA SendStep ==
  ASSUME IInv, ~mounted, mounted' = mounted,
         NEW m \in WireMessage, NEW next \in {"next", "done"}, Send(m, next),
         stream.pc \in {"start", "chunk", "last"},
         m.type = "start" <=> stream.pc = "start",
         next = "done" <=> m.type = "body" /\ ~m.more_body,
         UNCHANGED <<spec_version, threaded, gone, inbox, iterator, call, tasks>>
  PROVE  StreamGoal
<1>1. TypeOK /\ TasksInv /\ OutcomeInv /\ StreamWire
  BY DEF IInv, Types, StreamSide
<1>2. m.type \in {"start", "body"} /\ m.more_body \in BOOLEAN
  BY MessageTypes
<1>3. stream.err = "none" /\ call.pc \notin {"call", "background", "over"} /\ iterator = "idle"
  BY <1>1, StreamTypes DEF TasksInv
<1>4. CASE wire' = Append(wire, m)
           /\ stream' = [stream EXCEPT !.pc = next]
  <2>1. /\ Protocol!Next
        /\ m.type = "start" \/ m.more_body => Protocol!Open'
        /\ m.type = "body" /\ ~m.more_body => Protocol!Complete'
    BY <1>1, <1>2, <1>4, StreamTypes, OneMore DEF StreamWire
  <2>2. stream'.pc = next /\ stream'.err = "none" /\ stream'.cancelled = stream.cancelled
    BY <1>1, <1>3, <1>4, StreamTypes
  <2>3. StreamWire'
    BY <1>2, <2>1, <2>2 DEF StreamWire
  <2>4. TasksInv' /\ OutcomeInv'
    BY <1>1, <1>3, <2>2 DEF TasksInv, OutcomeInv, Background
  <2>5. wire' \in Seq(WireMessage)
    BY <1>1, <1>4, StreamTypes
  <2>6. TypeOK'
    BY <1>1, <1>4, <2>5 DEF TypeOK, WireMessage
  <2>7. QED
    BY <2>1, <2>3, <2>4, <2>6 DEF StreamGoal
<1>5. CASE gone /\ stream' = [stream EXCEPT !.pc = "done", !.err = "OSError"] /\ wire' = wire
  <2>1. stream'.pc = "done" /\ stream'.err = "OSError" /\ stream'.cancelled = stream.cancelled
    BY <1>1, <1>5, StreamTypes
  <2>2. TasksInv' /\ OutcomeInv' /\ StreamWire'
    BY <1>1, <1>3, <1>5, <2>1 DEF TasksInv, OutcomeInv, Background, StreamWire
  <2>3. TypeOK'
    BY <1>1, <1>5, ZenonT(30) DEF TypeOK, Errors
  <2>4. QED
    BY <1>5, <2>2, <2>3 DEF StreamGoal
<1>6. wire' = Append(wire, m) /\ next = "done" => stream' = [stream EXCEPT !.pc = next]
  <2>1. [stream EXCEPT !.pc = "done", !.err = "none"] = [stream EXCEPT !.pc = "done"]
    BY <1>1, <1>3, StreamTypes
  <2>2. QED
    BY <2>1, <1>1, <1>3, StreamTypes DEF Send, Ends
<1>7. QED
  BY <1>4, <1>5, <1>6 DEF Send, Ends

\* The client, the iterator, and what stream_response() does with an answer of it.
LEMMA IteratorStep ==
  ASSUME IInv, ~mounted, mounted' = mounted,
         \/ ClientLeaves \/ IteratorAnswers \/ AskIterator \/ TakeAnswer \/ StreamCancelled
  PROVE  StreamGoal
<1>1. TypeOK /\ TasksInv /\ OutcomeInv /\ StreamWire
  BY DEF IInv, Types, StreamSide
<1>2. CASE ClientLeaves
  <2>1. inbox' \in Seq({"request", "disconnect"}) /\ gone'
    BY <1>1, <1>2, StreamTypes DEF ClientLeaves
  <2>2. TypeOK' /\ StreamWire' /\ OutcomeInv'
    BY <1>1, <1>2, <2>1 DEF ClientLeaves, TypeOK, StreamWire, OutcomeInv, Background,
                            Protocol!Open, Protocol!Complete, Protocol!LastIs
  <2>3. TasksInv'
    BY <1>1, <1>2, <2>1 DEF ClientLeaves, TasksInv
  <2>4. QED
    BY <1>2, <2>2, <2>3 DEF ClientLeaves, StreamGoal
<1>3. CASE IteratorAnswers
  <2>1. iterator' \in {"ends", "OSError", "Other", "yields"} /\ stream.pc = "next"
    BY <1>1, <1>3 DEF IteratorAnswers, TasksInv
  <2>2. TypeOK' /\ TasksInv' /\ OutcomeInv' /\ StreamWire'
    BY <1>1, <1>3, <2>1 DEF IteratorAnswers, TypeOK, TasksInv, StreamWire, OutcomeInv, Background,
                            Protocol!Open, Protocol!Complete, Protocol!LastIs
  <2>3. QED
    BY <1>3, <2>2 DEF IteratorAnswers, StreamGoal
<1>4. CASE AskIterator
  <2>1. TypeOK' /\ TasksInv' /\ OutcomeInv' /\ StreamWire'
    BY <1>1, <1>4 DEF AskIterator, TypeOK, TasksInv, StreamWire, OutcomeInv, Background,
                      Protocol!Open, Protocol!Complete, Protocol!LastIs
  <2>2. QED
    BY <1>4, <2>1 DEF AskIterator, StreamGoal
<1>5. CASE TakeAnswer
  <2>1. /\ stream'.pc \in {"chunk", "last", "done"} /\ stream'.err \in {"none", "OSError", "Other"}
        /\ stream'.err # "none" <=> stream'.pc = "done"
        /\ stream'.cancelled = stream.cancelled
        /\ stream' = [pc |-> stream'.pc, cancelled |-> stream'.cancelled, err |-> stream'.err]
    BY <1>1, <1>5, StreamTypes DEF TakeAnswer, Ends, TasksInv
  <2>2. TypeOK'
    BY <1>1, <1>5, <2>1, StreamTypes DEF TakeAnswer, TypeOK, Errors
  <2>3. TasksInv' /\ OutcomeInv' /\ StreamWire'
    BY <1>1, <1>5, <2>1 DEF TakeAnswer, TasksInv, StreamWire, OutcomeInv, Background,
                            Protocol!Open, Protocol!Complete, Protocol!LastIs
  <2>4. QED
    BY <1>5, <2>2, <2>3 DEF TakeAnswer, StreamGoal
<1>6. CASE StreamCancelled
  <2>1. /\ stream'.pc = "done" /\ stream'.err = "Cancelled" /\ stream'.cancelled
        /\ stream' = [pc |-> stream'.pc, cancelled |-> stream'.cancelled, err |-> stream'.err]
    BY <1>1, <1>6, StreamTypes DEF StreamCancelled, Ends
  <2>2. TypeOK'
    BY <1>1, <1>6, <2>1, StreamTypes DEF StreamCancelled, TypeOK, Errors
  <2>3. TasksInv' /\ OutcomeInv' /\ StreamWire'
    BY <1>1, <1>6, <2>1 DEF StreamCancelled, TasksInv, StreamWire, OutcomeInv, Background,
                            Protocol!Open, Protocol!Complete, Protocol!LastIs
  <2>4. QED
    BY <1>6, <2>2, <2>3 DEF StreamCancelled, StreamGoal
<1>7. QED
  BY <1>2, <1>3, <1>4, <1>5, <1>6

\* The steps of __call__().
LEMMA MainStep ==
  ASSUME IInv, ~mounted, mounted' = mounted, Main
  PROVE  StreamGoal
<1>1. TypeOK /\ TasksInv /\ OutcomeInv /\ StreamWire
  BY DEF IInv, Types, StreamSide
<1>2. CASE Call
  <2>1. /\ stream'.pc = "start" /\ stream'.err = stream.err /\ stream'.cancelled = stream.cancelled
        /\ call'.pc \in {"streaming", "listening"} /\ call'.err = call.err
    BY <1>1, <1>2, StreamTypes DEF Call
  <2>2. TypeOK'
    BY <1>1, <1>2 DEF Call, TypeOK
  <2>3. TasksInv' /\ OutcomeInv' /\ StreamWire'
    BY <1>1, <1>2, <2>1, StreamTypes DEF Call, TasksInv, StreamWire, OutcomeInv, Background
  <2>4. QED
    BY <1>2, <2>2, <2>3 DEF Call, StreamGoal
<1>3. CASE ListenForDisconnect
  <2>1. /\ inbox # <<>> /\ inbox' = Tail(inbox) /\ inbox' \in Seq({"request", "disconnect"})
        /\ \A i \in DOMAIN inbox' : i + 1 \in DOMAIN inbox /\ inbox'[i] = inbox[i + 1]
        /\ Head(inbox) = inbox[1] /\ 1 \in DOMAIN inbox
    BY <1>1, <1>3, StreamTypes DEF ListenForDisconnect
  <2>2. Head(inbox) = "disconnect" => gone
    BY <1>1, <2>1 DEF TasksInv
  <2>3. /\ stream'.pc = stream.pc /\ stream'.err = stream.err
        /\ stream'.cancelled = stream.cancelled \/ (stream'.cancelled /\ gone)
        /\ call'.pc \in {"listening", "joining"} /\ call'.err = call.err
    BY <1>1, <1>3, <2>2, StreamTypes DEF ListenForDisconnect
  <2>4. TypeOK'
    BY <1>1, <1>3, <2>1 DEF ListenForDisconnect, TypeOK
  <2>5. TasksInv' /\ OutcomeInv' /\ StreamWire'
    BY <1>1, <1>3, <2>1, <2>3 DEF ListenForDisconnect, TasksInv, StreamWire, OutcomeInv, Background,
                            Protocol!Open, Protocol!Complete, Protocol!LastIs
  <2>6. QED
    BY <1>3, <2>4, <2>5 DEF ListenForDisconnect, StreamGoal
<1>4. CASE ListenCancelled
  <2>1. call'.pc = "joining" /\ call'.err = call.err
    BY <1>1, <1>4, StreamTypes DEF ListenCancelled
  <2>2. TypeOK' /\ TasksInv' /\ OutcomeInv' /\ StreamWire'
    BY <1>1, <1>4, <2>1 DEF ListenCancelled, TypeOK, TasksInv, StreamWire, OutcomeInv, Background,
                            Protocol!Open, Protocol!Complete, Protocol!LastIs
  <2>3. QED
    BY <1>4, <2>2 DEF ListenCancelled, StreamGoal
<1>5. CASE Join \/ Streamed
  <2>1. /\ call' = [pc |-> call'.pc, err |-> call'.err] /\ stream.pc = "done"
        /\ call'.pc \in {"background", "over"} /\ call'.err \in Errors \ {"Cancelled"}
        /\ call'.pc = "background" => stream.err \in {"none", "Cancelled"}
        /\ call'.pc = "over" => call'.err # "none"
        /\ call.pc \in {"joining", "streaming"}
        /\ UNCHANGED <<spec_version, threaded, gone, inbox, stream, iterator, tasks, wire>>
    BY <1>1, <1>5, StreamTypes DEF Join, Streamed, Leave, Errors, TasksInv
  <2>2. tasks = MaxTasks
    BY <1>1, <2>1, StreamTypes DEF OutcomeInv, Background
  <2>3. TypeOK' /\ TasksInv' /\ OutcomeInv' /\ StreamWire'
    BY <1>1, <2>1, <2>2 DEF TypeOK, TasksInv, StreamWire, OutcomeInv, Background,
                            Protocol!Open, Protocol!Complete, Protocol!LastIs
  <2>4. QED
    BY <2>1, <2>3 DEF StreamGoal
<1>6. CASE RunBackground
  <2>1. /\ call' = [pc |-> call'.pc, err |-> call'.err] /\ stream.err \in {"none", "Cancelled"}
        /\ call'.pc \in {"background", "over"} /\ call'.err \in Errors \ {"Cancelled"}
        /\ tasks' \in 0..MaxTasks /\ call.pc = "background"
    BY <1>1, <1>6, StreamTypes DEF RunBackground, OutcomeInv, Background, Errors
  <2>2. TypeOK' /\ TasksInv' /\ OutcomeInv' /\ StreamWire'
    BY <1>1, <1>6, <2>1 DEF RunBackground, TypeOK, TasksInv, StreamWire, OutcomeInv, Background,
                            Protocol!Open, Protocol!Complete, Protocol!LastIs
  <2>3. QED
    BY <1>6, <2>2 DEF RunBackground, StreamGoal
<1>7. QED
  BY <1>2, <1>3, <1>4, <1>5, <1>6 DEF Main

\* When it answers, nothing of the WSGI side changes.
LEMMA StreamsStep ==
  ASSUME IInv, Streams
  PROVE  GoodStep
<1>1. mounted = FALSE /\ mounted' = mounted
  BY DEF Streams, IInv, Types
<1>2. ASSUME SendStart PROVE StreamGoal
  BY <1>1, <1>2, SendStep, MessageTypes DEF SendStart
<1>3. ASSUME SendChunk PROVE StreamGoal
  BY <1>1, <1>3, SendStep, MessageTypes DEF SendChunk
<1>4. ASSUME SendLast PROVE StreamGoal
  BY <1>1, <1>4, SendStep, MessageTypes DEF SendLast
<1>5. ASSUME Over PROVE StreamGoal
  BY <1>5, <1>1 DEF Over, vars, StreamGoal, IInv, Types, StreamSide, TypeOK, TasksInv, OutcomeInv,
     Background, StreamWire, Protocol!Open, Protocol!Complete, Protocol!LastIs
<1>6. StreamGoal
  BY <1>1, <1>2, <1>3, <1>4, <1>5, IteratorStep, MainStep DEF Streams, Next, Stream
<1>7. Types'
  <2>1. wire' \in Seq(WireMessage) /\ gone' \in BOOLEAN
    BY <1>6 DEF StreamGoal, TypeOK, WireMessage
  <2>2. Wsgi!TypeOK'
    BY <2>1, MessageTypes DEF Streams, bridge, IInv, Types, Wsgi!TypeOK
  <2>3. QED
    BY <1>1, <1>6, <2>2 DEF StreamGoal, Types
<1>8. BridgeSide'
  BY <1>1 DEF Streams, bridge, IInv, BridgeSide, ThreadInv, BridgeWire
<1>9. QED
  BY <1>6, <1>7, <1>8 DEF StreamGoal, GoodStep, IInv, StreamSide

-----------------------------------------------------------------------------
(* The steps of the WSGI side.                                             *)

BridgeGoal ==
  Wsgi!TypeOK' /\ ThreadInv' /\ BridgeWire' /\ (~refused' => Protocol!Next \/ wire' = wire)

\* The types of what the steps assign.
LEMMA BridgeTypes ==
  ASSUME Wsgi!TypeOK
  PROVE  /\ gone \in BOOLEAN /\ wire \in Seq(WireMessage) /\ upload \in 0..MaxUpload
         /\ caller = [pc |-> caller.pc, err |-> caller.err]
         /\ caller.pc \in {"reading", "waiting", "joining", "over"}
         /\ caller.err \in {"none", "exc_info", "group"}
         /\ thread \in {"none", "app", "returned", "raised"}
         /\ app = [starts |-> app.starts, yields |-> app.yields, reported |-> app.reported]
         /\ app.starts \in 0..MaxStarts /\ app.yields \in 0..MaxYields /\ app.reported \in BOOLEAN
         /\ exc_info \in BOOLEAN /\ response_started \in BOOLEAN /\ refused \in BOOLEAN
         /\ memory = [messages |-> memory.messages, send_open |-> memory.send_open,
                      receive_open |-> memory.receive_open]
         /\ memory.messages \in Seq(WireMessage)
         /\ memory.send_open \in BOOLEAN /\ memory.receive_open \in BOOLEAN
         /\ sender = [pc |-> sender.pc, held |-> sender.held, cancelled |-> sender.cancelled,
                      failed |-> sender.failed]
         /\ sender.pc \in {"none", "receiving", "sending", "done"} /\ sender.held \in WireMessage
         /\ sender.cancelled \in BOOLEAN /\ sender.failed \in BOOLEAN
         /\ MaxUpload \in Nat /\ MaxYields \in Nat /\ MaxStarts \in Nat
BY WSGIBoundsAssumption, MessageTypes DEF Wsgi!TypeOK

\* __call__(), up to the thread and behind it: the messages stay where they are.
LEMMA CallerStep ==
  ASSUME IInv, mounted, mounted' = mounted,
         Wsgi!ClientLeaves \/ Wsgi!ReceiveMore \/ Wsgi!Run \/ Wsgi!ThreadEnded \/ Wsgi!Join
  PROVE  BridgeGoal
<1>1. Wsgi!TypeOK /\ ThreadInv /\ BridgeWire
  BY DEF IInv, Types, BridgeSide
<1>2. CASE Wsgi!ClientLeaves \/ Wsgi!ReceiveMore
  <2>1. /\ gone' \in BOOLEAN /\ upload' \in 0..MaxUpload
        /\ UNCHANGED <<wire, caller, thread, app, exc_info, response_started, refused, memory, sender>>
    <3>1. CASE Wsgi!ClientLeaves
      BY <1>1, <3>1, BridgeTypes DEF Wsgi!ClientLeaves
    <3>2. CASE Wsgi!ReceiveMore
      BY <1>1, <3>2, BridgeTypes DEF Wsgi!ReceiveMore
    <3>3. QED
      BY <1>2, <3>1, <3>2
  <2>2. Wsgi!TypeOK'
    BY <1>1, <2>1 DEF Wsgi!TypeOK
  <2>3. ThreadInv' /\ BridgeWire'
    BY <1>1, <2>1 DEF ThreadInv, BridgeWire, QueueInv, HeldInv, NextInv, Protocol!Open, Protocol!LastIs
  <2>4. QED
    BY <2>1, <2>2, <2>3 DEF BridgeGoal
<1>3. CASE Wsgi!Run
  <2>1. /\ caller'.pc = "waiting" /\ caller'.err = caller.err
        /\ sender'.pc = "receiving" /\ sender'.held = sender.held
        /\ caller.pc = "reading" /\ thread = "none" /\ sender.pc = "none" /\ thread' = "app"
    BY <1>1, <1>3, BridgeTypes DEF Wsgi!Run, ThreadInv
  <2>2. Wsgi!TypeOK'
    BY <1>1, <1>3 DEF Wsgi!Run, Wsgi!TypeOK
  <2>3. ThreadInv'
    BY <1>1, <1>3, <2>1 DEF Wsgi!Run, ThreadInv
  <2>4. BridgeWire'
    <3>1. memory'.messages = <<>> /\ ~response_started'
      BY <1>1, <1>3, <2>1 DEF Wsgi!Run, ThreadInv
    <3>2. QueueInv' /\ HeldInv' /\ NextInv'
      BY <2>1, <3>1 DEF QueueInv, HeldInv, NextInv
    <3>3. QED
      BY <3>2 DEF BridgeWire
  <2>5. QED
    BY <1>3, <2>2, <2>3, <2>4 DEF Wsgi!Run, BridgeGoal
<1>4. CASE Wsgi!ThreadEnded
  <2>1. /\ caller'.pc = "joining" /\ caller'.err = caller.err
        /\ memory'.messages = memory.messages /\ memory'.receive_open = memory.receive_open
        /\ sender'.pc = sender.pc /\ sender'.held = sender.held
        /\ thread \in {"returned", "raised"} /\ caller.pc = "waiting"
    BY <1>1, <1>4, BridgeTypes DEF Wsgi!ThreadEnded, Wsgi!Ended
  <2>2. Wsgi!TypeOK'
    BY <1>1, <1>4 DEF Wsgi!ThreadEnded, Wsgi!TypeOK
  <2>3. ThreadInv'
    BY <1>1, <1>4, <2>1 DEF Wsgi!ThreadEnded, ThreadInv
  <2>4. BridgeWire'
    BY <1>1, <1>4, <2>1 DEF Wsgi!ThreadEnded, BridgeWire, QueueInv, HeldInv, NextInv, Protocol!Open, Protocol!LastIs
  <2>5. QED
    BY <1>4, <2>2, <2>3, <2>4 DEF Wsgi!ThreadEnded, BridgeGoal
<1>5. CASE Wsgi!Join
  <2>1. /\ caller' = [pc |-> "over", err |-> caller'.err]
        /\ caller'.err \in {"none", "exc_info", "group"}
        /\ caller.pc = "joining"
        /\ UNCHANGED <<gone, wire, upload, thread, app, exc_info, response_started, refused, memory,
                       sender>>
    BY <1>1, <1>5, BridgeTypes DEF Wsgi!Join
  <2>2. Wsgi!TypeOK'
    BY <1>1, <2>1 DEF Wsgi!TypeOK
  <2>3. ThreadInv' /\ BridgeWire'
    BY <1>1, <2>1 DEF ThreadInv, BridgeWire, QueueInv, HeldInv, NextInv, Protocol!Open, Protocol!LastIs
  <2>4. QED
    BY <2>1, <2>2, <2>3 DEF BridgeGoal
<1>6. QED
  BY <1>2, <1>3, <1>4, <1>5

\* The thread sends m: a start before anything else, or a body behind the start.
LEMMA PostStep ==
  ASSUME Wsgi!TypeOK, ThreadInv, BridgeWire, mounted, mounted' = mounted,
         NEW m \in WireMessage, Wsgi!Posts(m), thread = "app",
         m.type = "start" => ~response_started,
         m.type = "body" => response_started,
         thread' = IF m.type = "body" /\ ~m.more_body THEN "returned" ELSE "app",
         response_started', refused' = refused,
         UNCHANGED <<wire, sender>>
  PROVE  BridgeWire' /\ memory'.receive_open = memory.receive_open
         /\ memory'.messages \in Seq(WireMessage)
         /\ memory' = [messages |-> memory'.messages, send_open |-> memory.send_open,
                       receive_open |-> memory.receive_open]
<1>1. /\ memory'.messages = Append(memory.messages, m)
      /\ memory'.messages \in Seq(WireMessage)
      /\ memory'.receive_open = memory.receive_open
      /\ memory' = [messages |-> memory'.messages, send_open |-> memory.send_open,
                    receive_open |-> memory.receive_open]
  <2>1. /\ memory = [messages |-> memory.messages, send_open |-> memory.send_open,
                      receive_open |-> memory.receive_open]
        /\ memory.messages \in Seq(WireMessage)
    BY BridgeTypes
  <2>2. Append(memory.messages, m) \in Seq(WireMessage)
    BY <2>1
  <2>3. memory' = [messages |-> Append(memory.messages, m), send_open |-> memory.send_open,
                   receive_open |-> memory.receive_open]
    BY <2>1 DEF Wsgi!Posts
  <2>4. QED
    BY <2>2, <2>3
<1>2. SUFFICES ASSUME ~refused, sender.pc # "done" PROVE QueueInv' /\ HeldInv' /\ NextInv'
  BY <1>1 DEF BridgeWire
<1>3. QueueInv /\ HeldInv /\ NextInv
  BY <1>2 DEF BridgeWire
<1>4. sender.pc \in {"receiving", "sending"} /\ m.type \in {"start", "body"} /\ m.more_body \in BOOLEAN
  BY <1>2, BridgeTypes, MessageTypes DEF ThreadInv
<1>5. ~response_started => wire = <<>> /\ memory.messages = <<>> /\ sender.pc = "receiving"
  BY <1>4 DEF ThreadInv
<1>6. /\ Len(memory'.messages) = Len(memory.messages) + 1 /\ Len(memory.messages) \in Nat
      /\ DOMAIN memory'.messages = 1..(Len(memory.messages) + 1)
      /\ DOMAIN memory.messages = 1..Len(memory.messages)
      /\ memory'.messages[Len(memory.messages) + 1] = m
      /\ \A i \in DOMAIN memory.messages : memory'.messages[i] = memory.messages[i]
  BY <1>1, BridgeTypes
<1>7. QueueInv'
  <2>1. SUFFICES ASSUME NEW i \in DOMAIN memory'.messages
                 PROVE  /\ memory'.messages[i].type = "start" =>
                             i = 1 /\ wire' = <<>> /\ sender'.pc # "sending"
                        /\ memory'.messages[i].type = "body" /\ ~memory'.messages[i].more_body =>
                             i = Len(memory'.messages) /\ thread' = "returned"
    BY DEF QueueInv
  <2>2. CASE i = Len(memory.messages) + 1
    BY <2>2, <1>4, <1>5, <1>6
  <2>3. CASE i # Len(memory.messages) + 1
    <3>1. i \in DOMAIN memory.messages /\ memory'.messages[i] = memory.messages[i]
      BY <2>1, <2>3, <1>6
    <3>2. QED
      BY <3>1, <1>3 DEF QueueInv
  <2>4. QED
    BY <2>2, <2>3
<1>8. HeldInv'
  BY <1>3, <1>5 DEF HeldInv, Protocol!Open, Protocol!LastIs
<1>9. NextInv'
  <2>1. CASE memory.messages = <<>>
    BY <2>1, <1>1, <1>3, <1>6 DEF NextInv, Protocol!Open, Protocol!LastIs
  <2>2. CASE memory.messages # <<>>
    <3>1. memory'.messages[1] = memory.messages[1] /\ memory'.messages # <<>>
      BY <2>2, <1>6, <1>1, BridgeTypes
    <3>2. QED
      BY <2>2, <3>1, <1>3 DEF NextInv, Protocol!Open, Protocol!LastIs
  <2>3. QED
    BY <2>1, <2>2
<1>10. QED
  BY <1>7, <1>8, <1>9

\* The WSGI application and start_response().
LEMMA AppStep ==
  ASSUME IInv, mounted, mounted' = mounted, Wsgi!App
  PROVE  BridgeGoal
<1>1. Wsgi!TypeOK /\ ThreadInv /\ BridgeWire
  BY DEF IInv, Types, BridgeSide
<1>2. thread = "app"
  BY DEF Wsgi!App, Wsgi!StartResponse, Wsgi!AppStarts, Wsgi!Yield, Wsgi!Return, Wsgi!AppRaises
<1>3. ASSUME NEW given \in BOOLEAN, Wsgi!StartResponse(given) PROVE BridgeGoal
  <2>1. /\ app' = [starts |-> app.starts + 1, yields |-> app.yields, reported |-> app'.reported]
        /\ app'.reported \in BOOLEAN /\ app.starts + 1 \in 0..MaxStarts
        /\ exc_info' \in BOOLEAN /\ response_started' = TRUE
        /\ UNCHANGED <<gone, wire, upload, caller, thread, sender>>
    <3>1. /\ app' = [app EXCEPT !.starts = @ + 1, !.reported = @ \/ given]
          /\ app.starts < MaxStarts
          /\ exc_info' = given /\ response_started' = TRUE
          /\ UNCHANGED <<gone, wire, upload, caller, thread, sender>>
      BY <1>3 DEF Wsgi!StartResponse, Wsgi!AppStarts
    <3>2. app' = [starts |-> app.starts + 1, yields |-> app.yields, reported |-> app.reported \/ given]
      BY <1>1, <3>1, BridgeTypes
    <3>3. app.starts + 1 \in 0..MaxStarts
      BY <1>1, <3>1, BridgeTypes
    <3>4. QED
      BY <3>1, <3>2, <3>3
  <2>2. CASE memory' = memory
    <3>0. refused' = refused \/ refused' = TRUE
      BY <1>3 DEF Wsgi!StartResponse
    <3>1. refused' \in BOOLEAN /\ (refused => refused')
      <4>1. refused \in BOOLEAN
        BY <1>1, BridgeTypes
      <4>2. CASE refused' = refused
        BY <4>1, <4>2
      <4>3. CASE refused' = TRUE
        BY <4>3
      <4>4. QED
        BY <3>0, <4>2, <4>3
    <3>2. Wsgi!TypeOK'
      BY <1>1, <2>1, <2>2, <3>1 DEF Wsgi!TypeOK
    <3>3. ThreadInv'
      BY <1>1, <1>2, <2>1, <2>2 DEF ThreadInv
    <3>4. refused' \/ response_started
      BY <1>3, <2>2, <1>1, BridgeTypes DEF Wsgi!StartResponse, Wsgi!Posts
    <3>5. BridgeWire'
      <4>1. SUFFICES ASSUME ~refused', sender.pc # "done" PROVE QueueInv' /\ HeldInv' /\ NextInv'
        BY <2>1 DEF BridgeWire
      <4>2. QueueInv /\ HeldInv /\ NextInv /\ response_started
        BY <1>1, <3>1, <3>4, <4>1 DEF BridgeWire
      <4>3. QED
        BY <2>1, <2>2, <4>2 DEF QueueInv, HeldInv, NextInv, Protocol!Open, Protocol!LastIs
    <3>6. QED
      BY <2>1, <3>2, <3>3, <3>5 DEF BridgeGoal
  <2>3. CASE ~response_started /\ Wsgi!Posts(Wsgi!Start) /\ refused' = refused
    <3>1. Wsgi!Start \in WireMessage /\ Wsgi!Start.type = "start"
      BY MessageTypes DEF Wsgi!Start
    <3>2. /\ BridgeWire' /\ memory'.receive_open = memory.receive_open
          /\ memory'.messages \in Seq(WireMessage)
          /\ memory' = [messages |-> memory'.messages, send_open |-> memory.send_open,
                        receive_open |-> memory.receive_open]
      BY <1>1, <1>2, <2>1, <2>3, <3>1, PostStep
    <3>3. Wsgi!TypeOK'
      BY <1>1, <2>1, <2>3, <3>2, BridgeTypes, MessageTypes DEF Wsgi!TypeOK
    <3>4. ThreadInv'
      BY <1>1, <1>2, <2>1, <3>2 DEF ThreadInv
    <3>5. QED
      BY <2>1, <3>2, <3>3, <3>4 DEF BridgeGoal
  <2>4. QED
    BY <1>3, <2>2, <2>3 DEF Wsgi!StartResponse
<1>4. ASSUME NEW more \in BOOLEAN, Wsgi!Posts(Wsgi!Chunk(more)), app.starts > 0,
             thread' = IF more THEN "app" ELSE "returned",
             app' = [starts |-> app.starts, yields |-> app'.yields, reported |-> app.reported],
             app'.yields \in 0..MaxYields,
             UNCHANGED <<gone, wire, upload, caller, exc_info, response_started, refused, sender>>
      PROVE  BridgeGoal
  <2>1. Wsgi!Chunk(more) \in WireMessage /\ Wsgi!Chunk(more).type = "body"
        /\ Wsgi!Chunk(more).more_body = more
    BY MessageTypes DEF Wsgi!Chunk
  <2>2. response_started
    BY <1>1, <1>4 DEF ThreadInv
  <2>3. /\ BridgeWire' /\ memory'.receive_open = memory.receive_open
        /\ memory'.messages \in Seq(WireMessage)
        /\ memory' = [messages |-> memory'.messages, send_open |-> memory.send_open,
                      receive_open |-> memory.receive_open]
    BY <1>1, <1>2, <1>4, <2>1, <2>2, PostStep
  <2>4. Wsgi!TypeOK'
    BY <1>1, <1>4, <2>3, BridgeTypes, MessageTypes DEF Wsgi!TypeOK
  <2>5. ThreadInv'
    BY <1>1, <1>2, <1>4, <2>2, <2>3, BridgeTypes DEF ThreadInv
  <2>6. QED
    BY <1>4, <2>3, <2>4, <2>5 DEF BridgeGoal
<1>5. ASSUME thread' = "raised", memory' = memory,
             app' = [starts |-> app.starts, yields |-> app'.yields, reported |-> app.reported],
             app'.yields \in 0..MaxYields,
             UNCHANGED <<gone, wire, upload, caller, exc_info, response_started, refused, sender>>
      PROVE  BridgeGoal
  <2>1. Wsgi!TypeOK'
    BY <1>1, <1>5, BridgeTypes DEF Wsgi!TypeOK
  <2>2. ThreadInv' /\ BridgeWire'
    BY <1>1, <1>2, <1>5 DEF ThreadInv, BridgeWire, QueueInv, HeldInv, NextInv,
                            Protocol!Open, Protocol!LastIs
  <2>3. QED
    BY <1>5, <2>1, <2>2 DEF BridgeGoal
<1>6. ASSUME Wsgi!Yield PROVE BridgeGoal
  <2>1. /\ app' = [starts |-> app.starts, yields |-> app'.yields, reported |-> app.reported]
        /\ app'.yields \in 0..MaxYields /\ app.starts > 0
    BY <1>1, <1>6, BridgeTypes DEF Wsgi!Yield
  <2>2. QED
    BY <1>2, <1>4, <1>5, <1>6, <2>1 DEF Wsgi!Yield
<1>7. ASSUME Wsgi!Return PROVE BridgeGoal
  <2>1. /\ app' = [starts |-> app.starts, yields |-> app'.yields, reported |-> app.reported]
        /\ app'.yields \in 0..MaxYields /\ app.starts > 0
    BY <1>1, <1>7, BridgeTypes DEF Wsgi!Return
  <2>2. QED
    BY <1>2, <1>4, <1>5, <1>7, <2>1 DEF Wsgi!Return
<1>8. ASSUME Wsgi!AppRaises PROVE BridgeGoal
  <2>1. /\ app' = [starts |-> app.starts, yields |-> app'.yields, reported |-> app.reported]
        /\ app'.yields \in 0..MaxYields
    BY <1>1, <1>8, BridgeTypes DEF Wsgi!AppRaises
  <2>2. QED
    BY <1>2, <1>5, <1>8, <2>1 DEF Wsgi!AppRaises
<1>9. QED
  BY <1>3, <1>6, <1>7, <1>8 DEF Wsgi!App

-----------------------------------------------------------------------------
(* The sender, and all steps together.                                     *)

LEMMA SenderStep ==
  ASSUME IInv, mounted, mounted' = mounted, Wsgi!Take \/ Wsgi!Send \/ Wsgi!SenderEnds
  PROVE  BridgeGoal
<1>1. Wsgi!TypeOK /\ ThreadInv /\ BridgeWire
  BY DEF IInv, Types, BridgeSide
<1>2. CASE Wsgi!Take
  <2>1. /\ memory.messages # <<>> /\ memory.messages \in Seq(WireMessage)
        /\ memory' = [messages |-> Tail(memory.messages), send_open |-> memory.send_open,
                      receive_open |-> memory.receive_open]
        /\ sender' = [pc |-> "sending", held |-> Head(memory.messages),
                      cancelled |-> sender.cancelled, failed |-> sender.failed]
        /\ sender.pc = "receiving"
        /\ UNCHANGED <<gone, wire, upload, caller, thread, app, exc_info, response_started, refused>>
    BY <1>1, <1>2, BridgeTypes DEF Wsgi!Take
  <2>2. /\ Head(memory.messages) = memory.messages[1] /\ memory.messages[1] \in WireMessage
        /\ Tail(memory.messages) \in Seq(WireMessage)
        /\ Len(Tail(memory.messages)) = Len(memory.messages) - 1
        /\ Len(memory.messages) \in Nat \ {0}
        /\ DOMAIN Tail(memory.messages) = 1..(Len(memory.messages) - 1)
        /\ DOMAIN memory.messages = 1..Len(memory.messages)
        /\ \A i \in DOMAIN Tail(memory.messages) :
             Tail(memory.messages)[i] = memory.messages[i + 1]
    BY <2>1
  <2>3. Wsgi!TypeOK'
    BY <1>1, <2>1, <2>2, BridgeTypes, MessageTypes DEF Wsgi!TypeOK
  <2>4. ThreadInv'
    BY <1>1, <2>1 DEF ThreadInv
  <2>5. BridgeWire'
    <3>1. SUFFICES ASSUME ~refused PROVE QueueInv' /\ HeldInv' /\ NextInv'
      BY <2>1 DEF BridgeWire
    <3>2. QueueInv /\ NextInv
      BY <1>1, <2>1, <3>1 DEF BridgeWire
    <3>3. \A i \in DOMAIN memory.messages :
            /\ memory.messages[i].type = "start" => i = 1 /\ wire = <<>>
            /\ memory.messages[i].type = "body" /\ ~memory.messages[i].more_body =>
                 i = Len(memory.messages) /\ thread = "returned"
      BY <3>2 DEF QueueInv
    <3>4. QueueInv'
      <4>1. SUFFICES ASSUME NEW i \in DOMAIN memory'.messages
                     PROVE  /\ memory'.messages[i].type # "start"
                            /\ memory'.messages[i].type = "body" /\ ~memory'.messages[i].more_body =>
                                 i = Len(memory'.messages) /\ thread' = "returned"
        BY DEF QueueInv
      <4>2. i \in Nat \ {0} /\ i + 1 \in DOMAIN memory.messages
            /\ memory'.messages[i] = memory.messages[i + 1]
        BY <2>1, <2>2, <4>1
      <4>3. QED
        BY <2>1, <2>2, <3>3, <4>2
    <3>5. HeldInv'
      <4>1. sender'.held = memory.messages[1] /\ 1 \in DOMAIN memory.messages
        BY <2>1, <2>2
      <4>2. memory.messages[1].type = "start" => wire = <<>>
        BY <3>3, <4>1
      <4>3. memory.messages[1].type = "body" => Protocol!Open
        BY <2>1, <3>2 DEF NextInv
      <4>4. memory.messages[1].type = "body" /\ ~memory.messages[1].more_body =>
              memory'.messages = <<>> /\ thread = "returned"
        <5>1. Len(memory.messages) = 1 => Tail(memory.messages) = <<>>
          BY <2>1, <2>2
        <5>2. QED
          BY <2>1, <3>3, <4>1, <5>1
      <4>5. QED
        BY <2>1, <4>1, <4>2, <4>3, <4>4 DEF HeldInv, Protocol!Open, Protocol!LastIs
    <3>6. NextInv'
      BY <2>1 DEF NextInv
    <3>7. QED
      BY <3>4, <3>5, <3>6
  <2>6. QED
    BY <2>1, <2>3, <2>4, <2>5 DEF BridgeGoal
<1>3. ASSUME Wsgi!Send, wire' = Append(wire, sender.held), memory' = memory,
             sender' = [sender EXCEPT !.pc = "receiving"]
      PROVE  BridgeGoal
  <2>1. /\ sender' = [pc |-> "receiving", held |-> sender.held,
                      cancelled |-> sender.cancelled, failed |-> sender.failed]
        /\ sender.pc = "sending" /\ sender.held \in WireMessage
        /\ wire \in Seq(WireMessage) /\ wire' \in Seq(WireMessage) /\ wire' # <<>>
        /\ UNCHANGED <<gone, upload, caller, thread, app, exc_info, response_started, refused>>
    <3>1. /\ sender = [pc |-> sender.pc, held |-> sender.held, cancelled |-> sender.cancelled,
                       failed |-> sender.failed]
          /\ sender.held \in WireMessage /\ wire \in Seq(WireMessage)
      BY <1>1, BridgeTypes
    <3>2. wire' \in Seq(WireMessage) /\ wire' # <<>>
      BY <1>3, <3>1
    <3>3. QED
      BY <1>3, <3>1, <3>2 DEF Wsgi!Send
  <2>2. Wsgi!TypeOK'
    <3>1. sender' \in [pc : {"none", "receiving", "sending", "done"}, held : Wsgi!Messages,
                       cancelled : BOOLEAN, failed : BOOLEAN]
      BY <1>1, <2>1, BridgeTypes, MessageTypes
    <3>2. QED
      BY <1>1, <1>3, <2>1, <3>1, MessageTypes DEF Wsgi!TypeOK
  <2>3. ThreadInv'
    BY <1>1, <1>3, <2>1 DEF ThreadInv
  <2>4. CASE refused
    BY <2>1, <2>2, <2>3, <2>4 DEF BridgeGoal, BridgeWire
  <2>5. CASE ~refused
    <3>1. QueueInv /\ HeldInv
      BY <1>1, <2>1, <2>5 DEF BridgeWire
    <3>2. /\ sender.held.type = "start" => wire = <<>>
          /\ sender.held.type = "body" => Protocol!Open
          /\ sender.held.type = "body" /\ ~sender.held.more_body =>
               memory.messages = <<>> /\ thread = "returned"
      BY <2>1, <3>1 DEF HeldInv
    <3>3. /\ Protocol!Next
          /\ sender.held.type = "start" \/ sender.held.more_body => Protocol!Open'
      BY <1>3, <2>1, <3>2, OneMore
    <3>4. sender.held.type \in {"start", "body"} /\ sender.held.more_body \in BOOLEAN
      BY <2>1, MessageTypes
    <3>5. QueueInv' /\ HeldInv'
      BY <1>3, <2>1, <3>1 DEF QueueInv, HeldInv
    <3>6. NextInv'
      BY <1>3, <2>1, <3>2, <3>3, <3>4 DEF NextInv
    <3>7. QED
      BY <2>2, <2>3, <3>3, <3>5, <3>6 DEF BridgeGoal, BridgeWire
  <2>6. QED
    BY <2>4, <2>5
<1>4. ASSUME NEW failed \in BOOLEAN, Wsgi!Leaves(failed), sender.pc \in {"receiving", "sending"},
             UNCHANGED <<gone, wire, upload, caller, thread, app, exc_info, response_started, refused>>
      PROVE  BridgeGoal
  <2>1. /\ sender' = [pc |-> "done", held |-> sender.held,
                      cancelled |-> sender.cancelled, failed |-> failed]
        /\ memory' = [messages |-> memory.messages, send_open |-> memory.send_open,
                      receive_open |-> FALSE]
    BY <1>1, <1>4, BridgeTypes DEF Wsgi!Leaves
  <2>2. Wsgi!TypeOK'
    BY <1>1, <1>4, <2>1, BridgeTypes, MessageTypes DEF Wsgi!TypeOK
  <2>3. ThreadInv' /\ BridgeWire'
    BY <1>1, <1>4, <2>1 DEF ThreadInv, BridgeWire
  <2>4. QED
    BY <1>4, <2>2, <2>3 DEF BridgeGoal
<1>5. ASSUME Wsgi!Send PROVE BridgeGoal
  BY <1>3, <1>4, <1>5 DEF Wsgi!Send
<1>6. ASSUME Wsgi!SenderEnds PROVE BridgeGoal
  BY <1>4, <1>6 DEF Wsgi!SenderEnds
<1>7. QED
  BY <1>2, <1>5, <1>6

LEMMA BridgesStep ==
  ASSUME IInv, Bridges
  PROVE  GoodStep
<1>1. mounted = TRUE /\ mounted' = mounted
  BY DEF Bridges, IInv, Types
<1>2. BridgeGoal
  BY <1>1, CallerStep, AppStep, SenderStep DEF Bridges, Wsgi!Next, Wsgi!Task
<1>3. wire' \in Seq(WireMessage) /\ gone' \in BOOLEAN /\ (gone => gone')
  <2>1. wire' \in Seq(WireMessage) /\ gone' \in BOOLEAN
    BY <1>2, MessageTypes DEF BridgeGoal, Wsgi!TypeOK
  <2>2. gone' = gone \/ gone' = TRUE
    BY DEF Bridges, Wsgi!Next, Wsgi!Task, Wsgi!App, Wsgi!ClientLeaves, Wsgi!ReceiveMore, Wsgi!Run,
           Wsgi!ThreadEnded, Wsgi!Join, Wsgi!StartResponse, Wsgi!Yield, Wsgi!Return,
           Wsgi!AppRaises, Wsgi!Take, Wsgi!Send, Wsgi!SenderEnds
  <2>3. gone \in BOOLEAN
    BY DEF IInv, Types, TypeOK
  <2>4. CASE gone' = gone
    BY <2>1, <2>4
  <2>5. CASE gone' = TRUE
    BY <2>1, <2>5
  <2>6. QED
    BY <2>2, <2>4, <2>5
<1>4. UNCHANGED own
  BY DEF Bridges
<1>5. TypeOK'
  BY <1>3, <1>4 DEF own, IInv, Types, TypeOK, WireMessage
<1>6. TasksInv' /\ OutcomeInv' /\ StreamWire'
  BY <1>1, <1>3, <1>4 DEF own, IInv, StreamSide, TasksInv, OutcomeInv, StreamWire, Background
<1>7. QED
  BY <1>1, <1>2, <1>5, <1>6 DEF BridgeGoal, GoodStep, IInv, Types, StreamSide, BridgeSide

LEMMA NextStep ==
  ASSUME IInv, [AnswerNext]_answerVars
  PROVE  GoodStep
<1>1. CASE UNCHANGED answerVars \/ OtherRequests
  <2>1. UNCHANGED <<vars, mounted, bridge>>
    BY <1>1 DEF answerVars, OtherRequests
  <2>2. Types'
    BY <2>1 DEF vars, bridge, IInv, Types, TypeOK, Wsgi!TypeOK
  <2>3. StreamSide'
    BY <2>1 DEF vars, bridge, IInv, StreamSide, TasksInv, OutcomeInv, Background, StreamWire,
                Protocol!Open, Protocol!Complete, Protocol!LastIs
  <2>4. BridgeSide'
    BY <2>1 DEF vars, bridge, IInv, BridgeSide, ThreadInv, BridgeWire, QueueInv, HeldInv, NextInv,
                Protocol!Open, Protocol!LastIs
  <2>5. QED
    BY <2>1, <2>2, <2>3, <2>4 DEF vars, GoodStep, IInv
<1>2. CASE Streams
  BY <1>2, StreamsStep
<1>3. CASE Bridges
  BY <1>3, BridgesStep
<1>4. QED
  BY <1>1, <1>2, <1>3 DEF AnswerNext

LEMMA InitInvariant == AnswerInit => IInv
<1>1. SUFFICES ASSUME AnswerInit PROVE IInv
  OBVIOUS
<1>2. PICK n \in 0..MaxRequests : inbox = [i \in 1..n |-> "request"]
  BY <1>1 DEF AnswerInit, Init
<1>3. TypeOK
  <2>1. inbox \in Seq({"request", "disconnect"})
    BY <1>2, BoundsAssumption
  <2>2. wire \in Seq([type : {"start", "body"}, more_body : BOOLEAN])
    BY <1>1 DEF AnswerInit, Init
  <2>3. tasks \in 0..MaxTasks /\ spec_version \in {"2.3", "2.4"}
    BY <1>1, BoundsAssumption, VersionsAssumption DEF AnswerInit, Init
  <2>4. QED
    BY <1>1, <2>1, <2>2, <2>3 DEF AnswerInit, Init, TypeOK, Errors
<1>4. Wsgi!TypeOK
  <2>1. wire = <<>> /\ <<>> \in Seq(Wsgi!Messages)
    BY <1>1 DEF AnswerInit, Init
  <2>2. Wsgi!Start \in Wsgi!Messages
    BY DEF Wsgi!Start, Wsgi!Messages
  <2>3. memory \in [messages : Seq(Wsgi!Messages), send_open : BOOLEAN, receive_open : BOOLEAN]
    BY <1>1, <2>1 DEF AnswerInit, Wsgi!Init
  <2>4. QED
    <3>1. upload \in 0..MaxUpload /\ app \in [starts : 0..MaxStarts, yields : 0..MaxYields, reported : BOOLEAN]
      BY <1>1, WSGIBoundsAssumption DEF AnswerInit, Wsgi!Init
    <3>2. sender \in [pc : {"none", "receiving", "sending", "done"}, held : Wsgi!Messages,
                      cancelled : BOOLEAN, failed : BOOLEAN]
      BY <1>1, <2>2 DEF AnswerInit, Wsgi!Init
    <3>3. QED
      BY <1>1, <2>1, <2>3, <3>1, <3>2 DEF AnswerInit, Wsgi!Init, Wsgi!TypeOK
<1>5. TasksInv
  <2>1. \A i \in DOMAIN inbox : inbox[i] = "request"
    BY <1>2
  <2>2. QED
    BY <1>1, <2>1 DEF AnswerInit, Init, TasksInv
<1>6. OutcomeInv /\ StreamWire
  BY <1>1, BoundsAssumption DEF AnswerInit, Init, OutcomeInv, Background, StreamWire
<1>7. BridgeSide
  BY <1>1 DEF AnswerInit, Wsgi!Init, BridgeSide, ThreadInv, BridgeWire, QueueInv, HeldInv, NextInv
<1>8. QED
  BY <1>1, <1>3, <1>4, <1>5, <1>6, <1>7 DEF AnswerInit, IInv, Types, StreamSide

-----------------------------------------------------------------------------
(* What __call__() tells of the thread: no chunk is lost on the way.       *)

\* Neither the thread nor the sender raised.
Sound == thread # "raised" /\ ~sender.failed

\* All that the thread has sent, wherever it is by now: with the server, with the sender or
\* in the stream.
Held == IF sender.pc = "sending" THEN <<sender.held>> ELSE <<>>
Way == (wire \o Held) \o memory.messages

\* Whatever the application yielded is on its way, and the last message once it returned.
WayInv ==
  Sound => /\ Wsgi!ChunksIn(Way) = app.yields
           /\ thread = "returned" => Way # <<>> /\ Way[Len(Way)] = Wsgi!Chunk(FALSE)

\* What the application reported is kept, and each of the three ends only behind the others.
EndsInv ==
  /\ exc_info = app.reported /\ (app.starts = 0 => ~app.reported)
  /\ sender.cancelled => thread = "raised"
  /\ sender.failed => sender.pc = "done"
  /\ caller.pc \in {"joining", "over"} \/ ~memory.send_open => thread \in {"returned", "raised"}
  /\ sender.pc = "done" /\ Sound => memory.messages = <<>> /\ thread = "returned"
  /\ caller.pc = "over" => /\ sender.pc = "done"
                           /\ caller.err = "group" <=> ~Sound
                           /\ caller.err = "none" => ~exc_info

ToldInv ==
  /\ ~mounted => caller.pc = "reading"
  /\ mounted => WayInv /\ EndsInv

LEMMA OneCardinality == \A S : Wsgi!Cardinality(S) = Cardinality(S)
BY DEF Wsgi!Cardinality, Cardinality, Wsgi!IsFiniteSet, IsFiniteSet

LEMMA ChunkCount ==
  ASSUME NEW s \in Seq(WireMessage), NEW m \in WireMessage
  PROVE  /\ Wsgi!ChunksIn(s) \in Nat
         /\ Wsgi!ChunksIn(Append(s, m)) =
              Wsgi!ChunksIn(s) + (IF m.type = "body" /\ m.more_body THEN 1 ELSE 0)
<1> DEFINE In(t) == {i \in DOMAIN t : t[i].type = "body" /\ t[i].more_body}
<1>1. /\ DOMAIN s = 1..Len(s) /\ Len(s) \in Nat
      /\ DOMAIN Append(s, m) = 1..(Len(s) + 1)
      /\ Append(s, m)[Len(s) + 1] = m
      /\ \A i \in 1..Len(s) : Append(s, m)[i] = s[i]
  BY AppendProperties
<1>2. IsFiniteSet(1..Len(s))
  BY <1>1, FS_Interval
<1>3. IsFiniteSet(In(s)) /\ Len(s) + 1 \notin In(s)
  BY <1>1, <1>2, FS_Subset
<1>4. In(Append(s, m)) = IF m.type = "body" /\ m.more_body THEN In(s) \cup {Len(s) + 1} ELSE In(s)
  <2>1. \A i \in 1..(Len(s) + 1) : i \in 1..Len(s) \/ i = Len(s) + 1
    BY <1>1
  <2>2. \A i \in 1..Len(s) : i \in 1..(Len(s) + 1) /\ i # Len(s) + 1
    BY <1>1
  <2>3. Len(s) + 1 \in 1..(Len(s) + 1)
    BY <1>1
  <2>4. QED
    BY <1>1, <2>1, <2>2, <2>3
<1>5. Cardinality(In(s)) \in Nat /\ Cardinality(In(s) \cup {Len(s) + 1}) = Cardinality(In(s)) + 1
  BY <1>3, FS_CardinalityType, FS_AddElement
<1>6. /\ Wsgi!ChunksIn(s) = Cardinality(In(s))
      /\ Wsgi!ChunksIn(Append(s, m)) = Cardinality(In(Append(s, m)))
  BY OneCardinality DEF Wsgi!ChunksIn
<1> HIDE DEF In
<1>7. QED
  <2>1. Cardinality(In(Append(s, m))) =
          Cardinality(In(s)) + (IF m.type = "body" /\ m.more_body THEN 1 ELSE 0)
    <3>1. CASE m.type = "body" /\ m.more_body
      BY <1>4, <1>5, <3>1
    <3>2. CASE ~(m.type = "body" /\ m.more_body)
      <4>1. In(Append(s, m)) = In(s)
        BY <1>4, <3>2
      <4>2. QED
        BY <4>1, <1>5, <3>2
    <3>3. QED
      BY <3>1, <3>2
  <2>2. QED
    BY <2>1, <1>5, <1>6

\* Three sequences of messages one behind the other, when a message is added, when the one
\* in the middle is passed on, and when it is taken.
LEMMA WayAdded ==
  ASSUME NEW w \in Seq(WireMessage), NEW h \in Seq(WireMessage), NEW q \in Seq(WireMessage),
         NEW m \in WireMessage
  PROVE  (w \o h) \o Append(q, m) = Append((w \o h) \o q, m)
<1>1. w \o h \in Seq(WireMessage) /\ (w \o h) \o q \in Seq(WireMessage) /\ <<m>> \in Seq(WireMessage)
  BY ConcatProperties
<1>2. Append(q, m) = q \o <<m>> /\ Append((w \o h) \o q, m) = ((w \o h) \o q) \o <<m>>
  BY <1>1, AppendIsConcat
<1>3. (w \o h) \o (q \o <<m>>) = ((w \o h) \o q) \o <<m>>
  BY <1>1, ConcatAssociative
<1>4. QED
  BY <1>2, <1>3

LEMMA WayPassed ==
  ASSUME NEW w \in Seq(WireMessage), NEW q \in Seq(WireMessage), NEW m \in WireMessage
  PROVE  (Append(w, m) \o <<>>) \o q = (w \o <<m>>) \o q
<1>1. Append(w, m) \in Seq(WireMessage) /\ Append(w, m) = w \o <<m>>
  BY AppendProperties, AppendIsConcat
<1>2. Append(w, m) \o <<>> = Append(w, m)
  BY <1>1, ConcatEmptySeq
<1>3. QED
  BY <1>1, <1>2

LEMMA WayTaken ==
  ASSUME NEW w \in Seq(WireMessage), NEW q \in Seq(WireMessage), q # <<>>
  PROVE  (w \o <<Head(q)>>) \o Tail(q) = (w \o <<>>) \o q
<1>1. Head(q) \in WireMessage /\ Tail(q) \in Seq(WireMessage) /\ <<Head(q)>> \in Seq(WireMessage)
  OBVIOUS
<1>2. <<Head(q)>> \o Tail(q) = q
  OBVIOUS
<1>3. (w \o <<Head(q)>>) \o Tail(q) = w \o (<<Head(q)>> \o Tail(q))
  BY <1>1, ConcatAssociative
<1>4. w \o <<>> = w
  BY ConcatEmptySeq
<1>5. QED
  BY <1>2, <1>3, <1>4

LEMMA WayType ==
  ASSUME Wsgi!TypeOK
  PROVE  Way \in Seq(WireMessage) /\ Held \in Seq(WireMessage)
<1>1. wire \in Seq(WireMessage) /\ memory.messages \in Seq(WireMessage) /\ sender.held \in WireMessage
  BY BridgeTypes
<1>2. Held \in Seq(WireMessage)
  BY <1>1 DEF Held
<1>3. QED
  BY <1>1, <1>2, ConcatProperties DEF Way

\* The steps of the client and of __call__().
LEMMA CallerTold ==
  ASSUME Wsgi!TypeOK, ThreadInv, WayInv, EndsInv,
         Wsgi!ClientLeaves \/ Wsgi!ReceiveMore \/ Wsgi!Run \/ Wsgi!ThreadEnded \/ Wsgi!Join
  PROVE  WayInv' /\ EndsInv'
<1>1. CASE Wsgi!ClientLeaves \/ Wsgi!ReceiveMore
  BY <1>1 DEF Wsgi!ClientLeaves, Wsgi!ReceiveMore, WayInv, EndsInv, Sound, Way, Held
<1>2. CASE Wsgi!Run
  <2>1. /\ sender' = [pc |-> "receiving", held |-> sender.held, cancelled |-> sender.cancelled,
                      failed |-> sender.failed]
        /\ caller' = [pc |-> "waiting", err |-> caller.err]
        /\ caller.pc = "reading" /\ thread' = "app"
        /\ UNCHANGED <<wire, app, exc_info, memory>>
    BY <1>2, BridgeTypes DEF Wsgi!Run
  <2>2. thread = "none" /\ sender.pc = "none"
    BY <2>1 DEF ThreadInv
  <2>3. Way' = Way /\ (Sound' <=> Sound)
    BY <2>1, <2>2 DEF Way, Held, Sound
  <2>4. WayInv'
    BY <2>1, <2>3 DEF WayInv
  <2>5. EndsInv'
    BY <2>1, <2>2, <2>3 DEF EndsInv
  <2>6. QED
    BY <2>4, <2>5
<1>3. CASE Wsgi!ThreadEnded
  <2>1. /\ sender' = [pc |-> sender.pc, held |-> sender.held, cancelled |-> (thread = "raised"),
                      failed |-> sender.failed]
        /\ memory' = [messages |-> memory.messages, send_open |-> FALSE,
                      receive_open |-> memory.receive_open]
        /\ caller' = [pc |-> "joining", err |-> caller.err]
        /\ thread \in {"returned", "raised"}
        /\ UNCHANGED <<wire, app, exc_info, thread>>
    BY <1>3, BridgeTypes DEF Wsgi!ThreadEnded, Wsgi!Ended
  <2>2. Way' = Way /\ (Sound' <=> Sound)
    BY <2>1 DEF Way, Held, Sound
  <2>3. WayInv'
    BY <2>1, <2>2 DEF WayInv
  <2>4. EndsInv'
    BY <2>1, <2>2 DEF EndsInv
  <2>5. QED
    BY <2>3, <2>4
<1>4. CASE Wsgi!Join
  <2>1. /\ caller.pc = "joining" /\ sender.pc = "done"
        /\ caller' = [pc |-> "over",
                      err |-> IF thread = "raised" \/ sender.failed THEN "group"
                              ELSE IF exc_info THEN "exc_info" ELSE "none"]
        /\ UNCHANGED <<wire, app, exc_info, thread, memory, sender>>
    BY <1>4 DEF Wsgi!Join
  <2>2. Way' = Way /\ (Sound' <=> Sound)
    BY <2>1 DEF Way, Held, Sound
  <2>3. WayInv'
    BY <2>1, <2>2 DEF WayInv
  <2>4. /\ caller'.pc = "over" /\ (caller'.err = "group" <=> ~Sound)
        /\ caller'.err = "none" => ~exc_info
    BY <2>1 DEF Sound
  <2>5. EndsInv'
    BY <2>1, <2>2, <2>4 DEF EndsInv
  <2>6. QED
    BY <2>3, <2>5
<1>5. QED
  BY <1>1, <1>2, <1>3, <1>4

\* The thread sends one message more.
LEMMA WayPosts ==
  ASSUME Wsgi!TypeOK, NEW m \in WireMessage, Wsgi!Posts(m), UNCHANGED <<wire, sender>>
  PROVE  /\ Way' = Append(Way, m) /\ Way \in Seq(WireMessage)
         /\ memory'.send_open = memory.send_open /\ memory.receive_open
<1>1. memory'.messages = Append(memory.messages, m) /\ memory'.send_open = memory.send_open
      /\ memory.receive_open
  BY BridgeTypes DEF Wsgi!Posts
<1>2. Held' = Held
  BY DEF Held
<1>3. wire \in Seq(WireMessage) /\ memory.messages \in Seq(WireMessage)
  BY BridgeTypes
<1>4. (wire \o Held) \o Append(memory.messages, m) = Append((wire \o Held) \o memory.messages, m)
  <2>1. Held \in Seq(WireMessage)
    BY WayType
  <2>2. QED
    BY <1>3, <2>1, WayAdded, Zenon
<1>5. QED
  BY <1>1, <1>2, <1>4, WayType DEF Way

\* The steps of the thread.
LEMMA AppTold ==
  ASSUME Wsgi!TypeOK, ThreadInv, WayInv, EndsInv, Wsgi!App
  PROVE  WayInv' /\ EndsInv'
<1>1. thread = "app"
  BY DEF Wsgi!App, Wsgi!StartResponse, Wsgi!AppStarts, Wsgi!Yield, Wsgi!Return, Wsgi!AppRaises
<1>2. ASSUME NEW given \in BOOLEAN, Wsgi!StartResponse(given) PROVE WayInv' /\ EndsInv'
  <2>1. /\ app' = [starts |-> app.starts + 1, yields |-> app.yields,
                   reported |-> app.reported \/ given]
        /\ app.starts \in Nat /\ app.reported \in BOOLEAN
        /\ app.starts > 0 => given
        /\ exc_info' = given
        /\ UNCHANGED <<wire, caller, thread, sender>>
    <3>1. /\ app' = [app EXCEPT !.starts = @ + 1, !.reported = @ \/ given]
          /\ app.starts > 0 => given
          /\ exc_info' = given
          /\ UNCHANGED <<wire, caller, thread, sender>>
      BY <1>2 DEF Wsgi!StartResponse, Wsgi!AppStarts
    <3>2. /\ app = [starts |-> app.starts, yields |-> app.yields, reported |-> app.reported]
          /\ app.starts \in Nat /\ app.reported \in BOOLEAN
      BY BridgeTypes
    <3>3. app' = [starts |-> app.starts + 1, yields |-> app.yields,
                  reported |-> app.reported \/ given]
      BY <3>1, <3>2
    <3>4. QED
      BY <3>1, <3>2, <3>3
  <2>2. exc_info' = app'.reported /\ app'.starts # 0
    <3>1. app.starts = 0 => ~app.reported
      BY DEF EndsInv
    <3>2. CASE app.starts = 0
      <4>1. app'.reported = (app.reported \/ given) /\ app'.starts = app.starts + 1
        BY <2>1
      <4>2. QED
        BY <2>1, <3>1, <3>2, <4>1
    <3>3. CASE app.starts # 0
      <4>1. given
        BY <2>1, <3>3
      <4>2. app'.reported = (app.reported \/ given) /\ app'.starts = app.starts + 1
        BY <2>1
      <4>3. (app.reported \/ given) = TRUE /\ given = TRUE
        BY <4>1, <1>2
      <4>4. app'.reported = TRUE /\ exc_info' = TRUE
        BY <2>1, <4>2, <4>3
      <4>5. app'.starts # 0
        BY <2>1, <4>2
      <4>6. QED
        BY <4>4, <4>5
    <3>4. QED
      BY <3>2, <3>3
  <2>3. Sound' <=> Sound
    BY <2>1 DEF Sound
  <2>4. CASE memory' = memory
    <3>1. Way' = Way
      BY <2>1, <2>4 DEF Way, Held
    <3>2. WayInv' /\ EndsInv'
      BY <1>1, <2>1, <2>2, <2>3, <2>4, <3>1 DEF WayInv, EndsInv
    <3>3. QED
      BY <3>2
  <2>5. CASE Wsgi!Posts(Wsgi!Start)
    <3>1. Wsgi!Start \in WireMessage /\ Wsgi!Start.type = "start"
      BY MessageTypes DEF Wsgi!Start
    <3>2. /\ Way' = Append(Way, Wsgi!Start) /\ Way \in Seq(WireMessage)
          /\ memory'.send_open = memory.send_open /\ memory.receive_open
      BY <2>1, <2>5, <3>1, WayPosts
    <3>3. Wsgi!ChunksIn(Way') = Wsgi!ChunksIn(Way)
      BY <3>1, <3>2, ChunkCount
    <3>4. WayInv'
      BY <1>1, <2>1, <2>3, <3>3 DEF WayInv, Wsgi!ChunksIn
    <3>5. sender.pc # "done"
      BY <3>2 DEF ThreadInv
    <3>6. EndsInv'
      BY <1>1, <2>1, <2>2, <2>3, <3>2, <3>5 DEF EndsInv
    <3>7. QED
      BY <3>4, <3>6
  <2>6. QED
    BY <1>2, <2>4, <2>5 DEF Wsgi!StartResponse
\* The thread ends on an error: that the request was not answered is told.
<1>3. ASSUME thread' = "raised", UNCHANGED <<wire, caller, exc_info, sender, memory>>,
             app'.starts = app.starts, app'.reported = app.reported
      PROVE  WayInv' /\ EndsInv'
  <2>1. ~Sound'
    BY <1>3 DEF Sound
  <2>2. caller.pc # "over"
    BY <1>1 DEF EndsInv
  <2>3. WayInv'
    BY <2>1 DEF WayInv
  <2>4. EndsInv'
    BY <1>1, <1>3, <2>1, <2>2 DEF EndsInv
  <2>5. QED
    BY <2>3, <2>4
<1>4. ASSUME NEW more \in BOOLEAN, Wsgi!Posts(Wsgi!Chunk(more)),
             UNCHANGED <<wire, caller, exc_info, sender>>,
             thread' = IF more THEN "app" ELSE "returned",
             app'.yields = app.yields + (IF more THEN 1 ELSE 0),
             app'.starts = app.starts, app'.reported = app.reported
      PROVE  WayInv' /\ EndsInv'
  <2>1. /\ Wsgi!Chunk(more) \in WireMessage /\ Wsgi!Chunk(more).type = "body"
        /\ Wsgi!Chunk(more).more_body = more
    BY MessageTypes DEF Wsgi!Chunk
  <2>2. /\ Way' = Append(Way, Wsgi!Chunk(more)) /\ Way \in Seq(WireMessage)
        /\ memory'.send_open = memory.send_open /\ memory.receive_open
    BY <1>4, <2>1, WayPosts
  <2>3. Wsgi!ChunksIn(Way') = Wsgi!ChunksIn(Way) + (IF more THEN 1 ELSE 0)
    BY <2>1, <2>2, ChunkCount
  <2>4. Sound' <=> Sound
    BY <1>1, <1>4 DEF Sound
  <2>5. WayInv'
    <3>1. SUFFICES ASSUME Sound
                   PROVE  /\ Wsgi!ChunksIn(Way') = app'.yields
                          /\ thread' = "returned" => Way' # <<>> /\ Way'[Len(Way')] = Wsgi!Chunk(FALSE)
      BY <2>4 DEF WayInv, Wsgi!ChunksIn, Wsgi!Chunk
    <3>2. Wsgi!ChunksIn(Way) = app.yields
      BY <3>1 DEF WayInv
    <3>3. Wsgi!ChunksIn(Way') = app'.yields
      BY <1>4, <2>3, <3>2
    <3>4. thread' = "returned" => ~more
      BY <1>4
    <3>5. Way' # <<>> /\ Way'[Len(Way')] = Wsgi!Chunk(more)
      BY <2>1, <2>2, AppendProperties
    <3>6. more = FALSE \/ more
      BY <1>4
    <3>7. QED
      BY <3>3, <3>4, <3>5, <3>6
  <2>6. sender.pc # "done" /\ caller.pc # "over"
    BY <1>1, <2>2 DEF ThreadInv, EndsInv
  <2>7. EndsInv'
    BY <1>1, <1>4, <2>2, <2>4, <2>6 DEF EndsInv
  <2>8. QED
    BY <2>5, <2>7
<1>5. ASSUME Wsgi!Yield PROVE WayInv' /\ EndsInv'
  <2>1. app'.yields = app.yields + 1 /\ app'.starts = app.starts /\ app'.reported = app.reported
    BY <1>5, BridgeTypes DEF Wsgi!Yield
  <2>2. UNCHANGED <<wire, caller, exc_info, sender>>
    BY <1>5 DEF Wsgi!Yield
  <2>3. \/ Wsgi!Posts(Wsgi!Chunk(TRUE)) /\ thread' = "app"
        \/ thread' = "raised" /\ memory' = memory
    BY <1>1, <1>5 DEF Wsgi!Yield
  <2>4. QED
    BY <1>3, <1>4, <2>1, <2>2, <2>3
<1>6. ASSUME Wsgi!Return PROVE WayInv' /\ EndsInv'
  <2>1. app'.yields = app.yields + 0 /\ app'.starts = app.starts /\ app'.reported = app.reported
    BY <1>6, BridgeTypes DEF Wsgi!Return
  <2>2. UNCHANGED <<wire, caller, exc_info, sender>>
    BY <1>6 DEF Wsgi!Return
  <2>3. \/ Wsgi!Posts(Wsgi!Chunk(FALSE)) /\ thread' = "returned"
        \/ thread' = "raised" /\ memory' = memory
    BY <1>6 DEF Wsgi!Return
  <2>4. QED
    BY <1>3, <1>4, <2>1, <2>2, <2>3
<1>7. ASSUME Wsgi!AppRaises PROVE WayInv' /\ EndsInv'
  BY <1>3, <1>7 DEF Wsgi!AppRaises
<1>8. QED
  BY <1>2, <1>5, <1>6, <1>7 DEF Wsgi!App

\* The steps of the sender: a message that it passes on stays on the way.
LEMMA SenderTold ==
  ASSUME Wsgi!TypeOK, ThreadInv, WayInv, EndsInv, Wsgi!Take \/ Wsgi!Send \/ Wsgi!SenderEnds
  PROVE  WayInv' /\ EndsInv'
<1>1. wire \in Seq(WireMessage) /\ memory.messages \in Seq(WireMessage) /\ sender.held \in WireMessage
  BY BridgeTypes
<1>2. ASSUME Way' = Way, sender'.pc \in {"receiving", "sending"}, sender.pc # "done",
             sender'.failed = sender.failed, sender'.cancelled = sender.cancelled,
             memory'.send_open = memory.send_open,
             UNCHANGED <<caller, thread, app, exc_info>>
      PROVE  WayInv' /\ EndsInv'
  <2>1. Sound' <=> Sound
    BY <1>2 DEF Sound
  <2>2. WayInv'
    BY <1>2, <2>1 DEF WayInv
  <2>3. EndsInv'
    BY <1>2, <2>1 DEF EndsInv
  <2>4. QED
    BY <2>2, <2>3
<1>3. CASE Wsgi!Take
  <2>1. /\ memory.messages # <<>> /\ memory'.messages = Tail(memory.messages)
        /\ memory'.send_open = memory.send_open
        /\ sender.pc = "receiving" /\ sender'.pc = "sending"
        /\ sender'.held = Head(memory.messages)
        /\ sender'.failed = sender.failed /\ sender'.cancelled = sender.cancelled
        /\ UNCHANGED <<wire, caller, thread, app, exc_info>>
    BY <1>3, BridgeTypes DEF Wsgi!Take
  <2>2. Held = <<>> /\ Held' = <<Head(memory.messages)>>
    BY <2>1 DEF Held
  <2>3. (wire \o <<Head(memory.messages)>>) \o Tail(memory.messages) = (wire \o <<>>) \o memory.messages
    BY <1>1, <2>1, WayTaken
  <2>4. Way' = Way
    BY <2>1, <2>2, <2>3 DEF Way
  <2>5. QED
    BY <1>2, <2>1, <2>4
<1>4. ASSUME NEW failed \in BOOLEAN, Wsgi!Leaves(failed), sender.pc \in {"receiving", "sending"},
             UNCHANGED <<wire, caller, thread, app, exc_info>>,
             \/ failed
             \/ sender.cancelled
             \/ sender.pc = "receiving" /\ memory.messages = <<>> /\ ~memory.send_open
      PROVE  WayInv' /\ EndsInv'
  <2>1. /\ sender'.pc = "done" /\ sender'.failed = failed /\ sender'.cancelled = sender.cancelled
        /\ memory'.messages = memory.messages /\ memory'.send_open = memory.send_open
    BY <1>4, BridgeTypes DEF Wsgi!Leaves
  <2>2. caller.pc # "over"
    BY <1>4 DEF EndsInv
  <2>3. CASE failed \/ sender.cancelled
    <3>1. ~Sound'
      BY <1>4, <2>1, <2>3 DEF EndsInv, Sound
    <3>2. WayInv' /\ EndsInv'
      BY <1>4, <2>1, <2>2, <3>1 DEF WayInv, EndsInv
    <3>3. QED
      BY <3>2
  <2>4. CASE ~failed /\ sender.pc = "receiving" /\ memory.messages = <<>> /\ ~memory.send_open
    <3>1. Way' = Way
      BY <1>4, <2>1, <2>4 DEF Way, Held
    <3>2. thread \in {"returned", "raised"}
      BY <2>4 DEF EndsInv
    <3>3. CASE ~Sound'
      BY <1>4, <2>1, <2>2, <3>3 DEF WayInv, EndsInv
    <3>4. CASE Sound'
      <4>1. thread = "returned"
        BY <1>4, <3>2, <3>4 DEF Sound
      <4>2. CASE Sound
        BY <1>4, <2>1, <2>2, <2>4, <3>1, <4>1, <4>2 DEF WayInv, EndsInv
      <4>3. Sound
        BY <1>4, <4>1 DEF Sound, EndsInv
      <4>4. QED
        BY <4>2, <4>3
    <3>5. QED
      BY <3>3, <3>4
  <2>5. QED
    BY <1>4, <2>3, <2>4
<1>5. CASE Wsgi!Send
  <2>1. CASE wire' = Append(wire, sender.held) /\ sender' = [sender EXCEPT !.pc = "receiving"]
             /\ memory' = memory
    <3>1. /\ sender'.pc = "receiving" /\ sender'.failed = sender.failed
          /\ sender'.cancelled = sender.cancelled
          /\ sender.pc = "sending" /\ UNCHANGED <<caller, thread, app, exc_info>>
      BY <1>5, <2>1, BridgeTypes DEF Wsgi!Send
    <3>2. Held = <<sender.held>> /\ Held' = <<>>
      BY <3>1 DEF Held
    <3>3. (Append(wire, sender.held) \o <<>>) \o memory.messages =
            (wire \o <<sender.held>>) \o memory.messages
      BY <1>1, WayPassed
    <3>4. Way' = Way
      BY <2>1, <3>2, <3>3 DEF Way
    <3>5. QED
      BY <1>2, <2>1, <3>1, <3>4
  <2>2. CASE Wsgi!Leaves(TRUE) /\ wire' = wire
    BY <1>4, <1>5, <2>2 DEF Wsgi!Send
  <2>3. QED
    BY <1>5, <2>1, <2>2 DEF Wsgi!Send
<1>6. CASE Wsgi!SenderEnds
  BY <1>4, <1>6 DEF Wsgi!SenderEnds
<1>7. QED
  BY <1>3, <1>5, <1>6

LEMMA ToldStep ==
  ASSUME IInv, ToldInv, [AnswerNext]_answerVars
  PROVE  ToldInv'
<1>1. CASE Bridges
  <2>1. mounted /\ mounted' = mounted /\ Wsgi!TypeOK /\ ThreadInv /\ WayInv /\ EndsInv
    BY <1>1 DEF Bridges, IInv, Types, BridgeSide, ToldInv
  <2>2. WayInv' /\ EndsInv'
    BY <1>1, <2>1, CallerTold, AppTold, SenderTold DEF Bridges, Wsgi!Next, Wsgi!Task
  <2>3. QED
    BY <2>1, <2>2 DEF ToldInv
<1>2. CASE Streams
  <2>1. ~mounted /\ mounted' = mounted /\ caller' = caller
    BY <1>2 DEF Streams, bridge
  <2>2. QED
    BY <2>1 DEF ToldInv
<1>3. CASE UNCHANGED <<vars, mounted, bridge>>
  BY <1>3 DEF vars, bridge, ToldInv, WayInv, EndsInv, Sound, Way, Held, Wsgi!ChunksIn
<1>4. QED
  BY <1>1, <1>2, <1>3 DEF AnswerNext, answerVars, OtherRequests

LEMMA ToldInit == AnswerInit => ToldInv
<1>1. SUFFICES ASSUME AnswerInit PROVE ToldInv
  OBVIOUS
<1>2. /\ wire = <<>> /\ memory.messages = <<>> /\ memory.send_open
      /\ thread = "none" /\ sender.pc = "none" /\ ~sender.cancelled /\ ~sender.failed
      /\ caller = [pc |-> "reading", err |-> "none"]
      /\ app.yields = 0 /\ app.reported = FALSE /\ exc_info = FALSE
  BY <1>1 DEF AnswerInit, Wsgi!Init
<1>3. Way = <<>>
  BY <1>2 DEF Way, Held
<1>4. {i \in DOMAIN Way : Way[i].type = "body" /\ Way[i].more_body} = {}
  BY <1>3
<1>5. Wsgi!ChunksIn(Way) = 0
  BY <1>4, OneCardinality, FS_EmptySet DEF Wsgi!ChunksIn
<1>6. WayInv /\ EndsInv
  BY <1>2, <1>5 DEF WayInv, EndsInv
<1>7. QED
  BY <1>2, <1>6 DEF ToldInv

-----------------------------------------------------------------------------
(* Theorems.                                                               *)

\* The inductive invariant: where the stream, the thread and the sender are always tells
\* what the server may be sent next.
THEOREM Invariant == AnswerSpec => []IInv
<1>1. IInv /\ [AnswerNext]_answerVars => IInv'
  BY NextStep DEF GoodStep
<1>2. QED
  BY <1>1, InitInvariant, PTL DEF AnswerSpec

\* The step of the protocol is the same for the two that instantiate it.
LEMMA OneProtocol == Protocol!Next => Wsgi!Protocol!Next
BY DEF Protocol!Next, Protocol!SendDebug, Protocol!SendStart, Protocol!SendBody, Protocol!Sends,
       Protocol!Open, Protocol!LastIs,
       Wsgi!Protocol!Next, Wsgi!Protocol!SendDebug, Wsgi!Protocol!SendStart,
       Wsgi!Protocol!SendBody, Wsgi!Protocol!Sends, Wsgi!Protocol!Open, Wsgi!Protocol!LastIs

\* stream_response(), and wsgi() with its sender, send one response in order, wherever the
\* client leaves, the application raises or a task is cancelled, for a response of any length.
THEOREM Refinement == AnswerSpec => AnswerInOrder
<1>1. AnswerInit => Protocol!Init
  BY DEF AnswerInit, Init, Protocol!Init
<1>2. IInv /\ [AnswerNext]_answerVars => [~refused' => Wsgi!Protocol!Next]_wire
  BY NextStep, OneProtocol DEF GoodStep
<1>3. QED
  BY <1>1, <1>2, Invariant, PTL DEF AnswerSpec, AnswerInOrder, Wsgi!ThreadInOrder

\* Background tasks run behind a stream that has ended, in full or because the client has
\* gone, never beside its iterator; an error of the iterator leaves __call__, and no
\* background task runs.
THEOREM Behind == AnswerSpec => []AfterTheStream
<1>1. IInv => AfterTheStream
  <2>1. SUFFICES ASSUME IInv PROVE AfterTheStream
    OBVIOUS
  <2>2. TypeOK /\ TasksInv /\ OutcomeInv /\ StreamWire
    BY <2>1 DEF IInv, Types, StreamSide
  <2>3. tasks \in 0..MaxTasks /\ MaxTasks \in Nat
    BY <2>2, StreamTypes
  <2>4. BackgroundAfterStream
    BY <2>1, <2>2 DEF BackgroundAfterStream, TasksInv, OutcomeInv, StreamWire
  <2>5. ErrorIsRaised
    BY <2>2, <2>3 DEF ErrorIsRaised, OutcomeInv, Background
  <2>6. QED
    BY <2>2, <2>4, <2>5 DEF AfterTheStream
<1>2. QED
  BY <1>1, Invariant, PTL

\* No error of a WSGI application is lost and no chunk of it: __call__ comes back without an
\* error only when the server has every chunk and the last message, the application reported
\* nothing, and its thread has ended, wherever the client leaves or the application raises.
THEOREM Told == AnswerSpec => []ThreadTold
<1>1. IInv /\ ToldInv /\ [AnswerNext]_answerVars => ToldInv'
  BY ToldStep
<1>2. IInv /\ ToldInv => ThreadTold
  <2>1. SUFFICES ASSUME IInv, ToldInv PROVE ThreadTold
    OBVIOUS
  <2>2. Wsgi!TypeOK
    BY <2>1 DEF IInv, Types
  <2>3. SUFFICES ASSUME caller.pc = "over"
                 PROVE  /\ Wsgi!Ended
                        /\ caller.err # "group" =>
                             Wsgi!ChunksIn(wire) = app.yields /\ Wsgi!Protocol!Complete
                        /\ caller.err = "none" => ~app.reported
    BY <2>2 DEF ThreadTold, Wsgi!ThreadTold
  <2>4. WayInv /\ EndsInv
    BY <2>1, <2>3 DEF ToldInv
  <2>5. Wsgi!Ended /\ (caller.err = "none" => ~app.reported)
    BY <2>3, <2>4 DEF EndsInv, Wsgi!Ended
  <2>6. ASSUME caller.err # "group"
        PROVE  Wsgi!ChunksIn(wire) = app.yields /\ Wsgi!Protocol!Complete
    <3>1. Sound /\ sender.pc = "done" /\ memory.messages = <<>> /\ thread = "returned"
      BY <2>3, <2>4, <2>6 DEF EndsInv
    <3>2. Held = <<>>
      BY <3>1 DEF Held
    <3>3. Way = wire
      <4>1. wire \in Seq(WireMessage) /\ memory.messages \in Seq(WireMessage)
            /\ sender.held \in WireMessage
        BY <2>2, BridgeTypes
      <4>2. (wire \o <<>>) \o <<>> = wire
        BY <4>1, ConcatEmptySeq
      <4>3. QED
        BY <3>1, <3>2, <4>2 DEF Way
    <3>4. wire # <<>> /\ wire[Len(wire)] = Wsgi!Chunk(FALSE) /\ Wsgi!ChunksIn(wire) = app.yields
      BY <2>4, <3>1, <3>3 DEF WayInv
    <3>5. wire[Len(wire)].type = "body" /\ ~wire[Len(wire)].more_body
      BY <3>4 DEF Wsgi!Chunk
    <3>6. Wsgi!Protocol!Complete
      BY <3>4, <3>5 DEF Wsgi!Protocol!Complete, Wsgi!Protocol!LastIs
    <3>7. QED
      BY <3>4, <3>6
  <2>7. QED
    BY <2>5, <2>6
<1>3. QED
  BY <1>1, <1>2, ToldInit, Invariant, PTL DEF AnswerSpec

=============================================================================
