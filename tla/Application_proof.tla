---------------------------- MODULE Application_proof ----------------------------
(***************************************************************************)
(* Theorems about all that a TestClient does with an application, for any  *)
(* number of handlers, of calls and of messages, and any routers: each     *)
(* step of Application is one of its lifespan, of a request or of a        *)
(* session, and each of these keeps an invariant of its own.               *)
(***************************************************************************)
EXTENDS Application, SequenceTheorems, FiniteSetTheorems, WellFoundedInduction, TLAPS

-----------------------------------------------------------------------------
(* The lifespan: whatever is raised at whatever point, the server is told  *)
(* of each half once, the context is left if it was entered, and the       *)
(* client raises the error, and no other.                                  *)

\* The points of lifespan() before its last message.
Before == {"begin", "entering", "entered", "complete", "serving", "leaving", "failed", "done"}
Behind == {"raises", "over"}

\* Where the context is, and what has been raised, at each point of lifespan().
ContextInv ==
  /\ pc \in {"begin", "entering"} => context.phase = "out"
  /\ pc \in {"entered", "complete", "serving", "leaving"} => context.phase = "in"
  /\ pc = "done" => context.phase = "left"
  /\ pc \in {"failed", "raises", "over"} => context.phase # "in"
  /\ context.swallowed => pc \in {"done", "raises", "over"}
  /\ pc \in {"begin", "entering", "entered", "complete"} => ~started
  /\ pc = "serving" => started
  /\ pc \in {"begin", "entering", "entered", "complete", "serving", "done"} => exc = "none"
  /\ pc = "leaving" => (exc = "none" <=> started)
  /\ pc = "failed" => exc # "none"
  /\ pc \in {"done", "raises", "over"} /\ exc = "none" => started \/ context.swallowed

\* The handlers that were called.
CallsInv ==
  /\ context.kind = "handlers" /\ context.phase # "out" => calls.startup = MaxHandlers
  /\ context.kind = "manager" => calls.shutdown = 0
  /\ context.phase = "out" \/ pc \in {"entered", "complete", "serving"} => calls.shutdown = 0

\* The last message says what was raised, in which half.
LastWord == IF exc = "none" THEN "shutdown.complete"
        ELSE IF started THEN "shutdown.failed" ELSE "startup.failed"

SentInv ==
  /\ pc \in Before => sent = IF started THEN <<"startup.complete">> ELSE <<>>
  /\ pc \in Behind => sent = IF started THEN <<"startup.complete", LastWord>> ELSE <<LastWord>>

\* The messages that the client has yet to receive.
OutboxInv ==
  /\ client \in {"outside", "inside"} => outbox = <<>>
  /\ client = "startup" /\ started => outbox = <<"startup.complete">>
  /\ client = "shutdown" \/ (client = "startup" /\ ~started) =>
       /\ pc \in Before => outbox = <<>>
       /\ pc = "raises" => outbox = <<LastWord>>
       /\ pc = "over" => outbox = <<LastWord, "None">>
  /\ client \in {"startupFailed", "shutdownFailed"} =>
       outbox = IF pc = "over" THEN <<"None">> ELSE <<>>

\* Where the client is when lifespan() is at some point.
ClientInv ==
  /\ client = "outside" => pc = "begin" /\ inbox = <<>>
  /\ client = "startup" => /\ inbox = IF pc = "begin" THEN <<"startup">> ELSE <<>>
                           /\ started => pc = "serving"
  /\ client = "inside" => pc = "serving" /\ inbox = <<>>
  /\ client = "shutdown" => /\ started
                            /\ inbox = IF pc = "serving" THEN <<"shutdown">> ELSE <<>>
  /\ client \in {"startupFailed", "shutdownFailed"} => pc \in Behind /\ exc # "none"
  /\ client = "left" => pc \in Behind /\ exc = "none"
  /\ client = "raised" => pc = "over" /\ exc # "none"
  /\ client = "assertion" => pc \in Behind /\ context.swallowed
  /\ client # "blocked"

TaskInv == task = IF pc = "over" THEN exc ELSE "running"

LifespanInv == TypeOK /\ ContextInv /\ CallsInv /\ SentInv /\ OutboxInv /\ ClientInv /\ TaskInv

-----------------------------------------------------------------------------
(* Lemmas: short sequences, and the types of what the steps assign.        *)

LEMMA AppendToOne ==
  ASSUME NEW S, NEW a \in S, NEW b \in S
  PROVE  Append(<<a>>, b) = <<a, b>>
<1> DEFINE s == Append(<<a>>, b)
           t == <<a, b>>
<1>1. /\ s \in Seq(S) /\ Len(s) = 2 /\ s[1] = a /\ s[2] = b
      /\ t \in Seq(S) /\ Len(t) = 2 /\ t[1] = a /\ t[2] = b
  OBVIOUS
<1>2. \A i \in 1..Len(s) : s[i] = t[i]
  BY <1>1
<1> HIDE DEF s, t
<1>3. s = t
  BY <1>1, <1>2, SeqEqual
<1>4. QED
  BY <1>3 DEF s, t

Message == Outgoing \union {"None", "startup", "shutdown"}

LEMMA Tuples ==
  /\ \A a \in Message : Append(<<>>, a) = <<a>> /\ Head(<<a>>) = a /\ Tail(<<a>>) = <<>>
  /\ \A a, b \in Message : Append(<<a>>, b) = <<a, b>> /\ Head(<<a, b>>) = a
                           /\ Tail(<<a, b>>) = <<b>>
<1>1. \A a : Append(<<>>, a) = <<a>>
  OBVIOUS
<1>2. \A a : Head(<<a>>) = a /\ Tail(<<a>>) = <<>>
  OBVIOUS
<1>3. \A a, b : Head(<<a, b>>) = a /\ Tail(<<a, b>>) = <<b>>
  OBVIOUS
<1>4. \A a, b \in Message : Append(<<a>>, b) = <<a, b>>
  BY AppendToOne
<1>5. QED
  BY <1>1, <1>2, <1>3, <1>4

LEMMA Types ==
  ASSUME TypeOK
  PROVE  /\ context = [kind |-> context.kind, phase |-> context.phase, swallowed |-> context.swallowed]
         /\ context.kind \in Contexts /\ context.kind \in {"handlers", "manager"}
         /\ context.phase \in {"out", "in", "left"} /\ context.swallowed \in BOOLEAN
         /\ calls = [startup |-> calls.startup, shutdown |-> calls.shutdown]
         /\ calls.startup \in 0..MaxHandlers /\ calls.shutdown \in 0..MaxHandlers
         /\ started \in BOOLEAN /\ state \in BOOLEAN /\ supports \in BOOLEAN
         /\ exc \in Errors /\ pc \in Before \union Behind /\ client \in Clients
         /\ inbox \in Seq({"startup", "shutdown"})
         /\ outbox \in Seq(Outgoing \union {"None"}) /\ sent \in Seq(Outgoing)
         /\ MaxHandlers \in Nat
BY ContextsAssumption, StateAssumption, MaxHandlersAssumption DEF TypeOK, Before, Behind

-----------------------------------------------------------------------------
(* The steps of lifespan().                                                *)

\* What a step that takes or sends no message of the client preserves of the rest.
Meeting == SentInv /\ OutboxInv /\ ClientInv

\* Steps inside of the context or on the way into it: no message is received or sent.
LEMMA QuietStep ==
  ASSUME LifespanInv, UNCHANGED <<inbox, outbox, sent, task, client, started>>,
         pc \in {"entering", "entered", "leaving"},
         pc' \in {"entering", "entered", "complete", "leaving", "failed", "done"}
  PROVE  Meeting' /\ TaskInv'
<1>1. pc \in Before /\ pc' \in Before /\ pc # "over" /\ pc' # "over" /\ pc \notin Behind
  BY DEF Before, Behind
<1>2. SentInv /\ OutboxInv /\ ClientInv /\ TaskInv
  BY DEF LifespanInv
<1>3. client \in {"startup", "shutdown"}
  <2>1. client \in Clients
    BY Types DEF LifespanInv
  <2>2. QED
    BY <1>1, <1>2, <2>1 DEF ClientInv, Clients
<1>4. TaskInv' /\ SentInv'
  BY <1>1, <1>2 DEF TaskInv, SentInv, Behind
<1>5. ~(client = "startup" /\ started)
  BY <1>1, <1>2 DEF ClientInv
<1>6. OutboxInv'
  BY <1>1, <1>2, <1>3, <1>5 DEF OutboxInv
<1>7. ClientInv'
  BY <1>1, <1>2, <1>3, <1>5 DEF ClientInv
<1>8. QED
  BY <1>4, <1>6, <1>7 DEF Meeting

LEMMA EnterStep ==
  ASSUME LifespanInv, (\E b \in BOOLEAN : CallStartup(b) \/ TakeState(b)) \/ EnterHandlers
  PROVE  LifespanInv'
<1>1. TypeOK /\ ContextInv /\ CallsInv
  BY DEF LifespanInv
<1>2. ASSUME NEW b \in BOOLEAN, CallStartup(b) PROVE LifespanInv'
  <2>1. /\ pc = "entering" /\ pc' \in {"entering", "entered", "failed"}
        /\ calls' = [startup |-> calls'.startup, shutdown |-> calls.shutdown]
        /\ calls'.startup \in 0..MaxHandlers
        /\ context.kind = "handlers" => calls.startup < MaxHandlers
        /\ UNCHANGED <<supports, started, state, inbox, outbox, sent, task, client>>
    <3>1. /\ pc = "entering" /\ pc' \in {"entering", "entered", "failed"}
          /\ context.kind = "handlers" => calls.startup < MaxHandlers
          /\ UNCHANGED <<supports, started, state, inbox, outbox, sent, task, client>>
      BY <1>2 DEF CallStartup, Fails
    <3>2. calls' = IF context.kind = "handlers" THEN [calls EXCEPT !.startup = @ + 1] ELSE calls
      BY <1>2 DEF CallStartup
    <3>3. /\ calls = [startup |-> calls.startup, shutdown |-> calls.shutdown]
          /\ calls.startup \in 0..MaxHandlers /\ calls.shutdown \in 0..MaxHandlers
          /\ MaxHandlers \in Nat
      BY <1>1, Types
    <3>4. CASE context.kind = "handlers"
      BY <3>1, <3>2, <3>3, <3>4
    <3>5. CASE context.kind # "handlers"
      <4>1. calls' = calls
        BY <3>2, <3>5
      <4>2. QED
        BY <3>1, <3>3, <3>5, <4>1
    <3>6. QED
      BY <3>4, <3>5
  <2>2. /\ context' = [kind |-> context.kind, phase |-> context'.phase, swallowed |-> context.swallowed]
        /\ context'.phase = IF pc' = "entered" THEN "in" ELSE "out"
        /\ pc' = "entered" => context.kind = "manager"
        /\ exc' = IF pc' = "failed" THEN "user" ELSE exc
        /\ exc' \in Errors
    BY <1>1, <1>2, <2>1, Types DEF CallStartup, Fails, ContextInv, Errors
  <2>3. TypeOK'
    BY <1>1, <2>1, <2>2, Types DEF TypeOK
  <2>4. ContextInv'
    BY <1>1, <2>1, <2>2, Types DEF ContextInv
  <2>5. CallsInv'
    BY <1>1, <2>1, <2>2, Types DEF CallsInv, ContextInv
  <2>6. QED
    BY <2>1, <2>3, <2>4, <2>5, QuietStep DEF Meeting, LifespanInv
<1>3. ASSUME NEW b \in BOOLEAN, TakeState(b) PROVE LifespanInv'
  <2>1. /\ pc = "entered" /\ pc' \in {"leaving", "complete"}
        /\ exc' = IF pc' = "leaving" THEN "state" ELSE exc
        /\ state' \in BOOLEAN /\ exc' \in Errors
        /\ UNCHANGED <<context, supports, started, calls, inbox, outbox, sent, task, client>>
    BY <1>1, <1>3, Types DEF TakeState, Errors
  <2>2. TypeOK'
    BY <1>1, <2>1, Types DEF TypeOK
  <2>3. ContextInv' /\ CallsInv'
    BY <1>1, <2>1, Types DEF ContextInv, CallsInv
  <2>4. QED
    BY <2>1, <2>2, <2>3, QuietStep DEF Meeting, LifespanInv
<1>4. ASSUME EnterHandlers PROVE LifespanInv'
  <2>1. /\ pc = "entering" /\ pc' = "entered"
        /\ context' = [kind |-> context.kind, phase |-> "in", swallowed |-> context.swallowed]
        /\ context.kind = "handlers" /\ calls.startup = MaxHandlers
        /\ UNCHANGED <<supports, started, calls, exc, state, inbox, outbox, sent, task, client>>
    BY <1>1, <1>4, Types DEF EnterHandlers
  <2>2. TypeOK'
    BY <1>1, <2>1, Types DEF TypeOK
  <2>3. ContextInv' /\ CallsInv'
    BY <1>1, <2>1, Types DEF ContextInv, CallsInv
  <2>4. QED
    BY <2>1, <2>2, <2>3, QuietStep DEF Meeting, LifespanInv
<1>5. QED
  BY <1>2, <1>3, <1>4

LEMMA LeaveStep ==
  ASSUME LifespanInv, \E b \in BOOLEAN : CallShutdown(b) \/ Leave(b)
  PROVE  LifespanInv'
<1>1. TypeOK /\ ContextInv /\ CallsInv
  BY DEF LifespanInv
<1>2. ASSUME NEW b \in BOOLEAN, CallShutdown(b) PROVE LifespanInv'
  <2>1. /\ pc = "leaving" /\ pc' \in {"leaving", "failed"}
        /\ calls' = [startup |-> calls.startup, shutdown |-> calls'.shutdown]
        /\ calls'.shutdown \in 0..MaxHandlers
        /\ context.kind = "manager" => calls'.shutdown = calls.shutdown
        /\ UNCHANGED <<supports, started, state, inbox, outbox, sent, task, client>>
    BY <1>1, <1>2, Types DEF CallShutdown, Fails
  <2>2. /\ context' = [kind |-> context.kind, phase |-> context'.phase, swallowed |-> context.swallowed]
        /\ context'.phase = IF pc' = "failed" THEN "left" ELSE "in"
        /\ exc' = IF pc' = "failed" THEN "user" ELSE exc
        /\ exc' \in Errors
    BY <1>1, <1>2, <2>1, Types DEF CallShutdown, Fails, ContextInv, Errors
  <2>3. TypeOK'
    BY <1>1, <2>1, <2>2, Types DEF TypeOK
  <2>4. ContextInv'
    BY <1>1, <2>1, <2>2, Types DEF ContextInv
  <2>5. CallsInv'
    BY <1>1, <2>1, <2>2, Types DEF CallsInv, ContextInv
  <2>6. QED
    BY <2>1, <2>3, <2>4, <2>5, QuietStep DEF Meeting, LifespanInv
<1>3. ASSUME NEW b \in BOOLEAN, Leave(b) PROVE LifespanInv'
  <2>1. /\ pc = "leaving"
        /\ context' = [kind |-> context.kind, phase |-> "left", swallowed |-> b]
        /\ exc' = IF b THEN "none" ELSE exc
        /\ pc' = IF exc' = "none" THEN "done" ELSE "failed"
        /\ b => exc # "none"
        /\ UNCHANGED <<supports, started, calls, state, inbox, outbox, sent, task, client>>
    BY <1>1, <1>3, Types DEF Leave
  <2>2. exc' \in Errors
    BY <1>1, <2>1, Types DEF Errors
  <2>3. TypeOK'
    BY <1>1, <2>1, <2>2, Types DEF TypeOK
  <2>4. CASE b
    <3>1. ContextInv' /\ CallsInv'
      BY <1>1, <2>1, <2>4, Types DEF ContextInv, CallsInv
    <3>2. QED
      BY <2>1, <2>3, <3>1, QuietStep DEF Meeting, LifespanInv
  <2>5. CASE ~b
    <3>1. ContextInv' /\ CallsInv'
      BY <1>1, <2>1, <2>5, Types DEF ContextInv, CallsInv
    <3>2. QED
      BY <2>1, <2>3, <3>1, QuietStep DEF Meeting, LifespanInv
  <2>6. QED
    BY <2>4, <2>5
<1>4. QED
  BY <1>2, <1>3

-----------------------------------------------------------------------------
(* Messages of the client and of the application.                          *)

\* One of the two messages of the client is received.
LEMMA ReceiveStep ==
  ASSUME LifespanInv, ReceiveStartup \/ ReceiveShutdown
  PROVE  LifespanInv'
<1>1. TypeOK /\ ContextInv /\ CallsInv /\ SentInv /\ OutboxInv /\ ClientInv /\ TaskInv
  BY DEF LifespanInv
<1>2. /\ inbox # <<>> /\ inbox' = Tail(inbox) /\ pc \in {"begin", "serving"}
      /\ pc' = IF pc = "begin" THEN "entering" ELSE "leaving"
      /\ UNCHANGED <<context, supports, started, calls, exc, state, outbox, sent, task, client>>
  BY DEF ReceiveStartup, ReceiveShutdown
<1>3. client = IF pc = "begin" THEN "startup" ELSE "shutdown"
  <2>1. client \in Clients
    BY <1>1, Types
  <2>2. pc \notin Behind /\ pc # "over"
    BY <1>2 DEF Behind
  <2>3. started <=> pc = "serving"
    BY <1>1, <1>2 DEF ContextInv
  <2>4. QED
    BY <1>1, <1>2, <2>1, <2>2, <2>3 DEF ClientInv, Clients
<1>4. inbox' = <<>>
  BY <1>1, <1>2, <1>3, Tuples DEF ClientInv, Message
<1>5. inbox' \in Seq({"startup", "shutdown"})
  <2>1. <<"startup">> \in Seq({"startup", "shutdown"}) /\ <<"shutdown">> \in Seq({"startup", "shutdown"})
    OBVIOUS
  <2>2. QED
    BY <1>4, <2>1
<1>6. TypeOK'
  BY <1>1, <1>2, <1>5, Types DEF TypeOK
<1>7. ContextInv' /\ CallsInv'
  BY <1>1, <1>2, Types DEF ContextInv, CallsInv
<1>8. SentInv' /\ TaskInv'
  BY <1>1, <1>2 DEF SentInv, TaskInv, Before, Behind
<1>9. OutboxInv' /\ ClientInv'
  BY <1>1, <1>2, <1>3, <1>4 DEF OutboxInv, ClientInv, ContextInv, Before, Behind
<1>10. QED
  BY <1>6, <1>7, <1>8, <1>9 DEF LifespanInv

\* "startup.complete": the client waits for it.
LEMMA StartedStep ==
  ASSUME LifespanInv, SendStarted
  PROVE  LifespanInv'
<1>1. TypeOK /\ ContextInv /\ CallsInv /\ SentInv /\ OutboxInv /\ ClientInv /\ TaskInv
  BY DEF LifespanInv
<1>2. /\ pc = "complete" /\ pc' = "serving" /\ started' = TRUE /\ ~started
      /\ outbox' = Append(outbox, "startup.complete") /\ sent' = Append(sent, "startup.complete")
      /\ UNCHANGED <<context, supports, calls, exc, state, inbox, task, client>>
  BY <1>1 DEF SendStarted, Send, ContextInv
<1>3. client = "startup" /\ outbox = <<>> /\ sent = <<>> /\ inbox = <<>>
  <2>1. client \in Clients
    BY <1>1, Types
  <2>2. client = "startup" /\ inbox = <<>>
    BY <1>1, <1>2, <2>1 DEF ClientInv, Clients, Behind
  <2>3. QED
    BY <1>1, <1>2, <2>2 DEF OutboxInv, SentInv, Before
<1>4. outbox' = <<"startup.complete">> /\ sent' = <<"startup.complete">>
  BY <1>2, <1>3, Tuples DEF Message, Outgoing
<1>5. outbox' \in Seq(Outgoing \union {"None"}) /\ sent' \in Seq(Outgoing)
  BY <1>4 DEF Outgoing
<1>6. TypeOK'
  BY <1>1, <1>2, <1>5, Types DEF TypeOK
<1>7. ContextInv' /\ CallsInv'
  BY <1>1, <1>2, Types DEF ContextInv, CallsInv
<1>8. SentInv' /\ TaskInv' /\ OutboxInv' /\ ClientInv'
  BY <1>1, <1>2, <1>3, <1>4 DEF SentInv, TaskInv, OutboxInv, ClientInv, Before, Behind
<1>9. QED
  BY <1>6, <1>7, <1>8 DEF LifespanInv

\* The last message.
LEMMA LastStep ==
  ASSUME LifespanInv, SendFailed \/ SendComplete
  PROVE  LifespanInv'
<1>1. TypeOK /\ ContextInv /\ CallsInv /\ SentInv /\ OutboxInv /\ ClientInv /\ TaskInv
  BY DEF LifespanInv
<1>2. /\ pc \in {"failed", "done"} /\ pc' = "raises" /\ LastWord \in Outgoing
      /\ outbox' = Append(outbox, LastWord) /\ sent' = Append(sent, LastWord)
      /\ UNCHANGED <<context, supports, started, calls, exc, state, inbox, task, client>>
  BY <1>1 DEF SendFailed, SendComplete, Send, ContextInv, LastWord, Outgoing
<1>3. LastWord' = LastWord
  BY <1>2 DEF LastWord
<1>4. /\ client \in {"startup", "shutdown"}
      /\ client = "startup" => ~started
      /\ client = "shutdown" => started
      /\ outbox = <<>> /\ inbox = <<>> /\ pc \in Before /\ pc # "over"
  <2>1. client \in Clients
    BY <1>1, Types
  <2>2. /\ client \in {"startup", "shutdown"} /\ inbox = <<>>
        /\ client = "startup" => ~started
        /\ client = "shutdown" => started
    BY <1>1, <1>2, <2>1 DEF ClientInv, Clients, Behind
  <2>3. QED
    BY <1>1, <1>2, <2>2 DEF OutboxInv, Before
<1>5. outbox' = <<LastWord>>
  BY <1>2, <1>4, Tuples DEF Message
<1>6. sent' = IF started THEN <<"startup.complete", LastWord>> ELSE <<LastWord>>
  <2>1. sent = IF started THEN <<"startup.complete">> ELSE <<>>
    BY <1>1, <1>4 DEF SentInv
  <2>2. LastWord \in Message /\ "startup.complete" \in Message
    BY <1>2 DEF Message, Outgoing
  <2>3. CASE started
    BY <1>2, <2>1, <2>2, <2>3, Tuples
  <2>4. CASE ~started
    BY <1>2, <2>1, <2>2, <2>4, Tuples
  <2>5. QED
    BY <2>3, <2>4
<1>7. outbox' \in Seq(Outgoing \union {"None"}) /\ sent' \in Seq(Outgoing)
  <2>1. "startup.complete" \in Outgoing
    BY DEF Outgoing
  <2>2. <<LastWord>> \in Seq(Outgoing) /\ <<"startup.complete", LastWord>> \in Seq(Outgoing)
        /\ <<LastWord>> \in Seq(Outgoing \union {"None"})
    BY <1>2, <2>1
  <2>3. QED
    BY <1>5, <1>6, <2>2
<1>8. TypeOK'
  BY <1>1, <1>2, <1>7, Types DEF TypeOK
<1>9. ContextInv' /\ CallsInv'
  BY <1>1, <1>2, Types DEF ContextInv, CallsInv
<1>10. SentInv' /\ TaskInv'
  BY <1>1, <1>2, <1>3, <1>6 DEF SentInv, TaskInv, Before, Behind
<1>11. OutboxInv' /\ ClientInv'
  BY <1>1, <1>2, <1>3, <1>4, <1>5 DEF OutboxInv, ClientInv, Before, Behind
<1>12. QED
  BY <1>8, <1>9, <1>10, <1>11 DEF LifespanInv

\* The None, and the end of the task.
LEMMA EndStep ==
  ASSUME LifespanInv, TaskEnds
  PROVE  LifespanInv'
<1>1. TypeOK /\ ContextInv /\ CallsInv /\ SentInv /\ OutboxInv /\ ClientInv /\ TaskInv
  BY DEF LifespanInv
<1>2. /\ pc = "raises" /\ pc' = "over" /\ task' = exc
      /\ outbox' = Append(outbox, "None")
      /\ UNCHANGED <<context, supports, started, calls, exc, state, inbox, sent, client>>
  BY <1>1 DEF TaskEnds
<1>3. LastWord' = LastWord /\ LastWord \in Message
  BY <1>2 DEF LastWord, Message, Outgoing
<1>4. outbox' \in Seq(Outgoing \union {"None"})
  BY <1>1, <1>2, Types
<1>5. TypeOK'
  BY <1>1, <1>2, <1>4, Types DEF TypeOK
<1>6. ContextInv' /\ CallsInv'
  BY <1>1, <1>2, Types DEF ContextInv, CallsInv
<1>7. SentInv' /\ TaskInv' /\ ClientInv'
  BY <1>1, <1>2, <1>3 DEF SentInv, TaskInv, ClientInv, Before, Behind
<1>8. OutboxInv'
  <2>1. client \notin {"outside", "inside"} /\ ~(client = "startup" /\ started)
    BY <1>1, <1>2 DEF ClientInv
  <2>2. outbox = <<LastWord>> => outbox' = <<LastWord, "None">>
    BY <1>2, <1>3, Tuples DEF Message
  <2>3. outbox = <<>> => outbox' = <<"None">>
    BY <1>2, Tuples DEF Message
  <2>4. QED
    BY <1>1, <1>2, <1>3, <2>1, <2>2, <2>3 DEF OutboxInv, Before
<1>9. QED
  BY <1>5, <1>6, <1>7, <1>8 DEF LifespanInv

-----------------------------------------------------------------------------
(* The client.                                                             *)

\* It sends a message, into its block or out of it.
LEMMA ClientSends ==
  ASSUME LifespanInv, ClientEnters \/ ClientExits
  PROVE  LifespanInv'
<1>1. TypeOK /\ ContextInv /\ CallsInv /\ SentInv /\ OutboxInv /\ ClientInv /\ TaskInv
  BY DEF LifespanInv
<1>2. /\ client \in {"outside", "inside"}
      /\ client' = IF client = "outside" THEN "startup" ELSE "shutdown"
      /\ inbox' = Append(inbox, IF client = "outside" THEN "startup" ELSE "shutdown")
      /\ UNCHANGED <<context, supports, pc, started, calls, exc, state, outbox, sent, task>>
  BY DEF ClientEnters, ClientExits, appVars
<1>3. /\ inbox = <<>> /\ outbox = <<>>
      /\ pc = IF client = "outside" THEN "begin" ELSE "serving"
      /\ started <=> client = "inside"
  BY <1>1, <1>2 DEF ClientInv, OutboxInv, ContextInv
<1>4. inbox' = IF client = "outside" THEN <<"startup">> ELSE <<"shutdown">>
  BY <1>2, <1>3, Tuples DEF Message
<1>5. inbox' \in Seq({"startup", "shutdown"})
  <2>1. <<"startup">> \in Seq({"startup", "shutdown"}) /\ <<"shutdown">> \in Seq({"startup", "shutdown"})
    OBVIOUS
  <2>2. QED
    BY <1>4, <2>1
<1>6. TypeOK'
  BY <1>1, <1>2, <1>5, Types DEF TypeOK, Clients
<1>7. ContextInv' /\ CallsInv' /\ SentInv' /\ TaskInv'
  BY <1>1, <1>2 DEF ContextInv, CallsInv, SentInv, TaskInv, LastWord
<1>8. OutboxInv' /\ ClientInv'
  BY <1>1, <1>2, <1>3, <1>4 DEF OutboxInv, ClientInv, Before, Behind
<1>9. QED
  BY <1>6, <1>7, <1>8 DEF LifespanInv

\* It receives a message: what it does next agrees with what lifespan() has done.
LEMMA ClientTakes ==
  ASSUME LifespanInv, ClientReceives
  PROVE  LifespanInv'
<1>1. TypeOK /\ ContextInv /\ CallsInv /\ SentInv /\ OutboxInv /\ ClientInv /\ TaskInv
  BY DEF LifespanInv
<1>2. /\ client \in {"startup", "startupFailed", "shutdown", "shutdownFailed"}
      /\ outbox # <<>> /\ outbox' = Tail(outbox)
      /\ UNCHANGED <<context, supports, pc, started, calls, exc, state, inbox, sent, task>>
  BY DEF ClientReceives, appVars
<1>3. LastWord \in Outgoing /\ LastWord \in Message /\ "None" \in Message /\ "startup.complete" \in Message
  BY DEF LastWord, Outgoing, Message
<1>4. /\ pc \in Before \union Behind
      /\ pc = "over" => task = exc
      /\ LastWord = "shutdown.complete" <=> exc = "none"
  BY <1>1, Types DEF TaskInv, LastWord
<1>5. outbox' \in Seq(Outgoing \union {"None"})
  BY <1>1, <1>2, Types
<1>6. ContextInv' /\ CallsInv' /\ SentInv' /\ TaskInv'
  BY <1>1, <1>2 DEF ContextInv, CallsInv, SentInv, TaskInv, LastWord
<1>7. SUFFICES /\ client' \in Clients
               /\ OutboxInv' /\ ClientInv'
  BY <1>1, <1>2, <1>5, <1>6, Types DEF TypeOK, LifespanInv
<1>8. CASE client = "startup" /\ started
  <2>1. outbox = <<"startup.complete">> /\ pc = "serving" /\ inbox = <<>>
    BY <1>1, <1>8 DEF OutboxInv, ClientInv
  <2>2. outbox' = <<>> /\ Head(outbox) = "startup.complete"
    BY <1>2, <1>3, <2>1, Tuples
  <2>3. client' = "inside"
    BY <1>8, <2>2 DEF ClientReceives, StartupAnswer
  <2>4. QED
    BY <1>2, <2>1, <2>2, <2>3 DEF OutboxInv, ClientInv, Clients
<1>9. CASE client = "shutdown" \/ (client = "startup" /\ ~started)
  <2>1. /\ pc \in Behind
        /\ outbox = IF pc = "over" THEN <<LastWord, "None">> ELSE <<LastWord>>
    BY <1>1, <1>2, <1>4, <1>9 DEF OutboxInv, Behind
  <2>2. Head(outbox) = LastWord /\ outbox' = IF pc = "over" THEN <<"None">> ELSE <<>>
    BY <1>2, <1>3, <2>1, Tuples
  <2>3. CASE exc = "none"
    <3>1. LastWord = "shutdown.complete"
      BY <2>3 DEF LastWord
    <3>2. client' = IF client = "startup" THEN "assertion" ELSE "left"
      BY <1>9, <2>2, <3>1 DEF ClientReceives, StartupAnswer, ShutdownAnswer
    <3>3. client = "startup" => context.swallowed
      BY <1>1, <1>9, <2>1, <2>3 DEF ContextInv, Behind, ClientInv
    <3>4. QED
      BY <1>2, <2>1, <2>2, <2>3, <3>2, <3>3 DEF OutboxInv, ClientInv, Clients
  <2>4. CASE exc # "none"
    <3>1. client = "shutdown" => started
      BY <1>1 DEF ClientInv
    <3>2. LastWord = IF client = "startup" THEN "startup.failed" ELSE "shutdown.failed"
      BY <1>9, <2>4, <3>1 DEF LastWord
    <3>3. client' = IF client = "startup" THEN "startupFailed" ELSE "shutdownFailed"
      BY <1>9, <2>2, <3>2 DEF ClientReceives, StartupAnswer, ShutdownAnswer
    <3>4. QED
      BY <1>2, <2>1, <2>2, <2>4, <3>3 DEF OutboxInv, ClientInv, Clients
  <2>5. QED
    BY <2>3, <2>4
<1>10. CASE client \in {"startupFailed", "shutdownFailed"}
  <2>1. pc = "over" /\ exc # "none" /\ outbox = <<"None">>
    BY <1>1, <1>2, <1>10 DEF OutboxInv, ClientInv
  <2>2. outbox' = <<>> /\ Head(outbox) = "None"
    BY <1>2, <1>3, <2>1, Tuples
  <2>3. task # "none" /\ task # "running"
    BY <1>1, <1>4, <2>1, Types DEF Errors
  <2>4. client' = "raised"
    BY <1>10, <2>2, <2>3 DEF ClientReceives, FailureFollows, OnNone
  <2>5. QED
    BY <1>2, <2>1, <2>2, <2>4 DEF OutboxInv, ClientInv, Clients
<1>11. QED
  BY <1>2, <1>8, <1>9, <1>10

LEMMA NextStep ==
  ASSUME LifespanInv, [Next]_vars
  PROVE  LifespanInv'
<1>1. CASE UNCHANGED vars
  BY <1>1 DEF vars, LifespanInv, TypeOK, ContextInv, CallsInv, SentInv, OutboxInv, ClientInv, TaskInv, LastWord
<1>2. CASE App
  BY <1>2, EnterStep, LeaveStep, ReceiveStep, StartedStep, LastStep, EndStep DEF App
<1>3. CASE Client
  BY <1>3, ClientSends, ClientTakes DEF Client
<1>4. QED
  BY <1>1, <1>2, <1>3 DEF Next, Ended

LEMMA InitInvariant == Init => LifespanInv
<1>1. SUFFICES ASSUME Init PROVE LifespanInv
  OBVIOUS
<1>2. TypeOK
  <2>1. context \in [kind : Contexts, phase : {"out", "in", "left"}, swallowed : BOOLEAN]
    BY <1>1 DEF Init, Begin
  <2>2. calls \in [startup : 0..MaxHandlers, shutdown : 0..MaxHandlers]
    BY <1>1, MaxHandlersAssumption DEF Init, Begin
  <2>3. /\ inbox \in Seq({"startup", "shutdown"}) /\ outbox \in Seq(Outgoing \union {"None"})
        /\ sent \in Seq(Outgoing)
    BY <1>1 DEF Init, Begin
  <2>4. QED
    BY <1>1, <2>1, <2>2, <2>3 DEF Init, Begin, TypeOK, Errors, Clients
<1>3. ContextInv /\ CallsInv
  BY <1>1, ContextsAssumption DEF Init, Begin, ContextInv, CallsInv
<1>4. SentInv /\ OutboxInv /\ ClientInv /\ TaskInv
  BY <1>1 DEF Init, Begin, SentInv, OutboxInv, ClientInv, TaskInv, Before, Behind
<1>5. QED
  BY <1>2, <1>3, <1>4 DEF LifespanInv

-----------------------------------------------------------------------------
(* handle_request() and the server it is for the application.              *)

\* The flags and the stream are what was sent; the result is made of them.
TransportInv ==
  /\ nonlocals.response_started <=> wire # <<>>
  /\ nonlocals.response_complete <=> Http!Complete
  /\ raw.stream = IF exchange.head THEN <<>> ELSE [i \in 1..Bodies |-> i]
  /\ raw.rewound <=> nonlocals.response_complete
  /\ told # {} => nonlocals.response_complete
  /\ exchange.state = "idle" => wire = <<>>

ResultInv ==
  /\ exchange.state = "returned" =>
       /\ exchange.content = Content
       /\ exchange.raises => failure = "none"
       /\ exchange.error = "none" => wire # <<>>
  /\ exchange.state = "raised" => exchange.raises /\ (failure # "none" => exchange.error = failure)

AnswerInv == TransportTypeOK /\ TransportInv /\ ResultInv

HttpMessage == [type : {"start", "body"}, more_body : BOOLEAN]

LEMMA TransportTypes ==
  ASSUME TransportTypeOK
  PROVE  /\ exchange = [state |-> exchange.state, head |-> exchange.head, raises |-> exchange.raises,
                        content |-> exchange.content, error |-> exchange.error]
         /\ exchange.state \in {"idle", "running", "returned", "raised"}
         /\ exchange.head \in BOOLEAN /\ exchange.raises \in BOOLEAN
         /\ exchange.content \in Seq(1..MaxSends)
         /\ exchange.error \in {"none", "user", "assertion", "500"}
         /\ nonlocals = [request_complete |-> nonlocals.request_complete,
                         response_started |-> nonlocals.response_started,
                         response_complete |-> nonlocals.response_complete]
         /\ nonlocals.request_complete \in BOOLEAN /\ nonlocals.response_started \in BOOLEAN
         /\ nonlocals.response_complete \in BOOLEAN
         /\ raw = [stream |-> raw.stream, rewound |-> raw.rewound]
         /\ raw.stream \in Seq(1..MaxSends) /\ raw.rewound \in BOOLEAN
         /\ asgi \in [AppTasks -> {"runs", "receives", "over"}]
         /\ failure \in {"none", "user", "assertion"}
         /\ told \subseteq AppTasks /\ refused \in BOOLEAN
         /\ wire \in Seq(HttpMessage) /\ MaxSends \in Nat
BY MaxSendsAssumption DEF TransportTypeOK, HttpMessage

LEMMA HttpMessages ==
  /\ \A type \in {"start", "body"}, more \in BOOLEAN :
       [type |-> type, more_body |-> more] \in HttpMessage
  /\ \A m \in HttpMessage : m.type \in {"start", "body"} /\ m.more_body \in BOOLEAN
BY DEF HttpMessage

\* The first bodies, numbered.
LEMMA Numbered ==
  ASSUME NEW n \in Nat
  PROVE  /\ [i \in 1..n |-> i] \in Seq(1..n) /\ Len([i \in 1..n |-> i]) = n
         /\ Append([i \in 1..n |-> i], n + 1) = [i \in 1..(n + 1) |-> i]
<1> DEFINE s == [i \in 1..n |-> i]
           t == [i \in 1..(n + 1) |-> i]
           a == Append(s, n + 1)
<1>1. s \in Seq(1..n) /\ Len(s) = n /\ t \in Seq(1..(n + 1)) /\ Len(t) = n + 1
  OBVIOUS
<1>2. s \in Seq(1..(n + 1)) /\ n + 1 \in 1..(n + 1)
  BY <1>1
<1>3. a \in Seq(1..(n + 1)) /\ Len(a) = n + 1 /\ (\A i \in 1..n : a[i] = s[i]) /\ a[n + 1] = n + 1
  BY <1>1, <1>2, AppendProperties
<1>4. \A i \in 1..Len(a) : a[i] = t[i]
  BY <1>3
<1> HIDE DEF s, t, a
<1>5. a = t
  BY <1>1, <1>3, <1>4, SeqEqual
<1>6. QED
  BY <1>1, <1>5 DEF s, t, a

LEMMA BodyCount ==
  ASSUME NEW s \in Seq(HttpMessage), NEW m \in HttpMessage
  PROVE  /\ Cardinality({i \in DOMAIN s : s[i].type = "body"}) \in Nat
         /\ Cardinality({i \in DOMAIN Append(s, m) : Append(s, m)[i].type = "body"}) =
              Cardinality({i \in DOMAIN s : s[i].type = "body"}) + (IF m.type = "body" THEN 1 ELSE 0)
<1> DEFINE In(t) == {i \in DOMAIN t : t[i].type = "body"}
<1>1. /\ DOMAIN s = 1..Len(s) /\ Len(s) \in Nat
      /\ DOMAIN Append(s, m) = 1..(Len(s) + 1)
      /\ Append(s, m)[Len(s) + 1] = m
      /\ \A i \in 1..Len(s) : Append(s, m)[i] = s[i]
  BY AppendProperties
<1>2. IsFiniteSet(1..Len(s))
  BY <1>1, FS_Interval
<1>3. IsFiniteSet(In(s)) /\ Len(s) + 1 \notin In(s)
  BY <1>1, <1>2, FS_Subset
<1>4. In(Append(s, m)) = IF m.type = "body" THEN In(s) \cup {Len(s) + 1} ELSE In(s)
  <2>1. \A i \in 1..(Len(s) + 1) : i \in 1..Len(s) \/ i = Len(s) + 1
    BY <1>1
  <2>2. \A i \in 1..Len(s) : i \in 1..(Len(s) + 1) /\ i # Len(s) + 1
    BY <1>1
  <2>3. Len(s) + 1 \in 1..(Len(s) + 1)
    BY <1>1
  <2>4. QED
    BY <1>1, <2>1, <2>2, <2>3
<1>5. Cardinality(In(s)) \in Nat /\ Cardinality(In(s) \cup {Len(s) + 1}) = Cardinality(In(s)) + 1
  BY <1>3, FS_CardinalityType, FS_AddElement
<1> HIDE DEF In
<1>6. Cardinality(In(Append(s, m))) = Cardinality(In(s)) + (IF m.type = "body" THEN 1 ELSE 0)
  <2>1. CASE m.type = "body"
    BY <1>4, <1>5, <2>1
  <2>2. CASE m.type # "body"
    <3>1. In(Append(s, m)) = In(s)
      BY <1>4, <2>2
    <3>2. QED
      BY <3>1, <1>5, <2>2
  <2>3. QED
    BY <2>1, <2>2
<1>7. QED
  BY <1>5, <1>6 DEF In

\* One message more on the wire.
LEMMA HttpMore ==
  ASSUME wire \in Seq(HttpMessage), NEW m \in HttpMessage, wire' = Append(wire, m),
         m.type = "start" <=> wire = <<>>, ~Http!Complete
  PROVE  /\ Http!Next /\ wire' # <<>> /\ wire' \in Seq(HttpMessage)
         /\ Http!Complete' <=> (m.type = "body" /\ ~m.more_body)
         /\ Bodies' = Bodies + (IF m.type = "body" THEN 1 ELSE 0) /\ Bodies \in Nat
<1>1. /\ wire' \in Seq(HttpMessage) /\ wire' # <<>> /\ Len(wire') = Len(wire) + 1
      /\ wire'[Len(wire')] = m /\ wire'[Len(wire) + 1] = m
  OBVIOUS
<1>2. m.type \in {"start", "body"} /\ m.more_body \in BOOLEAN
  BY HttpMessages
<1>3. Http!Complete' <=> (m.type = "body" /\ ~m.more_body)
  BY <1>1, <1>2 DEF Http!Complete, Http!LastIs
<1>4. Http!Next
  <2>1. CASE wire = <<>>
    BY <2>1, <1>1 DEF Http!Next, Http!SendStart, Http!Sends
  <2>2. CASE wire # <<>>
    <3>1. wire[Len(wire)] \in HttpMessage
      BY <2>2
    <3>2. Http!Open
      BY <2>2, <3>1, HttpMessages DEF Http!Open, Http!Complete, Http!LastIs
    <3>3. QED
      BY <2>2, <3>2, <1>1, <1>2 DEF Http!Next, Http!SendBody, Http!Sends
  <2>3. QED
    BY <2>1, <2>2
<1>5. Bodies' = Bodies + (IF m.type = "body" THEN 1 ELSE 0) /\ Bodies \in Nat
  BY BodyCount DEF Bodies
<1>6. QED
  BY <1>1, <1>3, <1>4, <1>5

\* The state of a response that has not begun.
LEMMA NothingSent ==
  ASSUME wire = <<>>
  PROVE  Bodies = 0 /\ ~Http!Complete /\ <<>> = [i \in 1..0 |-> i]
<1>1. {i \in DOMAIN wire : wire[i].type = "body"} = {}
  OBVIOUS
<1>2. Bodies = 0
  BY <1>1, FS_EmptySet DEF Bodies
<1>3. ~Http!Complete
  BY DEF Http!Complete, Http!LastIs
<1>4. <<>> = [i \in 1..0 |-> i]
  OBVIOUS
<1>5. QED
  BY <1>2, <1>3, <1>4

AnswerGoal == AnswerInv' /\ (ForgetExchange \/ Http!Next \/ wire' = wire)

\* The steps that send nothing and give no result.
LEMMA ReceiveSteps ==
  ASSUME AnswerInv,
         \/ HandleRequest
         \/ \E t \in AppTasks : ReceiveBody(t) \/ ReceiveLater(t) \/ ReceiveDisconnect(t) \/ Refuse(t)
         \/ \E err \in {"none", "user", "assertion"} : AppEnds(err)
  PROVE  AnswerGoal
<1>1. TransportTypeOK /\ TransportInv /\ ResultInv
  BY DEF AnswerInv
<1>2. ASSUME UNCHANGED <<raw, wire>>, exchange'.head = exchange.head,
             nonlocals'.response_started = nonlocals.response_started,
             nonlocals'.response_complete = nonlocals.response_complete,
             exchange'.state = "running",
             told' # {} => nonlocals.response_complete
      PROVE  TransportInv' /\ ResultInv'
  BY <1>1, <1>2 DEF TransportInv, ResultInv, Bodies, Http!Complete, Http!LastIs
<1>3. CASE HandleRequest
  <2>1. PICK head, raises \in BOOLEAN :
               exchange' = [exchange EXCEPT !.state = "running", !.head = head, !.raises = raises]
    BY <1>3 DEF HandleRequest
  <2>2. /\ exchange.state = "idle"
        /\ exchange' = [state |-> "running", head |-> head, raises |-> raises,
                        content |-> exchange.content, error |-> exchange.error]
        /\ UNCHANGED <<nonlocals, raw, asgi, failure, told, refused, wire>>
    BY <1>1, <1>3, <2>1, TransportTypes DEF HandleRequest
  <2>3. TransportTypeOK'
    BY <1>1, <2>2, TransportTypes DEF TransportTypeOK
  <2>4. wire = <<>> /\ Bodies = 0 /\ <<>> = [i \in 1..0 |-> i]
    BY <1>1, <2>2, NothingSent DEF TransportInv
  <2>5. raw.stream = <<>> /\ Bodies' = 0
    BY <1>1, <2>2, <2>4 DEF TransportInv, Bodies
  <2>6. raw'.stream = IF exchange'.head THEN <<>> ELSE [i \in 1..Bodies' |-> i]
    BY <2>2, <2>4, <2>5
  <2>7. TransportInv'
    BY <1>1, <2>2, <2>6 DEF TransportInv, Http!Complete, Http!LastIs
  <2>8. ResultInv'
    BY <2>2 DEF ResultInv
  <2>9. QED
    BY <2>2, <2>3, <2>7, <2>8 DEF AnswerGoal, AnswerInv
<1>4. ASSUME NEW t \in AppTasks, ReceiveBody(t) PROVE AnswerGoal
  <2>1. /\ exchange.state = "running"
        /\ nonlocals' = [request_complete |-> TRUE,
                         response_started |-> nonlocals.response_started,
                         response_complete |-> nonlocals.response_complete]
        /\ UNCHANGED <<exchange, raw, asgi, failure, told, refused, wire>>
    BY <1>1, <1>4, TransportTypes DEF ReceiveBody, Runs
  <2>2. TransportTypeOK'
    BY <1>1, <2>1, TransportTypes DEF TransportTypeOK
  <2>3. TransportInv' /\ ResultInv'
    BY <1>1, <1>2, <2>1 DEF TransportInv
  <2>4. QED
    BY <2>1, <2>2, <2>3 DEF AnswerGoal, AnswerInv
<1>5. ASSUME NEW t \in AppTasks, ReceiveLater(t) \/ ReceiveDisconnect(t) PROVE AnswerGoal
  <2>1. /\ exchange.state = "running"
        /\ asgi' \in [AppTasks -> {"runs", "receives", "over"}]
        /\ told' = told \/ (told' = told \union {t} /\ nonlocals.response_complete)
        /\ UNCHANGED <<exchange, nonlocals, raw, failure, refused, wire>>
    BY <1>1, <1>5, TransportTypes DEF ReceiveLater, ReceiveDisconnect, Runs
  <2>2. TransportTypeOK'
    BY <1>1, <2>1, TransportTypes DEF TransportTypeOK
  <2>3. TransportInv' /\ ResultInv'
    BY <1>1, <1>2, <2>1 DEF TransportInv
  <2>4. QED
    BY <2>1, <2>2, <2>3 DEF AnswerGoal, AnswerInv
<1>6. ASSUME NEW t \in AppTasks, Refuse(t) PROVE AnswerGoal
  <2>1. /\ exchange.state = "running" /\ refused' = TRUE
        /\ UNCHANGED <<exchange, nonlocals, raw, asgi, failure, told, wire>>
    BY <1>6 DEF Refuse, Runs
  <2>2. TransportTypeOK'
    BY <1>1, <2>1, TransportTypes DEF TransportTypeOK
  <2>3. TransportInv' /\ ResultInv'
    BY <1>1, <1>2, <2>1 DEF TransportInv
  <2>4. QED
    BY <2>1, <2>2, <2>3 DEF AnswerGoal, AnswerInv
<1>7. ASSUME NEW err \in {"none", "user", "assertion"}, AppEnds(err) PROVE AnswerGoal
  <2>1. /\ exchange.state = "running" /\ failure' = err
        /\ asgi' = [t \in AppTasks |-> "over"]
        /\ UNCHANGED <<exchange, nonlocals, raw, told, refused, wire>>
    BY <1>7 DEF AppEnds, Runs
  <2>2. TransportTypeOK'
    BY <1>1, <2>1, TransportTypes DEF TransportTypeOK
  <2>3. TransportInv' /\ ResultInv'
    BY <1>1, <1>2, <2>1 DEF TransportInv
  <2>4. QED
    BY <2>1, <2>2, <2>3 DEF AnswerGoal, AnswerInv
<1>8. QED
  BY <1>3, <1>4, <1>5, <1>6, <1>7

LEMMA SendSteps ==
  ASSUME AnswerInv, NEW t \in AppTasks,
         SendResponseStart(t) \/ \E more \in BOOLEAN : SendResponseBody(t, more)
  PROVE  AnswerGoal
<1>1. TransportTypeOK /\ TransportInv /\ ResultInv /\ wire \in Seq(HttpMessage)
  BY TransportTypes DEF AnswerInv
<1>2. CASE SendResponseStart(t)
  <2> DEFINE m == [type |-> "start", more_body |-> TRUE]
  <2>1. /\ exchange.state = "running" /\ ~nonlocals.response_started
        /\ nonlocals' = [request_complete |-> nonlocals.request_complete,
                         response_started |-> TRUE,
                         response_complete |-> nonlocals.response_complete]
        /\ wire' = Append(wire, m)
        /\ UNCHANGED <<exchange, raw, asgi, failure, told, refused>>
    BY <1>1, <1>2, TransportTypes DEF SendResponseStart, Runs, Takes
  <2>2. m \in HttpMessage /\ m.type = "start"
    BY HttpMessages
  <2> HIDE DEF m
  <2>3. wire = <<>>
    BY <1>1, <2>1 DEF TransportInv
  <2>4. ~Http!Complete
    BY <2>3, NothingSent
  <2>5. /\ Http!Next /\ wire' # <<>> /\ wire' \in Seq(HttpMessage)
        /\ ~Http!Complete' /\ Bodies' = Bodies
    BY <1>1, <2>1, <2>2, <2>3, <2>4, HttpMore
  <2>6. TransportTypeOK'
    BY <1>1, <2>1, <2>5, TransportTypes DEF TransportTypeOK, HttpMessage
  <2>7. TransportInv'
    BY <1>1, <2>1, <2>4, <2>5 DEF TransportInv
  <2>8. ResultInv'
    BY <2>1 DEF ResultInv
  <2>9. QED
    BY <2>5, <2>6, <2>7, <2>8 DEF AnswerGoal, AnswerInv
<1>3. ASSUME NEW more \in BOOLEAN, SendResponseBody(t, more) PROVE AnswerGoal
  <2> DEFINE m == [type |-> "body", more_body |-> more]
  <2>1. /\ exchange.state = "running"
        /\ nonlocals.response_started /\ ~nonlocals.response_complete
        /\ Bodies < MaxSends
        /\ raw' = [stream |-> IF exchange.head THEN raw.stream ELSE Append(raw.stream, Bodies + 1),
                   rewound |-> ~more]
        /\ nonlocals' = [request_complete |-> nonlocals.request_complete,
                         response_started |-> nonlocals.response_started,
                         response_complete |-> ~more]
        /\ wire' = Append(wire, m)
        /\ UNCHANGED <<exchange, asgi, failure, told, refused>>
    BY <1>1, <1>3, TransportTypes DEF SendResponseBody, BodyAllowed, Runs, Takes
  <2>2. m \in HttpMessage /\ m.type = "body" /\ m.more_body = more
    BY HttpMessages
  <2> HIDE DEF m
  <2>3. wire # <<>> /\ ~Http!Complete
    BY <1>1, <2>1 DEF TransportInv
  <2>4. /\ Http!Next /\ wire' # <<>> /\ wire' \in Seq(HttpMessage)
        /\ Http!Complete' <=> ~more
        /\ Bodies' = Bodies + 1 /\ Bodies \in Nat
    BY <1>1, <2>1, <2>2, <2>3, HttpMore
  <2>5. raw'.stream = IF exchange'.head THEN <<>> ELSE [i \in 1..Bodies' |-> i]
    <3>1. CASE exchange.head
      BY <1>1, <2>1, <3>1 DEF TransportInv
    <3>2. CASE ~exchange.head
      <4>1. raw.stream = [i \in 1..Bodies |-> i]
        BY <1>1, <3>2 DEF TransportInv
      <4>2. Append([i \in 1..Bodies |-> i], Bodies + 1) = [i \in 1..(Bodies + 1) |-> i]
        BY <2>4, Numbered
      <4>3. raw'.stream = Append(raw.stream, Bodies + 1)
        BY <2>1, <3>2
      <4>4. QED
        BY <2>1, <2>4, <3>2, <4>1, <4>2, <4>3
    <3>3. QED
      BY <3>1, <3>2
  <2>6. TransportTypeOK'
    <3>1. Bodies + 1 \in 1..MaxSends
      BY <1>1, <2>1, <2>4, TransportTypes
    <3>2. raw' \in [stream : Seq(1..MaxSends), rewound : BOOLEAN]
      <4>1. Append(raw.stream, Bodies + 1) \in Seq(1..MaxSends)
        BY <1>1, <3>1, TransportTypes
      <4>2. raw'.stream \in Seq(1..MaxSends)
        BY <1>1, <2>1, <4>1, TransportTypes
      <4>3. raw' = [stream |-> raw'.stream, rewound |-> ~more]
        BY <2>1
      <4>4. (~more) \in BOOLEAN
        OBVIOUS
      <4>5. QED
        <5>1. \A s, b : s \in Seq(1..MaxSends) /\ b \in BOOLEAN =>
                [stream |-> s, rewound |-> b] \in [stream : Seq(1..MaxSends), rewound : BOOLEAN]
          OBVIOUS
        <5>2. QED
          BY <4>2, <4>3, <4>4, <5>1, Zenon
    <3>3. nonlocals' \in [request_complete : BOOLEAN, response_started : BOOLEAN,
                          response_complete : BOOLEAN]
      BY <1>1, <2>1, TransportTypes
    <3>4. QED
      BY <1>1, <2>1, <2>4, <3>2, <3>3, TransportTypes DEF TransportTypeOK, HttpMessage
  <2>7. TransportInv'
    <3>1. told = {}
      BY <1>1, <2>1 DEF TransportInv
    <3>2. QED
      BY <2>1, <2>4, <2>5, <3>1 DEF TransportInv
  <2>8. ResultInv'
    BY <2>1 DEF ResultInv
  <2>9. QED
    BY <2>4, <2>6, <2>7, <2>8 DEF AnswerGoal, AnswerInv
<1>4. QED
  BY <1>2, <1>3

LEMMA NoExchange == InitTransport => AnswerInv
<1> SUFFICES ASSUME InitTransport PROVE AnswerInv
  OBVIOUS
<1> USE DEF InitTransport
<1>1. Bodies = 0 /\ ~Http!Complete /\ <<>> = [i \in 1..0 |-> i]
  BY NothingSent
<1>2. TransportTypeOK
  <2>1. /\ exchange \in [state : {"idle", "running", "returned", "raised"}, head : BOOLEAN,
                         raises : BOOLEAN, content : Seq(1..MaxSends),
                         error : {"none", "user", "assertion", "500"}]
        /\ raw \in [stream : Seq(1..MaxSends), rewound : BOOLEAN]
        /\ nonlocals \in [request_complete : BOOLEAN, response_started : BOOLEAN,
                          response_complete : BOOLEAN]
    BY DEF Idle, NotYet
  <2>2. asgi \in [AppTasks -> {"runs", "receives", "over"}]
    BY DEF Ready
  <2>3. wire \in Seq([type : {"start", "body"}, more_body : BOOLEAN])
    OBVIOUS
  <2>4. QED
    BY <2>1, <2>2, <2>3 DEF TransportTypeOK
<1>3. TransportInv /\ ResultInv
  BY <1>1 DEF TransportInv, ResultInv, Idle, NotYet
<1>4. QED
  BY <1>2, <1>3 DEF AnswerInv

LEMMA NoExchangeNext == InitTransport' => AnswerInv'
BY NoExchange, PTL

LEMMA ResultSteps ==
  ASSUME AnswerInv, Result \/ ForgetExchange
  PROVE  AnswerGoal
<1>1. TransportTypeOK /\ TransportInv /\ ResultInv
  BY DEF AnswerInv
<1>2. CASE Result
  <2>1. exchange.state = "running" /\ UNCHANGED <<nonlocals, raw, asgi, failure, told, refused, wire>>
    BY <1>2 DEF Result
  <2>2. Content \in Seq(1..MaxSends)
    <3>1. <<>> \in Seq(1..MaxSends)
      OBVIOUS
    <3>2. QED
      BY <1>1, <3>1, TransportTypes DEF Content
  <2>3. exchange' = [state |-> exchange'.state, head |-> exchange.head, raises |-> exchange.raises,
                     content |-> exchange'.content, error |-> exchange'.error]
        /\ \/ /\ exchange'.state = "raised" /\ exchange.raises /\ exchange'.content = exchange.content
              /\ exchange'.error \in {"user", "assertion"}
              /\ failure # "none" => exchange'.error = failure
           \/ /\ exchange'.state = "returned" /\ exchange'.content = Content
              /\ exchange.raises => failure = "none"
              /\ exchange'.error = IF nonlocals.response_started THEN "none" ELSE "500"
    <3>1. CASE exchange.raises /\ failure # "none"
      BY <1>1, <1>2, <3>1, TransportTypes DEF Result, Raise
    <3>2. CASE exchange.raises /\ failure = "none" /\ ~nonlocals.response_started
      BY <1>1, <1>2, <3>2, TransportTypes DEF Result, Raise
    <3>3. CASE ~exchange.raises \/ (failure = "none" /\ nonlocals.response_started)
      BY <1>1, <1>2, <3>3, TransportTypes DEF Result
    <3>4. QED
      BY <3>1, <3>2, <3>3
  <2>4. TransportTypeOK'
    <3>1. exchange'.content \in Seq(1..MaxSends) /\ exchange'.state \in {"returned", "raised"}
          /\ exchange'.error \in {"none", "user", "assertion", "500"}
      BY <1>1, <2>2, <2>3, TransportTypes
    <3>2. exchange' \in [state : {"idle", "running", "returned", "raised"}, head : BOOLEAN,
                         raises : BOOLEAN, content : Seq(1..MaxSends),
                         error : {"none", "user", "assertion", "500"}]
      BY <1>1, <2>3, <3>1, TransportTypes
    <3>3. QED
      BY <1>1, <2>1, <3>2 DEF TransportTypeOK
  <2>5. exchange'.head = exchange.head /\ exchange'.raises = exchange.raises
        /\ exchange'.state \in {"returned", "raised"}
    BY <2>3
  <2>6. TransportInv'
    BY <1>1, <2>1, <2>5 DEF TransportInv, Bodies, Http!Complete, Http!LastIs
  <2>7. ResultInv'
    BY <1>1, <2>1, <2>3, <2>5 DEF ResultInv, TransportInv, Content
  <2>8. QED
    BY <2>1, <2>4, <2>6, <2>7 DEF AnswerGoal, AnswerInv
<1>3. CASE ForgetExchange
  <2>1. AnswerInv'
    BY <1>3, NoExchangeNext DEF ForgetExchange, InitTransport, Idle, NotYet, Ready
  <2>2. QED
    BY <1>3, <2>1 DEF AnswerGoal
<1>4. QED
  BY <1>2, <1>3

LEMMA AnswerStep ==
  ASSUME AnswerInv, NextTransport \/ UNCHANGED transportVars
  PROVE  AnswerGoal
<1>1. CASE UNCHANGED transportVars
  <2>1. TransportTypeOK'
    BY <1>1 DEF transportVars, AnswerInv, TransportTypeOK
  <2>2. TransportInv'
    BY <1>1 DEF transportVars, AnswerInv, TransportInv, Bodies, Http!Complete, Http!LastIs
  <2>3. ResultInv'
    BY <1>1 DEF transportVars, AnswerInv, ResultInv, Content
  <2>4. QED
    BY <1>1, <2>1, <2>2, <2>3 DEF transportVars, AnswerGoal, AnswerInv
<1>2. CASE NextTransport
  BY <1>2, ReceiveSteps, SendSteps, ResultSteps DEF NextTransport, TransportStep
<1>3. QED
  BY <1>1, <1>2

-----------------------------------------------------------------------------
(* A session: the test in its `with`, and the application in _run().       *)

\* Each stream is what the other side has yet to take of what was sent.
StreamsInv ==
  /\ toApp = SubSeq(testSent, took.app + 1, Len(testSent))
  /\ toTest = SubSeq(appSent, took.test + 1, Len(appSent))

\* The application keeps to the protocol: it answers first, and a denial goes on with bodies.
AppSentInv ==
  appSent # <<>> =>
    /\ appSent[1].type \in {"accept", "close", "response.start"}
    /\ appSent[1].type = "response.start" =>
         \A i \in 2..Len(appSent) : appSent[i].type = "response.body"

\* What the test has sent: the connect, then data, then the disconnect, unless it closed.
TestSentInv ==
  \A i \in DOMAIN testSent :
    /\ testSent[i] = "connect" <=> i = 1
    /\ testSent[i] = "disconnect" =>
         /\ test.closed \/ (i = Len(testSent) /\ test.state \in {"cancelling", "joining", "over"})
         /\ appSent # <<>> /\ appSent[1].type = "accept"

\* What the test knows at each point of its `with`.
TestInv ==
  /\ test.state = "outside" => appSent = <<>> /\ run.state = "none"
  /\ test.state \in {"outside", "starting"} => testSent = <<>>
  /\ test.state \in {"connecting", "inside", "receiving", "closing"} => testSent # <<>>
  /\ test.state \in {"outside", "starting", "connecting"} => took.test = 0
  /\ test.state = "denied" => took.test > 0 /\ appSent[1].type = "response.start"
  /\ test.state \in {"inside", "receiving", "closing"} => appSent # <<>> /\ appSent[1].type = "accept"
  /\ test.state \in {"cancelling", "joining"} /\ test.error \in {"none", "test"} =>
       testSent # <<>> /\ testSent[Len(testSent)] = "disconnect"
  /\ test.state # "over" => test.error # "app"
  /\ test.state = "over" => Closed /\ (test.error = "app" <=> run.state = "raised")

SessionInv == SessionTypeOK /\ StreamsInv /\ AppSentInv /\ TestSentInv /\ TestInv

LEMMA SessionTypes ==
  ASSUME SessionTypeOK
  PROVE  /\ test = [state |-> test.state, error |-> test.error, closed |-> test.closed]
         /\ test.closed \in BOOLEAN
         /\ test.state \in {"outside", "starting", "connecting", "denied", "inside", "receiving",
                            "closing", "cancelling", "joining", "over"}
         /\ test.error \in SessionErrors
         /\ run = [state |-> run.state, cancelled |-> run.cancelled]
         /\ run.state \in {"none", "runs", "receives", "asleep", "returned", "raised"}
         /\ run.cancelled \in BOOLEAN
         /\ toApp \in Seq(TestMessage) /\ testSent \in Seq(TestMessage)
         /\ toTest \in Seq(OutMessage) /\ appSent \in Seq(OutMessage)
         /\ took = [app |-> took.app, test |-> took.test]
         /\ took.app \in 0..Len(testSent) /\ took.test \in 0..Len(appSent)
BY DEF SessionTypeOK

\* What is left of a sequence, when its first is taken and when one is added to it.
LEMMA RestTaken ==
  ASSUME NEW S, NEW s \in Seq(S), NEW k \in 0..Len(s), SubSeq(s, k + 1, Len(s)) # <<>>
  PROVE  /\ k + 1 \in 1..Len(s) /\ Head(SubSeq(s, k + 1, Len(s))) = s[k + 1]
         /\ Tail(SubSeq(s, k + 1, Len(s))) = SubSeq(s, (k + 1) + 1, Len(s))
<1>1. Len(s) \in Nat /\ k \in Nat
  OBVIOUS
<1>2. k + 1 \in 1..Len(s)
  <2>1. Len(s) < k + 1 => SubSeq(s, k + 1, Len(s)) = <<>>
    BY <1>1, SubSeqEmpty
  <2>2. QED
    BY <1>1, <2>1
<1>3. Len(s) \in (k + 1)..Len(s)
  BY <1>1, <1>2
<1>4. QED
  BY <1>2, <1>3, HeadTailOfSubSeq

LEMMA RestAdded ==
  ASSUME NEW S, NEW s \in Seq(S), NEW k \in 0..Len(s), NEW m \in S
  PROVE  /\ Append(SubSeq(s, k + 1, Len(s)), m) = SubSeq(Append(s, m), k + 1, Len(Append(s, m)))
         /\ Append(s, m) \in Seq(S) /\ k \in 0..Len(Append(s, m))
<1> DEFINE t == Append(s, m)
           p == SubSeq(s, k + 1, Len(s))
           q == SubSeq(t, k + 1, Len(t))
<1>1. /\ t \in Seq(S) /\ Len(t) = Len(s) + 1 /\ t[Len(s) + 1] = m
      /\ \A i \in 1..Len(s) : t[i] = s[i]
      /\ Len(s) \in Nat /\ k \in Nat /\ k <= Len(s)
  BY AppendProperties
<1>2. \A i \in 1..Len(t) : t[i] \in S
  BY <1>1
<1> HIDE DEF t
<1>3. p \in Seq(S) /\ Len(p) = Len(s) - k /\ \A i \in 1..(Len(s) - k) : p[i] = s[k + i]
  <2>1. \A i \in (k + 1)..Len(s) : s[i] \in S
    BY <1>1
  <2>2. /\ p \in Seq(S)
        /\ Len(p) = IF k + 1 <= Len(s) THEN Len(s) - (k + 1) + 1 ELSE 0
        /\ \A i \in 1..(Len(s) - (k + 1) + 1) : p[i] = s[(k + 1) + i - 1]
    BY <1>1, <2>1, SubSeqProperties
  <2>3. QED
    BY <1>1, <2>2
<1>4. q \in Seq(S) /\ Len(q) = Len(t) - k /\ \A i \in 1..(Len(t) - k) : q[i] = t[k + i]
  <2>1. \A i \in (k + 1)..Len(t) : t[i] \in S
    BY <1>1, <1>2
  <2>2. /\ q \in Seq(S)
        /\ Len(q) = IF k + 1 <= Len(t) THEN Len(t) - (k + 1) + 1 ELSE 0
        /\ \A i \in 1..(Len(t) - (k + 1) + 1) : q[i] = t[(k + 1) + i - 1]
    BY <1>1, <2>1, SubSeqProperties
  <2>3. QED
    BY <1>1, <2>2
<1> HIDE DEF p, q
<1>5. /\ Append(p, m) \in Seq(S) /\ Len(Append(p, m)) = Len(p) + 1
      /\ \A i \in 1..Len(p) : Append(p, m)[i] = p[i]
      /\ Append(p, m)[Len(p) + 1] = m
  BY <1>3, AppendProperties
<1>6. Append(p, m) = q
  <2>1. Len(Append(p, m)) = Len(q)
    BY <1>1, <1>3, <1>4, <1>5
  <2>2. ASSUME NEW i \in 1..Len(Append(p, m)) PROVE Append(p, m)[i] = q[i]
    <3>1. CASE i = Len(p) + 1
      BY <3>1, <1>1, <1>3, <1>4, <1>5
    <3>2. CASE i # Len(p) + 1
      <4>1. i \in 1..Len(p) /\ k + i \in 1..Len(s) /\ i \in 1..(Len(t) - k)
        BY <3>2, <2>2, <1>1, <1>3, <1>5
      <4>2. QED
        BY <4>1, <1>1, <1>3, <1>4, <1>5
    <3>3. QED
      BY <3>1, <3>2
  <2>3. QED
    BY <1>4, <1>5, <2>1, <2>2, SeqEqual
<1>7. QED
  BY <1>1, <1>6 DEF t, p, q

\* The steps that pass no message.
LEMMA SilentSteps ==
  ASSUME SessionInv, UNCHANGED <<toApp, toTest, testSent, appSent, took>>,
         SessionTypeOK', TestInv', test'.closed = test.closed,
         test.state \in {"cancelling", "joining", "over"} =>
           test'.state \in {"cancelling", "joining", "over"}
  PROVE  SessionInv'
<1>1. StreamsInv' /\ AppSentInv'
  BY DEF SessionInv, StreamsInv, AppSentInv
<1>2. TestSentInv'
  BY DEF SessionInv, TestSentInv
<1>3. QED
  BY <1>1, <1>2 DEF SessionInv

LEMMA RunSteps ==
  ASSUME SessionInv,
         AppAsks \/ AppReturns \/ AppRaises \/ TakesCancel \/ CancelRun \/ EnterSession
  PROVE  SessionInv'
<1>1. SessionTypeOK /\ TestInv
  BY DEF SessionInv
<1>2. CASE AppAsks \/ AppReturns \/ AppRaises \/ TakesCancel
  <2>1. /\ run' = [state |-> run'.state, cancelled |-> run.cancelled]
        /\ run'.state \in {"receives", "asleep", "raised", "returned"}
        /\ run.state \in {"runs", "receives", "asleep"}
        /\ UNCHANGED <<test, toApp, toTest, testSent, appSent, took>>
    BY <1>1, <1>2, SessionTypes DEF AppAsks, AppReturns, AppRaises, TakesCancel
  <2>2. SessionTypeOK'
    BY <1>1, <2>1, SessionTypes DEF SessionTypeOK
  <2>3. test.state \notin {"outside", "over"}
    BY <1>1, <2>1 DEF TestInv, Closed
  <2>4. TestInv'
    BY <1>1, <2>1, <2>3 DEF TestInv
  <2>5. QED
    BY <2>1, <2>2, <2>4, SilentSteps
<1>3. CASE CancelRun
  <2>1. /\ run' = [state |-> run.state, cancelled |-> TRUE]
        /\ test' = [state |-> "joining", error |-> test.error, closed |-> test.closed] /\ test.state = "cancelling"
        /\ UNCHANGED <<toApp, toTest, testSent, appSent, took>>
    BY <1>1, <1>3, SessionTypes DEF CancelRun, Goes
  <2>2. SessionTypeOK'
    BY <1>1, <2>1, SessionTypes DEF SessionTypeOK
  <2>3. TestInv'
    BY <1>1, <2>1 DEF TestInv
  <2>4. QED
    BY <2>1, <2>2, <2>3, SilentSteps
<1>4. CASE EnterSession
  <2>1. /\ run' = [state |-> "runs", cancelled |-> run.cancelled]
        /\ test' = [state |-> "starting", error |-> "none", closed |-> test.closed]
        /\ test.state = "outside"
        /\ UNCHANGED <<toApp, toTest, testSent, appSent, took>>
    BY <1>1, <1>4, SessionTypes DEF EnterSession, Goes
  <2>2. SessionTypeOK'
    BY <1>1, <2>1, SessionTypes DEF SessionTypeOK, SessionErrors
  <2>3. TestInv'
    BY <1>1, <2>1 DEF TestInv
  <2>4. QED
    BY <2>1, <2>2, <2>3, SilentSteps
<1>5. QED
  BY <1>2, <1>3, <1>4

LEMMA BlockSteps ==
  ASSUME SessionInv, AskData \/ TestTakesNone \/ LeaveBlock \/ JoinRun
  PROVE  SessionInv'
<1>1. SessionTypeOK /\ TestInv
  BY DEF SessionInv
<1>2. UNCHANGED <<run, toApp, toTest, testSent, appSent, took>>
  BY DEF AskData, TestTakesNone, LeaveBlock, JoinRun
<1>3. ASSUME NEW place, NEW error \in SessionErrors,
             test' = [state |-> place, error |-> error, closed |-> test.closed],
             \/ test.state = "inside" /\ place \in {"receiving", "closing"} /\ error # "app"
             \/ test.state = "receiving" /\ place = "closing" /\ error # "app"
             \/ test.state \in {"connecting", "denied"} /\ place = "cancelling" /\ error = "closed"
             \/ /\ test.state = "joining" /\ place = "over" /\ Closed
                /\ error = "app" <=> run.state = "raised"
      PROVE  SessionInv'
  <2>1. SessionTypeOK'
    BY <1>1, <1>2, <1>3, SessionTypes DEF SessionTypeOK
  <2>2. TestInv'
    BY <1>1, <1>2, <1>3 DEF TestInv, Closed
  <2>3. QED
    BY <1>2, <1>3, <2>1, <2>2, SilentSteps
<1>4. test.error \in SessionErrors /\ "closed" \in SessionErrors /\ "app" \in SessionErrors
      /\ "none" \in SessionErrors /\ "test" \in SessionErrors
      /\ (test.state # "over" => test.error # "app")
  BY <1>1, SessionTypes DEF SessionErrors, TestInv
<1>g. \A place, error : Goes(place, error) =>
              test' = [state |-> place, error |-> error, closed |-> test.closed]
  BY <1>1, SessionTypes DEF Goes
<1>5. CASE AskData
  BY <1>g, <1>3, <1>4, <1>5 DEF AskData
<1>6. CASE TestTakesNone
  <2>1. CASE test.state = "receiving"
    BY <1>g, <1>3, <1>4, <1>6, <2>1 DEF TestTakesNone
  <2>2. CASE test.state \in {"connecting", "denied"}
    BY <1>g, <1>3, <1>4, <1>6, <2>2 DEF TestTakesNone
  <2>3. QED
    BY <1>6, <2>1, <2>2 DEF TestTakesNone
<1>7. CASE LeaveBlock
  BY <1>g, <1>3, <1>4, <1>7 DEF LeaveBlock
<1>8. CASE JoinRun
  <2>1. CASE run.state = "raised"
    BY <1>g, <1>3, <1>4, <1>8, <2>1 DEF JoinRun
  <2>2. CASE run.state # "raised"
    BY <1>g, <1>3, <1>4, <1>8, <2>2 DEF JoinRun
  <2>3. QED
    BY <2>1, <2>2
<1>9. QED
  BY <1>5, <1>6, <1>7, <1>8

\* The test sends: the connect first, data or a close in its block, the disconnect behind it.
LEMMA TestSendStep ==
  ASSUME SessionInv, NEW m \in TestMessage, NEW on, NEW fails, NEW closed \in BOOLEAN,
         TestSend(m, [state |-> on, error |-> test.error, closed |-> closed], fails),
         test.closed => closed, m = "disconnect" => on = "cancelling" \/ closed,
         UNCHANGED <<run, toTest, appSent, took>>,
         \/ test.state = "starting" /\ m = "connect" /\ on = "connecting" /\ fails = "cancelling"
         \/ test.state = "inside" /\ m \in {"receive", "disconnect"} /\ on = "inside" /\ fails = "closing"
         \/ test.state = "closing" /\ m = "disconnect" /\ on = "cancelling" /\ fails = "cancelling"
  PROVE  SessionInv'
<1>1. SessionTypeOK /\ TestInv /\ TestSentInv /\ StreamsInv /\ AppSentInv
  BY DEF SessionInv
<1>2. test.error \in SessionErrors /\ "closed" \in SessionErrors /\ test.error # "app"
  BY <1>1, SessionTypes DEF SessionErrors, TestInv
<1>3. CASE Closed /\ Goes(fails, "closed") /\ UNCHANGED <<toApp, testSent>>
  <2>1. test' = [state |-> fails, error |-> "closed", closed |-> test.closed]
    BY <1>1, <1>3, SessionTypes DEF Goes
  <2>2. SessionTypeOK'
    BY <1>1, <1>2, <1>3, <2>1, SessionTypes DEF SessionTypeOK
  <2>3. TestInv'
    BY <1>1, <1>3, <2>1 DEF TestInv
  <2>4. QED
    BY <1>3, <2>1, <2>2, <2>3, SilentSteps
<1>4. CASE ~Closed /\ toApp' = Append(toApp, m) /\ testSent' = Append(testSent, m)
           /\ test' = [state |-> on, error |-> test.error, closed |-> closed]
  <2>1. test' = [state |-> on, error |-> test.error, closed |-> closed]
    BY <1>4
  <2>2. /\ toApp' = SubSeq(testSent', took.app + 1, Len(testSent'))
        /\ testSent' \in Seq(TestMessage) /\ took.app \in 0..Len(testSent')
    <3>1. testSent \in Seq(TestMessage) /\ took.app \in 0..Len(testSent)
      BY <1>1, SessionTypes
    <3>2. /\ Append(SubSeq(testSent, took.app + 1, Len(testSent)), m) =
               SubSeq(Append(testSent, m), took.app + 1, Len(Append(testSent, m)))
          /\ Append(testSent, m) \in Seq(TestMessage) /\ took.app \in 0..Len(Append(testSent, m))
      BY <3>1, RestAdded
    <3>3. QED
      BY <1>1, <1>4, <3>2 DEF StreamsInv
  <2>3. StreamsInv' /\ AppSentInv'
    BY <1>1, <2>2 DEF StreamsInv, AppSentInv
  <2>4. toApp' \in Seq(TestMessage)
    BY <1>1, <1>4, SessionTypes
  <2>5. SessionTypeOK'
    BY <1>1, <1>2, <2>1, <2>2, <2>4, SessionTypes DEF SessionTypeOK
  <2>6. /\ DOMAIN testSent = 1..Len(testSent) /\ Len(testSent) \in Nat
        /\ DOMAIN testSent' = 1..(Len(testSent) + 1) /\ Len(testSent') = Len(testSent) + 1
        /\ testSent'[Len(testSent) + 1] = m
        /\ \A i \in 1..Len(testSent) : testSent'[i] = testSent[i]
        /\ testSent' # <<>>
    <3>1. testSent \in Seq(TestMessage) /\ testSent' = Append(testSent, m)
      BY <1>1, <1>4, SessionTypes
    <3>2. QED
      BY <3>1, AppendProperties
  <2>7. m = "connect" <=> Len(testSent) = 0
    <3>1. Len(testSent) = 0 <=> testSent = <<>>
      BY <1>1, SessionTypes
    <3>2. QED
      BY <1>1, <3>1 DEF TestInv
  <2>8. \A i \in DOMAIN testSent : testSent[i] = "disconnect" => test'.closed
    BY <1>1, <2>1 DEF TestSentInv
  <2>9. TestSentInv'
    <3>1. SUFFICES ASSUME NEW i \in DOMAIN testSent'
                   PROVE  /\ testSent'[i] = "connect" <=> i = 1
                          /\ testSent'[i] = "disconnect" =>
                               /\ \/ test'.closed
                                  \/ /\ i = Len(testSent')
                                     /\ test'.state \in {"cancelling", "joining", "over"}
                               /\ appSent' # <<>> /\ appSent'[1].type = "accept"
      BY DEF TestSentInv
    <3>2. CASE i = Len(testSent) + 1
      <4>1. testSent'[i] = m /\ i = Len(testSent') /\ (i = 1 <=> Len(testSent) = 0)
        BY <2>6, <3>2
      <4>2. m = "disconnect" => /\ test'.state = "cancelling" \/ test'.closed
                                /\ appSent # <<>> /\ appSent[1].type = "accept"
        BY <1>1, <2>1 DEF TestInv
      <4>3. QED
        BY <2>7, <4>1, <4>2
    <3>3. CASE i # Len(testSent) + 1
      <4>1. i \in DOMAIN testSent /\ testSent'[i] = testSent[i]
        BY <2>6, <3>1, <3>3
      <4>2. QED
        BY <1>1, <2>8, <4>1 DEF TestSentInv
    <3>4. QED
      BY <3>2, <3>3
  <2>10. TestInv'
    BY <1>1, <1>2, <1>4, <2>1, <2>6 DEF TestInv, Closed
  <2>11. QED
    BY <2>3, <2>5, <2>9, <2>10 DEF SessionInv
<1>5. QED
  BY <1>3, <1>4 DEF TestSend

LEMMA TestSends ==
  ASSUME SessionInv, SendConnect \/ SendData \/ SendClose \/ CloseSession
  PROVE  SessionInv'
<1>0. test = [state |-> test.state, error |-> test.error, closed |-> test.closed]
      /\ test.closed \in BOOLEAN
  BY SessionTypes DEF SessionInv
<1>1. "connect" \in TestMessage /\ "receive" \in TestMessage /\ "disconnect" \in TestMessage
  BY DEF TestMessage
<1>2. CASE SendConnect
  <2>1. TestSend("connect", [state |-> "connecting", error |-> test.error, closed |-> test.closed],
                 "cancelling")
    BY <1>0, <1>2 DEF SendConnect
  <2>2. QED
    BY <1>0, <1>1, <1>2, <2>1, TestSendStep DEF SendConnect
<1>3. CASE SendData
  <2>1. TestSend("receive", [state |-> "inside", error |-> test.error, closed |-> test.closed],
                 "closing")
    BY <1>0, <1>3 DEF SendData
  <2>2. QED
    BY <1>0, <1>1, <1>3, <2>1, TestSendStep DEF SendData
<1>4. CASE SendClose
  <2>1. PICK closed \in BOOLEAN : closed = TRUE
    OBVIOUS
  <2>2. TestSend("disconnect", [state |-> "inside", error |-> test.error, closed |-> closed],
                 "closing")
    <3>1. [test EXCEPT !.closed = closed] =
            [state |-> "inside", error |-> test.error, closed |-> closed]
      BY <1>0, <1>4 DEF SendClose
    <3>2. [test EXCEPT !.closed = TRUE] = [test EXCEPT !.closed = closed]
      BY <2>1, Zenon
    <3>3. TestSend("disconnect", [test EXCEPT !.closed = TRUE], "closing")
      BY <1>4 DEF SendClose
    <3>4. QED
      BY <3>1, <3>2, <3>3, Zenon
  <2>3. /\ UNCHANGED <<run, toTest, appSent, took>> /\ test.state = "inside"
        /\ test.closed => closed
        /\ "disconnect" = "disconnect" => "inside" = "cancelling" \/ closed
    BY <1>4, <2>1 DEF SendClose
  <2>4. QED
    BY <1>1, <2>2, <2>3, TestSendStep
<1>5. CASE CloseSession
  <2>1. TestSend("disconnect", [state |-> "cancelling", error |-> test.error, closed |-> test.closed],
                 "cancelling")
    BY <1>0, <1>5 DEF CloseSession
  <2>2. QED
    BY <1>0, <1>1, <1>5, <2>1, TestSendStep DEF CloseSession
<1>6. QED
  BY <1>2, <1>3, <1>4, <1>5

LEMMA AppTakesStep ==
  ASSUME SessionInv, AppTakes
  PROVE  SessionInv'
<1>1. SessionTypeOK /\ TestInv /\ StreamsInv
  BY DEF SessionInv
<1>2. /\ run' = [state |-> "runs", cancelled |-> run.cancelled] /\ run.state = "receives"
      /\ toApp # <<>> /\ toApp' = Tail(toApp)
      /\ took' = [app |-> took.app + 1, test |-> took.test]
      /\ UNCHANGED <<test, toTest, testSent, appSent>>
  BY <1>1, SessionTypes DEF AppTakes
<1>3. testSent \in Seq(TestMessage) /\ took.app \in 0..Len(testSent)
  BY <1>1, SessionTypes
<1>4. took.app + 1 \in 1..Len(testSent)
      /\ toApp' = SubSeq(testSent, (took.app + 1) + 1, Len(testSent))
  BY <1>1, <1>2, <1>3, RestTaken DEF StreamsInv
<1>5. SessionTypeOK'
  <2>1. toApp' \in Seq(TestMessage) /\ took.app + 1 \in 0..Len(testSent)
    BY <1>1, <1>2, <1>4, SessionTypes
  <2>2. QED
    BY <1>1, <1>2, <2>1, SessionTypes DEF SessionTypeOK
<1>6. StreamsInv'
  BY <1>1, <1>2, <1>4 DEF StreamsInv
<1>7. TestInv'
  BY <1>1, <1>2 DEF TestInv, Closed
<1>8. AppSentInv' /\ TestSentInv'
  BY <1>2 DEF SessionInv, AppSentInv, TestSentInv
<1>9. QED
  BY <1>5, <1>6, <1>7, <1>8 DEF SessionInv

\* The first message that the test takes is the answer to its connect.
LEMMA TestTakesStep ==
  ASSUME SessionInv, TestTakes
  PROVE  SessionInv'
<1>1. SessionTypeOK /\ TestInv /\ StreamsInv /\ AppSentInv
  BY DEF SessionInv
<1> DEFINE m == Head(toTest)
<1>2. /\ test.state \in {"connecting", "denied", "receiving"} /\ ~Closed
      /\ toTest # <<>> /\ toTest' = Tail(toTest)
      /\ took' = [app |-> took.app, test |-> took.test + 1]
      /\ UNCHANGED <<run, toApp, testSent, appSent>>
  BY <1>1, SessionTypes DEF TestTakes
<1>3. /\ appSent \in Seq(OutMessage) /\ took.test \in 0..Len(appSent)
      /\ test.error \in SessionErrors /\ test.error # "app"
      /\ "disconnect" \in SessionErrors /\ "none" \in SessionErrors
  BY <1>1, <1>2, SessionTypes DEF SessionErrors, TestInv
<1>4. took.test + 1 \in 1..Len(appSent) /\ m = appSent[took.test + 1]
      /\ toTest' = SubSeq(appSent, (took.test + 1) + 1, Len(appSent))
  BY <1>1, <1>2, <1>3, RestTaken DEF StreamsInv
<1>5. m \in OutMessage /\ appSent # <<>>
  BY <1>3, <1>4
<1> HIDE DEF m
<1>6. m.type \in {"accept", "send", "close", "response.start", "response.body"}
      /\ m.more_body \in BOOLEAN
  BY <1>5 DEF OutMessage
<1>g. \A place, error : Goes(place, error) =>
              test' = [state |-> place, error |-> error, closed |-> test.closed]
  BY <1>1, SessionTypes DEF Goes
<1>7. /\ test' = [state |-> test'.state, error |-> test'.error, closed |-> test.closed]
      /\ test'.state = "cancelling" => test'.error = "disconnect"
      /\ test'.state \in {"cancelling", "denied", "inside", "closing"}
      /\ test'.error \in SessionErrors /\ test'.error # "app"
      /\ test'.state = "inside" => test.state = "receiving" \/ m.type \in {"accept", "send"}
      /\ test.state # "receiving" => test'.state # "closing"
      /\ test'.state = "denied" => m.type \in {"response.start", "response.body"}
      /\ test.state = "receiving" => test'.state \in {"inside", "closing"}
  <2>1. CASE test.state = "receiving"
    <3>1. Received(m)
      BY <2>1 DEF TestTakes, m
    <3>2. QED
      BY <1>g, <1>3, <2>1, <3>1 DEF Received
  <2>2. CASE test.state # "receiving"
    <3>1. Answered(m)
      BY <2>2 DEF TestTakes, m
    <3>2. CASE m.type = "close"
      BY <1>g, <1>3, <2>2, <3>1, <3>2 DEF Answered
    <3>3. CASE m.type = "response.start"
      BY <1>g, <1>3, <2>2, <3>1, <3>3 DEF Answered
    <3>4. CASE m.type = "response.body"
      <4>1. test' = [state |-> IF m.more_body THEN "denied" ELSE "cancelling",
                     error |-> IF m.more_body THEN "none" ELSE "disconnect",
                     closed |-> test.closed]
        BY <1>g, <3>1, <3>4 DEF Answered
      <4>2. QED
        BY <1>3, <2>2, <3>4, <4>1
    <3>5. CASE m.type \in {"accept", "send"}
      BY <1>g, <1>3, <2>2, <3>1, <3>5 DEF Answered
    <3>6. QED
      BY <1>6, <3>2, <3>3, <3>4, <3>5
  <2>3. QED
    BY <2>1, <2>2
<1>8. test.state = "connecting" => m = appSent[1]
  BY <1>1, <1>4 DEF TestInv
<1>9. test.state = "denied" => m.type = "response.body" /\ appSent[1].type = "response.start"
  <2>1. test.state = "denied" => took.test + 1 \in 2..Len(appSent)
    BY <1>1, <1>3, <1>4 DEF TestInv
  <2>2. QED
    BY <1>1, <1>4, <1>5, <2>1 DEF TestInv, AppSentInv
<1>10. appSent[1].type \in {"accept", "close", "response.start"}
  BY <1>1, <1>5 DEF AppSentInv
<1>11. SessionTypeOK'
  <2>1. toTest' \in Seq(OutMessage) /\ took.test + 1 \in 0..Len(appSent)
    BY <1>1, <1>2, <1>4, SessionTypes
  <2>2. QED
    BY <1>1, <1>2, <1>7, <2>1, SessionTypes DEF SessionTypeOK
<1>12. StreamsInv'
  BY <1>1, <1>2, <1>4 DEF StreamsInv
<1>13. TestInv'
  <2>1. test'.state = "denied" => took'.test > 0 /\ appSent'[1].type = "response.start"
    BY <1>2, <1>3, <1>7, <1>8, <1>9, <1>10
  <2>2. test'.state \in {"inside", "closing"} => appSent' # <<>> /\ appSent'[1].type = "accept"
    <3>1. CASE test.state = "receiving"
      BY <1>1, <1>2, <1>5, <3>1 DEF TestInv
    <3>2. CASE test.state = "connecting"
      BY <1>2, <1>5, <1>7, <1>8, <1>10, <3>2
    <3>3. CASE test.state = "denied"
      BY <1>2, <1>5, <1>7, <1>9, <3>3
    <3>4. QED
      BY <1>2, <3>1, <3>2, <3>3
  <2>3. test'.state \in {"inside", "closing"} => testSent' # <<>>
    <3>1. testSent # <<>> \/ test.state = "denied" \/ test.state = "connecting"
      BY <1>1, <1>2 DEF TestInv
    <3>2. test.state = "denied" => test'.state \notin {"inside", "closing"}
      BY <1>7, <1>9
    <3>3. test.state = "connecting" => testSent # <<>>
      BY <1>1 DEF TestInv
    <3>4. QED
      BY <1>2, <3>1, <3>2, <3>3
  <2>4. QED
    BY <1>7, <2>1, <2>2, <2>3 DEF TestInv
<1>14. AppSentInv'
  BY <1>1, <1>2 DEF AppSentInv
<1>15. TestSentInv'
  <2>1. test.state \in {"connecting", "denied", "receiving"} /\ test'.closed = test.closed
    BY <1>2, <1>7
  <2>2. QED
    BY <1>2, <2>1 DEF SessionInv, TestSentInv
<1>16. QED
  BY <1>11, <1>12, <1>13, <1>14, <1>15 DEF SessionInv

LEMMA AppSendsStep ==
  ASSUME SessionInv,
         NEW type \in {"accept", "send", "close", "response.start", "response.body"},
         NEW more \in BOOLEAN, AppSends(type, more)
  PROVE  SessionInv'
<1>1. SessionTypeOK /\ TestInv /\ StreamsInv /\ AppSentInv
  BY DEF SessionInv
<1> DEFINE m == Out(type, more)
<1>2. /\ run.state = "runs" /\ appSent' = Append(appSent, m) /\ Promise!Next
      /\ toTest' = Append(toTest, m)
      /\ UNCHANGED <<test, run, toApp, testSent, took>>
  BY DEF AppSends
<1>3. m \in OutMessage /\ m.type = type
  BY DEF Out, OutMessage
<1> HIDE DEF m
<1>4. appSent \in Seq(OutMessage) /\ took.test \in 0..Len(appSent)
  BY <1>1, SessionTypes
<1>5. /\ Append(SubSeq(appSent, took.test + 1, Len(appSent)), m) =
           SubSeq(Append(appSent, m), took.test + 1, Len(Append(appSent, m)))
      /\ Append(appSent, m) \in Seq(OutMessage) /\ took.test \in 0..Len(Append(appSent, m))
  BY <1>3, <1>4, RestAdded
<1>6. StreamsInv'
  BY <1>1, <1>2, <1>5 DEF StreamsInv
<1>7. SessionTypeOK'
  <2>1. toTest' \in Seq(OutMessage)
    BY <1>1, <1>2, <1>3, SessionTypes
  <2>2. QED
    BY <1>1, <1>2, <1>5, <2>1, SessionTypes DEF SessionTypeOK
<1>8. /\ Len(appSent') = Len(appSent) + 1 /\ Len(appSent) \in Nat /\ appSent' # <<>>
      /\ appSent'[Len(appSent) + 1] = m
      /\ \A i \in 1..Len(appSent) : appSent'[i] = appSent[i]
      /\ (appSent = <<>> <=> Len(appSent) = 0)
  BY <1>2, <1>3, <1>4, AppendProperties
<1>9. appSent # <<>> => appSent'[1] = appSent[1]
  BY <1>8
<1>10. CASE appSent = <<>>
  <2>1. type \in {"accept", "close", "response.start"}
    BY <1>2, <1>3, <1>8, <1>10 DEF Promise!Next, Promise!Answer, Promise!Data, Promise!Denial,
                                   Promise!Sends, Promise!Accepted, Promise!Denying, Promise!LastIs
  <2>2. Len(appSent') = 1 /\ appSent'[1].type = type
    BY <1>3, <1>8, <1>10
  <2>3. AppSentInv'
    BY <2>1, <2>2 DEF AppSentInv
  <2>4. took.test = 0 /\ test.state \notin {"denied", "inside", "receiving", "closing"}
    BY <1>1, <1>4, <1>8, <1>10 DEF TestInv
  <2>5. test.state # "outside"
    BY <1>1, <1>2 DEF TestInv
  <2>6. TestInv'
    BY <1>1, <1>2, <2>4, <2>5 DEF TestInv, Closed
  <2>7. TestSentInv'
    BY <1>2, <1>10 DEF SessionInv, TestSentInv
  <2>8. QED
    BY <1>6, <1>7, <2>3, <2>6, <2>7 DEF SessionInv
<1>11. CASE appSent # <<>>
  <2>1. AppSentInv'
    <3>1. appSent'[1].type \in {"accept", "close", "response.start"}
      BY <1>1, <1>9, <1>11 DEF AppSentInv
    <3>2. ASSUME appSent'[1].type = "response.start", NEW i \in 2..Len(appSent')
          PROVE  appSent'[i].type = "response.body"
      <4>1. appSent[1].type = "response.start"
        BY <1>9, <1>11, <3>2
      <4>2. appSent[Len(appSent)].type \in {"response.start", "response.body"}
        BY <1>1, <1>8, <1>11, <4>1 DEF AppSentInv
      <4>3. type = "response.body"
        BY <1>2, <1>3, <1>8, <1>11, <4>2 DEF Promise!Next, Promise!Answer, Promise!Data,
              Promise!Denial, Promise!Sends, Promise!Accepted, Promise!Denying, Promise!LastIs
      <4>4. CASE i = Len(appSent) + 1
        BY <1>3, <1>8, <4>3, <4>4
      <4>5. CASE i # Len(appSent) + 1
        <5>1. i \in 2..Len(appSent) /\ appSent'[i] = appSent[i]
          BY <1>8, <3>2, <4>5
        <5>2. QED
          BY <1>1, <1>11, <4>1, <5>1 DEF AppSentInv
      <4>6. QED
        BY <4>4, <4>5
    <3>3. QED
      BY <3>1, <3>2 DEF AppSentInv
  <2>2. TestInv'
    BY <1>1, <1>2, <1>8, <1>9, <1>11 DEF TestInv, Closed
  <2>3. TestSentInv'
    BY <1>2, <1>8, <1>9, <1>11 DEF SessionInv, TestSentInv
  <2>4. QED
    BY <1>6, <1>7, <2>1, <2>2, <2>3 DEF SessionInv
<1>12. QED
  BY <1>10, <1>11

LEMMA NoSession == InitSession => SessionInv
<1> SUFFICES ASSUME InitSession PROVE SessionInv
  OBVIOUS
<1>1. /\ test = [state |-> "outside", error |-> "none", closed |-> FALSE]
      /\ run = [state |-> "none", cancelled |-> FALSE]
      /\ took = [app |-> 0, test |-> 0]
      /\ toApp = <<>> /\ toTest = <<>> /\ testSent = <<>> /\ appSent = <<>>
  BY DEF InitSession, Outside, NoTask, NoneTaken
<1>2. SessionTypeOK
  <2>1. took \in [app : 0..Len(testSent), test : 0..Len(appSent)]
    BY <1>1
  <2>2. QED
    BY <1>1, <2>1 DEF SessionTypeOK, SessionErrors
<1>3. StreamsInv /\ AppSentInv /\ TestSentInv /\ TestInv
  BY <1>1 DEF StreamsInv, AppSentInv, TestSentInv, TestInv
<1>4. QED
  BY <1>2, <1>3 DEF SessionInv

LEMMA NoSessionNext == InitSession' => SessionInv'
BY NoSession, PTL

LEMMA SessionSteps ==
  ASSUME SessionInv, NextSession \/ UNCHANGED sessionVars
  PROVE  SessionInv'
<1>1. CASE UNCHANGED sessionVars
  <2>1. UNCHANGED <<toApp, toTest, testSent, appSent, took, test, run>>
    BY <1>1 DEF sessionVars
  <2>2. SessionTypeOK' /\ TestInv'
    BY <2>1 DEF SessionInv, SessionTypeOK, TestInv, Closed
  <2>3. QED
    BY <2>1, <2>2, SilentSteps
<1>2. CASE ForgetSession
  BY <1>2, NoSessionNext DEF ForgetSession, InitSession
<1>3. CASE EnterSession \/ SessionStep
  BY <1>3, RunSteps, BlockSteps, TestSends, AppTakesStep, TestTakesStep, AppSendsStep DEF SessionStep
<1>4. QED
  BY <1>1, <1>2, <1>3 DEF NextSession

-----------------------------------------------------------------------------
(* A request that is routed: the first match wins at each router, what the *)
(* mounts matched is in root_path, and a redirect leads to an answer.      *)
(* What a router sees of a request is a function of what was asked and of  *)
(* what the mounts of the way matched, so that the matches of the routers  *)
(* behind stay what they were.  After a redirect the request comes the     *)
(* same way again, or ends earlier: at each router of the way, the routes  *)
(* before the one that was taken lead to no router, or leave it "/" only,  *)
(* which redirects nothing.                                                *)

\* The routes of a router.
RoutesOf(rt) == Routers[rt].routes

\* The last segment of a path that ends with a slash.
Empty == ""

\* What Requests are, and what they are after a redirect.
Segment == STRING \union {Empty}

\* Paths, and hosts.
Strings == Seq(Segment)
Asking == [type : {"http", "websocket"}, method : Segment, path : Strings,
           root_path : Strings, host : Strings, port : Segment]

\* What all mounts of a way take of the path.
AllTaken(w) == Taken(w, Len(w) + 1)

\* The router that is reached by the first k - 1 routes of a way.
LeadsTo(first, w, k) == IF k = 1 THEN first ELSE RouteOn(w, k - 1).app

\* What was asked, and the scope: what the mounts matched is in root_path.
AskedInv ==
  /\ top \in Apps
  /\ asked \in Asking
  /\ Len(asked.root_path) <= Len(asked.path)
  /\ \A i \in 1..Len(asked.root_path) : asked.root_path[i] = asked.path[i]
  /\ asked.root_path # <<>> => asked.root_path[Len(asked.root_path)] # Empty

\* The scope, but for what routes change of it.
ScopeIs(root_path, app_root_path, path_params) ==
  [type |-> asked.type, method |-> asked.method, path |-> asked.path, root_path |-> root_path,
   host |-> asked.host, port |-> asked.port, app_root_path |-> app_root_path,
   path_params |-> path_params]

\* What was matched and what is left are the path that was asked for.
ScopeInv ==
  /\ scope = ScopeIs(scope.root_path, scope.app_root_path, scope.path_params)
  /\ scope.root_path \in Strings
  /\ Len(scope.root_path) = Len(asked.root_path) + AllTaken(way)
  /\ Len(scope.root_path) <= Len(asked.path)
  /\ \A i \in 1..Len(scope.root_path) : scope.root_path[i] = asked.path[i]
  /\ scope.root_path # <<>> => scope.root_path[Len(scope.root_path)] # Empty
  /\ way = <<>> => scope.root_path = asked.root_path
  /\ scope.app_root_path \in {<<>>, <<asked.root_path>>}
  /\ scope.app_root_path = <<>> => scope.root_path = asked.root_path

\* A way is made of routes that there are.
Pairs == (DOMAIN Routers) \X Nat
RouteOK(rt, i) == rt \in DOMAIN Routers /\ i \in 1..Len(RoutesOf(rt))
GoodWay(w) == w \in Seq(Pairs) /\ \A k \in 1..Len(w) : RouteOK(w[k][1], w[k][2])
WayIsGood == GoodWay(way)

\* The routes that handled the request were the first to match, and they lead to the router
\* that runs.
Won(rt, i, s) ==
  IF Matches(RoutesOf(rt)[i], s) = "FULL"
  THEN \A j \in 1..(i - 1) : Matches(RoutesOf(rt)[j], s) # "FULL"
  ELSE /\ \A j \in 1..Len(RoutesOf(rt)) : Matches(RoutesOf(rt)[j], s) # "FULL"
       /\ \A j \in 1..(i - 1) : Matches(RoutesOf(rt)[j], s) = "NONE"

\* The route of the router that handles the scope.
Handled(rt, i, s) == Matches(RoutesOf(rt)[i], s) # "NONE" /\ Won(rt, i, s)

\* No route has taken the request to its end.
Looking == stage \in {"routing", "redirecting"} \/ answer \in {"404", "close", "redirect"}

\* The way is one of first matches, and to the router that looks.
WayInv ==
  /\ WayIsGood
  /\ \A k \in 1..Len(way) : /\ way[k][1] = LeadsTo(top, way, k)
                            /\ Handled(way[k][1], way[k][2], ScopeAt(k))
  /\ Looking => /\ router = LeadsTo(top, way, Len(way) + 1)
                /\ \A k \in 1..Len(way) : RouteAt(k).app # "endpoint"

\* What is known of the routes that the router has looked at.
Here == ScopeAt(Len(way) + 1)
NoneFits == \A j \in 1..Len(Routes) : Matches(Routes[j], Here) = "NONE"

\* What the routes that were looked at are known not to match.
LookInv ==
  /\ stage = "routing" =>
       /\ next >= 1
       /\ \A j \in 1..(next - 1) : /\ Matches(Routes[j], Here) # "FULL"
                                   /\ partial = 0 \/ j < partial => Matches(Routes[j], Here) = "NONE"
       /\ partial # 0 => partial < next /\ Matches(Routes[partial], Here) = "PARTIAL"
  /\ stage = "redirecting" \/ answer \in {"404", "close", "redirect"} => NoneFits
  /\ stage = "redirecting" => next >= 1 /\ MayRedirect
  /\ answer = "redirect" => /\ MayRedirect
                            /\ \E j \in 1..Len(Routes) : Matches(Routes[j], RedirectScope) # "NONE"

\* A way that the request after a redirect is led along: the routes that it passes over lead
\* to no other router, unless to one that gets "/" and does not redirect it.
PathFrom(a, w, k) == SubSeq(a.path, Len(a.root_path) + Taken(w, k) + 1, Len(a.path))

\* What a router asks its routes, for a path that is left.
ScopeFor(a, path) == [ScopeOf(a) EXCEPT !.path = path, !.root_path = <<>>]

\* A route that leads to no router, or leaves it "/" only.
Harmless(r, a, path) ==
  \/ Matches(r, ScopeFor(a, path)) # "FULL"
  \/ r.app = "endpoint"
  \/ r.kind = "mount" /\ Len(path) = Len(r.path) /\ path[Len(path)] = Empty

\* The k-th route of a way matches, after such that are harmless.
FollowsTo(a, first, w, k) ==
  /\ w[k][1] = LeadsTo(first, w, k)
  /\ RouteOn(w, k).app # "endpoint"
  /\ Matches(RouteOn(w, k), ScopeFor(a, PathFrom(a, w, k))) = "FULL"
  /\ \A j \in 1..(w[k][2] - 1) : Harmless(RoutesOf(w[k][1])[j], a, PathFrom(a, w, k))

\* No route of the router leads on, and one matches at least.
EndsAt(a, rt, path) ==
  /\ rt \in DOMAIN Routers
  /\ \A j \in 1..Len(RoutesOf(rt)) : Harmless(RoutesOf(rt)[j], a, path)
  /\ \E j \in 1..Len(RoutesOf(rt)) : Matches(RoutesOf(rt)[j], ScopeFor(a, path)) # "NONE"

\* All routes of the way do, and its last router has an end.
Follows(a, first, w) ==
  /\ GoodWay(w)
  /\ \A k \in 1..Len(w) : FollowsTo(a, first, w, k)
  /\ EndsAt(a, LeadsTo(first, w, Len(w) + 1), PathFrom(a, w, Len(w) + 1))

\* The request is on that way yet, and not behind its next route.
Along(w) ==
  /\ Len(way) <= Len(w)
  /\ \A k \in 1..Len(way) : way[k] = w[k]
  /\ Len(way) < Len(w) => next <= w[Len(way) + 1][2]

\* Only "/" is left, or there is a way.
Settles == GetRoutePath(scope) = <<Empty>> \/ \E w : Follows(asked, top, w) /\ Along(w)

\* A redirected request is on such a way, or nothing redirects it.
SettleInv ==
  /\ stage = "idle" => hops = 0
  /\ hops = 1 =>
       /\ stage # "redirecting" /\ answer # "redirect"
       /\ stage = "routing" => Settles

\* All that is known of a request.
RouteInv == RoutingTypeOK /\ AskedInv /\ ScopeInv /\ WayInv /\ LookInv
RoutingInv == RouteInv /\ SettleInv

-----------------------------------------------------------------------------
(* Lemmas: routes, and what matches() asks of a scope.                     *)

\* A route has the shape that its constructor gives it.
LEMMA RouteTypes ==
  ASSUME NEW rt, NEW i, RouteOK(rt, i)
  PROVE  /\ RoutesOf(rt) \in Seq(RouteSet) /\ Len(RoutesOf(rt)) \in Nat
         /\ i \in Nat /\ i >= 1
         /\ RoutesOf(rt)[i] \in RouteSet /\ WellMade(RoutesOf(rt)[i])
<1>1. RoutesOf(rt) \in Seq(RouteSet)
  BY RoutersAssumption DEF RouteOK, RoutesOf
<1>2. DOMAIN RoutesOf(rt) = 1..Len(RoutesOf(rt)) /\ Len(RoutesOf(rt)) \in Nat
  BY <1>1
<1>3. WellMade(RoutesOf(rt)[i])
  BY <1>2, RoutersAssumption DEF RouteOK, RoutesOf
<1>4. RoutesOf(rt)[i] \in RouteSet
  BY <1>1, <1>2, ElementOfSeq DEF RouteOK
<1>5. QED
  BY <1>1, <1>2, <1>3, <1>4 DEF RouteOK

LEMMA RoutesSeq ==
  ASSUME NEW rt \in DOMAIN Routers
  PROVE  /\ RoutesOf(rt) \in Seq(RouteSet) /\ Len(RoutesOf(rt)) \in Nat
         /\ DOMAIN RoutesOf(rt) = 1..Len(RoutesOf(rt))
         /\ rt # "endpoint"
<1>1. RoutesOf(rt) \in Seq(RouteSet)
  BY RoutersAssumption DEF RoutesOf
<1>2. QED
  BY <1>1, RoutersAssumption

\* The pattern of a route: its parts, and what follows from its kind.
LEMMA PatternTypes ==
  ASSUME NEW r \in RouteSet, WellMade(r)
  PROVE  /\ r.path \in Seq(Elements)
         /\ Len(r.path) \in Nat /\ Len(r.path) >= 1
         /\ \A i \in 1..Len(r.path) : r.path[i] \in Elements
         /\ \A i \in 1..(Len(r.path) - 1) : r.path[i].conv # "path"
         /\ r.kind \in {"route", "websocket", "mount", "host"}
         /\ r.kind # "route" => r.methods = {}
         /\ r.kind \in {"route", "websocket"} => r.app = "endpoint"
         /\ r.app = "endpoint" \/ r.app \in DOMAIN Routers
         /\ r.kind = "mount" => /\ r.path[Len(r.path)].conv = "path"
                                /\ Len(r.path) > 1 => r.path[Len(r.path) - 1] # [conv |-> "lit", name |-> ""]
<1>1. r.path \in Seq(Elements)
  BY DEF RouteSet
<1>2. Len(r.path) \in Nat /\ \A i \in 1..Len(r.path) : r.path[i] \in Elements
  BY <1>1
<1>3. /\ r.kind \in {"route", "websocket", "mount", "host"}
      /\ r.app = "endpoint" \/ r.app \in DOMAIN Routers
  BY DEF RouteSet
<1>4. QED
  BY <1>1, <1>2, <1>3 DEF WellMade

\* matches() of the routes of a router looks at the type, the method, the host and the
\* route path of a scope only.
LEMMA MatchesSame ==
  ASSUME NEW r, NEW s, NEW t, s.type = t.type, s.method = t.method, s.host = t.host,
         GetRoutePath(s) = GetRoutePath(t)
  PROVE  Matches(r, s) = Matches(r, t)
<1>1. RouteMatch(r, s) = RouteMatch(r, t)
  BY DEF RouteMatch, MethodAllowed
<1>2. WebSocketRouteMatch(r, s) = WebSocketRouteMatch(r, t)
  BY DEF WebSocketRouteMatch
<1>3. MountMatch(r, s) = MountMatch(r, t) /\ HostMatch(r, s) = HostMatch(r, t)
  BY DEF MountMatch, HostMatch
<1>4. QED
  BY <1>1, <1>2, <1>3 DEF Matches

\* A mount matches when the elements before its last parameter are accepted, and more follows.
LEMMA MountMatches ==
  ASSUME NEW r \in RouteSet, WellMade(r), r.kind = "mount", NEW s
  PROVE  LET path == GetRoutePath(s)
         IN  /\ Matches(r, s) \in {"NONE", "FULL"}
             /\ Matches(r, s) = "FULL" <=>
                  /\ Len(path) >= Len(r.path)
                  /\ \A i \in 1..(Len(r.path) - 1) : Accepts(r.path[i], path[i])
<1> DEFINE path == GetRoutePath(s)
           n == Len(r.path)
<1>1. n \in Nat /\ n >= 1 /\ r.path[n].conv = "path"
  BY PatternTypes
<1>2. Accepts(r.path[n], path[n])
  BY <1>1 DEF Accepts
<1>3. RegexMatches(r.path, path) <=> Len(path) >= n /\ \A i \in 1..n : Accepts(r.path[i], path[i])
  BY <1>1 DEF RegexMatches
<1>4. (\A i \in 1..n : Accepts(r.path[i], path[i])) <=> \A i \in 1..(n - 1) : Accepts(r.path[i], path[i])
  <2>1. \A i \in 1..n : i \in 1..(n - 1) \/ i = n
    BY <1>1
  <2>2. \A i \in 1..(n - 1) : i \in 1..n
    BY <1>1
  <2>3. QED
    BY <1>2, <2>1, <2>2
<1>5. Matches(r, s) = IF RegexMatches(r.path, path) THEN "FULL" ELSE "NONE"
  BY DEF Matches, MountMatch
<1>6. QED
  BY <1>3, <1>4, <1>5

\* What the other routes can say: a route below which there is another router matches in
\* full or not at all; only HTTP routes match in part, for a method that is not theirs.
LEMMA MatchKinds ==
  ASSUME NEW r \in RouteSet, WellMade(r), NEW s
  PROVE  /\ Matches(r, s) \in {"NONE", "PARTIAL", "FULL"}
         /\ Matches(r, s) = "PARTIAL" => r.app = "endpoint" /\ ~MethodAllowed(r, s)
         /\ r.app # "endpoint" => r.kind \in {"mount", "host"}
         /\ r.kind = "host" => Matches(r, s) = HostMatch(r, s)
         /\ r.kind # "host" /\ Matches(r, s) # "NONE" => Len(GetRoutePath(s)) >= 1
<1>1. /\ r.kind \in {"route", "websocket", "mount", "host"}
      /\ r.kind \in {"route", "websocket"} => r.app = "endpoint"
      /\ Len(r.path) \in Nat /\ Len(r.path) >= 1
  BY PatternTypes
<1>2. RegexMatches(r.path, GetRoutePath(s)) => Len(GetRoutePath(s)) >= 1
  BY <1>1 DEF RegexMatches
<1>3. CASE r.kind = "route"
  BY <1>1, <1>2, <1>3 DEF Matches, RouteMatch
<1>4. CASE r.kind = "websocket"
  BY <1>1, <1>2, <1>4 DEF Matches, WebSocketRouteMatch
<1>5. CASE r.kind = "mount"
  BY <1>1, <1>2, <1>5 DEF Matches, MountMatch
<1>6. CASE r.kind = "host"
  BY <1>1, <1>6 DEF Matches, HostMatch
<1>7. QED
  BY <1>1, <1>3, <1>4, <1>5, <1>6

\* What a mount matched does not end with a slash.
LEMMA NoLastSlash ==
  ASSUME NEW r \in RouteSet, WellMade(r), r.kind = "mount", Len(r.path) > 1,
         NEW segment, Accepts(r.path[Len(r.path) - 1], segment)
  PROVE  segment # Empty
<1> DEFINE n == Len(r.path)
           e == r.path[n - 1]
<1>0. n \in Nat
  BY PatternTypes
<1>1. n - 1 \in 1..n /\ n - 1 \in 1..(n - 1)
  BY <1>0
<1>2. e \in Elements /\ e.conv # "path" /\ e # [conv |-> "lit", name |-> ""]
  BY <1>1, PatternTypes
<1>3. e.conv = "lit" => e.name # ""
  BY <1>2 DEF Elements
<1>4. e.conv \in {"lit", "str", "int"}
  BY <1>2 DEF Elements
<1>5. QED
  BY <1>3, <1>4, NumbersAssumption DEF Accepts, Empty

-----------------------------------------------------------------------------
(* Lemmas: sequences of segments, and what the mounts of a way match.      *)

\* Sequences of segments, their parts and what they are made of.
LEMMA Segments ==
  ASSUME NEW p \in Strings
  PROVE  /\ Len(p) \in Nat /\ p \in Seq(Segment) /\ DOMAIN p = 1..Len(p)
         /\ \A i \in 1..Len(p) : p[i] \in Segment
         /\ p = <<>> <=> Len(p) = 0
BY DEF Strings

LEMMA Cut ==
  ASSUME NEW p \in Strings, NEW k \in Nat, k >= 1, NEW n \in Nat, n <= Len(p)
  PROVE  /\ SubSeq(p, k, n) \in Strings
         /\ Len(SubSeq(p, k, n)) = IF k <= n THEN n - k + 1 ELSE 0
         /\ \A i \in 1..(n - k + 1) : SubSeq(p, k, n)[i] = p[k + i - 1]
<1>1. Len(p) \in Nat /\ p \in Seq(Segment) /\ \A i \in k..n : p[i] \in Segment
  BY Segments
<1>2. QED
  BY <1>1, SubSeqProperties DEF Strings

\* What is left of a path behind its first m segments.
IsRest(c, p, m) ==
  /\ c \in Strings
  /\ Len(c) = Len(p) - m
  /\ \A i \in 1..Len(c) : c[i] = p[m + i]

LEMMA RestOf ==
  ASSUME NEW p \in Strings, NEW m \in Nat, m <= Len(p)
  PROVE  IsRest(SubSeq(p, m + 1, Len(p)), p, m)
<1>1. Len(p) \in Nat
  BY Segments
<1>2. PICK k \in Nat : k = m + 1
  OBVIOUS
<1>3. PICK n \in Nat : n = Len(p)
  BY <1>1
<1> DEFINE c == SubSeq(p, k, n)
<1>4. /\ c \in Strings
      /\ Len(c) = IF k <= n THEN n - k + 1 ELSE 0
      /\ \A i \in 1..(n - k + 1) : c[i] = p[k + i - 1]
  BY <1>2, <1>3, Cut
<1> HIDE DEF c
<1>5. Len(c) = n - m
  BY <1>2, <1>3, <1>4
<1>6. ASSUME NEW i \in 1..Len(c) PROVE c[i] = p[m + i]
  <2>1. i \in Nat /\ i \in 1..(n - k + 1) /\ k + i - 1 = m + i
    BY <1>2, <1>5
  <2>2. QED
    BY <1>4, <2>1
<1>7. IsRest(c, p, m)
  BY <1>3, <1>4, <1>5, <1>6 DEF IsRest
<1>8. QED
  BY <1>2, <1>3, <1>7 DEF c

LEMMA CutFront ==
  ASSUME NEW p \in Strings, NEW n \in Nat, n <= Len(p)
  PROVE  LET c == SubSeq(p, 1, n)
         IN  c \in Strings /\ Len(c) = n /\ \A i \in 1..n : c[i] = p[i]
<1>1. Len(p) \in Nat /\ p \in Seq(Segment) /\ \A i \in 1..n : p[i] \in Segment
  BY Segments
<1>2. /\ SubSeq(p, 1, n) \in Seq(Segment)
      /\ Len(SubSeq(p, 1, n)) = IF 1 <= n THEN n - 1 + 1 ELSE 0
      /\ \A i \in 1..(n - 1 + 1) : SubSeq(p, 1, n)[i] = p[1 + i - 1]
  BY <1>1, SubSeqProperties
<1>3. QED
  BY <1>1, <1>2 DEF Strings

LEMMA Joined ==
  ASSUME NEW p \in Strings, NEW q \in Strings
  PROVE  /\ p \o q \in Strings
         /\ Len(p \o q) = Len(p) + Len(q)
         /\ \A i \in 1..Len(p) : (p \o q)[i] = p[i]
         /\ \A i \in 1..Len(q) : (p \o q)[Len(p) + i] = q[i]
BY DEF Strings

LEMMA SameSegments ==
  ASSUME NEW p \in Strings, NEW q \in Strings, Len(p) = Len(q),
         \A i \in 1..Len(p) : p[i] = q[i]
  PROVE  p = q
BY SeqEqual DEF Strings

\* A prefix, element by element.
LEMMA PrefixIs ==
  ASSUME NEW p \in Strings, NEW q \in Strings
  PROVE  IsPrefix(p, q) <=> Len(p) <= Len(q) /\ \A i \in 1..Len(p) : p[i] = q[i]
<1> DEFINE n == Len(p)
           a == SubSeq(p, 1, n)
           b == SubSeq(q, 1, n)
<1>1. n \in Nat /\ Len(q) \in Nat
  BY Segments
<1>2. a \in Strings /\ Len(a) = n /\ \A i \in 1..n : a[i] = p[i]
  BY <1>1, CutFront
<1>3. ASSUME n <= Len(q) PROVE a = b <=> \A i \in 1..n : p[i] = q[i]
  <2>1. b \in Strings /\ Len(b) = n /\ \A i \in 1..n : b[i] = q[i]
    BY <1>1, <1>3, CutFront
  <2> HIDE DEF a, b, n
  <2>2. (\A i \in 1..n : p[i] = q[i]) => a = b
    BY <1>2, <2>1, SameSegments
  <2>3. QED
    BY <1>2, <2>1, <2>2
<1>4. QED
  BY <1>3 DEF IsPrefix

\* get_route_path() where root_path is what the path begins with.
LEMMA RoutePath ==
  ASSUME NEW s, s.path \in Strings, s.root_path \in Strings,
         Len(s.root_path) <= Len(s.path), \A i \in 1..Len(s.root_path) : s.root_path[i] = s.path[i]
  PROVE  GetRoutePath(s) = SubSeq(s.path, Len(s.root_path) + 1, Len(s.path))
<1>1. IsPrefix(s.root_path, s.path)
  BY PrefixIs
<1>2. QED
  BY <1>1 DEF GetRoutePath

\* A set of numbers that is not empty has a smallest element.
LEMMA SmallestOf ==
  ASSUME NEW S \in SUBSET Nat, S # {}
  PROVE  \E i \in S : \A j \in S : i <= j
<1>1. PICK i \in S : \A j \in S : ~ (<<j, i>> \in OpToRel(<, Nat))
  BY WFMin, NatLessThanWellFounded
<1>2. \A j \in S : ~ (j < i)
  BY <1>1 DEF OpToRel
<1>3. \A j \in S : i <= j
  BY <1>2, SMT
<1>4. QED
  BY <1>3

\* Where a path ends, or has a segment that is not empty, counted from its end.
Solid(p, e) == {k \in Nat : k = Len(p) \/ (k < Len(p) /\ p[Len(p) - k] # e)}

\* The last of a path that is no slash.
LEMMA LastSolid ==
  ASSUME NEW p \in Strings, NEW e
  PROVE  \E m \in Nat : /\ m <= Len(p)
                        /\ m > 0 => p[m] # e
                        /\ \A i \in (m + 1)..Len(p) : p[i] = e
<1>1. Len(p) \in Nat
  BY Segments
<1>2. Solid(p, e) \in SUBSET Nat /\ Len(p) \in Solid(p, e)
  BY <1>1 DEF Solid
<1>3. \E k \in Solid(p, e) : \A j \in Solid(p, e) : k <= j
  BY <1>2, SmallestOf
<1>4. PICK k \in Nat : k \in Solid(p, e) /\ \A j \in Solid(p, e) : k <= j
  BY <1>2, <1>3
<1>5. k <= Len(p) /\ (k = Len(p) \/ p[Len(p) - k] # e)
  BY <1>1, <1>4 DEF Solid
<1>6. PICK m \in Nat : m = Len(p) - k
  BY <1>1, <1>5
<1>7. m <= Len(p) /\ (m > 0 => p[m] # e)
  BY <1>1, <1>5, <1>6
<1>8. ASSUME NEW i \in (m + 1)..Len(p), p[i] # e PROVE FALSE
  <2>1. i \in Nat /\ m < i /\ i <= Len(p)
    BY <1>1
  <2>2. PICK j \in Nat : j = Len(p) - i
    BY <1>1, <2>1
  <2>3. j < Len(p) /\ Len(p) - j = i /\ ~ (k <= j)
    BY <1>1, <1>5, <1>6, <2>1, <2>2
  <2>4. j \in Solid(p, e)
    BY <1>8, <2>2, <2>3 DEF Solid
  <2>5. QED
    BY <1>4, <2>3, <2>4
<1>9. QED
  BY <1>7, <1>8

\* path.rstrip("/") leaves what ends with the last segment that is not empty.
LEMMA Stripped ==
  ASSUME NEW p \in Strings, NEW e
  PROVE  \E m \in Nat : /\ m <= Len(p)
                        /\ RStrip(p, e) = SubSeq(p, 1, m)
                        /\ m > 0 => p[m] # e
                        /\ \A i \in (m + 1)..Len(p) : p[i] = e
<1> DEFINE n == Len(p)
           S == {i \in DOMAIN p : \E j \in i..Len(p) : p[j] # e}
<1>1. n \in Nat /\ DOMAIN p = 1..n
  BY Segments
<1>2. PICK m \in Nat : m <= n /\ (m > 0 => p[m] # e) /\ \A i \in (m + 1)..n : p[i] = e
  BY LastSolid
<1>3. S = 1..m
  <2>1. ASSUME NEW i \in S PROVE i \in 1..m
    <3>1. i \in 1..n /\ \E j \in i..n : p[j] # e
      BY <1>1
    <3>2. PICK j \in i..n : p[j] # e
      BY <3>1
    <3>3. i \in Nat /\ j \in Nat /\ i <= j /\ j <= n /\ i >= 1
      BY <1>1, <3>1
    <3>4. j \notin (m + 1)..n
      BY <1>2, <3>2
    <3>5. QED
      BY <1>1, <3>3, <3>4
  <2>2. ASSUME NEW i \in 1..m PROVE i \in S
    <3>1. i \in Nat /\ 1 <= i /\ i <= m /\ m > 0
      OBVIOUS
    <3>2. m \in i..n /\ p[m] # e /\ i \in DOMAIN p
      BY <1>1, <1>2, <3>1
    <3>3. QED
      BY <3>2
  <2> HIDE DEF S
  <2>3. QED
    BY <2>1, <2>2
<1>4. Cardinality(1..m) = m
  BY FS_Interval
<1>5. RStrip(p, e) = SubSeq(p, 1, m)
  BY <1>3, <1>4 DEF RStrip
<1>6. QED
  BY <1>2, <1>5

-----------------------------------------------------------------------------
(* Lemmas: what the mounts of a way match of a path.                       *)

\* The elements that a route takes of the path.
TakenBy(r) == IF r.kind = "mount" THEN Len(r.path) - 1 ELSE 0

\* The routes of a way are routes that there are.
LEMMA RouteOnWay ==
  ASSUME NEW w, GoodWay(w), NEW k \in 1..Len(w)
  PROVE  /\ RouteOn(w, k) \in RouteSet /\ WellMade(RouteOn(w, k))
         /\ Len(RouteOn(w, k).path) \in Nat /\ Len(RouteOn(w, k).path) >= 1
         /\ TakenBy(RouteOn(w, k)) \in Nat
<1>1. RouteOK(w[k][1], w[k][2]) /\ RouteOn(w, k) = RoutesOf(w[k][1])[w[k][2]]
  BY DEF GoodWay, RouteOn, RoutesOf
<1>2. RouteOn(w, k) \in RouteSet /\ WellMade(RouteOn(w, k))
  BY <1>1, RouteTypes
<1>3. Len(RouteOn(w, k).path) \in Nat /\ Len(RouteOn(w, k).path) >= 1
  BY <1>2, PatternTypes
<1>4. QED
  BY <1>2, <1>3 DEF TakenBy

\* What the mounts of a way match is counted mount by mount.
LEMMA Singles ==
  ASSUME NEW i, NEW n \in Nat
  PROVE  IsFiniteSet({i} \X (1..n)) /\ Cardinality({i} \X (1..n)) = n
<1>1. IsFiniteSet({i}) /\ Cardinality({i}) = 1
  BY FS_Singleton
<1>2. IsFiniteSet(1..n) /\ Cardinality(1..n) = n
  BY FS_Interval
<1>3. /\ IsFiniteSet({i} \X (1..n))
      /\ Cardinality({i} \X (1..n)) = Cardinality({i}) * Cardinality(1..n)
  BY <1>1, <1>2, FS_Product
<1>4. QED
  BY <1>1, <1>2, <1>3

LEMMA MountedMember ==
  ASSUME NEW w, NEW k \in Nat, NEW x
  PROVE  x \in MountedBefore(w, k) <=>
           \E i \in 1..(k - 1) : /\ RouteOn(w, i).kind = "mount"
                                 /\ x \in {i} \X (1..(Len(RouteOn(w, i).path) - 1))
BY DEF MountedBefore

LEMMA MountedFinite ==
  ASSUME NEW w, GoodWay(w), NEW k \in Nat, k <= Len(w) + 1
  PROVE  IsFiniteSet(MountedBefore(w, k)) /\ Taken(w, k) \in Nat
<1> DEFINE F == {j \in 1..(k - 1) : RouteOn(w, j).kind = "mount"}
           Part(i) == {i} \X (1..(Len(RouteOn(w, i).path) - 1))
           Parts == {Part(i) : i \in F}
           f == [i \in F |-> Part(i)]
<1>1. Len(w) \in Nat
  BY DEF GoodWay
<1>2. IsFiniteSet(F)
  <2>1. IsFiniteSet(1..(k - 1))
    BY FS_Interval
  <2>2. F \in SUBSET (1..(k - 1))
    OBVIOUS
  <2> HIDE DEF F
  <2>3. QED
    BY <2>1, <2>2, FS_Subset
<1>3. IsFiniteSet(Parts)
  <2>1. f \in Surjection(F, Parts)
    BY DEF Surjection
  <2> HIDE DEF f, F, Parts
  <2>2. QED
    BY <1>2, <2>1, FS_Surjection
<1>4. \A T \in Parts : IsFiniteSet(T)
  <2>1. ASSUME NEW i \in 1..(k - 1) PROVE IsFiniteSet(Part(i))
    <3>1. i \in 1..Len(w)
      BY <1>1
    <3>2. Len(RouteOn(w, i).path) \in Nat /\ Len(RouteOn(w, i).path) >= 1
      BY <3>1, RouteOnWay
    <3>3. PICK n \in Nat : n = Len(RouteOn(w, i).path) - 1
      BY <3>2
    <3>4. QED
      BY <3>3, Singles
  <2>2. QED
    BY <2>1
<1>5. MountedBefore(w, k) = UNION Parts
  BY DEF MountedBefore
<1> HIDE DEF Parts
<1>6. IsFiniteSet(MountedBefore(w, k))
  BY <1>3, <1>4, <1>5, FS_UNION
<1>7. QED
  BY <1>6, FS_CardinalityType DEF Taken

\* One route further, the elements of one mount more are taken.
LEMMA TakenStep ==
  ASSUME NEW w, GoodWay(w), NEW k \in 1..Len(w)
  PROVE  Taken(w, k + 1) = Taken(w, k) + TakenBy(RouteOn(w, k))
<1> DEFINE n == Len(RouteOn(w, k).path) - 1
           A == MountedBefore(w, k)
           B == IF RouteOn(w, k).kind = "mount" THEN {k} \X (1..n) ELSE {}
<1>1. Len(w) \in Nat /\ k \in Nat /\ n \in Nat
  BY RouteOnWay DEF GoodWay
<1>2. MountedBefore(w, k + 1) = A \union B
  <2>1. ASSUME NEW x PROVE x \in MountedBefore(w, k + 1) <=> x \in A \union B
    <3>1. x \in MountedBefore(w, k + 1) <=>
            \E i \in 1..(k + 1 - 1) : /\ RouteOn(w, i).kind = "mount"
                                      /\ x \in {i} \X (1..(Len(RouteOn(w, i).path) - 1))
      BY <1>1, MountedMember
    <3>2. x \in A <=>
            \E i \in 1..(k - 1) : /\ RouteOn(w, i).kind = "mount"
                                  /\ x \in {i} \X (1..(Len(RouteOn(w, i).path) - 1))
      BY <1>1, MountedMember
    <3>3. \A i : i \in 1..(k + 1 - 1) <=> i \in 1..(k - 1) \/ i = k
      BY <1>1
    <3>4. x \in B <=> RouteOn(w, k).kind = "mount" /\ x \in {k} \X (1..n)
      OBVIOUS
    <3> HIDE DEF A, B
    <3>5. QED
      BY <3>1, <3>2, <3>3, <3>4
  <2>2. QED
    BY <2>1
<1>3. IsFiniteSet(A) /\ Cardinality(A) = Taken(w, k) /\ Taken(w, k) \in Nat
  BY <1>1, MountedFinite DEF Taken
<1>4. IsFiniteSet(B) /\ Cardinality(B) = TakenBy(RouteOn(w, k))
  <2>1. CASE RouteOn(w, k).kind = "mount"
    BY <1>1, <2>1, Singles DEF TakenBy
  <2>2. CASE RouteOn(w, k).kind # "mount"
    BY <2>2, FS_EmptySet DEF TakenBy
  <2>3. QED
    BY <2>1, <2>2
<1>5. A \intersect B = {}
  <2>1. SUFFICES ASSUME NEW x, x \in A, x \in B PROVE FALSE
    OBVIOUS
  <2>2. PICK i \in 1..(k - 1) : x \in {i} \X (1..(Len(RouteOn(w, i).path) - 1))
    BY <1>1, <2>1, MountedMember
  <2>3. x[1] = i /\ x[1] = k
    <3>1. x \in {k} \X (1..n)
      BY <2>1
    <3>2. QED
      BY <2>2, <3>1
  <2>4. QED
    BY <1>1, <2>3
<1> HIDE DEF A, B
<1>6. Cardinality(A \union B) = Cardinality(A) + Cardinality(B) - Cardinality(A \intersect B)
  BY <1>3, <1>4, FS_Union
<1>7. TakenBy(RouteOn(w, k)) \in Nat
  BY RouteOnWay
<1>8. Taken(w, k + 1) = Cardinality(A \union B)
  BY <1>2 DEF Taken
<1>9. Cardinality(A \intersect B) = 0
  BY <1>5, FS_EmptySet
<1>10. QED
  BY <1>3, <1>4, <1>6, <1>7, <1>8, <1>9

\* Nothing is matched before the first route.
LEMMA TakenFirst ==
  ASSUME NEW w
  PROVE  Taken(w, 1) = 0
<1>1. MountedBefore(w, 1) = {}
  BY MountedMember
<1>2. QED
  BY <1>1, FS_EmptySet DEF Taken

\* Mounts take more and more of the path.
LEMMA TakenGrows ==
  ASSUME NEW w, GoodWay(w), NEW j \in Nat, NEW k \in Nat, j <= k, k <= Len(w) + 1
  PROVE  Taken(w, j) <= Taken(w, k)
<1>1. Len(w) \in Nat
  BY DEF GoodWay
<1>2. MountedBefore(w, j) \in SUBSET MountedBefore(w, k)
  <2>1. SUFFICES ASSUME NEW x \in MountedBefore(w, j) PROVE x \in MountedBefore(w, k)
    OBVIOUS
  <2>2. 1..(j - 1) \subseteq 1..(k - 1)
    OBVIOUS
  <2>3. QED
    BY <2>1, <2>2, MountedMember
<1>3. IsFiniteSet(MountedBefore(w, k))
  BY <1>1, MountedFinite
<1>4. QED
  BY <1>2, <1>3, FS_Subset DEF Taken

\* What is taken before a route depends on the routes before it.
LEMMA TakenSame ==
  ASSUME NEW v, NEW w, NEW k \in Nat, \A i \in 1..(k - 1) : v[i] = w[i]
  PROVE  Taken(v, k) = Taken(w, k)
<1>1. \A i \in 1..(k - 1) : RouteOn(v, i) = RouteOn(w, i)
  BY DEF RouteOn
<1>2. ASSUME NEW x PROVE x \in MountedBefore(v, k) <=> x \in MountedBefore(w, k)
  BY <1>1, MountedMember
<1>3. MountedBefore(v, k) = MountedBefore(w, k)
  BY <1>2
<1>4. QED
  BY <1>3 DEF Taken

-----------------------------------------------------------------------------
(* What a router sees of a request.                                        *)

\* What was asked is a request.
LEMMA AskedTypes ==
  ASSUME AskedInv
  PROVE  /\ asked = [type |-> asked.type, method |-> asked.method, path |-> asked.path,
                     root_path |-> asked.root_path, host |-> asked.host, port |-> asked.port]
         /\ asked.type \in {"http", "websocket"} /\ asked.method \in Segment
         /\ asked.path \in Strings /\ asked.root_path \in Strings /\ asked.host \in Strings
         /\ Len(asked.path) \in Nat /\ Len(asked.root_path) \in Nat
         /\ Len(asked.root_path) <= Len(asked.path)
         /\ top \in DOMAIN Routers
<1>1. asked \in Asking
  BY DEF AskedInv
<1>2. /\ asked = [type |-> asked.type, method |-> asked.method, path |-> asked.path,
                  root_path |-> asked.root_path, host |-> asked.host, port |-> asked.port]
      /\ asked.type \in {"http", "websocket"} /\ asked.method \in Segment
      /\ asked.path \in Strings /\ asked.root_path \in Strings /\ asked.host \in Strings
  BY <1>1 DEF Asking
<1>3. QED
  BY <1>2, AppsAssumption, Segments DEF AskedInv

\* The scope of a request with some route path.
LEMMA WithPath ==
  ASSUME NEW a, NEW p \in Strings
  PROVE  LET s == [ScopeOf(a) EXCEPT !.path = p, !.root_path = <<>>]
         IN  /\ s.type = a.type /\ s.method = a.method /\ s.host = a.host
             /\ GetRoutePath(s) = p
<1> DEFINE s == [ScopeOf(a) EXCEPT !.path = p, !.root_path = <<>>]
<1>1. /\ s.type = a.type /\ s.method = a.method /\ s.host = a.host
      /\ s.path = p /\ s.root_path = <<>>
  BY DEF ScopeOf
<1>2. <<>> \in Strings /\ Len(<<>>) = 0 /\ Len(p) \in Nat /\ p \in Seq(Segment)
  BY DEF Strings
<1>3. IsPrefix(<<>>, p)
  BY <1>2, PrefixIs
<1>4. SubSeq(p, 0 + 1, Len(p)) = p
  BY <1>2, SubSeqFull
<1> HIDE DEF s
<1>5. GetRoutePath(s) = p
  BY <1>1, <1>2, <1>3, <1>4 DEF GetRoutePath
<1>6. QED
  BY <1>1, <1>5 DEF s

\* The part of the path that the k-th router of a way finds.
\* A scope whose root_path the path begins with.
LEMMA ScopeTypes ==
  ASSUME AskedInv, ScopeInv
  PROVE  /\ scope.path = asked.path /\ scope.type = asked.type
         /\ scope.method = asked.method /\ scope.host = asked.host
         /\ scope.root_path \in Strings /\ Len(scope.root_path) \in Nat
         /\ Len(scope.root_path) <= Len(asked.path)
         /\ GetRoutePath(scope) = SubSeq(asked.path, Len(scope.root_path) + 1, Len(asked.path))
         /\ IsRest(GetRoutePath(scope), asked.path, Len(scope.root_path))
<1>1. /\ scope.path = asked.path /\ scope.type = asked.type
      /\ scope.method = asked.method /\ scope.host = asked.host
  BY DEF ScopeInv, ScopeIs
<1>2. /\ scope.root_path \in Strings
      /\ Len(scope.root_path) <= Len(asked.path)
      /\ \A i \in 1..Len(scope.root_path) : scope.root_path[i] = asked.path[i]
  BY DEF ScopeInv, Strings
<1>3. Len(scope.root_path) \in Nat
  BY <1>2, Segments
<1>4. asked.path \in Strings /\ Len(asked.path) \in Nat
  BY AskedTypes
<1>5. GetRoutePath(scope) = SubSeq(asked.path, Len(scope.root_path) + 1, Len(asked.path))
  BY <1>1, <1>2, <1>4, RoutePath
<1>6. QED
  BY <1>1, <1>2, <1>3, <1>4, <1>5, RestOf

\* The router that runs sees what the mounts on the way have left of the path.
LEMMA HereIs ==
  ASSUME AskedInv, ScopeInv
  PROVE  /\ PathOn(way, Len(way) + 1) = GetRoutePath(scope)
         /\ \A r : Matches(r, scope) = Matches(r, Here)
<1>1. PathOn(way, Len(way) + 1) = GetRoutePath(scope)
  BY ScopeTypes DEF PathOn, ScopeInv, AllTaken
<1>0. GetRoutePath(scope) \in Strings
  BY ScopeTypes DEF IsRest
<1>2. /\ Here.type = asked.type /\ Here.method = asked.method /\ Here.host = asked.host
      /\ GetRoutePath(Here) = GetRoutePath(scope)
  BY <1>0, <1>1, ScopeTypes, WithPath DEF Here, ScopeAt, ScopeWith
<1>3. ASSUME NEW r PROVE Matches(r, scope) = Matches(r, Here)
  BY <1>2, ScopeTypes, MatchesSame
<1>4. QED
  BY <1>1, <1>3

-----------------------------------------------------------------------------
(* A route handles the request.                                            *)

\* The way v goes one route further than w.
IsLonger(v, w, rt, i) ==
  /\ GoodWay(v) /\ Len(w) \in Nat /\ Len(v) = Len(w) + 1
  /\ \A k \in 1..Len(w) : v[k] = w[k]
  /\ v[Len(w) + 1] = <<rt, i>>

LEMMA Longer ==
  ASSUME NEW w, GoodWay(w), NEW rt, NEW i, RouteOK(rt, i), NEW v, v = Append(w, <<rt, i>>)
  PROVE  IsLonger(v, w, rt, i)
<1>1. w \in Seq(Pairs) /\ Len(w) \in Nat
  BY DEF GoodWay
<1>2. <<rt, i>> \in Pairs
  BY RouteTypes DEF RouteOK, Pairs
<1>3. /\ v \in Seq(Pairs) /\ Len(v) = Len(w) + 1
      /\ \A k \in 1..Len(w) : v[k] = w[k]
      /\ v[Len(w) + 1] = <<rt, i>>
  BY <1>1, <1>2, AppendProperties
<1>4. GoodWay(v)
  <2>1. ASSUME NEW k \in 1..Len(v) PROVE RouteOK(v[k][1], v[k][2])
    <3>1. CASE k \in 1..Len(w)
      BY <1>3, <3>1 DEF GoodWay
    <3>2. CASE k = Len(w) + 1
      BY <1>3, <3>2
    <3>3. QED
      BY <1>1, <1>3, <2>1, <3>1, <3>2
  <2>2. QED
    BY <1>3, <2>1 DEF GoodWay
<1>5. QED
  BY <1>1, <1>3, <1>4 DEF IsLonger

LEMMA LongerTakes ==
  ASSUME NEW w, GoodWay(w), NEW rt, NEW i, RouteOK(rt, i), NEW v, v = Append(w, <<rt, i>>)
  PROVE  AllTaken(w) \in Nat /\ AllTaken(v) = AllTaken(w) + TakenBy(RoutesOf(rt)[i])
<1>0. IsLonger(v, w, rt, i)
  BY Longer
<1>1. /\ GoodWay(v) /\ Len(w) \in Nat /\ Len(v) = Len(w) + 1
      /\ \A k \in 1..Len(w) : v[k] = w[k]
      /\ v[Len(w) + 1] = <<rt, i>>
  BY <1>0 DEF IsLonger
<1>2. PICK m \in Nat : m = Len(w) + 1
  BY <1>1
<1>3. m \in 1..Len(v) /\ m <= Len(w) + 1 /\ \A k \in 1..(m - 1) : v[k] = w[k]
  BY <1>1, <1>2
<1>4. RouteOn(v, m) = RoutesOf(rt)[i]
  BY <1>1, <1>2 DEF RouteOn, RoutesOf
<1>5. Taken(v, m) = Taken(w, m)
  BY <1>2, <1>3, TakenSame
<1>6. Taken(w, m) \in Nat
  BY <1>2, <1>3, MountedFinite
<1>7. Taken(v, m + 1) = Taken(v, m) + TakenBy(RouteOn(v, m))
  BY <1>1, <1>3, TakenStep
<1>8. AllTaken(w) = Taken(w, m) /\ AllTaken(v) = Taken(v, m + 1)
  BY <1>1, <1>2 DEF AllTaken
<1>9. QED
  BY <1>4, <1>5, <1>6, <1>7, <1>8

\* What a mount matches goes from the route path to root_path, and does not end with a slash.
LEMMA MountStep ==
  ASSUME AskedInv, ScopeInv, WayIsGood, NEW i, RouteOK(router, i),
         RoutesOf(router)[i].kind = "mount",
         Matches(RoutesOf(router)[i], scope) # "NONE"
  PROVE  LET root == scope.root_path
             n == Len(RoutesOf(router)[i].path)
             new == MountScope(RoutesOf(router)[i], scope).root_path
         IN  /\ new \in Strings
             /\ Len(new) = Len(root) + n - 1
             /\ Len(root) + n <= Len(asked.path)
             /\ \A k \in 1..Len(new) : new[k] = asked.path[k]
             /\ new # <<>> => new[Len(new)] # Empty
             /\ n = 1 => new = root
<1> DEFINE r == RoutesOf(router)[i]
           root == scope.root_path
           rest == GetRoutePath(scope)
           n == Len(r.path)
           cut == SubSeq(rest, 1, n - 1)
<1>1. r \in RouteSet /\ WellMade(r) /\ r.kind = "mount" /\ Matches(r, scope) # "NONE"
  BY RouteTypes
<1>2. n \in Nat /\ n >= 1
  BY <1>1, PatternTypes
<1>3. /\ root \in Strings /\ Len(root) \in Nat /\ Len(root) <= Len(asked.path)
      /\ rest \in Strings /\ Len(rest) = Len(asked.path) - Len(root)
      /\ \A k \in 1..Len(rest) : rest[k] = asked.path[Len(root) + k]
      /\ Len(asked.path) \in Nat
  BY ScopeTypes, AskedTypes DEF IsRest
<1>4. Len(rest) >= n /\ \A k \in 1..(n - 1) : Accepts(r.path[k], rest[k])
  BY <1>1, MountMatches
<1>5. MountScope(r, scope).root_path = root \o cut
  BY DEF MountScope, ScopeInv, ScopeIs
<1>6. n - 1 \in Nat /\ n - 1 <= Len(rest)
  <2>1. Len(rest) >= n
    BY <1>4
  <2> HIDE DEF n, rest
  <2>2. QED
    BY <1>2, <1>3, <2>1
<1>7. cut \in Strings /\ Len(cut) = n - 1 /\ \A k \in 1..(n - 1) : cut[k] = rest[k]
  BY <1>3, <1>6, CutFront
<1> DEFINE new == root \o cut
<1>8. /\ new \in Strings /\ Len(new) = Len(root) + Len(cut)
      /\ \A k \in 1..Len(root) : new[k] = root[k]
      /\ \A k \in 1..Len(cut) : new[Len(root) + k] = cut[k]
  BY <1>3, <1>7, Joined
<1> HIDE DEF new, cut, rest, n, root, r
<1>9. ASSUME NEW k \in 1..Len(new) PROVE new[k] = asked.path[k]
  <2>1. CASE k \in 1..Len(root)
    BY <1>8, <2>1 DEF ScopeInv, root
  <2>2. CASE k \notin 1..Len(root)
    <3>1. PICK j \in 1..Len(cut) : k = Len(root) + j
      <4>1. k - Len(root) \in 1..Len(cut) /\ k = Len(root) + (k - Len(root))
        BY <1>3, <1>6, <1>7, <1>8, <2>2
      <4>2. QED
        BY <4>1
    <3>2. new[k] = cut[j] /\ cut[j] = rest[j]
      BY <1>7, <1>8, <3>1
    <3>3. j \in 1..Len(rest)
      BY <1>3, <1>6, <1>7
    <3>4. rest[j] = asked.path[Len(root) + j]
      BY <1>3, <3>3
    <3>5. QED
      BY <3>1, <3>2, <3>4
  <2>3. QED
    BY <2>1, <2>2
<1>10. n = 1 => new = root
  <2>1. SUFFICES ASSUME n = 1 PROVE new = root
    OBVIOUS
  <2>2. Len(new) = Len(root)
    BY <1>3, <1>7, <1>8, <2>1
  <2>3. QED
    BY <1>3, <1>8, <2>2, SameSegments
<1>11. new # <<>> => new[Len(new)] # Empty
  <2>1. CASE n = 1
    BY <1>10, <2>1 DEF ScopeInv, root
  <2>2. CASE n > 1
    <3>1. n - 1 \in 1..(n - 1) /\ Len(new) = Len(root) + (n - 1) /\ Len(cut) = n - 1
      BY <1>2, <1>7, <1>8, <2>2
    <3>2. new[Len(new)] = cut[n - 1] /\ cut[n - 1] = rest[n - 1]
      BY <1>7, <1>8, <3>1
    <3>3. Accepts(r.path[Len(r.path) - 1], rest[n - 1]) /\ Len(r.path) > 1
      BY <1>4, <2>2, <3>1 DEF n
    <3>4. rest[n - 1] # Empty
      BY <1>1, <3>3, NoLastSlash
    <3>5. QED
      BY <3>2, <3>4
  <2>3. QED
    BY <1>2, <2>1, <2>2
<1>12. Len(new) = Len(root) + n - 1 /\ Len(root) + n <= Len(asked.path)
  BY <1>2, <1>3, <1>4, <1>7, <1>8
<1>13. MountScope(r, scope).root_path = new
  BY <1>5 DEF new
<1>14. QED
  BY <1>8, <1>9, <1>10, <1>11, <1>12, <1>13 DEF r, n, root

\* A route that matches passes the scope on.
Passed(i) ==
  /\ RouteOK(router, i)
  /\ Matches(RoutesOf(router)[i], scope) # "NONE"
  /\ scope' = UpdatedScope(RoutesOf(router)[i], scope)
  /\ way' = Append(way, <<router, i>>)
  /\ UNCHANGED <<top, asked>>

\* A scope that differs from the request in these only.
Keeps(s, root, above) == s = ScopeIs(root, above, s.path_params)

LEMMA PassedScope ==
  ASSUME NEW r, NEW root, NEW above, NEW s, Keeps(s, root, above)
  PROVE  /\ Keeps(HostScope(r, s), root, above)
         /\ Keeps(EndpointScope(r, s), root, above)
         /\ Keeps(MountScope(r, s), MountScope(r, s).root_path,
                  IF above = <<>> THEN <<root>> ELSE above)
<1>0. PICK params : params = s.path_params /\ s = ScopeIs(root, above, params)
  BY DEF Keeps
<1>1. ASSUME NEW q, NEW a, NEW p
      PROVE  /\ ScopeIs(q, a, p).path_params = p /\ ScopeIs(q, a, p).root_path = q
             /\ ScopeIs(q, a, p).app_root_path = a
  BY DEF ScopeIs
<1>2. ASSUME NEW p PROVE [s EXCEPT !.path_params = p @@ @] = ScopeIs(root, above, p @@ params)
  BY <1>0 DEF ScopeIs
<1>3. HostScope(r, s) = ScopeIs(root, above, HostScope(r, s).path_params)
  <2>1. PICK p : HostScope(r, s) = [s EXCEPT !.path_params = p @@ @]
    BY Zenon DEF HostScope
  <2>2. HostScope(r, s) = ScopeIs(root, above, p @@ params)
    BY <1>2, <2>1
  <2>3. QED
    BY <1>1, <2>2
<1>4. EndpointScope(r, s) = ScopeIs(root, above, EndpointScope(r, s).path_params)
  <2>1. PICK p : EndpointScope(r, s) = [s EXCEPT !.path_params = p @@ @]
    BY Zenon DEF EndpointScope
  <2>2. EndpointScope(r, s) = ScopeIs(root, above, p @@ params)
    BY <1>2, <2>1
  <2>3. QED
    BY <1>1, <2>2
<1>5. MountScope(r, s) = ScopeIs(MountScope(r, s).root_path,
                                 IF above = <<>> THEN <<root>> ELSE above,
                                 MountScope(r, s).path_params)
  <2>1. PICK p, q : MountScope(r, s) =
          [s EXCEPT !.path_params = p @@ @,
                    !.app_root_path = IF @ = <<>> THEN <<s.root_path>> ELSE @,
                    !.root_path = @ \o q]
    BY Zenon DEF MountScope
  <2> DEFINE x == p @@ params
             a == IF above = <<>> THEN <<root>> ELSE above
             y == root \o q
  <2>2. MountScope(r, s) = [s EXCEPT !.path_params = x, !.app_root_path = a, !.root_path = y]
    <3>1. s.path_params = params /\ s.app_root_path = above /\ s.root_path = root
      BY <1>0, <1>1
    <3>2. QED
      BY <2>1, <3>1, Zenon
  <2> HIDE DEF x, a, y
  <2>3. [s EXCEPT !.path_params = x, !.app_root_path = a, !.root_path = y] = ScopeIs(y, a, x)
    <3>1. [s EXCEPT !.path_params = x] = ScopeIs(root, above, x)
      BY <1>0 DEF ScopeIs
    <3>2. [ScopeIs(root, above, x) EXCEPT !.app_root_path = a] = ScopeIs(root, a, x)
      BY DEF ScopeIs
    <3>3. [ScopeIs(root, a, x) EXCEPT !.root_path = y] = ScopeIs(y, a, x)
      BY DEF ScopeIs
    <3>4. QED
      BY <3>1, <3>2, <3>3, Zenon
  <2>4. QED
    BY <1>1, <2>2, <2>3 DEF a
<1>6. QED
  BY <1>3, <1>4, <1>5 DEF Keeps

\* The way is longer by the route that handles.
LEMMA PassedWay ==
  ASSUME WayIsGood, NEW i, Passed(i)
  PROVE  /\ IsLonger(way', way, router, i)
         /\ AllTaken(way) \in Nat
         /\ AllTaken(way') = AllTaken(way) + TakenBy(RoutesOf(router)[i])
<1>1. GoodWay(way) /\ RouteOK(router, i)
  BY DEF WayIsGood, Passed
<1>2. PICK v : v = Append(way, <<router, i>>)
  OBVIOUS
<1>3. IsLonger(v, way, router, i)
  BY <1>1, <1>2, Longer
<1>4. AllTaken(way) \in Nat /\ AllTaken(v) = AllTaken(way) + TakenBy(RoutesOf(router)[i])
  BY <1>1, <1>2, LongerTakes
<1>5. way' = v
  BY <1>2 DEF Passed
<1>6. QED
  BY <1>3, <1>4, <1>5

\* A route that handles leaves the path split.
LEMMA ScopeStep ==
  ASSUME AskedInv, ScopeInv, WayIsGood, NEW i, Passed(i)
  PROVE  ScopeInv'
<1> DEFINE r == RoutesOf(router)[i]
<1>1. RouteOK(router, i) /\ asked' = asked /\ scope' = UpdatedScope(r, scope)
  BY DEF Passed
<1>2. r \in RouteSet /\ WellMade(r) /\ Matches(r, scope) # "NONE"
  BY RouteTypes DEF Passed
<1>3. /\ AllTaken(way) \in Nat /\ AllTaken(way') = AllTaken(way) + TakenBy(r)
      /\ way' # <<>>
  <2>1. IsLonger(way', way, router, i)
    BY PassedWay
  <2>2. way' # <<>>
    BY <2>1 DEF IsLonger
  <2>3. QED
    BY <2>2, PassedWay
<1>4. Keeps(scope, scope.root_path, scope.app_root_path)
  BY DEF Keeps, ScopeInv
<1>5. /\ scope.root_path \in Strings
      /\ Len(scope.root_path) = Len(asked.root_path) + AllTaken(way)
      /\ Len(scope.root_path) <= Len(asked.path) /\ Len(scope.root_path) \in Nat
  BY ScopeTypes DEF ScopeInv
<1>6. /\ \A k \in 1..Len(scope.root_path) : scope.root_path[k] = asked.path[k]
      /\ scope.root_path # <<>> => scope.root_path[Len(scope.root_path)] # Empty
      /\ scope.app_root_path \in {<<>>, <<asked.root_path>>}
      /\ scope.app_root_path = <<>> => scope.root_path = asked.root_path
  BY DEF ScopeInv
<1>7. ASSUME NEW q, NEW a, NEW p
      PROVE  ScopeIs(q, a, p).root_path = q /\ ScopeIs(q, a, p).app_root_path = a
  BY DEF ScopeIs
<1>8. \A q, a, p : ScopeIs(q, a, p)' = ScopeIs(q, a, p)
  BY <1>1 DEF ScopeIs
<1>9. CASE r.kind # "mount"
  <2>1. scope' = ScopeIs(scope.root_path, scope.app_root_path, scope'.path_params)
    <3>1. scope' = HostScope(r, scope) \/ scope' = EndpointScope(r, scope)
      BY <1>1, <1>9 DEF UpdatedScope
    <3>2. /\ Keeps(HostScope(r, scope), scope.root_path, scope.app_root_path)
          /\ Keeps(EndpointScope(r, scope), scope.root_path, scope.app_root_path)
      BY <1>4, PassedScope
    <3>3. Keeps(scope', scope.root_path, scope.app_root_path)
      BY <3>1, <3>2
    <3>4. QED
      BY <3>3 DEF Keeps
  <2>2. scope'.root_path = scope.root_path /\ scope'.app_root_path = scope.app_root_path
    BY <1>7, <2>1
  <2>3. AllTaken(way') = AllTaken(way)
    BY <1>3, <1>9 DEF TakenBy
  <2>4. QED
    BY <1>1, <1>3, <1>5, <1>6, <1>8, <2>1, <2>2, <2>3 DEF ScopeInv, Strings
<1>10. CASE r.kind = "mount"
  <2> DEFINE new == MountScope(r, scope).root_path
             n == Len(r.path)
             above == IF scope.app_root_path = <<>> THEN <<scope.root_path>> ELSE scope.app_root_path
  <2>1. /\ new \in Strings
        /\ Len(new) = Len(scope.root_path) + n - 1
        /\ Len(scope.root_path) + n <= Len(asked.path)
        /\ \A k \in 1..Len(new) : new[k] = asked.path[k]
        /\ new # <<>> => new[Len(new)] # Empty
    BY <1>1, <1>2, <1>10, MountStep
  <2>2. scope' = MountScope(r, scope)
    BY <1>1, <1>10 DEF UpdatedScope
  <2>3. scope' = ScopeIs(new, above, scope'.path_params)
    <3>1. Keeps(MountScope(r, scope), new, above)
      BY <1>4, PassedScope
    <3> HIDE DEF new, above
    <3>2. QED
      BY <2>2, <3>1 DEF Keeps
  <2>4. scope'.root_path = new /\ scope'.app_root_path = above
    BY <1>7, <2>3
  <2>5. above \in {<<>>, <<asked.root_path>>} /\ above # <<>>
    BY <1>6
  <2>6. n \in Nat /\ TakenBy(r) = n - 1
    BY <1>2, <1>10, PatternTypes DEF TakenBy
  <2>7. Len(new) = Len(asked.root_path) + AllTaken(way') /\ Len(new) <= Len(asked.path)
    <3> DEFINE a == Len(asked.root_path)
               p == Len(asked.path)
               m == Len(scope.root_path)
               t == AllTaken(way)
               u == AllTaken(way')
    <3>1. a \in Nat /\ p \in Nat
      BY AskedTypes
    <3>2. m \in Nat /\ t \in Nat /\ m = a + t
      BY <1>3, <1>5
    <3>3. Len(new) = m + n - 1 /\ m + n <= p
      BY <2>1
    <3>4. u = t + (n - 1)
      BY <1>3, <2>6
    <3> HIDE DEF a, p, m, t, u, new, n
    <3>5. Len(new) = a + u /\ Len(new) <= p
      BY <2>6, <3>1, <3>2, <3>3, <3>4
    <3>6. QED
      BY <3>5 DEF a, p, u
  <2> HIDE DEF new, n, above
  <2>8. QED
    BY <1>1, <1>3, <1>8, <2>1, <2>3, <2>4, <2>5, <2>7 DEF ScopeInv, Strings
<1>11. QED
  BY <1>9, <1>10

\* What is behind on the way stays as it was.
LEMMA SameWay ==
  ASSUME WayIsGood, NEW i, Passed(i)
  PROVE  /\ \A k \in 1..(Len(way) + 1) : ScopeAt(k)' = ScopeAt(k)
         /\ \A k \in 1..Len(way) : RouteAt(k)' = RouteAt(k)
         /\ RouteOn(way', Len(way) + 1) = RoutesOf(router)[i]
         /\ \A k \in 1..(Len(way) + 1) : LeadsTo(top, way, k)' = LeadsTo(top, way, k)
         /\ LeadsTo(top', way', Len(way) + 2) = RoutesOf(router)[i].app
<1>1. asked' = asked /\ top' = top
  BY DEF Passed
<1>2. IsLonger(way', way, router, i)
  BY PassedWay
<1>3. /\ Len(way) \in Nat
      /\ \A k \in 1..Len(way) : way'[k] = way[k]
      /\ way'[Len(way) + 1] = <<router, i>>
  BY <1>2 DEF IsLonger
<1>4. ASSUME NEW k \in 1..(Len(way) + 1) PROVE ScopeAt(k)' = ScopeAt(k)
  <2>1. k \in Nat /\ \A j \in 1..(k - 1) : way'[j] = way[j]
    BY <1>3
  <2>2. Taken(way', k) = Taken(way, k)
    BY <2>1, TakenSame
  <2>3. QED
    BY <1>1, <2>2 DEF ScopeAt, ScopeWith, PathOn
<1>5. \A k \in 1..Len(way) : RouteAt(k)' = RouteAt(k)
  BY <1>3 DEF RouteAt, RouteOn
<1>6. RouteOn(way', Len(way) + 1) = RoutesOf(router)[i]
  BY <1>3 DEF RouteOn, RoutesOf
<1>7. ASSUME NEW k \in 1..(Len(way) + 1) PROVE LeadsTo(top, way, k)' = LeadsTo(top, way, k)
  <2>1. CASE k = 1
    BY <1>1, <2>1 DEF LeadsTo
  <2>2. CASE k # 1
    <3>1. k - 1 \in 1..Len(way)
      BY <1>3, <2>2
    <3>2. way'[k - 1] = way[k - 1]
      BY <1>3, <3>1
    <3>3. QED
      BY <2>2, <3>2 DEF LeadsTo, RouteOn
  <2>3. QED
    BY <2>1, <2>2
<1>8. LeadsTo(top', way', Len(way) + 2) = RoutesOf(router)[i].app
  <2>1. PICK n \in Nat : n = Len(way) + 2
    BY <1>3
  <2>2. n # 1 /\ n - 1 = Len(way) + 1
    BY <1>3, <2>1
  <2>3. RouteOn(way', n - 1) = RoutesOf(router)[i]
    BY <1>3, <2>2 DEF RouteOn, RoutesOf
  <2>4. LeadsTo(top', way', n) = RoutesOf(router)[i].app
    BY <2>2, <2>3 DEF LeadsTo
  <2>5. QED
    BY <2>1, <2>4
<1>9. QED
  BY <1>4, <1>5, <1>6, <1>7, <1>8

\* Routes that only match in part lead to endpoints, and answer 405.
LEMMA HandleKinds ==
  ASSUME NEW i, RouteOK(router, i), Matches(Routes[i], scope) # "NONE", Handle(i)
  PROVE  /\ Passed(i)
         /\ hops' = hops
         /\ \/ stage' = "answered" /\ answer' \in {"405", "endpoint"}
               /\ UNCHANGED <<router, next, partial>>
            \/ /\ Routes[i].app # "endpoint" /\ Routes[i].app \in DOMAIN Routers
               /\ router' = Routes[i].app /\ next' = 1 /\ partial' = 0
               /\ UNCHANGED <<stage, answer>>
               /\ Matches(Routes[i], scope) = "FULL"
               /\ Routes[i].kind \in {"mount", "host"}
<1>1. Routes = RoutesOf(router)
  BY DEF Routes, RoutesOf
<1>2. Routes[i] \in RouteSet /\ WellMade(Routes[i])
  BY <1>1, RouteTypes
<1>3. Passed(i)
  BY <1>1 DEF Handle, Passed
<1>4. /\ Matches(Routes[i], scope) \in {"NONE", "PARTIAL", "FULL"}
      /\ Matches(Routes[i], scope) = "PARTIAL" => Routes[i].app = "endpoint"
      /\ Routes[i].app # "endpoint" => Routes[i].kind \in {"mount", "host"}
  BY <1>2, MatchKinds
<1>5. Routes[i].app = "endpoint" \/ Routes[i].app \in DOMAIN Routers
  BY <1>2, PatternTypes
<1>6. hops' = hops
  BY DEF Handle
<1>7. CASE stage' = "answered" /\ answer' \in {"405", "endpoint"} /\ UNCHANGED <<router, next, partial>>
  BY <1>3, <1>6, <1>7
<1>8. CASE /\ Routes[i].app # "endpoint" /\ router' = Routes[i].app
           /\ next' = 1 /\ partial' = 0 /\ UNCHANGED <<stage, answer>>
  BY <1>3, <1>4, <1>5, <1>6, <1>8
<1>9. \/ stage' = "answered" /\ answer' \in {"405", "endpoint"} /\ UNCHANGED <<router, next, partial>>
      \/ /\ Routes[i].app # "endpoint" /\ router' = Routes[i].app
         /\ next' = 1 /\ partial' = 0 /\ UNCHANGED <<stage, answer>>
  BY DEF Handle, Answer
<1>10. QED
  BY <1>7, <1>8, <1>9

\* The invariant is kept by a route that handles.
LEMMA HandleStep ==
  ASSUME RouteInv, stage = "routing", NEW i, RouteOK(router, i), Handled(router, i, Here), Handle(i)
  PROVE  RouteInv'
<1>0. RoutingTypeOK /\ AskedInv /\ ScopeInv /\ WayInv /\ LookInv
  BY DEF RouteInv
<1>1. Routes = RoutesOf(router) /\ WayIsGood
  BY <1>0 DEF Routes, RoutesOf, WayInv
<1>2. Matches(Routes[i], scope) # "NONE"
  BY <1>0, <1>1, HereIs DEF Handled
<1>3. Passed(i) /\ hops' = hops
  BY <1>2, HandleKinds
<1>4. \/ stage' = "answered" /\ answer' \in {"405", "endpoint"} /\ UNCHANGED <<router, next, partial>>
      \/ /\ Routes[i].app # "endpoint" /\ Routes[i].app \in DOMAIN Routers
         /\ router' = Routes[i].app /\ next' = 1 /\ partial' = 0 /\ UNCHANGED <<stage, answer>>
  BY <1>2, HandleKinds
<1>5. RoutingTypeOK'
  <2>1. router' \in DOMAIN Routers
    BY <1>0, <1>4 DEF RoutingTypeOK
  <2>2. Len(Routes') \in Nat /\ (router' = router => Routes' = Routes)
    BY <2>1, RoutesSeq DEF Routes, RoutesOf
  <2>3. CASE stage' = "answered" /\ answer' \in {"405", "endpoint"} /\ UNCHANGED <<router, next, partial>>
    BY <1>0, <1>3, <2>1, <2>2, <2>3 DEF RoutingTypeOK, Answers
  <2>4. CASE next' = 1 /\ partial' = 0 /\ UNCHANGED <<stage, answer>>
    BY <1>0, <1>3, <2>1, <2>2, <2>4 DEF RoutingTypeOK, Answers
  <2>5. QED
    BY <1>4, <2>3, <2>4
<1>6. AskedInv'
  BY <1>0, <1>3 DEF AskedInv, Passed
<1>7. ScopeInv'
  BY <1>0, <1>1, <1>3, ScopeStep
<1>8. WayInv'
  <2>1. IsLonger(way', way, router, i)
    BY <1>1, <1>3, PassedWay
  <2>2. /\ GoodWay(way') /\ Len(way) \in Nat /\ Len(way') = Len(way) + 1
        /\ \A k \in 1..Len(way) : way'[k] = way[k]
        /\ way'[Len(way) + 1] = <<router, i>>
    BY <2>1 DEF IsLonger
  <2>3. /\ \A k \in 1..(Len(way) + 1) : ScopeAt(k)' = ScopeAt(k)
        /\ \A k \in 1..Len(way) : RouteAt(k)' = RouteAt(k)
        /\ RouteOn(way', Len(way) + 1) = RoutesOf(router)[i]
        /\ \A k \in 1..(Len(way) + 1) : LeadsTo(top, way, k)' = LeadsTo(top, way, k)
        /\ LeadsTo(top', way', Len(way) + 2) = RoutesOf(router)[i].app
    BY <1>1, <1>3, SameWay
  <2>4. Looking /\ router = LeadsTo(top, way, Len(way) + 1)
    BY <1>0 DEF WayInv, Looking
  <2>5. ASSUME NEW k \in 1..Len(way')
        PROVE  /\ way'[k][1] = LeadsTo(top', way', k)
               /\ Handled(way'[k][1], way'[k][2], ScopeAt(k)')
    <3>1. CASE k \in 1..Len(way)
      <4>1. way'[k] = way[k] /\ ScopeAt(k)' = ScopeAt(k) /\ LeadsTo(top', way', k) = LeadsTo(top, way, k)
        BY <2>2, <2>3, <3>1
      <4>2. QED
        BY <1>0, <3>1, <4>1 DEF WayInv
    <3>2. CASE k = Len(way) + 1
      <4>1. way'[k] = <<router, i>> /\ ScopeAt(k)' = ScopeAt(k) /\ LeadsTo(top', way', k) = LeadsTo(top, way, k)
        BY <2>2, <2>3, <3>2
      <4>2. ScopeAt(k) = Here
        BY <3>2 DEF Here
      <4>3. QED
        BY <2>4, <3>2, <4>1, <4>2
    <3>3. QED
      BY <2>2, <3>1, <3>2
  <2>6. ASSUME Looking'
        PROVE  /\ router' = LeadsTo(top', way', Len(way') + 1)
               /\ \A k \in 1..Len(way') : RouteOn(way', k).app # "endpoint"
    <3>1. router' = Routes[i].app /\ Routes[i].app # "endpoint"
      BY <1>4, <2>6 DEF Looking
    <3>2. Len(way') + 1 = Len(way) + 2
      BY <2>2
    <3>3. router' = LeadsTo(top', way', Len(way') + 1)
      BY <1>1, <2>3, <3>1, <3>2
    <3>4. ASSUME NEW k \in 1..Len(way') PROVE RouteOn(way', k).app # "endpoint"
      <4>1. CASE k \in 1..Len(way)
        <5>1. RouteOn(way', k) = RouteAt(k)
          BY <2>3, <4>1 DEF RouteAt
        <5>2. QED
          BY <1>0, <2>4, <4>1, <5>1 DEF WayInv
      <4>2. CASE k = Len(way) + 1
        BY <1>1, <2>3, <3>1, <4>2
      <4>3. QED
        BY <2>2, <4>1, <4>2
    <3>5. QED
      BY <3>3, <3>4
  <2>7. QED
    BY <2>2, <2>5, <2>6 DEF WayInv, WayIsGood, RouteAt
<1>9. LookInv'
  BY <1>0, <1>4 DEF LookInv, RoutingTypeOK
<1>10. QED
  BY <1>5, <1>6, <1>7, <1>8, <1>9 DEF RouteInv

-----------------------------------------------------------------------------
(* The router goes on.                                                     *)

\* While it looks on, it sees the same scope.
Stays == UNCHANGED <<top, asked, scope, router, way>>

\* What depends on the scope and the way, and not on where the router looks.
SeesSame ==
  /\ AskedInv' /\ ScopeInv' /\ ((Looking' => Looking) => WayInv')
  /\ Routes' = Routes /\ Here' = Here /\ RedirectScope' = RedirectScope
  /\ MayRedirect' = MayRedirect /\ NoneFits' = NoneFits
  /\ router' \in DOMAIN Routers /\ Len(Routes) \in Nat

LEMMA SameHere ==
  ASSUME RouteInv, Stays
  PROVE  SeesSame
<1>0. UNCHANGED <<top, asked, scope, router, way>>
  BY DEF Stays
<1>1. AskedInv'
  BY <1>0 DEF RouteInv, AskedInv
<1>2. ScopeInv'
  BY <1>0 DEF RouteInv, ScopeInv, ScopeIs, AllTaken
<1>3. \A k : ScopeAt(k)' = ScopeAt(k)
  BY <1>0 DEF ScopeAt, ScopeWith, PathOn
<1>4. \A k : RouteAt(k)' = RouteAt(k)
  BY <1>0 DEF RouteAt
<1>5. (Looking' => Looking) => WayInv'
  BY <1>0, <1>3, <1>4 DEF RouteInv, WayInv, WayIsGood
<1>6. Routes' = Routes /\ RedirectScope' = RedirectScope
  BY <1>0 DEF Routes, RedirectScope
<1>7. Here' = Here
  BY <1>0 DEF Here, ScopeAt, ScopeWith, PathOn
<1>8. MayRedirect' = MayRedirect
  BY <1>0 DEF MayRedirect
<1>9. NoneFits' = NoneFits
  BY <1>6, <1>7 DEF NoneFits
<1>10. router' \in DOMAIN Routers /\ Len(Routes) \in Nat
  BY <1>0, RoutesSeq DEF RouteInv, RoutingTypeOK, Routes, RoutesOf
<1>11. QED
  BY <1>1, <1>2, <1>5, <1>6, <1>7, <1>8, <1>9, <1>10 DEF SeesSame

\* A route that is looked at matches the scope as it matches what is left of the path.
LEMMA AtRoute ==
  ASSUME RouteInv, NEW i \in 1..Len(Routes)
  PROVE  /\ RouteOK(router, i) /\ Matches(Routes[i], scope) = Matches(Routes[i], Here)
         /\ Matches(Routes[i], Here) \in {"NONE", "PARTIAL", "FULL"}
         /\ Routes[i] \in RouteSet /\ WellMade(Routes[i])
<1>1. RouteOK(router, i) /\ Routes = RoutesOf(router)
  BY DEF RouteInv, RoutingTypeOK, RouteOK, Routes, RoutesOf
<1>2. Routes[i] \in RouteSet /\ WellMade(Routes[i])
  BY <1>1, RouteTypes
<1>3. Matches(Routes[i], Here) \in {"NONE", "PARTIAL", "FULL"}
  BY <1>2, MatchKinds
<1>4. Matches(Routes[i], scope) = Matches(Routes[i], Here)
  BY HereIs DEF RouteInv
<1>5. QED
  BY <1>1, <1>2, <1>3, <1>4

\* The steps of the router, one after the other.
LEMMA FullStep ==
  ASSUME RouteInv, HandleFull
  PROVE  next \in 1..Len(Routes) /\ Handled(router, next, Here) /\ RouteInv'
<1>1. /\ stage = "routing" /\ next \in 1..Len(Routes)
      /\ \A j \in 1..(next - 1) : Matches(Routes[j], Here) # "FULL"
  BY DEF HandleFull, RouteInv, RoutingTypeOK, LookInv
<1>2. RouteOK(router, next) /\ Matches(Routes[next], Here) = "FULL"
  BY <1>1, AtRoute DEF HandleFull
<1>3. Handled(router, next, Here)
  BY <1>1, <1>2 DEF Handled, Won, Routes, RoutesOf
<1>4. QED
  BY <1>1, <1>2, <1>3, HandleStep DEF HandleFull

LEMMA PartialStep ==
  ASSUME RouteInv, HandlePartial
  PROVE  /\ partial \in 1..Len(Routes) /\ Handled(router, partial, Here) /\ RouteInv'
         /\ Matches(Routes[partial], scope) = "PARTIAL"
<1>0. next \in Nat /\ Len(Routes) \in Nat /\ partial \in 0..Len(Routes)
  BY RoutesSeq DEF RouteInv, RoutingTypeOK, Routes, RoutesOf
<1>1. /\ stage = "routing" /\ partial \in 1..Len(Routes) /\ next > Len(Routes)
      /\ Matches(Routes[partial], Here) = "PARTIAL"
      /\ \A j \in 1..(next - 1) : /\ Matches(Routes[j], Here) # "FULL"
                                  /\ j < partial => Matches(Routes[j], Here) = "NONE"
  BY <1>0 DEF HandlePartial, AllLookedAt, RouteInv, LookInv
<1>2. RouteOK(router, partial) /\ Matches(Routes[partial], scope) = "PARTIAL"
  BY <1>1, AtRoute
<1>3. \A j \in 1..Len(Routes) : j \in 1..(next - 1)
  BY <1>0, <1>1
<1>4. \A j \in 1..(partial - 1) : j \in 1..(next - 1) /\ j < partial
  BY <1>0, <1>1
<1>5. Handled(router, partial, Here)
  <2>1. \A j \in 1..Len(Routes) : Matches(Routes[j], Here) # "FULL"
    BY <1>1, <1>3
  <2>2. \A j \in 1..(partial - 1) : Matches(Routes[j], Here) = "NONE"
    BY <1>1, <1>4
  <2>3. Routes = RoutesOf(router)
    BY DEF Routes, RoutesOf
  <2>4. QED
    BY <1>1, <2>1, <2>2, <2>3 DEF Handled, Won
<1>6. QED
  BY <1>1, <1>2, <1>5, HandleStep DEF HandlePartial

LEMMA PassStep ==
  ASSUME RouteInv, PassOver
  PROVE  RouteInv'
<1>1. /\ stage = "routing" /\ next \in Nat /\ next >= 1 /\ next <= Len(Routes) /\ Len(Routes) \in Nat
      /\ partial \in 0..Len(Routes) /\ Matches(Routes[next], scope) # "FULL"
      /\ next' = next + 1
      /\ partial' = IF Matches(Routes[next], scope) = "PARTIAL" /\ partial = 0 THEN next ELSE partial
      /\ UNCHANGED <<top, asked, stage, scope, router, answer, way, hops>>
  BY RoutesSeq DEF PassOver, RouteInv, RoutingTypeOK, LookInv, Routes, RoutesOf
<1>2. /\ \A j \in 1..(next - 1) : /\ Matches(Routes[j], Here) # "FULL"
                                  /\ partial = 0 \/ j < partial => Matches(Routes[j], Here) = "NONE"
      /\ partial # 0 => partial < next /\ Matches(Routes[partial], Here) = "PARTIAL"
  BY <1>1 DEF RouteInv, LookInv
<1>3. /\ AskedInv' /\ ScopeInv' /\ WayInv' /\ Routes' = Routes /\ Here' = Here
      /\ router' \in DOMAIN Routers
  <2>1. Stays
    BY <1>1 DEF Stays
  <2>2. SeesSame
    BY <2>1, SameHere
  <2>3. Looking' => Looking
    BY <1>1 DEF Looking
  <2>4. QED
    BY <2>2, <2>3 DEF SeesSame
<1>4. /\ Matches(Routes[next], Here) = Matches(Routes[next], scope)
      /\ Matches(Routes[next], Here) \in {"NONE", "PARTIAL"}
  BY <1>1, AtRoute
<1>5. RoutingTypeOK'
  BY <1>1, <1>3 DEF RouteInv, RoutingTypeOK
<1>6. ASSUME NEW j \in 1..(next' - 1)
      PROVE  /\ Matches(Routes[j], Here) # "FULL"
             /\ partial' = 0 \/ j < partial' => Matches(Routes[j], Here) = "NONE"
  <2>1. CASE j = next
    BY <1>1, <1>2, <1>4, <2>1
  <2>2. CASE j \in 1..(next - 1)
    <3>1. partial' = 0 \/ j < partial' => partial = 0 \/ j < partial
      BY <1>1
    <3>2. QED
      BY <1>2, <2>2, <3>1
  <2>3. QED
    BY <1>1, <2>1, <2>2
<1>7. partial' # 0 => partial' < next' /\ Matches(Routes[partial'], Here) = "PARTIAL"
  BY <1>1, <1>2, <1>4
<1>8. LookInv'
  <2>1. answer' = "none"
    BY <1>1 DEF RouteInv, RoutingTypeOK
  <2>2. QED
    BY <1>1, <1>3, <1>6, <1>7, <2>1 DEF LookInv
<1>9. QED
  BY <1>3, <1>5, <1>8 DEF RouteInv

\* When the router has looked at all routes and none matched in part, none fits.
LEMMA NoneLeft ==
  ASSUME RouteInv, AllLookedAt, partial = 0
  PROVE  NoneFits
<1>1. next \in Nat /\ Len(Routes) \in Nat /\ next > Len(Routes) /\ stage = "routing"
  BY RoutesSeq DEF AllLookedAt, RouteInv, RoutingTypeOK, Routes, RoutesOf
<1>2. \A j \in 1..(next - 1) : Matches(Routes[j], Here) = "NONE"
  BY <1>1 DEF RouteInv, LookInv
<1>3. \A j \in 1..Len(Routes) : j \in 1..(next - 1)
  BY <1>1
<1>4. QED
  BY <1>2, <1>3 DEF NoneFits

LEMMA TryStep ==
  ASSUME RouteInv, TryRedirect
  PROVE  RouteInv'
<1>1. /\ stage = "routing" /\ stage' = "redirecting" /\ next' = 1 /\ MayRedirect
      /\ UNCHANGED <<top, asked, scope, router, partial, answer, way, hops>>
  BY DEF TryRedirect, AllLookedAt
<1>2. NoneFits
  BY NoneLeft DEF TryRedirect
<1>3. /\ AskedInv' /\ ScopeInv' /\ WayInv' /\ Routes' = Routes /\ NoneFits' = NoneFits
      /\ router' \in DOMAIN Routers /\ Len(Routes) \in Nat /\ MayRedirect' = MayRedirect
  <2>1. Stays
    BY <1>1 DEF Stays
  <2>2. SeesSame
    BY <2>1, SameHere
  <2>3. Looking' => Looking
    BY <1>1 DEF Looking
  <2>4. QED
    BY <2>2, <2>3 DEF SeesSame
<1>4. RoutingTypeOK' /\ answer' = "none"
  BY <1>1, <1>3 DEF RouteInv, RoutingTypeOK
<1>5. LookInv'
  BY <1>1, <1>2, <1>3, <1>4 DEF LookInv
<1>6. QED
  BY <1>3, <1>4, <1>5 DEF RouteInv

LEMMA LookStep ==
  ASSUME RouteInv, LookRedirect
  PROVE  RouteInv'
<1>1. /\ stage = "redirecting" /\ next \in Nat /\ next >= 1 /\ next <= Len(Routes) /\ MayRedirect /\ NoneFits
      /\ answer = "none" /\ Len(Routes) \in Nat
      /\ UNCHANGED <<top, asked, scope, router, partial, way, hops>>
  BY RoutesSeq DEF LookRedirect, RouteInv, RoutingTypeOK, LookInv, Routes, RoutesOf
<1>2. \/ /\ Matches(Routes[next], RedirectScope) # "NONE"
         /\ stage' = "answered" /\ answer' = "redirect" /\ next' = next
      \/ next' = next + 1 /\ UNCHANGED <<stage, answer>>
  BY DEF LookRedirect, Answer
<1>3. /\ AskedInv' /\ ScopeInv' /\ WayInv' /\ Routes' = Routes /\ NoneFits' = NoneFits
      /\ router' \in DOMAIN Routers /\ MayRedirect' = MayRedirect /\ RedirectScope' = RedirectScope
  <2>1. Stays
    BY <1>1 DEF Stays
  <2>2. SeesSame
    BY <2>1, SameHere
  <2>3. Looking' => Looking
    BY <1>1, <1>2 DEF Looking
  <2>4. QED
    BY <2>2, <2>3 DEF SeesSame
<1>4. RoutingTypeOK'
  BY <1>1, <1>2, <1>3 DEF RouteInv, RoutingTypeOK, Answers
<1>5. LookInv'
  BY <1>1, <1>2, <1>3 DEF LookInv
<1>6. QED
  BY <1>3, <1>4, <1>5 DEF RouteInv

LEMMA DefaultStep ==
  ASSUME RouteInv, Default
  PROVE  RouteInv'
<1>1. /\ stage \in {"routing", "redirecting"}
      /\ stage' = "answered" /\ answer' \in {"close", "404"}
      /\ UNCHANGED <<top, asked, scope, router, next, partial, way, hops>>
  BY DEF Default, AllLookedAt, Answer
<1>2. NoneFits
  BY NoneLeft DEF Default, RouteInv, LookInv
<1>3. /\ AskedInv' /\ ScopeInv' /\ WayInv' /\ Routes' = Routes /\ NoneFits' = NoneFits
      /\ router' \in DOMAIN Routers
  <2>1. Stays
    BY <1>1 DEF Stays
  <2>2. SeesSame
    BY <2>1, SameHere
  <2>3. Looking' => Looking
    BY <1>1 DEF Looking
  <2>4. QED
    BY <2>2, <2>3 DEF SeesSame
<1>4. RoutingTypeOK'
  BY <1>1, <1>3 DEF RouteInv, RoutingTypeOK, Answers
<1>5. LookInv'
  BY <1>1, <1>2, <1>3 DEF LookInv
<1>6. QED
  BY <1>3, <1>4, <1>5 DEF RouteInv

-----------------------------------------------------------------------------
(* A new request.                                                          *)

\* The path of one slash.
LEMMA OneEmpty == <<Empty>> \in Strings /\ Len(<<Empty>>) = 1 /\ <<Empty>>[1] = Empty
<1>1. Empty \in Segment
  BY DEF Segment
<1>2. QED
  BY <1>1 DEF Strings

\* A call of the outermost router.
LEMMA CallStep ==
  ASSUME NEW request, Call(request), AskedInv', hops' \in 0..1
  PROVE  RouteInv'
<1>1. /\ asked' = request /\ scope' = ScopeOf(asked') /\ router' = top' /\ stage' = "routing"
      /\ next' = 1 /\ partial' = 0 /\ answer' = "none" /\ way' = <<>>
  BY DEF Call
<1>2. /\ asked' \in Asking /\ Len(asked'.root_path) <= Len(asked'.path)
      /\ \A i \in 1..Len(asked'.root_path) : asked'.root_path[i] = asked'.path[i]
      /\ asked'.root_path # <<>> => asked'.root_path[Len(asked'.root_path)] # Empty
      /\ top' \in DOMAIN Routers
  BY AppsAssumption DEF AskedInv
<1>3. Len(<<>>) = 0 /\ GoodWay(<<>>)
  BY DEF GoodWay
<1>4. AllTaken(<<>>) = 0
  BY <1>3, TakenFirst DEF AllTaken
<1>5. RoutingTypeOK'
  <2>1. Len(Routes') \in Nat
    BY <1>1, <1>2, RoutesSeq DEF Routes, RoutesOf
  <2>2. QED
    BY <1>1, <1>2, <2>1 DEF RoutingTypeOK, Answers
<1>6. ScopeInv'
  <2>1. /\ scope'.root_path = asked'.root_path /\ scope'.app_root_path = <<>> /\ scope'.path_params = <<>>
        /\ scope' = ScopeIs(asked.root_path, <<>>, <<>>)'
    BY <1>1 DEF ScopeOf, ScopeIs
  <2>2. scope' = ScopeIs(scope.root_path, scope.app_root_path, scope.path_params)'
    BY <2>1
  <2>3. asked'.root_path \in Strings /\ Len(asked'.root_path) \in Nat
    BY <1>2, Segments DEF Asking
  <2>4. AllTaken(way') = 0
    BY <1>1, <1>4
  <2>5. QED
    BY <1>1, <1>2, <2>1, <2>2, <2>3, <2>4 DEF ScopeInv
<1>7. WayInv'
  <2>1. LeadsTo(top', way', Len(way') + 1) = top'
    BY <1>1, <1>3 DEF LeadsTo
  <2>2. QED
    BY <1>1, <1>3, <2>1 DEF WayInv, WayIsGood
<1>8. LookInv'
  BY <1>1 DEF LookInv
<1>9. QED
  BY <1>5, <1>6, <1>7, <1>8 DEF RouteInv

LEMMA RequestStep ==
  ASSUME RoutingTypeOK, top \in Apps, NEW request \in Requests, Call(request), hops' = hops
  PROVE  RouteInv'
<1>1. request \in RequestSet /\ IsPrefix(request.root_path, request.path)
  BY RequestsAssumption
<1>2. request.root_path # <<>> => request.root_path[Len(request.root_path)] # Empty
  BY RequestsAssumption, Zenon DEF Last, Empty
<1>3. request.root_path \in Strings /\ request.path \in Strings /\ request \in Asking
  <2>1. ASSUME NEW p \in Seq(STRING) PROVE p \in Strings
    BY SeqMonotonic DEF Strings, Segment
  <2>2. QED
    BY <1>1, <2>1 DEF RequestSet, Asking, Segment
<1>4. /\ Len(request.root_path) <= Len(request.path)
      /\ \A i \in 1..Len(request.root_path) : request.root_path[i] = request.path[i]
  BY <1>1, <1>3, PrefixIs
<1>5. asked' = request /\ top' = top
  BY DEF Call
<1>6. AskedInv'
  BY <1>2, <1>3, <1>4, <1>5 DEF AskedInv
<1>7. hops' \in 0..1
  BY DEF RoutingTypeOK
<1>8. QED
  BY <1>6, <1>7, CallStep

-----------------------------------------------------------------------------
(* A redirect: the path with a slash more, or with its last slashes off.   *)

\* The path q is p with a slash more, or with something less.
AlmostSame(p, q) ==
  /\ p \in Strings /\ q \in Strings
  /\ Len(q) <= Len(p) + 1
  /\ \A i \in 1..Len(q) : i <= Len(p) => q[i] = p[i]
  /\ Len(q) > Len(p) => q[Len(q)] = Empty

LEMMA AlmostRest ==
  ASSUME NEW p, NEW q, AlmostSame(p, q), NEW m \in Nat, m <= Len(p), m <= Len(q),
         NEW c, NEW d, IsRest(c, p, m), IsRest(d, q, m)
  PROVE  AlmostSame(c, d)
<1>1. /\ Len(p) \in Nat /\ Len(q) \in Nat /\ c \in Strings /\ d \in Strings
      /\ Len(c) = Len(p) - m /\ Len(d) = Len(q) - m
  BY Segments DEF AlmostSame, IsRest
<1>2. Len(d) <= Len(c) + 1
  BY <1>1 DEF AlmostSame
<1>3. ASSUME NEW i \in 1..Len(d), i <= Len(c) PROVE d[i] = c[i]
  <2>1. i \in 1..Len(c) /\ m + i \in 1..Len(q) /\ m + i <= Len(p)
    BY <1>1, <1>3
  <2>2. d[i] = q[m + i] /\ c[i] = p[m + i] /\ q[m + i] = p[m + i]
    BY <2>1 DEF AlmostSame, IsRest
  <2>3. QED
    BY <2>2
<1>4. ASSUME Len(d) > Len(c) PROVE d[Len(d)] = Empty
  <2>1. Len(d) \in 1..Len(d) /\ m + Len(d) = Len(q) /\ Len(q) > Len(p)
    BY <1>1, <1>4
  <2>2. d[Len(d)] = q[m + Len(d)]
    BY <2>1 DEF IsRest
  <2>3. QED
    BY <2>1, <2>2 DEF AlmostSame
<1>5. QED
  BY <1>1, <1>2, <1>3, <1>4 DEF AlmostSame

\* What two requests have in common that differ in their paths.
Alike(a, b) == a.type = b.type /\ a.method = b.method /\ a.host = b.host

LEMMA ForPath ==
  ASSUME NEW a, NEW p \in Strings
  PROVE  /\ ScopeFor(a, p).type = a.type /\ ScopeFor(a, p).method = a.method
         /\ ScopeFor(a, p).host = a.host /\ GetRoutePath(ScopeFor(a, p)) = p
BY WithPath DEF ScopeFor

\* A route that did not match the path before, and leads to another router, matches the
\* other path only when that is what it takes and a slash.
LEMMA StillHarmless ==
  ASSUME NEW r \in RouteSet, WellMade(r), NEW a, NEW b, Alike(a, b),
         NEW c, NEW d, AlmostSame(c, d), Matches(r, ScopeFor(a, c)) # "FULL"
  PROVE  Harmless(r, b, d)
<1>1. /\ r.app # "endpoint" => r.kind \in {"mount", "host"}
      /\ Len(r.path) \in Nat /\ Len(r.path) >= 1
  BY MatchKinds, PatternTypes
<1>2. /\ c \in Strings /\ d \in Strings /\ Len(c) \in Nat /\ Len(d) \in Nat /\ Len(d) <= Len(c) + 1
      /\ \A i \in 1..Len(d) : i <= Len(c) => d[i] = c[i]
      /\ Len(d) > Len(c) => d[Len(d)] = Empty
  BY Segments DEF AlmostSame
<1>3. GetRoutePath(ScopeFor(a, c)) = c /\ GetRoutePath(ScopeFor(b, d)) = d
  BY <1>2, ForPath
<1>4. CASE r.kind = "host"
  <2>1. ScopeFor(a, c).host = ScopeFor(b, d).host
    BY <1>2, ForPath DEF Alike
  <2>2. Matches(r, ScopeFor(a, c)) = Matches(r, ScopeFor(b, d))
    BY <1>4, <2>1 DEF Matches, HostMatch
  <2>3. QED
    BY <2>2 DEF Harmless
<1>5. CASE r.kind = "mount"
  <2>1. SUFFICES ASSUME Matches(r, ScopeFor(b, d)) = "FULL"
                 PROVE  Len(d) = Len(r.path) /\ d[Len(d)] = Empty
    BY <1>5 DEF Harmless
  <2>2. Len(d) >= Len(r.path) /\ \A i \in 1..(Len(r.path) - 1) : Accepts(r.path[i], d[i])
    BY <1>3, <1>5, <2>1, MountMatches
  <2>3. ~ (Len(c) >= Len(r.path) /\ \A i \in 1..(Len(r.path) - 1) : Accepts(r.path[i], c[i]))
    BY <1>3, <1>5, MountMatches
  <2>4. ASSUME Len(c) >= Len(r.path) PROVE FALSE
    <3>1. ASSUME NEW i \in 1..(Len(r.path) - 1) PROVE Accepts(r.path[i], c[i])
      <4>1. i \in 1..Len(d) /\ i <= Len(c)
        BY <1>1, <1>2, <2>2, <2>4
      <4>2. d[i] = c[i]
        BY <1>2, <4>1
      <4>3. QED
        BY <2>2, <4>2
    <3>2. QED
      BY <2>3, <2>4, <3>1
  <2>5. QED
    BY <1>1, <1>2, <2>2, <2>4
<1>6. CASE r.app = "endpoint"
  BY <1>6 DEF Harmless
<1>7. QED
  BY <1>1, <1>4, <1>5, <1>6

\* A mount or a host that matched the path before matches the other one, if enough is left.
LEMMA StillFull ==
  ASSUME NEW r \in RouteSet, WellMade(r), r.app # "endpoint", NEW a, NEW b, Alike(a, b),
         NEW c, NEW d, AlmostSame(c, d), Matches(r, ScopeFor(a, c)) # "NONE",
         r.kind = "mount" => Len(d) >= Len(r.path)
  PROVE  Matches(r, ScopeFor(b, d)) = "FULL"
<1>1. r.kind \in {"mount", "host"} /\ Len(r.path) \in Nat /\ Len(r.path) >= 1
  BY MatchKinds, PatternTypes
<1>2. /\ c \in Strings /\ d \in Strings /\ Len(c) \in Nat /\ Len(d) \in Nat
      /\ \A i \in 1..Len(d) : i <= Len(c) => d[i] = c[i]
  BY Segments DEF AlmostSame
<1>3. GetRoutePath(ScopeFor(a, c)) = c /\ GetRoutePath(ScopeFor(b, d)) = d
  BY <1>2, ForPath
<1>4. CASE r.kind = "host"
  <2>1. ScopeFor(a, c).host = ScopeFor(b, d).host
    BY <1>2, ForPath DEF Alike
  <2>2. QED
    BY <1>4, <2>1 DEF Matches, HostMatch
<1>5. CASE r.kind = "mount"
  <2>1. Matches(r, ScopeFor(a, c)) = "FULL"
    BY <1>5, MountMatches
  <2>2. Len(c) >= Len(r.path) /\ \A i \in 1..(Len(r.path) - 1) : Accepts(r.path[i], c[i])
    BY <1>3, <1>5, <2>1, MountMatches
  <2>3. ASSUME NEW i \in 1..(Len(r.path) - 1) PROVE Accepts(r.path[i], d[i])
    <3>1. i \in 1..Len(d) /\ i <= Len(c)
      BY <1>1, <1>2, <1>5, <2>2
    <3>2. d[i] = c[i]
      BY <1>2, <3>1
    <3>3. QED
      BY <2>2, <3>2
  <2>4. QED
    BY <1>3, <1>5, <2>3, MountMatches
<1>6. QED
  BY <1>1, <1>4, <1>5

\* The path of the redirect.
NewPath == IF GetRoutePath(scope) # <<>> /\ Last(GetRoutePath(scope)) = Empty
           THEN RStrip(scope.path, Empty) ELSE scope.path \o <<Empty>>

LEMMA NewScope ==
  ASSUME AskedInv, ScopeInv
  PROVE  /\ RedirectScope.path = NewPath /\ RedirectScope.root_path = scope.root_path
         /\ Alike(RedirectScope, scope)
<1>1. RedirectScope = [scope EXCEPT !.path = NewPath]
  BY Zenon DEF RedirectScope, NewPath, Empty
<1>2. PICK root, above, params : scope = ScopeIs(root, above, params)
  BY DEF ScopeInv
<1>3. QED
  BY <1>1, <1>2 DEF ScopeIs, Alike

\* The new path goes on behind what the mounts matched.
LEMMA RedirectPath ==
  ASSUME RouteInv, MayRedirect
  PROVE  /\ AlmostSame(asked.path, NewPath)
         /\ Len(scope.root_path) <= Len(NewPath)
         /\ \A i \in 1..Len(scope.root_path) : scope.root_path[i] = NewPath[i]
<1> DEFINE p == asked.path
           root == scope.root_path
           rest == GetRoutePath(scope)
           M == Len(root)
<1>1. AskedInv /\ ScopeInv
  BY DEF RouteInv
<1>2. /\ scope.path = p /\ p \in Strings /\ Len(p) \in Nat /\ M \in Nat /\ M <= Len(p)
  BY <1>1, AskedTypes, ScopeTypes
<1>3. /\ \A i \in 1..M : root[i] = p[i]
      /\ M > 0 => root[M] # Empty
  BY <1>1, ScopeTypes, Segments DEF ScopeInv
<1>4. CASE rest # <<>> /\ Last(rest) = Empty
  <2>1. NewPath = RStrip(p, Empty)
    BY <1>2, <1>4 DEF NewPath
  <2> HIDE DEF p, root, rest, M
  <2>2. PICK m \in Nat : /\ m <= Len(p)
                         /\ RStrip(p, Empty) = SubSeq(p, 1, m)
                         /\ m > 0 => p[m] # Empty
                         /\ \A i \in (m + 1)..Len(p) : p[i] = Empty
    BY <1>2, Stripped
  <2>3. M <= m
    <3>1. SUFFICES ASSUME m < M PROVE FALSE
      BY <1>2
    <3>2. M \in (m + 1)..Len(p) /\ M \in 1..M /\ M > 0
      BY <1>2, <3>1
    <3>3. \A i \in (m + 1)..Len(p) : p[i] = Empty
      BY <2>2
    <3>4. p[M] = Empty
      BY <3>2, <3>3
    <3>5. root[M] = p[M]
      BY <1>3, <3>2
    <3>6. QED
      BY <1>3, <3>2, <3>4, <3>5
  <2>4. NewPath \in Strings /\ Len(NewPath) = m /\ \A i \in 1..m : NewPath[i] = p[i]
    <3>1. PICK c : c = SubSeq(p, 1, m)
      OBVIOUS
    <3>2. m <= Len(p)
      BY <2>2
    <3>3. c \in Strings /\ Len(c) = m /\ \A i \in 1..m : c[i] = p[i]
      BY <1>2, <3>1, <3>2, CutFront
    <3>4. NewPath = c
      BY <2>1, <2>2, <3>1
    <3>5. QED
      BY <3>3, <3>4
  <2>5. AlmostSame(p, NewPath)
    <3>1. m <= Len(p)
      BY <2>2
    <3>2. QED
      BY <1>2, <2>4, <3>1 DEF AlmostSame
  <2>6. \A i \in 1..M : root[i] = NewPath[i]
    BY <1>2, <1>3, <2>3, <2>4
  <2>7. QED
    BY <2>3, <2>4, <2>5, <2>6 DEF p, root, M
<1>5. CASE ~ (rest # <<>> /\ Last(rest) = Empty)
  <2>1. NewPath = p \o <<Empty>>
    BY <1>2, <1>5 DEF NewPath
  <2> HIDE DEF p, root, rest, M
  <2>2. /\ NewPath \in Strings /\ Len(NewPath) = Len(p) + 1
        /\ \A i \in 1..Len(p) : NewPath[i] = p[i]
        /\ NewPath[Len(p) + 1] = Empty
    <3>1. PICK e \in Strings : e = <<Empty>> /\ Len(e) = 1 /\ e[1] = Empty
      BY OneEmpty
    <3>2. /\ p \o e \in Strings /\ Len(p \o e) = Len(p) + Len(e)
          /\ \A i \in 1..Len(p) : (p \o e)[i] = p[i]
          /\ \A i \in 1..Len(e) : (p \o e)[Len(p) + i] = e[i]
      BY <1>2, <3>1, Joined
    <3>3. (p \o e)[Len(p) + 1] = Empty
      BY <3>1, <3>2
    <3>4. QED
      BY <2>1, <3>1, <3>2, <3>3
  <2>3. AlmostSame(p, NewPath)
    BY <1>2, <2>2 DEF AlmostSame
  <2>4. M <= Len(NewPath) /\ \A i \in 1..M : root[i] = NewPath[i]
    BY <1>2, <1>3, <2>2
  <2>5. QED
    BY <2>3, <2>4 DEF p, root, M
<1>6. QED
  BY <1>4, <1>5

\* What matches it needs more.
LEMMA RedirectMatches ==
  ASSUME RouteInv, answer = "redirect"
  PROVE  /\ Len(scope.root_path) < Len(NewPath)
         /\ \E j \in 1..Len(Routes) :
              Matches(Routes[j], ScopeFor(asked, SubSeq(NewPath, Len(scope.root_path) + 1, Len(NewPath)))) # "NONE"
<1> DEFINE M == Len(scope.root_path)
           rest == SubSeq(NewPath, M + 1, Len(NewPath))
<1>1. AskedInv /\ ScopeInv /\ MayRedirect /\ NoneFits
  BY DEF RouteInv, LookInv
<1>2. PICK j \in 1..Len(Routes) : Matches(Routes[j], RedirectScope) # "NONE"
  BY DEF RouteInv, LookInv
<1>3. /\ Routes[j] \in RouteSet /\ WellMade(Routes[j])
      /\ Matches(Routes[j], scope) = "NONE"
  BY <1>1, AtRoute DEF NoneFits
<1>4. /\ NewPath \in Strings /\ Len(NewPath) \in Nat /\ M \in Nat /\ M <= Len(NewPath)
      /\ \A i \in 1..M : scope.root_path[i] = NewPath[i]
      /\ scope.root_path \in Strings
  BY <1>1, RedirectPath, ScopeTypes, Segments DEF AlmostSame
<1>5. /\ RedirectScope.path = NewPath /\ RedirectScope.root_path = scope.root_path
      /\ Alike(RedirectScope, scope)
  BY <1>1, NewScope
<1>6. GetRoutePath(RedirectScope) = rest
  BY <1>4, <1>5, RoutePath
<1>7. IsRest(rest, NewPath, M)
  BY <1>4, RestOf
<1>8. rest \in Strings /\ Len(rest) = Len(NewPath) - M
  BY <1>7 DEF IsRest
<1>9. Routes[j].kind # "host"
  <2>1. SUFFICES ASSUME Routes[j].kind = "host" PROVE FALSE
    OBVIOUS
  <2>2. Matches(Routes[j], RedirectScope) = Matches(Routes[j], scope)
    BY <1>5, <2>1 DEF Matches, HostMatch, Alike
  <2>3. QED
    BY <1>2, <1>3, <2>2
<1>10. Len(GetRoutePath(RedirectScope)) >= 1
  BY <1>2, <1>3, <1>9, MatchKinds
<1>11. M < Len(NewPath)
  <2>1. Len(rest) >= 1
    BY <1>6, <1>10
  <2> HIDE DEF rest, M
  <2>2. QED
    BY <1>4, <1>8, <2>1
<1>12. Matches(Routes[j], RedirectScope) = Matches(Routes[j], ScopeFor(asked, rest))
  <2>1. /\ ScopeFor(asked, rest).type = asked.type /\ ScopeFor(asked, rest).method = asked.method
        /\ ScopeFor(asked, rest).host = asked.host /\ GetRoutePath(ScopeFor(asked, rest)) = rest
    BY <1>8, ForPath
  <2>2. Alike(scope, asked)
    BY <1>1, ScopeTypes DEF Alike
  <2> HIDE DEF rest
  <2>3. QED
    BY <1>5, <1>6, <2>1, <2>2, MatchesSame DEF Alike
<1>13. QED
  BY <1>2, <1>11, <1>12

\* The request after the redirect, and what the routers on the way see of it.
Again == [asked EXCEPT !.path = NewPath]

\* The redirected request is a request too, with the same root_path.
LEMMA AgainTypes ==
  ASSUME RouteInv, answer = "redirect"
  PROVE  /\ Alike(asked, Again) /\ Again.path = NewPath /\ Again.root_path = asked.root_path
         /\ Again \in Asking
         /\ Len(asked.root_path) <= Len(NewPath)
         /\ \A i \in 1..Len(asked.root_path) : asked.root_path[i] = NewPath[i]
<1>1. AskedInv /\ ScopeInv /\ MayRedirect
  BY DEF RouteInv, LookInv
<1>2. NewPath \in Strings /\ Len(NewPath) \in Nat /\ Len(scope.root_path) <= Len(NewPath)
  BY <1>1, RedirectPath, Segments DEF AlmostSame
<1>3. \A i \in 1..Len(scope.root_path) : scope.root_path[i] = NewPath[i]
  BY <1>1, RedirectPath
<1>4. asked \in Asking
  BY <1>1 DEF AskedInv
<1>5. Alike(asked, Again) /\ Again.path = NewPath /\ Again.root_path = asked.root_path /\ Again \in Asking
  BY <1>2, <1>4 DEF Asking, Again, Alike
<1>6. /\ Len(asked.root_path) <= Len(scope.root_path) /\ Len(asked.root_path) \in Nat
      /\ Len(scope.root_path) \in Nat /\ Len(scope.root_path) <= Len(asked.path)
  <2>1. WayIsGood
    BY DEF RouteInv, WayInv
  <2>2. Len(way) \in Nat
    BY <2>1 DEF WayIsGood, GoodWay
  <2>3. PICK n \in Nat : n = Len(way) + 1
    BY <2>2
  <2>4. Taken(way, n) \in Nat
    BY <2>1, <2>3, MountedFinite DEF WayIsGood
  <2>5. AllTaken(way) \in Nat
    BY <2>3, <2>4 DEF AllTaken
  <2>6. Len(asked.root_path) \in Nat /\ Len(scope.root_path) \in Nat /\ Len(scope.root_path) <= Len(asked.path)
    BY <1>1, AskedTypes, ScopeTypes
  <2>7. Len(scope.root_path) = Len(asked.root_path) + AllTaken(way)
    BY <1>1 DEF ScopeInv
  <2>8. QED
    BY <2>5, <2>6, <2>7
<1>7. ASSUME NEW i \in 1..Len(asked.root_path) PROVE asked.root_path[i] = NewPath[i]
  <2>1. i \in 1..Len(scope.root_path)
    BY <1>6
  <2>2. asked.root_path[i] = asked.path[i] /\ scope.root_path[i] = asked.path[i]
    BY <1>1, <2>1 DEF AskedInv, ScopeInv
  <2>3. QED
    BY <1>3, <2>1, <2>2
<1>8. QED
  BY <1>2, <1>5, <1>6, <1>7

\* It has almost the same path left at each router of the way.
LEMMA AgainOnWay ==
  ASSUME RouteInv, answer = "redirect", NEW k \in 1..(Len(way) + 1)
  PROVE  /\ ScopeAt(k) = ScopeFor(asked, PathFrom(asked, way, k))
         /\ AlmostSame(PathFrom(asked, way, k), PathFrom(Again, way, k))
         /\ Taken(way, k) \in Nat
         /\ IsRest(PathFrom(Again, way, k), NewPath, Len(asked.root_path) + Taken(way, k))
<1> DEFINE m == Len(asked.root_path) + Taken(way, k)
<1>1. AskedInv /\ ScopeInv /\ MayRedirect
  BY DEF RouteInv, LookInv
<1>2. WayIsGood
  BY DEF RouteInv, WayInv
<1>3. Len(way) \in Nat
  BY <1>2 DEF WayIsGood, GoodWay
<1>4. PICK n \in Nat : n = Len(way) + 1
  BY <1>3
<1>5. k \in Nat /\ k <= n /\ n <= Len(way) + 1
  BY <1>3, <1>4
<1>6. Taken(way, k) \in Nat /\ Taken(way, n) \in Nat /\ Taken(way, k) <= Taken(way, n)
  BY <1>2, <1>5, MountedFinite, TakenGrows DEF WayIsGood
<1>7. Len(scope.root_path) = Len(asked.root_path) + Taken(way, n)
  BY <1>1, <1>4 DEF ScopeInv, AllTaken
<1>8. /\ asked.path \in Strings /\ Len(asked.path) \in Nat /\ Len(asked.root_path) \in Nat
      /\ Len(scope.root_path) <= Len(asked.path)
  BY <1>1, AskedTypes, ScopeTypes
<1>9. AlmostSame(asked.path, NewPath) /\ Len(scope.root_path) <= Len(NewPath)
  BY <1>1, RedirectPath
<1>10. NewPath \in Strings /\ Len(NewPath) \in Nat
  BY <1>9, Segments DEF AlmostSame
<1>11. m \in Nat /\ m <= Len(asked.path) /\ m <= Len(NewPath)
  <2> DEFINE a == Len(asked.root_path)
             p == Len(asked.path)
             q == Len(NewPath)
             s == Len(scope.root_path)
             t == Taken(way, k)
             u == Taken(way, n)
  <2>1. a \in Nat /\ p \in Nat /\ q \in Nat /\ t \in Nat /\ u \in Nat
    BY <1>6, <1>8, <1>10
  <2>2. t <= u /\ s = a + u /\ s <= p /\ s <= q
    BY <1>6, <1>7, <1>8, <1>9
  <2>3. m = a + t
    OBVIOUS
  <2> HIDE DEF a, p, q, s, t, u, m
  <2>4. m \in Nat /\ m <= p /\ m <= q
    BY <2>1, <2>2, <2>3
  <2>5. QED
    BY <2>4 DEF p, q
<1>12. PathFrom(asked, way, k) = SubSeq(asked.path, m + 1, Len(asked.path))
  BY DEF PathFrom
<1>13. PathFrom(Again, way, k) = SubSeq(NewPath, m + 1, Len(NewPath))
  BY AgainTypes DEF PathFrom
<1> HIDE DEF m
<1>14. IsRest(PathFrom(asked, way, k), asked.path, m) /\ IsRest(PathFrom(Again, way, k), NewPath, m)
  BY <1>8, <1>10, <1>11, <1>12, <1>13, RestOf
<1>15. AlmostSame(PathFrom(asked, way, k), PathFrom(Again, way, k))
  BY <1>9, <1>11, <1>14, AlmostRest
<1>16. ScopeAt(k) = ScopeFor(asked, PathFrom(asked, way, k))
  BY DEF ScopeAt, ScopeWith, PathOn, ScopeFor, PathFrom
<1>17. QED
  BY <1>6, <1>14, <1>15, <1>16 DEF m

\* The route that was taken first is taken again, or a harmless one before it.
LEMMA FollowsOne ==
  ASSUME RouteInv, answer = "redirect", NEW k \in 1..Len(way)
  PROVE  FollowsTo(Again, top, way, k)
<1> DEFINE r == RouteOn(way, k)
           rt == way[k][1]
           c == PathFrom(asked, way, k)
           d == PathFrom(Again, way, k)
<1>1. /\ WayIsGood /\ rt = LeadsTo(top, way, k) /\ Handled(rt, way[k][2], ScopeAt(k))
      /\ r.app # "endpoint"
  BY DEF RouteInv, WayInv, Looking, RouteAt
<1>2. RouteOK(rt, way[k][2]) /\ Len(way) \in Nat
  BY <1>1 DEF WayIsGood, GoodWay
<1>3. k \in 1..(Len(way) + 1) /\ k + 1 \in 1..(Len(way) + 1)
  BY <1>2
<1>4. ScopeAt(k) = ScopeFor(asked, c) /\ AlmostSame(c, d)
  BY <1>3, AgainOnWay
<1>5. Alike(asked, Again)
  BY AgainTypes
<1>6. r \in RouteSet /\ WellMade(r) /\ r = RoutesOf(rt)[way[k][2]]
  BY <1>2, RouteTypes DEF RouteOn, RoutesOf
<1>7. Matches(r, ScopeAt(k)) = "FULL" /\ \A j \in 1..(way[k][2] - 1) : Matches(RoutesOf(rt)[j], ScopeAt(k)) # "FULL"
  <2>1. /\ Matches(r, ScopeAt(k)) # "NONE" /\ Matches(r, ScopeAt(k)) \in {"NONE", "PARTIAL", "FULL"}
        /\ Matches(r, ScopeAt(k)) # "PARTIAL"
    BY <1>1, <1>6, MatchKinds DEF Handled
  <2>2. QED
    BY <1>1, <1>6, <2>1 DEF Handled, Won
<1>8. r.kind = "mount" => Len(d) >= Len(r.path)
  <2>1. SUFFICES ASSUME r.kind = "mount" PROVE Len(d) >= Len(r.path)
    OBVIOUS
  <2>2. Len(r.path) \in Nat /\ TakenBy(r) = Len(r.path) - 1
    BY <1>6, <2>1, PatternTypes DEF TakenBy
  <2>3. Taken(way, k + 1) = Taken(way, k) + TakenBy(r)
    BY <1>1, TakenStep DEF WayIsGood
  <2>4. PICK n \in Nat : n = Len(way) + 1
    BY <1>2
  <2>5. Taken(way, k + 1) <= Taken(way, n)
    BY <1>1, <1>2, <2>4, TakenGrows DEF WayIsGood
  <2>6. Taken(way, n) \in Nat
    BY <1>1, <1>2, <2>4, MountedFinite DEF WayIsGood
  <2>7. Len(scope.root_path) = Len(asked.root_path) + Taken(way, n)
    BY <2>4 DEF RouteInv, ScopeInv, AllTaken
  <2>8. Len(scope.root_path) < Len(NewPath)
    BY RedirectMatches
  <2>9. Taken(way, k) \in Nat /\ Len(d) = Len(NewPath) - (Len(asked.root_path) + Taken(way, k))
    BY <1>3, AgainOnWay DEF IsRest
  <2>10. Len(asked.root_path) \in Nat /\ Len(NewPath) \in Nat
    BY AskedTypes, RedirectPath, Segments DEF RouteInv, LookInv, AlmostSame
  <2> DEFINE a == Len(asked.root_path)
             l == Len(NewPath)
             p == Len(r.path)
             s == Len(scope.root_path)
             t == Taken(way, k)
             u == Taken(way, n)
             v == Taken(way, k + 1)
             e == Len(d)
  <2>11. a \in Nat /\ l \in Nat /\ p \in Nat /\ t \in Nat /\ u \in Nat
    BY <2>2, <2>6, <2>9, <2>10
  <2>12. v = t + (p - 1) /\ v <= u
    BY <2>2, <2>3, <2>5
  <2>13. s = a + u /\ s < l /\ e = l - (a + t)
    BY <2>7, <2>8, <2>9
  <2> HIDE DEF a, l, p, s, t, u, v, e
  <2>14. e >= p
    BY <2>11, <2>12, <2>13
  <2>15. QED
    BY <2>14 DEF e, p
<1>9. Matches(r, ScopeFor(Again, d)) = "FULL"
  <2>1. Matches(r, ScopeFor(asked, c)) # "NONE"
    BY <1>4, <1>7
  <2> HIDE DEF c, d, r
  <2>2. QED
    BY <1>1, <1>4, <1>5, <1>6, <1>8, <2>1, StillFull
<1>10. ASSUME NEW j \in 1..(way[k][2] - 1) PROVE Harmless(RoutesOf(rt)[j], Again, d)
  <2>1. way[k][2] \in Nat /\ way[k][2] <= Len(RoutesOf(rt)) /\ Len(RoutesOf(rt)) \in Nat
    BY <1>2, RouteTypes DEF RouteOK
  <2>2. j \in 1..Len(RoutesOf(rt))
    BY <2>1
  <2>3. RoutesOf(rt)[j] \in RouteSet /\ WellMade(RoutesOf(rt)[j])
    <3>1. RouteOK(rt, j)
      BY <1>2, <2>2 DEF RouteOK
    <3>2. QED
      BY <3>1, RouteTypes
  <2>4. Matches(RoutesOf(rt)[j], ScopeFor(asked, c)) # "FULL"
    BY <1>4, <1>7
  <2> HIDE DEF c, d, r, rt
  <2>5. QED
    BY <1>4, <1>5, <2>3, <2>4, StillHarmless
<1>11. QED
  BY <1>1, <1>9, <1>10 DEF FollowsTo

\* A redirect leads the same way again, to a router where a route matches.
LEMMA FollowSettles ==
  ASSUME RouteInv, answer = "redirect"
  PROVE  Follows(Again, top, way)
<1> DEFINE c == PathFrom(asked, way, Len(way) + 1)
           d == PathFrom(Again, way, Len(way) + 1)
<1>1. /\ WayIsGood /\ router = LeadsTo(top, way, Len(way) + 1) /\ NoneFits
      /\ router \in DOMAIN Routers /\ Routes = RoutesOf(router)
  BY DEF RouteInv, WayInv, Looking, LookInv, RoutingTypeOK, Routes, RoutesOf
<1>2. Len(way) \in Nat /\ Len(way) + 1 \in 1..(Len(way) + 1)
  BY <1>1 DEF WayIsGood, GoodWay
<1>3. /\ Here = ScopeFor(asked, c) /\ AlmostSame(c, d)
      /\ IsRest(d, NewPath, Len(asked.root_path) + Taken(way, Len(way) + 1))
  BY <1>2, AgainOnWay DEF Here
<1>4. Alike(asked, Again)
  BY AgainTypes
<1>5. ASSUME NEW j \in 1..Len(RoutesOf(router)) PROVE Harmless(RoutesOf(router)[j], Again, d)
  <2>1. /\ RoutesOf(router)[j] \in RouteSet /\ WellMade(RoutesOf(router)[j])
        /\ Matches(RoutesOf(router)[j], Here) # "FULL"
    BY <1>1, AtRoute DEF NoneFits
  <2>2. Matches(RoutesOf(router)[j], ScopeFor(asked, c)) # "FULL"
    BY <1>3, <2>1
  <2> HIDE DEF c, d
  <2>3. QED
    BY <1>3, <1>4, <2>1, <2>2, StillHarmless
<1>6. \E j \in 1..Len(RoutesOf(router)) : Matches(RoutesOf(router)[j], ScopeFor(Again, d)) # "NONE"
  <2> DEFINE rest == SubSeq(NewPath, Len(scope.root_path) + 1, Len(NewPath))
  <2>1. PICK j \in 1..Len(Routes) : Matches(Routes[j], ScopeFor(asked, rest)) # "NONE"
    BY RedirectMatches
  <2>2. d = rest
    BY AgainTypes DEF PathFrom, RouteInv, ScopeInv, AllTaken
  <2>3. d \in Strings
    BY <1>3 DEF IsRest
  <2>4. Matches(Routes[j], ScopeFor(asked, d)) = Matches(Routes[j], ScopeFor(Again, d))
    <3> HIDE DEF d
    <3>1. /\ ScopeFor(asked, d).type = ScopeFor(Again, d).type
          /\ ScopeFor(asked, d).method = ScopeFor(Again, d).method
          /\ ScopeFor(asked, d).host = ScopeFor(Again, d).host
          /\ GetRoutePath(ScopeFor(asked, d)) = GetRoutePath(ScopeFor(Again, d))
      BY <1>4, <2>3, ForPath DEF Alike
    <3>2. QED
      BY <3>1, MatchesSame
  <2> HIDE DEF d, rest
  <2>5. QED
    BY <1>1, <2>1, <2>2, <2>4
<1>7. EndsAt(Again, router, d)
  BY <1>1, <1>5, <1>6 DEF EndsAt
<1>8. QED
  BY <1>1, <1>7, FollowsOne DEF Follows, WayIsGood

-----------------------------------------------------------------------------
(* After a redirect nothing redirects again.                               *)

\* Where a request is on a way that it follows: one of the routes on it is next, or later,
\* and the others are harmless.
LEMMA OnTheWay ==
  ASSUME RouteInv, stage = "routing", NEW w, Follows(asked, top, w), Along(w)
  PROVE  /\ \A j \in 1..Len(Routes) :
              \/ Harmless(Routes[j], asked, GetRoutePath(scope))
              \/ Len(way) < Len(w) /\ j >= w[Len(way) + 1][2]
         /\ Len(way) < Len(w) =>
              /\ w[Len(way) + 1][1] = router /\ w[Len(way) + 1][2] \in 1..Len(Routes)
              /\ Matches(Routes[w[Len(way) + 1][2]], scope) = "FULL"
         /\ Len(way) = Len(w) => \E j \in 1..Len(Routes) : Matches(Routes[j], scope) # "NONE"
<1>1. /\ WayIsGood /\ router = LeadsTo(top, way, Len(way) + 1) /\ AskedInv /\ ScopeInv
      /\ router \in DOMAIN Routers /\ Routes = RoutesOf(router)
  BY DEF RouteInv, WayInv, Looking, RoutingTypeOK, Routes, RoutesOf
<1>2. Len(way) \in Nat /\ Len(w) \in Nat /\ Len(way) <= Len(w) /\ GoodWay(w)
  BY <1>1 DEF WayIsGood, GoodWay, Follows, Along
<1>3. PICK n \in Nat : n = Len(way) + 1
  BY <1>2
<1>4. \A i \in 1..(n - 1) : way[i] = w[i]
  BY <1>2, <1>3 DEF Along
<1>5. Taken(w, n) = Taken(way, n)
  BY <1>4, TakenSame
<1>6. PathFrom(asked, w, n) = GetRoutePath(scope)
  <2>1. PathOn(way, n) = GetRoutePath(scope)
    BY <1>1, <1>3, HereIs
  <2>2. QED
    BY <1>5, <2>1 DEF PathOn, PathFrom
<1>7. LeadsTo(top, w, n) = router
  <2>1. CASE n = 1
    BY <1>1, <1>3, <2>1 DEF LeadsTo
  <2>2. CASE n # 1
    <3>1. n - 1 \in 1..(n - 1)
      BY <1>2, <1>3, <2>2
    <3>2. way[n - 1] = w[n - 1]
      BY <1>4, <3>1
    <3>3. QED
      BY <1>1, <1>3, <2>2, <3>2 DEF LeadsTo, RouteOn
  <2>3. QED
    BY <2>1, <2>2
<1>8. ASSUME NEW r PROVE Matches(r, scope) = Matches(r, ScopeFor(asked, GetRoutePath(scope)))
  <2>1. Matches(r, scope) = Matches(r, Here)
    BY <1>1, HereIs
  <2>2. Here = ScopeFor(asked, GetRoutePath(scope))
    BY <1>1, HereIs DEF Here, ScopeAt, ScopeWith, ScopeFor
  <2>3. QED
    BY <2>1, <2>2
<1>9. CASE Len(way) < Len(w)
  <2>1. n \in 1..Len(w)
    BY <1>2, <1>3, <1>9
  <2>2. FollowsTo(asked, top, w, n) /\ RouteOK(w[n][1], w[n][2])
    BY <1>2, <2>1 DEF Follows, GoodWay
  <2>3. w[n][1] = router /\ w[n][2] \in 1..Len(Routes)
    BY <1>1, <1>7, <2>2 DEF FollowsTo, RouteOK
  <2>4. Matches(Routes[w[n][2]], scope) = "FULL"
    BY <1>1, <1>6, <1>8, <2>2, <2>3 DEF FollowsTo, RouteOn, RoutesOf
  <2>5. \A j \in 1..(w[n][2] - 1) : Harmless(Routes[j], asked, GetRoutePath(scope))
    BY <1>1, <1>6, <2>2, <2>3 DEF FollowsTo
  <2>6. Len(Routes) \in Nat
    BY <1>1, RoutesSeq
  <2>7. \A j \in 1..Len(Routes) : j \in 1..(w[n][2] - 1) \/ j >= w[n][2]
    BY <2>3, <2>6
  <2>8. QED
    BY <1>2, <1>3, <1>9, <2>3, <2>4, <2>5, <2>7
<1>10. CASE Len(way) = Len(w)
  <2>1. EndsAt(asked, router, GetRoutePath(scope))
    BY <1>3, <1>6, <1>7, <1>10 DEF Follows
  <2>2. \E j \in 1..Len(Routes) : Matches(Routes[j], scope) # "NONE"
    BY <1>1, <1>8, <2>1 DEF EndsAt
  <2>3. QED
    BY <1>1, <1>10, <1>2, <2>1, <2>2 DEF EndsAt
<1>11. QED
  BY <1>2, <1>9, <1>10

\* A request that settles is not redirected.
LEMMA NoSecond ==
  ASSUME RouteInv, Settles, AllLookedAt, partial = 0, MayRedirect
  PROVE  FALSE
<1>1. NoneFits /\ stage = "routing"
  BY NoneLeft DEF AllLookedAt
<1>2. GetRoutePath(scope) # <<Empty>>
  BY Zenon DEF MayRedirect, Empty
<1>3. PICK w : Follows(asked, top, w) /\ Along(w)
  BY <1>2 DEF Settles
<1>4. ASSUME NEW j \in 1..Len(Routes) PROVE Matches(Routes[j], scope) = "NONE"
  BY <1>1, AtRoute DEF NoneFits
<1>5. ~ (Len(way) < Len(w))
  BY <1>1, <1>3, <1>4, OnTheWay
<1>6. ~ (Len(way) = Len(w))
  BY <1>1, <1>3, <1>4, OnTheWay
<1>7. Len(way) \in Nat /\ Len(w) \in Nat /\ Len(way) <= Len(w)
  BY <1>3 DEF RouteInv, WayInv, WayIsGood, Follows, GoodWay, Along
<1>8. QED
  BY <1>5, <1>6, <1>7

\* What a route leaves of the path to the router below.
LEMMA RestAfter ==
  ASSUME AskedInv, ScopeInv, WayIsGood, NEW i, Passed(i)
  PROVE  IsRest(GetRoutePath(scope'), asked.path, Len(scope.root_path) + TakenBy(RoutesOf(router)[i]))
<1> DEFINE t == TakenBy(RoutesOf(router)[i])
<1>1. ScopeInv' /\ asked' = asked
  BY ScopeStep DEF Passed
<1>2. /\ scope'.path = asked.path /\ scope'.root_path \in Strings
      /\ Len(scope'.root_path) = Len(asked.root_path) + AllTaken(way')
      /\ Len(scope'.root_path) <= Len(asked.path)
      /\ \A k \in 1..Len(scope'.root_path) : scope'.root_path[k] = asked.path[k]
  BY <1>1 DEF ScopeInv, ScopeIs
<1>3. asked.path \in Strings /\ Len(scope'.root_path) \in Nat /\ Len(asked.root_path) \in Nat
  BY <1>2, AskedTypes, Segments
<1>4. GetRoutePath(scope') = SubSeq(asked.path, Len(scope'.root_path) + 1, Len(asked.path))
  BY <1>2, <1>3, RoutePath
<1>5. IsRest(GetRoutePath(scope'), asked.path, Len(scope'.root_path))
  BY <1>2, <1>3, <1>4, RestOf
<1>6. AllTaken(way) \in Nat /\ AllTaken(way') = AllTaken(way) + t
  BY PassedWay
<1>7. t \in Nat
  <2>1. RouteOK(router, i)
    BY DEF Passed
  <2>2. RoutesOf(router)[i] \in RouteSet /\ WellMade(RoutesOf(router)[i])
    BY <2>1, RouteTypes
  <2>3. Len(RoutesOf(router)[i].path) \in Nat /\ Len(RoutesOf(router)[i].path) >= 1
    BY <2>2, PatternTypes
  <2>4. QED
    BY <2>3 DEF TakenBy
<1>8. Len(scope.root_path) = Len(asked.root_path) + AllTaken(way)
  BY DEF ScopeInv
<1> HIDE DEF t
<1>9. Len(scope'.root_path) = Len(scope.root_path) + t
  BY <1>2, <1>3, <1>6, <1>7, <1>8
<1>10. QED
  BY <1>5, <1>9 DEF t

\* Where only "/" is left, or a route leaves it, the router below gets "/".
LEMMA SlashStays ==
  ASSUME AskedInv, ScopeInv, WayIsGood, NEW i, Passed(i),
         RoutesOf(router)[i].kind \in {"mount", "host"},
         \/ GetRoutePath(scope) = <<Empty>>
         \/ /\ RoutesOf(router)[i].kind = "mount"
            /\ Len(GetRoutePath(scope)) = Len(RoutesOf(router)[i].path)
            /\ GetRoutePath(scope)[Len(GetRoutePath(scope))] = Empty
  PROVE  GetRoutePath(scope') = <<Empty>>
<1> DEFINE r == RoutesOf(router)[i]
           rest == GetRoutePath(scope)
           new == GetRoutePath(scope')
           M == Len(scope.root_path)
           t == TakenBy(r)
<1>1. RouteOK(router, i) /\ Matches(r, scope) # "NONE"
  BY DEF Passed
<1>2. r \in RouteSet /\ WellMade(r)
  BY <1>1, RouteTypes
<1>3. Len(r.path) \in Nat /\ Len(r.path) >= 1
  BY <1>2, PatternTypes
<1>4. r.kind = "mount" => Len(rest) >= Len(r.path)
  BY <1>1, <1>2, MountMatches
<1>5. IsRest(new, asked.path, M + t)
  BY RestAfter
<1>6. IsRest(rest, asked.path, M) /\ M \in Nat /\ Len(asked.path) \in Nat
  BY ScopeTypes, AskedTypes
<1>7. t = IF r.kind = "mount" THEN Len(r.path) - 1 ELSE 0
  BY DEF TakenBy
<1>8. /\ rest = <<Empty>> \/ (r.kind = "mount" /\ Len(rest) = Len(r.path) /\ rest[Len(rest)] = Empty)
      /\ r.kind \in {"mount", "host"}
  OBVIOUS
<1> HIDE DEF r, rest, new, M
<1>9. /\ rest \in Strings /\ Len(rest) = Len(asked.path) - M /\ Len(rest) \in Nat
      /\ \A k \in 1..Len(rest) : rest[k] = asked.path[M + k]
      /\ new \in Strings /\ Len(new) = Len(asked.path) - (M + t)
      /\ \A k \in 1..Len(new) : new[k] = asked.path[M + t + k]
  BY <1>5, <1>6, Segments DEF IsRest
<1>10. Len(rest) = t + 1 /\ rest[t + 1] = Empty /\ t \in Nat
  <2>1. CASE rest = <<Empty>>
    <3>1. Len(rest) = 1 /\ rest[1] = Empty
      BY <2>1, OneEmpty
    <3>2. r.kind = "mount" => Len(r.path) = 1
      <4>1. SUFFICES ASSUME r.kind = "mount" PROVE Len(r.path) = 1
        OBVIOUS
      <4>2. PICK n \in Nat : n = Len(r.path)
        BY <1>3
      <4>3. 1 <= n /\ n <= 1
        BY <1>3, <1>4, <3>1, <4>1, <4>2
      <4>4. n = 1
        BY <4>3
      <4>5. QED
        BY <4>2, <4>4
    <3>3. t = 0
      BY <1>7, <3>2
    <3>4. QED
      BY <3>1, <3>3
  <2>2. CASE r.kind = "mount" /\ Len(rest) = Len(r.path) /\ rest[Len(rest)] = Empty
    BY <1>3, <1>7, <2>2
  <2>3. QED
    BY <1>8, <2>1, <2>2
<1> HIDE DEF t
<1>11. Len(new) = 1
  <2> DEFINE p == Len(asked.path)
             l == Len(rest)
             e == Len(new)
  <2>1. M \in Nat /\ p \in Nat /\ t \in Nat /\ l = p - M /\ l = t + 1 /\ e = p - (M + t)
    BY <1>6, <1>9, <1>10
  <2> HIDE DEF p, l, e
  <2>2. e = 1
    BY <2>1
  <2>3. QED
    BY <2>2 DEF e
<1>12. new[1] = Empty
  <2>1. new[1] = asked.path[M + t + 1]
    <3>1. 1 \in 1..Len(new)
      BY <1>11
    <3>2. \A k \in 1..Len(new) : new[k] = asked.path[M + t + k]
      BY <1>9
    <3>3. QED
      BY <3>1, <3>2
  <2>2. rest[t + 1] = asked.path[M + (t + 1)]
    BY <1>9, <1>10
  <2>3. M + t + 1 = M + (t + 1)
    BY <1>6, <1>10
  <2>4. QED
    BY <1>10, <2>1, <2>2, <2>3
<1>13. PICK e \in Strings : e = <<Empty>> /\ Len(e) = 1 /\ e[1] = Empty
  BY OneEmpty
<1>14. new = e
  <2>1. \A k \in 1..Len(new) : new[k] = e[k]
    BY <1>11, <1>12, <1>13
  <2>2. QED
    BY <1>9, <1>11, <1>13, <2>1, SameSegments
<1>15. QED
  BY <1>13, <1>14 DEF new

\* Where the next route is the one on the way, the way goes on below it.
LEMMA AlongStep ==
  ASSUME WayIsGood, NEW w, Follows(asked, top, w), Along(w), Len(way) < Len(w),
         RouteOK(router, next), w[Len(way) + 1][1] = router, w[Len(way) + 1][2] = next,
         Passed(next), next' = 1
  PROVE  Along(w)'
<1>1. IsLonger(way', way, router, next)
  BY PassedWay
<1>2. /\ Len(way) \in Nat /\ Len(way') = Len(way) + 1
      /\ \A k \in 1..Len(way) : way'[k] = way[k]
      /\ way'[Len(way) + 1] = <<router, next>>
  BY <1>1 DEF IsLonger
<1>3. /\ w \in Seq(Pairs) /\ Len(w) \in Nat
      /\ \A k \in 1..Len(w) : RouteOK(w[k][1], w[k][2])
  BY DEF Follows, GoodWay
<1>4. Len(way) + 1 \in 1..Len(w)
  BY <1>2, <1>3
<1>5. w[Len(way) + 1] = <<router, next>>
  <2>1. w[Len(way) + 1] \in Pairs
    BY <1>3, <1>4, ElementOfSeq
  <2>2. QED
    BY <2>1 DEF Pairs
<1>6. \A k \in 1..Len(way') : way'[k] = w[k]
  <2>1. ASSUME NEW k \in 1..Len(way') PROVE way'[k] = w[k]
    <3>1. CASE k \in 1..Len(way)
      BY <1>2, <3>1 DEF Along
    <3>2. CASE k = Len(way) + 1
      BY <1>2, <1>5, <3>2
    <3>3. QED
      BY <1>2, <3>1, <3>2
  <2>2. QED
    BY <2>1
<1>7. ASSUME Len(way') < Len(w) PROVE 1 <= w[Len(way') + 1][2]
  <2>1. Len(way') + 1 \in 1..Len(w)
    BY <1>2, <1>3, <1>7
  <2>2. RouteOK(w[Len(way') + 1][1], w[Len(way') + 1][2])
    BY <1>3, <2>1
  <2>3. QED
    BY <2>2, RouteTypes
<1>8. QED
  BY <1>2, <1>3, <1>6, <1>7 DEF Along

\* A redirected request goes on as it began.
LEMMA SettleFull ==
  ASSUME RouteInv, SettleInv, HandleFull
  PROVE  SettleInv'
<1>1. /\ next \in 1..Len(Routes) /\ RouteOK(router, next) /\ Matches(Routes[next], scope) = "FULL"
      /\ stage = "routing" /\ Handle(next) /\ Routes = RoutesOf(router)
  BY FullStep, AtRoute DEF HandleFull, Routes, RoutesOf
<1>2. Passed(next) /\ hops' = hops
  BY <1>1, HandleKinds
<1>3. \/ stage' = "answered" /\ answer' \in {"405", "endpoint"}
      \/ /\ Routes[next].app # "endpoint" /\ Routes[next].kind \in {"mount", "host"}
         /\ next' = 1 /\ UNCHANGED <<stage, answer>>
  BY <1>1, HandleKinds
<1>4. CASE stage' = "answered" /\ answer' \in {"405", "endpoint"}
  BY <1>4 DEF SettleInv
<1>5. CASE /\ Routes[next].app # "endpoint" /\ Routes[next].kind \in {"mount", "host"}
           /\ next' = 1 /\ UNCHANGED <<stage, answer>>
  <2>1. SUFFICES ASSUME hops = 1 PROVE Settles'
    BY <1>1, <1>2, <1>5 DEF SettleInv
  <2>2. AskedInv /\ ScopeInv /\ WayIsGood /\ next \in Nat
    BY DEF RouteInv, WayInv, RoutingTypeOK
  <2>3. asked' = asked /\ top' = top
    BY <1>2 DEF Passed
  <2>4. CASE \/ GetRoutePath(scope) = <<Empty>>
             \/ Harmless(Routes[next], asked, GetRoutePath(scope))
    <3>1. \/ GetRoutePath(scope) = <<Empty>>
          \/ /\ Routes[next].kind = "mount"
             /\ Len(GetRoutePath(scope)) = Len(Routes[next].path)
             /\ GetRoutePath(scope)[Len(GetRoutePath(scope))] = Empty
      <4>1. Matches(Routes[next], ScopeFor(asked, GetRoutePath(scope))) = "FULL"
        <5>1. Here = ScopeFor(asked, GetRoutePath(scope))
          BY <2>2, HereIs DEF Here, ScopeAt, ScopeWith, ScopeFor
        <5>2. QED
          BY <1>1, <2>2, <5>1, HereIs
      <4>2. QED
        BY <1>5, <2>4, <4>1 DEF Harmless
    <3>2. GetRoutePath(scope') = <<Empty>>
      BY <1>1, <1>2, <1>5, <2>2, <3>1, SlashStays
    <3>3. QED
      BY <3>2 DEF Settles
  <2>5. CASE ~ \/ GetRoutePath(scope) = <<Empty>>
               \/ Harmless(Routes[next], asked, GetRoutePath(scope))
    <3>1. PICK w : Follows(asked, top, w) /\ Along(w)
      BY <1>1, <2>1, <2>5 DEF SettleInv, Settles
    <3>2. /\ Len(way) < Len(w) /\ next >= w[Len(way) + 1][2] /\ w[Len(way) + 1][1] = router
          /\ w[Len(way) + 1][2] \in 1..Len(Routes)
      BY <1>1, <2>5, <3>1, OnTheWay
    <3>3. w[Len(way) + 1][2] = next
      BY <2>2, <3>1, <3>2 DEF Along
    <3>4. Along(w)'
      BY <1>1, <1>2, <1>5, <2>2, <3>1, <3>2, <3>3, AlongStep
    <3>5. Follows(asked', top', w)
      BY <2>3, <3>1
    <3>6. QED
      BY <3>4, <3>5 DEF Settles
  <2>6. QED
    BY <2>4, <2>5
<1>6. QED
  BY <1>3, <1>4, <1>5

LEMMA SettlePass ==
  ASSUME RouteInv, SettleInv, PassOver
  PROVE  SettleInv'
<1>1. /\ stage = "routing" /\ next \in Nat /\ next' = next + 1 /\ Matches(Routes[next], scope) # "FULL"
      /\ UNCHANGED <<top, asked, stage, scope, router, answer, way, hops>>
  BY DEF PassOver, RouteInv, RoutingTypeOK
<1>2. SUFFICES ASSUME hops = 1, Settles PROVE Settles'
  BY <1>1 DEF SettleInv
<1>3. CASE GetRoutePath(scope) = <<Empty>>
  BY <1>1, <1>3 DEF Settles
<1>4. CASE \E w : Follows(asked, top, w) /\ Along(w)
  <2>1. PICK w : Follows(asked, top, w) /\ Along(w)
    BY <1>4
  <2>2. Len(way) < Len(w) => /\ w[Len(way) + 1][2] \in 1..Len(Routes)
                             /\ Matches(Routes[w[Len(way) + 1][2]], scope) = "FULL"
    BY <1>1, <2>1, OnTheWay
  <2>3. Len(way) < Len(w) => next <= w[Len(way) + 1][2] /\ next # w[Len(way) + 1][2]
    BY <1>1, <2>1, <2>2 DEF Along
  <2>4. Len(way) < Len(w) => next + 1 <= w[Len(way) + 1][2]
    BY <1>1, <2>2, <2>3
  <2>5. Along(w)'
    BY <1>1, <2>1, <2>4 DEF Along
  <2>6. Follows(asked', top', w)
    BY <1>1, <2>1
  <2>7. QED
    BY <2>5, <2>6 DEF Settles
<1>5. QED
  BY <1>2, <1>3, <1>4 DEF Settles

\* The invariant of routing holds, whatever a router or a client does.
LEMMA RouterStep ==
  ASSUME RoutingInv, RouterApp
  PROVE  RoutingInv'
<1>1. RouteInv /\ SettleInv /\ hops \in 0..1
  BY DEF RoutingInv, RouteInv, RoutingTypeOK
<1>2. CASE HandleFull
  BY <1>1, <1>2, FullStep, SettleFull DEF RoutingInv
<1>3. CASE PassOver
  BY <1>1, <1>3, PassStep, SettlePass DEF RoutingInv
<1>4. CASE HandlePartial
  <2>1. RouteInv'
    BY <1>1, <1>4, PartialStep
  <2>2. /\ partial \in 1..Len(Routes) /\ Matches(Routes[partial], scope) = "PARTIAL"
        /\ RouteOK(router, partial)
    BY <1>1, <1>4, PartialStep, AtRoute
  <2>3. hops' = hops /\ stage' = "answered" /\ answer' \in {"405", "endpoint"}
    BY <1>4, <2>2, HandleKinds DEF HandlePartial
  <2>4. QED
    BY <2>1, <2>3 DEF RoutingInv, SettleInv
<1>5. CASE TryRedirect
  <2>1. hops = 1 => FALSE
    BY <1>1, <1>5, NoSecond DEF TryRedirect, SettleInv, AllLookedAt
  <2>2. hops' = hops
    BY <1>5 DEF TryRedirect
  <2>3. RouteInv'
    BY <1>1, <1>5, TryStep
  <2>4. QED
    BY <1>1, <2>1, <2>2, <2>3 DEF RoutingInv, SettleInv
<1>6. CASE LookRedirect
  <2>1. hops # 1 /\ hops' = hops
    BY <1>1, <1>6 DEF LookRedirect, SettleInv
  <2>2. RouteInv'
    BY <1>1, <1>6, LookStep
  <2>3. QED
    BY <1>1, <2>1, <2>2 DEF RoutingInv, SettleInv
<1>7. CASE Default
  <2>1. hops' = hops /\ stage' = "answered" /\ answer' \in {"404", "close"}
    BY <1>7 DEF Default, Answer
  <2>2. RouteInv'
    BY <1>1, <1>7, DefaultStep
  <2>3. QED
    BY <2>1, <2>2 DEF RoutingInv, SettleInv
<1>8. QED
  BY <1>2, <1>3, <1>4, <1>5, <1>6, <1>7 DEF RouterApp

LEMMA FirstCall ==
  ASSUME RoutingInv, Request
  PROVE  RoutingInv'
<1>1. RoutingTypeOK /\ top \in Apps /\ SettleInv
  BY DEF RoutingInv, RouteInv, AskedInv
<1>2. PICK request \in Requests : Call(request)
  BY DEF Request
<1>3. stage = "idle" /\ hops' = hops /\ stage' = "routing"
  BY <1>2 DEF Request, Call
<1>4. RouteInv'
  BY <1>1, <1>2, <1>3, RequestStep
<1>5. hops' = 0
  BY <1>1, <1>3 DEF SettleInv
<1>6. QED
  BY <1>4, <1>5 DEF RoutingInv, SettleInv

LEMMA FollowStep ==
  ASSUME RoutingInv, Follow
  PROVE  RoutingInv'
<1>1. RouteInv /\ answer = "redirect" /\ AskedInv /\ ScopeInv /\ Call([asked EXCEPT !.path = RedirectScope.path]) /\ hops' = 1
  BY DEF RoutingInv, RouteInv, Follow
<1>2. [asked EXCEPT !.path = RedirectScope.path] = Again
  BY <1>1, NewScope DEF Again
<1>3. Call(Again)
  BY <1>1, <1>2
<1>4. asked' = Again /\ top' = top /\ way' = <<>> /\ stage' = "routing" /\ answer' = "none" /\ next' = 1
  BY <1>3 DEF Call
<1>5. AskedInv'
  <2>1. /\ Again.path = NewPath /\ Again.root_path = asked.root_path /\ Again \in Asking
        /\ Len(asked.root_path) <= Len(NewPath)
        /\ \A i \in 1..Len(asked.root_path) : asked.root_path[i] = NewPath[i]
    BY <1>1, AgainTypes
  <2>2. top \in Apps /\ (asked.root_path # <<>> => asked.root_path[Len(asked.root_path)] # Empty)
    BY <1>1 DEF AskedInv
  <2>3. QED
    BY <1>4, <2>1, <2>2 DEF AskedInv
<1>6. RouteInv'
  BY <1>1, <1>3, <1>5, CallStep
<1>7. Follows(asked', top', way)
  BY <1>1, <1>4, FollowSettles
<1>8. PICK w : w = way
  OBVIOUS
<1>9. Along(w)'
  <2>1. Len(w) \in Nat /\ \A k \in 1..Len(w) : RouteOK(w[k][1], w[k][2])
    BY <1>1, <1>8 DEF RouteInv, WayInv, WayIsGood, GoodWay
  <2>2. Len(way') = 0
    BY <1>4
  <2>3. ASSUME 0 < Len(w) PROVE 1 <= w[1][2]
    <3>1. RouteOK(w[1][1], w[1][2])
      BY <2>1, <2>3
    <3>2. QED
      BY <3>1, RouteTypes
  <2>4. QED
    BY <1>4, <2>1, <2>2, <2>3 DEF Along
<1>10. Settles'
  BY <1>7, <1>8, <1>9 DEF Settles
<1>11. QED
  BY <1>1, <1>4, <1>6, <1>10 DEF RoutingInv, SettleInv

-----------------------------------------------------------------------------
(* No request.                                                             *)

LEMMA Nobody ==
  ASSUME InitRouting
  PROVE  RoutingInv
<1>1. /\ top \in Apps /\ asked = NoScope /\ stage = "idle" /\ scope = ScopeOf(NoScope) /\ router = top
      /\ next = 0 /\ partial = 0 /\ answer = "none" /\ way = <<>> /\ hops = 0
  BY DEF InitRouting
<1>2. NoScope = [type |-> "http", method |-> Empty, path |-> <<>>, root_path |-> <<>>,
                     host |-> <<>>, port |-> Empty]
  BY Zenon DEF NoScope, Empty
<1>3. <<>> \in Strings /\ Len(<<>>) = 0 /\ Empty \in Segment
  BY DEF Strings, Segment
<1>4. asked \in Asking /\ asked.root_path = <<>> /\ asked.path = <<>>
  BY <1>1, <1>2, <1>3 DEF Asking
<1>5. AskedInv
  BY <1>1, <1>3, <1>4 DEF AskedInv
<1>6. AllTaken(<<>>) = 0
  BY <1>3, TakenFirst DEF AllTaken
<1>7. ScopeInv
  <2>1. /\ scope.root_path = asked.root_path /\ scope.app_root_path = <<>> /\ scope.path_params = <<>>
        /\ scope = ScopeIs(asked.root_path, <<>>, <<>>)
    BY <1>1 DEF ScopeOf, ScopeIs
  <2>2. scope = ScopeIs(scope.root_path, scope.app_root_path, scope.path_params)
    BY <2>1
  <2>3. QED
    BY <1>1, <1>3, <1>4, <1>6, <2>1, <2>2 DEF ScopeInv
<1>8. WayInv /\ LookInv /\ SettleInv
  BY <1>1, <1>3 DEF WayInv, WayIsGood, GoodWay, Looking, LookInv, SettleInv
<1>9. RoutingTypeOK
  <2>1. router \in DOMAIN Routers /\ Len(Routes) \in Nat
    BY <1>1, AppsAssumption, RoutesSeq DEF Routes, RoutesOf
  <2>2. QED
    BY <1>1, <2>1 DEF RoutingTypeOK, Answers
<1>10. QED
  BY <1>5, <1>7, <1>8, <1>9 DEF RoutingInv, RouteInv

LEMMA NobodyNext == InitRouting' => RoutingInv'
<1>1. InitRouting => RoutingInv
  BY Nobody
<1>2. QED
  BY <1>1, PTL

LEMMA RoutingStays ==
  ASSUME RoutingInv, UNCHANGED routingVars
  PROVE  RoutingInv'
<1>1. UNCHANGED <<top, asked, stage, scope, router, next, partial, answer, way, hops>>
  BY DEF routingVars
<1>2. SeesSame /\ RouteInv /\ SettleInv
  BY <1>1, SameHere DEF Stays, RoutingInv
<1>3. AskedInv' /\ ScopeInv' /\ WayInv'
  BY <1>1, <1>2 DEF SeesSame, Looking
<1>4. RoutingTypeOK'
  BY <1>1, <1>2 DEF RouteInv, RoutingTypeOK, SeesSame
<1>5. LookInv'
  BY <1>1, <1>2 DEF RouteInv, LookInv, SeesSame
<1>6. Settles => Settles'
  BY <1>1 DEF Settles, Along
<1>7. SettleInv'
  BY <1>1, <1>2, <1>6 DEF SettleInv
<1>8. QED
  BY <1>3, <1>4, <1>5, <1>7 DEF RoutingInv, RouteInv

\* What the invariant says of the route that was found.
LEMMA Right == RoutingInv => RightRoute
<1> SUFFICES ASSUME RoutingInv PROVE RightRoute
  OBVIOUS
<1>1. RoutingTypeOK /\ AskedInv /\ ScopeInv /\ WayInv /\ LookInv /\ SettleInv
  BY DEF RoutingInv, RouteInv
<1>2. FirstMatchWins
  <2>1. ASSUME NEW k \in DOMAIN way
        PROVE  LET routes == Routers[way[k][1]].routes
                   i == way[k][2]
               IN  IF Matches(routes[i], ScopeAt(k)) = "FULL"
                   THEN \A j \in 1..(i - 1) : Matches(routes[j], ScopeAt(k)) # "FULL"
                   ELSE /\ \A j \in DOMAIN routes : Matches(routes[j], ScopeAt(k)) # "FULL"
                        /\ \A j \in 1..(i - 1) : Matches(routes[j], ScopeAt(k)) = "NONE"
    <3>1. k \in 1..Len(way)
      BY <1>1 DEF WayInv, WayIsGood, GoodWay
    <3>2. Won(way[k][1], way[k][2], ScopeAt(k)) /\ way[k][1] \in DOMAIN Routers
      BY <1>1, <3>1 DEF WayInv, WayIsGood, GoodWay, RouteOK, Handled
    <3>3. DOMAIN RoutesOf(way[k][1]) = 1..Len(RoutesOf(way[k][1]))
      BY <3>2, RoutesSeq
    <3>4. RoutesOf(way[k][1]) = Routers[way[k][1]].routes
      BY DEF RoutesOf
    <3>5. QED
      BY <3>2, <3>3, <3>4 DEF Won
  <2>2. QED
    BY <2>1 DEF FirstMatchWins
<1>3. NothingFits
  <2>1. DOMAIN Routes = 1..Len(Routes)
    BY <1>1, RoutesSeq DEF RoutingTypeOK, Routes, RoutesOf
  <2>2. QED
    BY <1>1, <2>1 DEF LookInv, NothingFits, NoneFits, Here
<1>4. PathIsSplit
  <2> DEFINE root == scope.root_path
             rest == GetRoutePath(scope)
  <2>1. /\ scope.path = asked.path /\ root \in Strings /\ Len(root) \in Nat /\ Len(root) <= Len(asked.path)
        /\ IsRest(rest, asked.path, Len(root)) /\ asked.path \in Strings /\ Len(asked.path) \in Nat
    BY <1>1, ScopeTypes, AskedTypes
  <2>2. \A i \in 1..Len(root) : root[i] = asked.path[i]
    BY <1>1 DEF ScopeInv
  <2> HIDE DEF root, rest
  <2>3. rest \in Strings /\ Len(rest) = Len(asked.path) - Len(root)
        /\ \A i \in 1..Len(rest) : rest[i] = asked.path[Len(root) + i]
    BY <2>1 DEF IsRest
  <2>4. /\ root \o rest \in Strings /\ Len(root \o rest) = Len(root) + Len(rest)
        /\ \A i \in 1..Len(root) : (root \o rest)[i] = root[i]
        /\ \A i \in 1..Len(rest) : (root \o rest)[Len(root) + i] = rest[i]
    BY <2>1, <2>3, Joined
  <2>5. PICK p \in Strings : p = root \o rest
    BY <2>4
  <2>6. Len(p) = Len(asked.path)
    BY <2>1, <2>3, <2>4, <2>5
  <2>7. ASSUME NEW i \in 1..Len(p) PROVE p[i] = asked.path[i]
    <3>1. CASE i \in 1..Len(root)
      BY <2>2, <2>4, <2>5, <3>1
    <3>2. CASE i \notin 1..Len(root)
      <4>1. PICK j \in 1..Len(rest) : i = Len(root) + j
        <5>1. i - Len(root) \in 1..Len(rest) /\ i = Len(root) + (i - Len(root))
          BY <2>1, <2>3, <2>6, <3>2
        <5>2. QED
          BY <5>1
      <4>2. p[i] = rest[j] /\ rest[j] = asked.path[Len(root) + j]
        BY <2>3, <2>4, <2>5, <4>1
      <4>3. QED
        BY <4>1, <4>2
    <3>3. QED
      BY <3>1, <3>2
  <2>8. p = asked.path
    BY <2>1, <2>6, <2>7, SameSegments
  <2>9. /\ Len(scope.root_path) = Len(asked.root_path) + Taken(way, Len(way) + 1)
        /\ scope.app_root_path # <<>> => scope.app_root_path = <<asked.root_path>>
    BY <1>1 DEF ScopeInv, AllTaken
  <2>10. QED
    BY <2>1, <2>5, <2>8, <2>9 DEF PathIsSplit, root, rest
<1>5. RedirectSettles
  BY <1>1 DEF SettleInv, RedirectSettles
<1>6. QED
  BY <1>1, <1>2, <1>3, <1>4, <1>5 DEF RightRoute

-----------------------------------------------------------------------------
(* The application: its parts, and when they are at work.                  *)

\* Any call of the client.
Calling == stage # "idle" \/ exchange.state # "idle" \/ test.state # "outside"

\* The client makes its calls in its block.
CallingInv == Calling => client = "inside"

IInv == LifespanInv /\ AnswerInv /\ SessionInv /\ RoutingInv /\ CallingInv

\* A step of the application is a step of each of its parts, or leaves it alone.
LEMMA PartSteps ==
  ASSUME [NextApplication]_allVars
  PROVE  /\ [Next]_vars
         /\ NextTransport \/ UNCHANGED transportVars
         /\ NextSession \/ UNCHANGED sessionVars
<1>1. CASE UNCHANGED allVars
  BY <1>1 DEF allVars
<1>2. CASE LifespanStep
  BY <1>2 DEF LifespanStep, Next, Client
<1>3. CASE ClientExitsAfterRequests
  BY <1>3 DEF ClientExitsAfterRequests, Next, Client
<1>4. CASE Requesting
  BY <1>4 DEF Requesting
<1>5. CASE Exchanging
  BY <1>5 DEF Exchanging, Exchange, NextTransport, clientVars
<1>6. CASE InSession
  BY <1>6 DEF InSession, Session, NextSession, clientVars
<1>7. CASE Over
  BY <1>7 DEF Over, Ended
<1>8. QED
  BY <1>1, <1>2, <1>3, <1>4, <1>5, <1>6, <1>7 DEF NextApplication

\* Only the router, the client that requests and the client that leaves its block change what
\* is known of a request.
LEMMA RoutingSteps ==
  ASSUME RoutingInv, [NextApplication]_allVars
  PROVE  RoutingInv'
<1>1. CASE Requesting
  BY <1>1, RouterStep, FirstCall, FollowStep DEF Requesting, NextRouting
<1>2. CASE ClientExitsAfterRequests
  <2>1. top \in Apps
    BY DEF RoutingInv, RouteInv, AskedInv
  <2>2. InitRouting'
    BY <1>2, <2>1 DEF ClientExitsAfterRequests, InitRouting
  <2>3. QED
    BY <2>2, NobodyNext
<1>3. CASE LifespanStep
  BY <1>3, RoutingStays DEF LifespanStep
<1>4. CASE Exchanging \/ InSession
  BY <1>4, RoutingStays DEF Exchanging, Exchange, InSession, Session, clientVars
<1>5. CASE Over \/ UNCHANGED allVars
  BY <1>5, RoutingStays DEF Over, allVars
<1>6. QED
  BY <1>1, <1>2, <1>3, <1>4, <1>5 DEF NextApplication

\* The client leaves its block in no call.
LEMMA CallingSteps ==
  ASSUME CallingInv, [NextApplication]_allVars
  PROVE  CallingInv'
<1>1. CASE UNCHANGED allVars \/ Over
  BY <1>1 DEF allVars, vars, routingVars, transportVars, sessionVars, Over, Ended, CallingInv, Calling
<1>2. CASE LifespanStep
  <2>1. UNCHANGED <<stage, exchange, test>>
    BY <1>2 DEF LifespanStep, routingVars, transportVars, sessionVars
  <2>2. client = "inside" => client' = "inside"
    <3>1. CASE App
      BY <3>1 DEF App, ReceiveStartup, EnterHandlers, SendStarted, ReceiveShutdown, SendFailed,
                  SendComplete, TaskEnds, CallStartup, TakeState, CallShutdown, Leave
    <3>2. CASE ClientEnters \/ ClientReceives
      BY <3>2 DEF ClientEnters, ClientReceives
    <3>3. QED
      BY <1>2, <3>1, <3>2 DEF LifespanStep
  <2>3. QED
    BY <2>1, <2>2 DEF CallingInv, Calling
<1>3. CASE ClientExitsAfterRequests
  BY <1>3 DEF ClientExitsAfterRequests, Free, transportVars, sessionVars, CallingInv, Calling
<1>4. CASE Requesting
  BY <1>4 DEF Requesting, vars, CallingInv
<1>5. CASE Exchanging
  <2>1. UNCHANGED <<client, stage, test>>
    BY <1>5 DEF Exchanging, Exchange, clientVars, vars, routingVars, sessionVars
  <2>2. exchange.state # "idle" \/ client = "inside"
    BY <1>5 DEF Exchanging, Exchange, TransportStep, ForgetExchange, Calls, Free, Result, AppEnds, Runs,
                ReceiveBody, ReceiveLater, ReceiveDisconnect, SendResponseStart, Refuse, SendResponseBody
  <2>3. QED
    BY <2>1, <2>2 DEF CallingInv, Calling
<1>6. CASE InSession
  <2>1. UNCHANGED <<client, stage, exchange>>
    BY <1>6 DEF InSession, Session, clientVars, vars, routingVars, transportVars
  <2>2. test' = test \/ test.state # "outside" \/ client = "inside"
    BY <1>6 DEF InSession, Session, Calls, Free, SessionStep, ForgetSession, AppAsks, AppTakes,
                AppReturns, AppRaises, TakesCancel, AppSends, SendConnect, SendData, SendClose,
                AskData, TestTakes, TestTakesNone, LeaveBlock, CloseSession, CancelRun, JoinRun
  <2>3. QED
    BY <2>1, <2>2 DEF CallingInv, Calling
<1>7. QED
  BY <1>1, <1>2, <1>3, <1>4, <1>5, <1>6 DEF NextApplication

LEMMA Initially == InitApplication => IInv
<1>1. InitApplication => CallingInv
  BY DEF InitApplication, InitRouting, InitTransport, InitSession, Idle, Outside, CallingInv, Calling
<1>2. QED
  BY <1>1, InitInvariant, NoExchange, NoSession, Nobody DEF InitApplication, IInv

-----------------------------------------------------------------------------
(* Theorems.                                                               *)

\* The inductive invariant: where lifespan() is tells what has been sent, and what the client
\* has yet to receive; what handle_request() holds is what its server accepted; what is in
\* the streams of a session is what was sent and not yet taken; the way of a request is one of
\* first matches; and all calls of the client are in its block.
THEOREM Invariant == ApplicationSpec => []IInv
<1>1. IInv /\ [NextApplication]_allVars => IInv'
  BY PartSteps, NextStep, AnswerStep, SessionSteps, RoutingSteps, CallingSteps DEF IInv, AnswerGoal
<1>2. QED
  BY <1>1, Initially, PTL DEF ApplicationSpec

\* Startup and shutdown are told once each, requests are served inside of the context only,
\* a context that was entered is left, and the client raises what the application raised,
\* with any number of handlers that raise anywhere, and whatever is called in the block.
THEOREM InOrder == ApplicationSpec => []LifeInOrder
<1>1. LifespanInv => LifeInOrder
  <2>1. SUFFICES ASSUME LifespanInv PROVE LifeInOrder
    OBVIOUS
  <2>2. TypeOK /\ ContextInv /\ CallsInv /\ SentInv /\ ClientInv /\ TaskInv
    BY <2>1 DEF LifespanInv
  <2>3. ToldOnce
    <3>1. SUFFICES ASSUME ~context.swallowed
                   PROVE  \E life \in Lives : /\ Len(sent) <= Len(life)
                                             /\ \A i \in DOMAIN sent : sent[i] = life[i]
      BY DEF ToldOnce
    <3>2. pc \in Before \union Behind
      BY <2>2, Types
    <3>3. CASE pc \in Before
      <4>1. sent = <<>> \/ sent = <<"startup.complete">>
        BY <2>2, <3>3 DEF SentInv
      <4>2. <<"startup.complete", "shutdown.complete">> \in Lives
        BY DEF Lives
      <4>3. QED
        BY <4>1, <4>2
    <3>4. CASE pc \in Behind /\ started
      <4>1. sent = <<"startup.complete", LastWord>> /\ LastWord \in {"shutdown.complete", "shutdown.failed"}
        BY <2>2, <3>4 DEF SentInv, LastWord
      <4>2. <<"startup.complete", LastWord>> \in Lives
        BY <4>1 DEF Lives
      <4>3. QED
        BY <4>1, <4>2
    <3>5. CASE pc \in Behind /\ ~started
      <4>1. exc # "none"
        BY <2>2, <3>1, <3>5 DEF ContextInv, Behind
      <4>2. sent = <<"startup.failed">>
        BY <2>2, <3>5, <4>1 DEF SentInv, LastWord
      <4>3. <<"startup.failed">> \in Lives
        BY DEF Lives
      <4>4. QED
        BY <4>2, <4>3
    <3>6. QED
      BY <3>2, <3>3, <3>4, <3>5
  <2>4. ServedInside
    BY <2>2 DEF ServedInside, ClientInv, ContextInv, CallsInv
  <2>5. LeftOnce
    <3>1. context.kind \in {"handlers", "manager"} /\ calls.shutdown \in Nat
      BY <2>2, Types
    <3>2. QED
      BY <2>2, <3>1 DEF LeftOnce, ContextInv, CallsInv
  <2>6. ErrorReachesClient
    <3>1. exc \in Errors /\ "running" \notin Errors
      BY <2>2, Types DEF Errors
    <3>2. QED
      BY <2>2, <3>1 DEF ErrorReachesClient, ClientInv, TaskInv
  <2>7. QED
    BY <2>2, <2>3, <2>4, <2>5, <2>6 DEF LifeInOrder
<1>2. QED
  BY <1>1, Invariant, PTL DEF IInv

\* A request that is routed, a call of handle_request() and a session find the application
\* between its startup and its shutdown: lifespan() waits at its second receive(), in the
\* context, and no on_shutdown handler has been called.
CalledInContext ==
  Calling => pc = "serving" /\ context.phase = "in" /\ calls.shutdown = 0

THEOREM InContext == ApplicationSpec => []CalledInContext
<1>1. IInv => CalledInContext
  BY DEF IInv, LifespanInv, CallingInv, ClientInv, ContextInv, CallsInv, CalledInContext
<1>2. QED
  BY <1>1, Invariant, PTL

\* Whatever an application sends to handle_request(), in whatever order and from whichever
\* task, what the client takes is one response in order.
THEOREM Accepted == ApplicationSpec => AcceptedInOrder
<1>1. IInv /\ [NextApplication]_allVars => [ForgetExchange \/ Http!Next]_wire
  BY PartSteps, AnswerStep DEF IInv, AnswerGoal
<1>2. QED
  BY <1>1, Invariant, PTL DEF ApplicationSpec, AcceptedInOrder

\* A request is led to the first match at each router, below the paths of the mounts that lead
\* to it, and to 404 or a redirect where nothing fits; what was matched is in root_path; and
\* a redirect is never followed by another: with any routers, whichever mounts and hosts are
\* in one another, for any requests, and whatever else the client calls in its block.
THEOREM Routed == ApplicationSpec => []RightRoute
<1>1. IInv => RightRoute
  BY Right DEF IInv
<1>2. QED
  BY <1>1, Invariant, PTL

\* The client is told what the application did: the whole content of a complete response and
\* none of one that was cut off, the exception of the application and no other; in a session
\* each side takes what the other sent, in order and once, a disconnect comes from the end of
\* the block only, unless the test closed the session, the block is entered on an accept only,
\* and nothing hides what the application raised.
THEOREM Told == ApplicationSpec => []ClientTold
<1>1. IInv => AnswerTrue
  <2>1. SUFFICES ASSUME AnswerInv PROVE AnswerTrue
    BY DEF IInv
  <2>2. TransportTypeOK /\ TransportInv /\ ResultInv
    BY <2>1 DEF AnswerInv
  <2>3. ContentWhole
    BY <2>2, TransportTypes DEF TransportInv, ResultInv, Content, ContentWhole
  <2>4. FailureTold /\ DisconnectLast
    BY <2>2 DEF TransportInv, ResultInv, FailureTold, DisconnectLast
  <2>5. QED
    BY <2>2, <2>3, <2>4 DEF AnswerTrue
<1>2. IInv => SessionTrue
  <2>1. SUFFICES ASSUME SessionInv PROVE SessionTrue
    BY DEF IInv
  <2>2. SessionTypeOK /\ StreamsInv /\ TestSentInv /\ TestInv
    BY <2>1 DEF SessionInv
  <2>3. RunErrorTold
    BY <2>2 DEF TestInv, RunErrorTold
  <2>4. EnteredOnAccept
    <3>1. "disconnect" \in ToSet(testSent) => \E i \in DOMAIN testSent : testSent[i] = "disconnect"
      BY DEF ToSet
    <3>2. QED
      BY <2>2, <3>1 DEF TestSentInv, TestInv, EnteredOnAccept
  <2>5. Delivery
    <3>1. ASSUME NEW i \in DOMAIN testSent
          PROVE  /\ (testSent[i] = "connect") = (i = 1)
                 /\ testSent[i] = "disconnect" /\ ~test.closed =>
                      i = Len(testSent) /\ test.state \in {"cancelling", "joining", "over"}
      BY <2>2 DEF TestSentInv
    <3>2. test.state \in {"cancelling", "joining"} /\ test.error \in {"none", "test"} =>
            testSent # <<>> /\ Last(testSent) = "disconnect"
      BY <2>2 DEF TestInv, Last
    <3>3. QED
      BY <2>2, <3>1, <3>2 DEF StreamsInv, Delivery
  <2>6. QED
    BY <2>2, <2>3, <2>4, <2>5 DEF SessionTrue
<1>3. QED
  BY <1>1, <1>2, Invariant, PTL DEF ClientTold

=============================================================================
