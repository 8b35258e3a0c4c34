------------------------------ MODULE TestSession ------------------------------
(***************************************************************************)
(* A WebSocketTestSession: a test in its thread, and the application in a  *)
(* task of the event loop, with an unbounded stream each way.  The calls   *)
(* of the test block until the loop has run them; `with` enters when the   *)
(* application has answered the connect message, and leaves through an     *)
(* ExitStack: disconnect, cancel, and the result of the task.              *)
(*                                                                         *)
(* The application is any that keeps to WebSocketProtocol, the test any    *)
(* that sends, receives, closes and leaves its block.  Payloads are left   *)
(* out.                                                                    *)
(***************************************************************************)
EXTENDS WebSocketMessages, SequencesExt

CONSTANTS
  MaxTestSends,   \* bound: messages that the test sends in its block
  MaxAppSends     \* bound: messages of the application

ASSUME SessionBounds == MaxTestSends \in Nat /\ MaxAppSends \in Nat

VARIABLES
  test,       \* where the test is in its `with`, the exception that is on its way, and
              \* whether it has called close() itself
  run,        \* the task of _run(): the application, whether its scope is cancelled
  toApp,      \* the stream of _receive_tx
  toTest,     \* the stream of _send_rx
  testSent,   \* history: what the test has sent
  appSent,    \* history: what the application has sent
  took        \* history: how many messages each of the two has taken

sessionVars == <<test, run, toApp, toTest, testSent, appSent, took>>

\* "disconnect" is WebSocketDisconnect, with its subclass of a denial; "closed" is an
\* error of a stream that is closed; "test" is of the test, "app" of the application.
SessionErrors == {"none", "disconnect", "closed", "test", "app"}

TestMessage == {"connect", "receive", "disconnect"}

SessionTypeOK ==
  /\ test \in [state : {"outside", "starting", "connecting", "denied", "inside", "receiving",
                        "closing", "cancelling", "joining", "over"},
               error : SessionErrors, closed : BOOLEAN]
  /\ run \in [state : {"none", "runs", "receives", "asleep", "returned", "raised"},
              cancelled : BOOLEAN]
  /\ toApp \in Seq(TestMessage) /\ testSent \in Seq(TestMessage)
  /\ toTest \in Seq(OutMessage) /\ appSent \in Seq(OutMessage)
  /\ took \in [app : 0..Len(testSent), test : 0..Len(appSent)]

Outside == [state |-> "outside", error |-> "none", closed |-> FALSE]
NoTask == [state |-> "none", cancelled |-> FALSE]
NoneTaken == [app |-> 0, test |-> 0]

InitSession ==
  /\ test = Outside /\ run = NoTask /\ took = NoneTaken
  /\ toApp = <<>> /\ toTest = <<>> /\ testSent = <<>> /\ appSent = <<>>

\* The streams are closed when _run() has ended, which takes more than a return.
Closed == run.state \in {"returned", "raised"}

-----------------------------------------------------------------------------
(* The application, in _run().                                             *)

Promise == INSTANCE WebSocketProtocol WITH wire <- appSent

AppAsks ==
  /\ run.state = "runs"
  /\ run' = [run EXCEPT !.state = "receives"]
  /\ UNCHANGED <<test, toApp, toTest, testSent, appSent, took>>

AppTakes ==
  /\ run.state = "receives" /\ toApp # <<>>
  /\ toApp' = Tail(toApp)
  /\ took' = [took EXCEPT !.app = @ + 1]
  /\ run' = [run EXCEPT !.state = "runs"]
  /\ UNCHANGED <<test, toTest, testSent, appSent>>

AppSends(type, more) ==
  /\ run.state = "runs"
  /\ Len(appSent) < MaxAppSends
  /\ appSent' = Append(appSent, Out(type, more))
  /\ Promise!Next
  /\ toTest' = Append(toTest, Out(type, more))
  /\ UNCHANGED <<test, run, toApp, testSent, took>>

\* It returns, and _run() sleeps until it is cancelled.
AppReturns ==
  /\ run.state = "runs"
  /\ run' = [run EXCEPT !.state = "asleep"]
  /\ UNCHANGED <<test, toApp, toTest, testSent, appSent, took>>

\* It raises, also while it is cancelled: the streams are closed, with what is in them.
AppRaises ==
  /\ run.state = "runs" \/ (run.state = "receives" /\ run.cancelled)
  /\ run' = [run EXCEPT !.state = "raised"]
  /\ UNCHANGED <<test, toApp, toTest, testSent, appSent, took>>

\* The cancellation is taken at any await, and goes no further than the scope.
TakesCancel ==
  /\ run.cancelled /\ run.state \in {"runs", "receives", "asleep"}
  /\ run' = [run EXCEPT !.state = "returned"]
  /\ UNCHANGED <<test, toApp, toTest, testSent, appSent, took>>

-----------------------------------------------------------------------------
(* The test: __enter__(), its block, __exit__().                           *)

Goes(state, error) == test' = [test EXCEPT !.state = state, !.error = error]

\* portal.start_task(): _run() has its streams, and calls the application.
EnterSession ==
  /\ test.state = "outside"
  /\ Goes("starting", "none")
  /\ run' = [run EXCEPT !.state = "runs"]
  /\ UNCHANGED <<toApp, toTest, testSent, appSent, took>>

\* portal.call(self._receive_tx.send, m): on, unless the stream is closed.
TestSend(m, on, fails) ==
  \/ /\ ~Closed
     /\ toApp' = Append(toApp, m)
     /\ testSent' = Append(testSent, m)
     /\ test' = on
  \/ /\ Closed
     /\ Goes(fails, "closed")
     /\ UNCHANGED <<toApp, testSent>>

SendConnect ==
  /\ test.state = "starting"
  /\ TestSend("connect", [test EXCEPT !.state = "connecting"], "cancelling")
  /\ UNCHANGED <<run, toTest, appSent, took>>

SendData ==
  /\ test.state = "inside"
  /\ Len(testSent) <= MaxTestSends
  /\ TestSend("receive", test, "closing")
  /\ UNCHANGED <<run, toTest, appSent, took>>

\* The test's own close(): a disconnect, after which nothing keeps it from going on.
SendClose ==
  /\ test.state = "inside"
  /\ Len(testSent) <= MaxTestSends
  /\ TestSend("disconnect", [test EXCEPT !.closed = TRUE], "closing")
  /\ UNCHANGED <<run, toTest, appSent, took>>

AskData ==
  /\ test.state = "inside"
  /\ Goes("receiving", test.error)
  /\ UNCHANGED <<run, toApp, toTest, testSent, appSent, took>>

\* _raise_on_close() on the answer to the connect message; a denial is read to its end.
Answered(m) ==
  CASE m.type = "close" -> Goes("cancelling", "disconnect")
    [] m.type = "response.start" -> Goes("denied", "none")
    [] m.type = "response.body" -> Goes(IF m.more_body THEN "denied" ELSE "cancelling",
                                        IF m.more_body THEN "none" ELSE "disconnect")
    [] OTHER -> Goes("inside", "none")

\* In the block: receive_text() and the like.  The test may catch what they raise.
Received(m) ==
  \/ m.type # "close" /\ Goes("inside", test.error)
  \/ m.type = "close" /\ (Goes("inside", "none") \/ Goes("closing", "disconnect"))

TestTakes ==
  /\ test.state \in {"connecting", "denied", "receiving"}
  /\ toTest # <<>> /\ ~Closed
  /\ toTest' = Tail(toTest)
  /\ took' = [took EXCEPT !.test = @ + 1]
  /\ IF test.state = "receiving" THEN Received(Head(toTest)) ELSE Answered(Head(toTest))
  /\ UNCHANGED <<run, toApp, testSent, appSent>>

\* The stream is closed: what was in it is not received any more.
TestTakesNone ==
  /\ test.state \in {"connecting", "denied", "receiving"} /\ Closed
  /\ IF test.state = "receiving"
     THEN Goes("closing", "closed") ELSE Goes("cancelling", "closed")
  /\ UNCHANGED <<run, toApp, toTest, testSent, appSent, took>>

\* The block ends, or raises.
LeaveBlock ==
  /\ test.state = "inside"
  /\ \E error \in {"none", "test"} : Goes("closing", error)
  /\ UNCHANGED <<run, toApp, toTest, testSent, appSent, took>>

\* The callbacks of the ExitStack, last one first: close(1000), if the block was entered,
\* also after a close() of the test.
CloseSession ==
  /\ test.state = "closing"
  /\ TestSend("disconnect", [test EXCEPT !.state = "cancelling"], "cancelling")
  /\ UNCHANGED <<run, toTest, appSent, took>>

\* portal.call(cs.cancel)
CancelRun ==
  /\ test.state = "cancelling"
  /\ run' = [run EXCEPT !.cancelled = TRUE]
  /\ Goes("joining", test.error)
  /\ UNCHANGED <<toApp, toTest, testSent, appSent, took>>

\* Mutant of JoinRun: an exception that is on its way is kept.
JoinRunKeep ==
  /\ test.state = "joining" /\ Closed
  /\ Goes("over", IF run.state = "raised" /\ test.error = "none" THEN "app" ELSE test.error)
  /\ UNCHANGED <<run, toApp, toTest, testSent, appSent, took>>

\* fut.result(): waits for _run(), and raises what it raised.
JoinRun ==
  /\ test.state = "joining" /\ Closed
  /\ Goes("over", IF run.state = "raised" THEN "app" ELSE test.error)
  /\ UNCHANGED <<run, toApp, toTest, testSent, appSent, took>>

ForgetSession ==
  /\ test.state = "over"
  /\ test' = Outside /\ run' = NoTask /\ took' = NoneTaken
  /\ toApp' = <<>> /\ toTest' = <<>> /\ testSent' = <<>> /\ appSent' = <<>>

SessionStep ==
  \/ AppAsks \/ AppTakes \/ AppReturns \/ AppRaises \/ TakesCancel
  \/ \E type \in {"accept", "send", "close", "response.start", "response.body"}, more \in BOOLEAN :
       (more => type = "response.body") /\ AppSends(type, more)
  \/ SendConnect \/ SendData \/ SendClose \/ AskData \/ TestTakes \/ TestTakesNone \/ LeaveBlock
  \/ CloseSession \/ CancelRun \/ JoinRun

NextSession == EnterSession \/ SessionStep \/ ForgetSession

\* Each waits for the other, or the test for an application that has returned: receive()
\* has no timeout.
Stalled ==
  /\ test.state \in {"connecting", "denied", "receiving"} /\ toTest = <<>>
  /\ run.state = "asleep" \/ (run.state = "receives" /\ toApp = <<>>)

-----------------------------------------------------------------------------
(* Properties.                                                             *)

\* What the application raises, at any point before, in or after the block, leaves the
\* `with`: neither an error of a closed stream nor one of the test hides it.
RunErrorTold == test.state = "over" => (run.state = "raised") = (test.error = "app")

\* The block is entered on an accept only, and an application that closed or denied the
\* connection is not told of a disconnect.
EnteredOnAccept ==
  test.state \in {"inside", "receiving", "closing"} \/ "disconnect" \in ToSet(testSent) =>
    appSent # <<>> /\ appSent[1].type = "accept"

\* Both take what the other sent, in order and once.  The connect comes first; a disconnect
\* comes from the end of the block, behind all else, and from no other place unless the test
\* called close(); and a test that left its block while the application ran has said so.
Delivery ==
  /\ toApp = SubSeq(testSent, took.app + 1, Len(testSent))
  /\ toTest = SubSeq(appSent, took.test + 1, Len(appSent))
  /\ \A i \in DOMAIN testSent :
       /\ (testSent[i] = "connect") = (i = 1)
       /\ testSent[i] = "disconnect" /\ ~test.closed =>
            i = Len(testSent) /\ test.state \in {"cancelling", "joining", "over"}
  /\ test.state \in {"cancelling", "joining"} /\ test.error \in {"none", "test"} =>
       testSent # <<>> /\ Last(testSent) = "disconnect"

\* A session tells both sides the truth about the other.
SessionTrue == SessionTypeOK /\ RunErrorTold /\ EnteredOnAccept /\ Delivery

=============================================================================
