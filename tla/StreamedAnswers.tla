--------------------------- MODULE StreamedAnswers ---------------------------
(***************************************************************************)
(* A server with two kinds of answer that are iterated over: the           *)
(* StreamingResponse of an endpoint, and a WSGI application that is        *)
(* mounted.  The request goes to one of them.                              *)
(***************************************************************************)
EXTENDS StreamingResponse

CONSTANTS MaxUpload, MaxYields, MaxStarts   \* the bounds of WSGI

VARIABLES
  mounted,     \* the request goes to the WSGI application
  upload, caller, thread, app, exc_info, response_started, refused, memory, sender

bridge == <<upload, caller, thread, app, exc_info, response_started, refused, memory, sender>>
own == <<spec_version, threaded, inbox, stream, iterator, call, tasks>>

ASSUME WSGIBoundsAssumption == MaxUpload \in Nat /\ MaxYields \in Nat /\ MaxStarts \in Nat

Wsgi == INSTANCE WSGI WITH wire <- wire, gone <- gone, stream <- memory

AnswerInit ==
  /\ Init /\ Wsgi!Init
  /\ mounted \in BOOLEAN
  /\ mounted => inbox = <<>> /\ ~threaded /\ spec_version = "2.4"   \* of no matter to it

Streams == ~mounted /\ Next /\ UNCHANGED <<mounted, bridge>>
Bridges == mounted /\ Wsgi!Next /\ UNCHANGED <<mounted, own>>

\* The server goes on with other requests, whether or not this one ends.
OtherRequests == mounted /\ UNCHANGED <<vars, mounted, bridge>>

AnswerNext == Streams \/ Bridges \/ OtherRequests
answerVars == <<vars, mounted, bridge>>

\* The fairness of StreamingResponse; the event loop runs __call__ and sender() of the
\* WSGIMiddleware.  Its application need not come back.
AnswerSpec ==
  /\ AnswerInit /\ [][AnswerNext]_answerVars
  /\ WF_answerVars(~mounted /\ (SendStart \/ AskIterator \/ TakeAnswer \/ SendChunk \/ SendLast)
                   /\ UNCHANGED <<mounted, bridge>>)
  /\ SF_answerVars(~mounted /\ StreamCancelled /\ UNCHANGED <<mounted, bridge>>)
  /\ WF_answerVars(~mounted /\ Main /\ UNCHANGED <<mounted, bridge>>)
  /\ WF_answerVars(mounted /\ (Wsgi!Run \/ Wsgi!ThreadEnded \/ Wsgi!Join) /\ UNCHANGED <<mounted, own>>)
  /\ WF_answerVars(mounted /\ (Wsgi!Take \/ Wsgi!Send \/ Wsgi!SenderEnds) /\ UNCHANGED <<mounted, own>>)

-----------------------------------------------------------------------------
\* Whichever of the two answers, the server is sent one response, in order, and a beginning
\* of one when the stream is cancelled or fails at any point.
AnswerInOrder == Protocol!Init /\ Wsgi!ThreadInOrder

\* No error of the WSGI application is lost, no thread outlives its request.
ThreadTold == Wsgi!TypeOK /\ Wsgi!ThreadTold

\* A client that leaves ends the stream, and the end of the WSGI application the request.
AnswerEnds == DisconnectEnds /\ Wsgi!ThreadReleased

=============================================================================
