------------------------ MODULE ExceptionHandling_proof ------------------------
(***************************************************************************)
(* Theorems about ExceptionHandling, for any nesting of applications, any  *)
(* handlers and any exceptions.                                            *)
(***************************************************************************)
EXTENDS ExceptionHandling, TLAPS, FiniteSetTheorems, WellFoundedInduction

\* Where control may be, and for which exception.
ControlInv ==
  /\ control.at = "entering" => control.layer \in Layer
  /\ control.at = "endpoint" => control.layer = Depth + 1
  /\ control.at \in {"handler", "response"} => control.layer \in Layer
  /\ control.at = "failing" => control.layer \in 0..Depth
  /\ control.at \in {"handler", "response", "failing"} => control.exc \in Exceptions

\* What is on the wire has passed the layers that may still handle an exception.
StartedInv ==
  wire # <<>> =>
    /\ control.at = "failing" => \A k \in Layer : k <= control.layer => response_started[k]
    /\ control.at = "handler" => /\ IsServer(control.layer)
                                 /\ \A k \in Layer : k <= control.layer => response_started[k]
    /\ Sends => \A k \in Layer : Through(k) => response_started[k]

\* The phase of the response that is being sent says what is on the wire.
PhaseInv ==
  /\ control.at = "entering" => phase = "none" /\ wire = <<>>
  /\ Sends => /\ phase = "none" => wire = <<>>
              /\ phase = "started" => Protocol!Open

\* The layers that have called a handler are inside the layer where control is.
CallsInv ==
  /\ control.at \in {"entering", "endpoint"} => calls = <<>>
  /\ control.at = "failing" => \A i \in DOMAIN calls : calls[i].layer > control.layer
  /\ control.at \in {"handler", "response"} =>
       \A i \in DOMAIN calls : calls[i].layer >= control.layer

IInv == TypeOK /\ ControlInv /\ StartedInv /\ PhaseInv /\ CallsInv /\ NoHandlerLoop

\* What every step does: it keeps the invariant, sends at most the next message of the
\* protocol, and calls no handler but a 500 handler once a response is on the wire.
GoodStep ==
  /\ IInv'
  /\ Protocol!Next \/ wire' = wire
  /\ wire # <<>> /\ calls' # calls => IsServer(calls'[Len(calls')].layer)

-----------------------------------------------------------------------------
(* Lemmas about the layers and the handlers.                               *)

LEMMA SeqElement ==
  ASSUME NEW S, NEW s \in Seq(S), NEW k \in DOMAIN s
  PROVE  s[k] \in S
OBVIOUS

LEMMA LayerFacts ==
  /\ Depth \in Nat
  /\ Layer \subseteq Nat
  /\ \A k \in Layer : k >= 1 /\ k <= Depth /\ Layers[k].app \in Apps
<1>1. Layers \in Seq([kind : Kinds, app : Apps])
  BY LayersAssumption
<1>2. Depth \in Nat /\ Layer = DOMAIN Layers
  BY <1>1 DEF Depth, Layer
<1>3. \A k \in Layer : Layers[k].app \in Apps
  <2>1. TAKE k \in Layer
  <2>2. Layers[k] \in [kind : Kinds, app : Apps]
    BY <1>1, <1>2, SeqElement
  <2>3. QED
    BY <2>2
<1>4. Layer \subseteq Nat /\ \A k \in Layer : k >= 1 /\ k <= Depth
  <2>1. Depth \in Nat /\ Layer = 1..Depth
    BY <1>2 DEF Layer
  <2>2. QED
    BY <2>1
<1>5. QED
  BY <1>2, <1>3, <1>4

\* Every set of numbers has a least element: the one with the fewest below it.
LEMMA NatMin ==
  ASSUME NEW T, T \subseteq Nat, T # {}
  PROVE  \E n \in T : \A m \in T : n <= m
<1> DEFINE Below(n) == {m \in T : m <= n}
           F == {Below(n) : n \in T}
<1>1. \A n \in T : Below(n) \in FiniteSubsetsOf(Nat)
  <2>1. TAKE n \in T
  <2>2. n \in Nat /\ Below(n) \in SUBSET Nat /\ \A m \in Below(n) : m <= n
    OBVIOUS
  <2>3. IsFiniteSet(Below(n))
    BY <2>2, FS_BoundedSetOfNaturals
  <2>4. QED
    BY <2>2, <2>3 DEF FiniteSubsetsOf
<1>2. F \subseteq FiniteSubsetsOf(Nat) /\ F # {}
  BY <1>1
<1>3. PICK B \in F : \A C \in F : ~(<<C, B>> \in StrictSubsetOrdering(Nat))
  <2> HIDE DEF F
  <2>1. QED
    BY <1>2, WFMin, FS_StrictSubsetOrderingWellFounded
<1>4. PICK n \in T : B = Below(n)
  OBVIOUS
<1>5. ASSUME NEW m \in T, m < n
      PROVE  FALSE
  <2>1. Below(m) \in F /\ Below(m) \in SUBSET Nat /\ B \in SUBSET Nat
    BY <1>4
  <2>2. n \in B /\ n \notin Below(m)
    BY <1>4, <1>5
  <2>3. Below(m) \subseteq B
    <3>1. ASSUME NEW x \in T, x <= m
          PROVE  x <= n
      <4>1. x \in Nat /\ m \in Nat /\ n \in Nat
        OBVIOUS
      <4>2. QED
        BY <1>5, <3>1, <4>1
    <3>2. QED
      BY <1>4, <3>1
  <2>4. <<Below(m), B>> \in StrictSubsetOrdering(Nat)
    BY <2>1, <2>2, <2>3 DEF StrictSubsetOrdering
  <2>5. QED
    BY <1>3, <2>1, <2>4
<1>6. QED
  BY <1>5

\* _lookup_exception_handler() finds the first class of the MRO that has a handler.
LEMMA LookupFirst ==
  ASSUME NEW handlers, NEW e \in Exceptions, NEW i \in DOMAIN Mro[e], Mro[e][i] \in handlers
  PROVE  \E n \in DOMAIN Mro[e] : /\ Mro[e][n] \in handlers
                                  /\ Lookup(handlers, e) = Mro[e][n]
                                  /\ \A j \in DOMAIN Mro[e] : Mro[e][j] \in handlers => n <= j
<1> DEFINE found == {j \in DOMAIN Mro[e] : Mro[e][j] \in handlers}
           First(n) == n \in found /\ \A j \in found : n <= j
<1>1. Mro[e] \in Seq(STRING) /\ DOMAIN Mro[e] \subseteq Nat
  BY ExceptionsAssumption
<1>2. found \in SUBSET Nat /\ i \in found
  BY <1>1
<1>3. PICK n \in found : \A j \in found : n <= j
  BY <1>2, NatMin
<1>4. First(CHOOSE m \in found : \A j \in found : m <= j)
  BY <1>3
<1>5. Lookup(handlers, e) = Mro[e][CHOOSE m \in found : \A j \in found : m <= j]
  BY <1>2 DEF Lookup
<1>6. QED
  BY <1>4, <1>5

LEMMA LookupNone ==
  ASSUME NEW handlers, NEW e \in Exceptions, Lookup(handlers, e) # "none"
  PROVE  \E i \in DOMAIN Mro[e] : Mro[e][i] \in handlers
BY DEF Lookup

\* The handler of a layer is a handler of its application.
LEMMA HandlerType ==
  ASSUME TypeOK, NEW k \in Layer, NEW e \in Exceptions, HandlerFor(k, e) # "none"
  PROVE  HandlerFor(k, e) \in HandlersAt(k) /\ HandlersAt(k) \subseteq Keys \union {"HTTPException"}
<1>1. HandlersAt(k) \subseteq Keys \union {"HTTPException"}
  <2>1. \A app \in held[k] : app \in Apps
    BY DEF TypeOK
  <2>2. \A app \in Apps : HandlersOf(app) \subseteq Keys \union {"HTTPException"}
    BY DEF HandlersOf, TypeOK
  <2>3. QED
    BY <2>1, <2>2 DEF HandlersAt
<1>2. CASE Status[e] \in HandlersAt(k)
  BY <1>1, <1>2 DEF HandlerFor
<1>3. CASE Status[e] \notin HandlersAt(k)
  <2>1. HandlerFor(k, e) = Lookup(HandlersAt(k), e)
    BY <1>3 DEF HandlerFor
  <2>2. HandlerFor(k, e) \in HandlersAt(k)
    BY <2>1, LookupNone, LookupFirst
  <2>3. QED
    BY <1>1, <2>2
<1>4. QED
  BY <1>2, <1>3

-----------------------------------------------------------------------------
(* The inductive invariant, one lemma for each kind of step.               *)

ControlType == [at : {"entering", "endpoint", "handler", "response", "failing", "over"},
                layer : 0..(Depth + 1), exc : Exceptions \union {"none"}]
CallType == [layer : Layer, exc : Exceptions, key : Keys \union {"HTTPException", "500"}]

LEMMA ControlTypes ==
  \A at \in {"entering", "endpoint", "handler", "response", "failing", "over"}, layer \in 0..(Depth + 1),
     exc \in Exceptions \union {"none"} : Control(at, layer, exc) \in ControlType
BY DEF Control, ControlType

\* Where user code runs or a layer catches, there is a layer outside.
LEMMA OutsideFacts ==
  ASSUME TypeOK, ControlInv, control.at # "over",
         control.at = "failing" => control.layer \in Layer
  PROVE  /\ control \in ControlType
         /\ control.layer \in Nat
         /\ control.layer - 1 \in 0..Depth
         /\ control.layer \in 1..(Depth + 1)
<1>1. control \in ControlType
  BY DEF TypeOK, ControlType
<1>2. control.layer \in Layer \union {Depth + 1}
  BY <1>1 DEF ControlInv, ControlType
<1>3. QED
  BY <1>1, <1>2, LayerFacts DEF Layer

\* An exception goes one layer out, past which the response has gone already.
LEMMA PropagateStep ==
  ASSUME IInv, NEW e \in Exceptions, Propagates(e), control.at \notin {"entering", "over"},
         control.at = "failing" => control.layer \in Layer,
         UNCHANGED <<wire, calls>>,
         \A k \in Layer : response_started[k] => response_started'[k]
  PROVE  /\ control' \in ControlType
         /\ ControlInv' /\ StartedInv' /\ PhaseInv' /\ CallsInv' /\ NoHandlerLoop'
<1>1. /\ control \in ControlType /\ control.layer \in Nat
      /\ control.layer - 1 \in 0..Depth
  BY OutsideFacts DEF IInv
<1>2. /\ control' = Control("failing", control.layer - 1, e)
      /\ control'.at = "failing" /\ control'.layer = control.layer - 1 /\ control'.exc = e
  BY DEF Propagates, Control
<1>3. control' \in ControlType
  <2>1. control.layer - 1 \in 0..(Depth + 1)
    BY <1>1, LayerFacts
  <2>2. QED
    BY <1>2, <2>1, ControlTypes
<1>4. ControlInv'
  BY <1>1, <1>2 DEF ControlInv
<1>5. StartedInv'
  <2>1. SUFFICES ASSUME wire # <<>>, NEW k \in Layer, k <= control.layer - 1
                 PROVE  response_started[k]
    BY <1>2 DEF StartedInv, Sends
  <2>2. k < control.layer /\ k <= control.layer
    BY <1>1, <2>1, LayerFacts
  <2>3. control.at \in {"endpoint", "handler", "response", "failing"}
    BY <1>1 DEF ControlType
  <2>4. QED
    BY <2>1, <2>2, <2>3 DEF IInv, StartedInv, Sends, Through
<1>6. PhaseInv'
  BY <1>2 DEF PhaseInv, Sends
<1>7. CallsInv' /\ NoHandlerLoop'
  <2>1. NoHandlerLoop'
    BY DEF IInv, NoHandlerLoop
  <2>2. ASSUME NEW i \in DOMAIN calls
        PROVE  calls[i].layer > control.layer - 1
    <3>1. calls \in Seq(CallType)
      BY DEF IInv, TypeOK, CallType
    <3>2. calls[i] \in CallType
      BY <3>1, SeqElement
    <3>3. calls[i].layer \in Nat
      BY <3>2, LayerFacts DEF CallType
    <3>4. calls # <<>>
      BY <2>2, <3>1
    <3>5. control.at \in {"handler", "response", "failing"}
      BY <1>1, <3>4 DEF IInv, CallsInv, ControlType
    <3>6. calls[i].layer >= control.layer
      BY <1>1, <3>3, <3>5 DEF IInv, CallsInv
    <3>7. QED
      BY <1>1, <3>3, <3>6
  <2>3. CallsInv'
    BY <1>2, <2>2 DEF CallsInv
  <2>4. QED
    BY <2>1, <2>3
<1>8. QED
  BY <1>3, <1>4, <1>5, <1>6, <1>7

\* The request ends.
LEMMA OverStep ==
  ASSUME IInv, control' = Control("over", 0, "none"), UNCHANGED <<wire, calls>>
  PROVE  /\ control' \in ControlType
         /\ ControlInv' /\ StartedInv' /\ PhaseInv' /\ CallsInv' /\ NoHandlerLoop'
<1>1. control'.at = "over"
  BY DEF Control
<1>2. control' \in ControlType
  BY ControlTypes, LayerFacts
<1>3. NoHandlerLoop'
  BY DEF IInv, NoHandlerLoop
<1>4. QED
  BY <1>1, <1>2, <1>3 DEF ControlInv, StartedInv, PhaseInv, CallsInv, Sends

\* One message of the endpoint's or a handler's response.
LEMMA MessageStep ==
  ASSUME IInv, NEW type \in {"start", "body"}, NEW more \in BOOLEAN, Sends, Send(type, more),
         \/ phase = "none" /\ type = "start"
         \/ phase = "started" /\ type = "body"
  PROVE  GoodStep
<1>1. /\ control \in ControlType /\ control.layer \in 1..(Depth + 1)
      /\ wire \in Seq(Message) /\ response_started \in [Layer -> BOOLEAN]
  BY OutsideFacts DEF IInv, Sends, TypeOK
<1>2. /\ response_started' = [k \in Layer |-> response_started[k] \/ (type = "start" /\ Through(k))]
      /\ UNCHANGED <<registered, scope_handlers, held, calls, unanswered, raised>>
  BY DEF Send, Notes
<1>3. response_started' \in [Layer -> BOOLEAN]
  BY <1>1, <1>2
<1>4. CASE gone' = TRUE /\ Propagates(ClientGone) /\ UNCHANGED <<wire, phase>>
  <2>1. ClientGone \in Exceptions /\ control.at \notin {"entering", "over", "failing"}
    BY ExceptionsAssumption DEF Sends
  <2>2. \A k \in Layer : response_started[k] => response_started'[k]
    BY <1>2
  <2>3. /\ control' \in ControlType
        /\ ControlInv' /\ StartedInv' /\ PhaseInv' /\ CallsInv' /\ NoHandlerLoop'
    BY <1>2, <1>4, <2>1, <2>2, PropagateStep
  <2>4. TypeOK'
    BY <1>2, <1>3, <1>4, <2>3 DEF IInv, TypeOK, ControlType
  <2>5. QED
    BY <1>2, <1>4, <2>3, <2>4 DEF GoodStep, IInv
<1>5. CASE /\ wire' = Append(wire, [type |-> type, more_body |-> more, by |-> control.layer])
           /\ phase' = IF type = "body" /\ ~more THEN "complete" ELSE "started"
           /\ UNCHANGED <<gone, control>>
  <2> DEFINE m == [type |-> type, more_body |-> more, by |-> control.layer]
  <2>1. m \in Message
    BY <1>1 DEF Message
  <2>2. /\ wire' \in Seq(Message) /\ wire' # <<>>
        /\ Len(wire') = Len(wire) + 1 /\ wire'[Len(wire')] = m /\ wire'[Len(wire) + 1] = m
    BY <1>1, <1>5, <2>1
  <2>3. TypeOK'
    BY <1>2, <1>3, <1>5, <2>2 DEF IInv, TypeOK
  <2>4. ControlInv' /\ CallsInv' /\ NoHandlerLoop'
    BY <1>2, <1>5 DEF IInv, ControlInv, CallsInv, NoHandlerLoop
  <2>5. /\ type = "start" => wire = <<>>
        /\ type = "body" => Protocol!Open /\ wire # <<>>
    BY DEF IInv, PhaseInv, Protocol!Open, Protocol!LastIs
  <2>6. StartedInv'
    <3>1. SUFFICES ASSUME NEW k \in Layer, Through(k)
                   PROVE  response_started'[k]
      BY <1>5 DEF StartedInv, Sends, Through
    <3>2. QED
      BY <1>2, <2>5, <3>1 DEF IInv, StartedInv
  <2>7. PhaseInv'
    BY <1>5, <2>2 DEF PhaseInv, Sends, Protocol!Open, Protocol!LastIs
  <2>8. Protocol!Next
    BY <1>5, <2>2, <2>5
       DEF Protocol!Next, Protocol!SendStart, Protocol!SendBody, Protocol!Sends
  <2>9. QED
    BY <1>2, <2>3, <2>4, <2>6, <2>7, <2>8 DEF GoodStep, IInv
<1>6. QED
  BY <1>4, <1>5 DEF Send

\* The response of a layer for an exception is begun, or the exception goes on.
LEMMA AnswerStep ==
  ASSUME IInv, NEW k \in Layer, Answers(k), control.layer = k,
         control.at \in {"failing", "handler"},
         UNCHANGED <<registered, scope_handlers, held, response_started, gone, wire, calls, unanswered, raised>>
  PROVE  GoodStep
<1>1. control \in ControlType /\ control.exc \in Exceptions
  BY OutsideFacts DEF IInv, ControlInv
<1>2. CASE response_started[k]
  <2>1. Propagates(control.exc) /\ UNCHANGED phase
    BY <1>2 DEF Answers
  <2>2. /\ control' \in ControlType
        /\ ControlInv' /\ StartedInv' /\ PhaseInv' /\ CallsInv' /\ NoHandlerLoop'
    BY <1>1, <2>1, PropagateStep
  <2>3. TypeOK'
    BY <2>1, <2>2 DEF IInv, TypeOK, ControlType
  <2>4. QED
    BY <2>2, <2>3 DEF GoodStep, IInv
<1>3. CASE ~response_started[k]
  <2>1. control' = [control EXCEPT !.at = "response"] /\ phase' = "none"
    BY <1>3 DEF Answers
  <2>2. /\ control' \in ControlType /\ control'.at = "response"
        /\ control'.layer = k /\ control'.exc = control.exc
    BY <1>1, <2>1 DEF ControlType
  <2>3. wire = <<>>
    <3>1. k <= k
      BY LayerFacts
    <3>2. QED
      BY <1>3, <3>1 DEF IInv, StartedInv
  <2>4. TypeOK'
    BY <2>1, <2>2 DEF IInv, TypeOK, ControlType
  <2>5. ControlInv'
    BY <1>1, <2>2 DEF ControlInv
  <2>6. StartedInv' /\ PhaseInv'
    BY <2>1, <2>3 DEF StartedInv, PhaseInv
  <2>7. CallsInv' /\ NoHandlerLoop'
    <3>1. NoHandlerLoop'
      BY DEF IInv, NoHandlerLoop
    <3>2. ASSUME NEW i \in DOMAIN calls
          PROVE  calls[i].layer >= k
      <4>1. calls[i] \in CallType
        BY SeqElement DEF IInv, TypeOK, CallType
      <4>2. calls[i].layer \in Nat /\ k \in Nat
        BY <4>1, LayerFacts DEF CallType
      <4>3. calls[i].layer > k \/ calls[i].layer >= k
        BY DEF IInv, CallsInv
      <4>4. QED
        BY <4>2, <4>3
    <3>3. CallsInv'
      BY <2>2, <3>2 DEF CallsInv
    <3>4. QED
      BY <3>1, <3>3
  <2>8. QED
    BY <2>4, <2>5, <2>6, <2>7 DEF GoodStep, IInv
<1>4. QED
  BY <1>2, <1>3

\* A layer calls a handler.
LEMMA HandlerStep ==
  ASSUME IInv, NEW k \in Layer, Caught(k), NEW key \in Keys \union {"HTTPException", "500"},
         Calls(k, key), IsServer(k) \/ ~response_started[k],
         UNCHANGED <<registered, scope_handlers, held, response_started, phase, gone, wire, unanswered, raised>>
  PROVE  GoodStep
<1> DEFINE c == [layer |-> k, exc |-> control.exc, key |-> key]
<1>1. /\ control \in ControlType /\ control.exc \in Exceptions
      /\ control.at = "failing" /\ control.layer = k
      /\ calls \in Seq(CallType)
  BY OutsideFacts DEF IInv, ControlInv, Caught, TypeOK, CallType
<1>2. /\ control' = [control EXCEPT !.at = "handler"]
      /\ control' \in ControlType /\ control'.at = "handler"
      /\ control'.layer = k /\ control'.exc = control.exc
  BY <1>1 DEF Calls, ControlType
<1>3. c \in CallType
  BY <1>1 DEF CallType
<1>4. /\ calls' = Append(calls, c)
      /\ calls' \in Seq(CallType)
      /\ Len(calls) \in Nat /\ Len(calls') = Len(calls) + 1
      /\ DOMAIN calls = 1..Len(calls) /\ DOMAIN calls' = 1..(Len(calls) + 1)
      /\ \A i \in DOMAIN calls : calls'[i] = calls[i]
      /\ calls'[Len(calls) + 1] = c
  <2>1. calls' = Append(calls, c)
    BY DEF Calls
  <2>2. QED
    BY <1>1, <1>3, <2>1
<1>5. TypeOK'
  BY <1>2, <1>4 DEF IInv, TypeOK, ControlType, CallType
<1>6. ControlInv'
  BY <1>1, <1>2 DEF ControlInv
<1>7. wire # <<>> => IsServer(k) /\ \A j \in Layer : j <= k => response_started[j]
  <2>1. k <= k
    BY LayerFacts
  <2>2. QED
    BY <1>1, <2>1 DEF IInv, StartedInv
<1>8. StartedInv'
  BY <1>2, <1>7 DEF StartedInv, Sends, IsServer
<1>9. PhaseInv'
  BY <1>2 DEF PhaseInv, Sends
<1>10. \A i \in DOMAIN calls : calls[i].layer \in Nat /\ k \in Nat /\ calls[i].layer > k
  <2>1. TAKE i \in DOMAIN calls
  <2>2. calls[i] \in CallType
    BY <1>1, SeqElement
  <2>3. QED
    BY <1>1, <2>2, LayerFacts DEF CallType, IInv, CallsInv
<1>11. \A i \in DOMAIN calls' : i \in DOMAIN calls \/ i = Len(calls) + 1
  BY <1>4
<1>12. CallsInv'
  <2>1. \A i \in DOMAIN calls' : calls'[i].layer >= k
    BY <1>4, <1>10, <1>11, LayerFacts
  <2>2. QED
    BY <1>2, <2>1 DEF CallsInv
<1>13. NoHandlerLoop'
  <2>1. SUFFICES ASSUME NEW i \in DOMAIN calls', NEW j \in DOMAIN calls',
                        calls'[i].layer = calls'[j].layer
                 PROVE  i = j
    BY DEF NoHandlerLoop
  <2>2. CASE i \in DOMAIN calls /\ j \in DOMAIN calls
    BY <1>4, <2>1, <2>2 DEF IInv, NoHandlerLoop
  <2>3. CASE i \in DOMAIN calls /\ j = Len(calls) + 1
    BY <1>4, <1>10, <2>1, <2>3
  <2>4. CASE j \in DOMAIN calls /\ i = Len(calls) + 1
    BY <1>4, <1>10, <2>1, <2>4
  <2>5. QED
    BY <1>11, <2>2, <2>3, <2>4
<1>14. wire # <<>> => IsServer(calls'[Len(calls')].layer)
  BY <1>4, <1>7
<1>15. QED
  BY <1>5, <1>6, <1>8, <1>9, <1>12, <1>13, <1>14 DEF GoodStep, IInv

-----------------------------------------------------------------------------
(* The actions.                                                            *)

LEMMA ResponseActions ==
  ASSUME IInv, SendStart \/ SendBody \/ Returns
  PROVE  GoodStep
<1>1. CASE SendStart
  BY <1>1, MessageStep DEF SendStart
<1>2. CASE SendBody
  BY <1>2, MessageStep DEF SendBody
<1>3. CASE Returns
  <2>1. /\ UNCHANGED <<registered, scope_handlers, held, response_started, phase, gone, wire, calls, unanswered, raised>>
        /\ control.at \in {"endpoint", "response"}
    BY <1>3 DEF Returns, Sends
  <2>2. \/ control.at = "response" /\ Propagates(control.exc)
        \/ control' = Control("over", 0, "none")
    BY <1>3 DEF Returns
  <2>3. /\ control' \in ControlType
        /\ ControlInv' /\ StartedInv' /\ PhaseInv' /\ CallsInv' /\ NoHandlerLoop'
    <3>1. CASE control.at = "response" /\ Propagates(control.exc)
      <4>1. control.exc \in Exceptions
        BY <3>1 DEF IInv, ControlInv
      <4>2. QED
        BY <2>1, <3>1, <4>1, PropagateStep
    <3>2. CASE control' = Control("over", 0, "none")
      BY <2>1, <3>2, OverStep
    <3>3. QED
      BY <2>2, <3>1, <3>2
  <2>4. TypeOK'
    BY <2>1, <2>3 DEF IInv, TypeOK, ControlType
  <2>5. QED
    BY <2>1, <2>3, <2>4 DEF GoodStep, IInv
<1>4. QED
  BY <1>1, <1>2, <1>3

\* The next layer is entered.
LEMMA EnterAction ==
  ASSUME IInv, NEW k \in Layer, Enter(k)
  PROVE  GoodStep
<1> DEFINE at == IF k = Depth THEN "endpoint" ELSE "entering"
<1>1. /\ control.at = "entering" /\ control.layer = k
      /\ control' = Control(at, k + 1, "none")
      /\ UNCHANGED <<registered, response_started, phase, gone, wire, calls, unanswered, raised>>
  BY DEF Enter
<1>2. k \in Nat /\ k >= 1 /\ k <= Depth /\ Depth \in Nat
  BY LayerFacts
<1>3. control'.at = at /\ control'.layer = k + 1
  BY <1>1 DEF Control
<1>4. control' \in ControlType
  <2>1. k + 1 \in 0..(Depth + 1) /\ at \in {"entering", "endpoint"}
    BY <1>2
  <2>2. QED
    BY <1>1, <2>1, ControlTypes
<1>5. phase = "none" /\ wire = <<>> /\ calls = <<>>
  BY <1>1 DEF IInv, PhaseInv, CallsInv
<1>6. TypeOK'
  <2>1. scope_handlers' \in SUBSET Apps /\ held' \in [Layer -> SUBSET Apps]
    BY LayerFacts DEF Enter, IInv, TypeOK
  <2>2. QED
    BY <1>1, <1>4, <2>1 DEF IInv, TypeOK, ControlType
<1>7. ControlInv'
  <2>1. k = Depth => control'.at = "endpoint" /\ control'.layer = Depth + 1
    BY <1>3
  <2>2. k # Depth => control'.at = "entering" /\ control'.layer \in Layer
    BY <1>2, <1>3 DEF Layer
  <2>3. QED
    BY <2>1, <2>2 DEF ControlInv
<1>8. StartedInv' /\ PhaseInv' /\ CallsInv' /\ NoHandlerLoop'
  <2>1. control'.at \in {"entering", "endpoint"}
    BY <1>3
  <2>2. QED
    BY <1>1, <1>5, <2>1 DEF StartedInv, PhaseInv, CallsInv, NoHandlerLoop
<1>9. QED
  BY <1>1, <1>6, <1>7, <1>8 DEF GoodStep, IInv

LEMMA RaiseAction ==
  ASSUME IInv, NEW e \in Exceptions, Raises(e)
  PROVE  GoodStep
<1>1. /\ UNCHANGED <<registered, scope_handlers, held, response_started, phase, gone, wire, calls, raised>>
      /\ Propagates(e)
      /\ control.at \in {"endpoint", "handler", "response"}
  BY DEF Raises, UserCode
<1>2. /\ control' \in ControlType
      /\ ControlInv' /\ StartedInv' /\ PhaseInv' /\ CallsInv' /\ NoHandlerLoop'
  BY <1>1, PropagateStep
<1>3. unanswered' \in BOOLEAN
  BY DEF Raises, IInv, TypeOK
<1>4. TypeOK'
  BY <1>1, <1>2, <1>3 DEF IInv, TypeOK, ControlType
<1>5. QED
  BY <1>1, <1>2, <1>4 DEF GoodStep, IInv

LEMMA CatchAction ==
  ASSUME IInv, NEW k \in Layer, Catch(k)
  PROVE  GoodStep
<1>1. /\ control \in ControlType /\ control.exc \in Exceptions
      /\ control.at = "failing" /\ control.layer = k /\ Caught(k)
  BY OutsideFacts DEF IInv, ControlInv, Caught, Catch
<1>2. CASE CatchServer(k) /\ IsServer(k)
  <2>1. UNCHANGED <<registered, scope_handlers, held, response_started, gone, wire, unanswered, raised>>
    BY <1>2 DEF CatchServer
  <2>2. CASE Calls(k, "500") /\ UNCHANGED phase
    BY <1>1, <1>2, <2>1, <2>2, HandlerStep
  <2>3. CASE Answers(k) /\ UNCHANGED calls
    BY <1>1, <2>1, <2>3, AnswerStep
  <2>4. QED
    BY <1>2, <2>2, <2>3 DEF CatchServer
<1>3. CASE CatchWrapped(k)
  <2> DEFINE key == HandlerFor(k, control.exc)
  <2>1. UNCHANGED <<registered, scope_handlers, held, response_started, phase, gone, wire, unanswered, raised>>
    BY <1>3 DEF CatchWrapped
  <2>2. CASE (Propagates(control.exc) \/ Propagates(AlreadyStarted)) /\ UNCHANGED calls
    <3>1. AlreadyStarted \in Exceptions
      BY ExceptionsAssumption
    <3>2. /\ control' \in ControlType
          /\ ControlInv' /\ StartedInv' /\ PhaseInv' /\ CallsInv' /\ NoHandlerLoop'
      BY <1>1, <2>1, <2>2, <3>1, PropagateStep
    <3>3. TypeOK'
      BY <2>1, <2>2, <3>2 DEF IInv, TypeOK, ControlType
    <3>4. QED
      BY <2>1, <2>2, <3>2, <3>3 DEF GoodStep, IInv
  <2>3. CASE key # "none" /\ ~response_started[k] /\ Calls(k, key)
    <3>1. key \in Keys \union {"HTTPException", "500"}
      BY <1>1, <2>3, HandlerType DEF IInv
    <3>2. QED
      BY <1>1, <2>1, <2>3, <3>1, HandlerStep
  <2>4. QED
    BY <1>3, <2>2, <2>3 DEF CatchWrapped
<1>4. QED
  BY <1>2, <1>3 DEF Catch

LEMMA HandlerActions ==
  ASSUME IInv, NEW k \in Layer, HandlerReturns(k) \/ HandlerReturnsNone(k)
  PROVE  GoodStep
<1>1. CASE HandlerReturns(k)
  BY <1>1, AnswerStep DEF HandlerReturns
<1>2. CASE HandlerReturnsNone(k)
  <2>1. /\ UNCHANGED <<registered, scope_handlers, held, response_started, phase, gone, wire, calls, raised>>
        /\ control' = Control("over", 0, "none") /\ unanswered' = TRUE
    BY <1>2 DEF HandlerReturnsNone
  <2>2. /\ control' \in ControlType
        /\ ControlInv' /\ StartedInv' /\ PhaseInv' /\ CallsInv' /\ NoHandlerLoop'
    BY <2>1, OverStep
  <2>3. TypeOK'
    BY <2>1, <2>2 DEF IInv, TypeOK, ControlType
  <2>4. QED
    BY <2>1, <2>2, <2>3 DEF GoodStep, IInv
<1>3. QED
  BY <1>1, <1>2

LEMMA ServerAction ==
  ASSUME IInv, ReachesServer
  PROVE  GoodStep
<1>1. /\ UNCHANGED <<registered, scope_handlers, held, response_started, phase, gone, wire, calls, unanswered>>
      /\ control' = Control("over", 0, "none")
      /\ raised' \in Exceptions
  BY DEF ReachesServer, Caught, IInv, ControlInv
<1>2. /\ control' \in ControlType
      /\ ControlInv' /\ StartedInv' /\ PhaseInv' /\ CallsInv' /\ NoHandlerLoop'
  BY <1>1, OverStep
<1>3. TypeOK'
  BY <1>1, <1>2 DEF IInv, TypeOK, ControlType
<1>4. QED
  BY <1>1, <1>2, <1>3 DEF GoodStep, IInv

-----------------------------------------------------------------------------
(* The theorems.                                                           *)

LEMMA InitInvariant ==
  ASSUME Init
  PROVE  IInv /\ Protocol!Init
<1>1. control \in ControlType
  <2>1. 1 \in 0..(Depth + 1)
    BY LayerFacts
  <2>2. QED
    BY <2>1, ControlTypes DEF Init
<1>2. wire \in Seq(Message) /\ calls \in Seq(CallType)
  BY DEF Init
<1>3. TypeOK
  BY <1>1, <1>2 DEF Init, TypeOK, ControlType, CallType
<1>4. ControlInv /\ StartedInv /\ PhaseInv /\ CallsInv /\ NoHandlerLoop
  <2>1. control.at = "entering" /\ control.layer = 1 /\ 1 \in Layer
    BY OutermostAssumption, LayerFacts DEF Init, Control, Layer
  <2>2. QED
    BY <2>1 DEF Init, Sends, ControlInv, StartedInv, PhaseInv, CallsInv, NoHandlerLoop
<1>5. QED
  BY <1>3, <1>4 DEF Init, IInv, Protocol!Init

LEMMA NextStep ==
  ASSUME IInv, [Next]_vars
  PROVE  GoodStep
<1>1. CASE UNCHANGED vars
  <2>1. TypeOK'
    BY <1>1 DEF vars, IInv, TypeOK, Message
  <2>2. ControlInv' /\ CallsInv' /\ NoHandlerLoop'
    BY <1>1 DEF vars, IInv, ControlInv, CallsInv, NoHandlerLoop
  <2>3. StartedInv' /\ PhaseInv'
    BY <1>1 DEF vars, IInv, StartedInv, PhaseInv, Sends, Through, IsServer,
                Protocol!Open, Protocol!LastIs
  <2>4. QED
    BY <1>1, <2>1, <2>2, <2>3 DEF vars, GoodStep, IInv
<1>2. CASE Next
  BY <1>2, ResponseActions, EnterAction, RaiseAction, CatchAction, HandlerActions, ServerAction DEF Next
<1>3. QED
  BY <1>1, <1>2

\* The inductive invariant: what is on the wire has passed, and marked, every layer
\* that may still handle an exception.
THEOREM Invariant == Spec => []IInv
<1>1. Init => IInv
  BY InitInvariant
<1>2. IInv /\ [Next]_vars => IInv'
  BY NextStep DEF GoodStep
<1>3. QED
  BY <1>1, <1>2, PTL DEF Spec

\* The variables keep their types, and no layer calls a second handler.
THEOREM Safe == Spec => [](TypeOK /\ NoHandlerLoop)
<1>1. IInv => TypeOK /\ NoHandlerLoop
  BY DEF IInv
<1>2. QED
  BY <1>1, Invariant, PTL

\* However deep applications are mounted in each other, the layers send one response
\* in the order of ResponseProtocol.
THEOREM Refinement == Spec => WireInOrder
<1>1. Init => Protocol!Init
  BY InitInvariant
<1>2. IInv /\ [Next]_vars => [Protocol!Next]_wire
  BY NextStep DEF GoodStep
<1>3. QED
  BY <1>1, <1>2, Invariant, PTL DEF Spec, WireInOrder, Protocol!Spec

\* No exception handler is called once a response is on the wire.
THEOREM NoLateHandler == Spec => NoHandlerAfterStart
<1>1. IInv /\ [Next]_vars =>
        [wire # <<>> /\ calls' # calls => IsServer(calls'[Len(calls')].layer)]_vars
  BY NextStep DEF GoodStep
<1>2. QED
  BY <1>1, Invariant, PTL DEF Spec, NoHandlerAfterStart

-----------------------------------------------------------------------------
(* The choice of a handler.                                                *)

\* A layer has the handlers of its application: what it found in the scope, it has kept.
HeldInv ==
  /\ \A k \in Layer :
       ~IsServer(k) /\ (control.at = "entering" => k < control.layer) => held[k] = {Layers[k].app}
  /\ control.at = "entering" /\ control.layer > 1 =>
       (Layers[control.layer - 1].kind = "exceptions" =>
          scope_handlers = {Layers[control.layer - 1].app})

LEMMA HeldStep ==
  ASSUME IInv, HeldInv, [Next]_vars
  PROVE  HeldInv'
<1>1. ASSUME NEW k \in Layer, Enter(k) PROVE HeldInv'
  <2>1. /\ control.at = "entering" /\ control.layer = k
        /\ scope_handlers' = IF Layers[k].kind = "exceptions" THEN {Layers[k].app} ELSE scope_handlers
        /\ held' = [held EXCEPT ![k] = IF IsServer(k) THEN {} ELSE scope_handlers']
        /\ control'.layer = k + 1 /\ control'.at \in {"entering", "endpoint"}
        /\ control'.at = "endpoint" => k = Depth
    BY <1>1 DEF Enter, Control
  <2>2. k \in Nat /\ k >= 1 /\ (k + 1) - 1 = k
    BY LayerFacts
  <2>3. ~IsServer(k) => scope_handlers' = {Layers[k].app}
    <3>1. CASE Layers[k].kind = "exceptions"
      BY <2>1, <3>1
    <3>2. CASE Layers[k].kind = "route"
      <4>1. k > 1 /\ Layers[k - 1] = [kind |-> "exceptions", app |-> Layers[k].app]
        BY <3>2, RouteAssumption
      <4>2. QED
        BY <2>1, <3>2, <4>1 DEF HeldInv
    <3>3. Layers[k] \in [kind : Kinds, app : Apps]
      <4>1. k \in DOMAIN Layers
        BY LayersAssumption DEF Layer, Depth
      <4>2. QED
        BY <4>1, LayersAssumption, SeqElement
    <3>4. QED
      BY <3>1, <3>2, <3>3 DEF Kinds, IsServer
  <2>4. held \in [Layer -> SUBSET Apps]
    BY DEF IInv, TypeOK
  <2>5. ASSUME NEW j \in Layer, ~IsServer(j), control'.at = "entering" => j < control'.layer
        PROVE  held'[j] = {Layers[j].app}
    <3>1. CASE j = k
      BY <2>1, <2>3, <2>4, <2>5, <3>1
    <3>2. CASE j # k
      <4>1. j \in Nat /\ j <= Depth /\ Depth \in Nat
        BY LayerFacts
      <4>2. j < k
        BY <2>1, <2>2, <2>5, <3>2, <4>1
      <4>3. held[j] = {Layers[j].app}
        BY <2>1, <2>5, <4>2 DEF HeldInv
      <4>4. QED
        BY <2>1, <2>4, <3>2, <4>3
    <3>3. QED
      BY <3>1, <3>2
  <2>6. control'.at = "entering" =>
          (Layers[control'.layer - 1].kind = "exceptions" =>
             scope_handlers' = {Layers[control'.layer - 1].app})
    BY <2>1, <2>2
  <2>7. QED
    BY <2>5, <2>6 DEF HeldInv, IsServer
<1>2. CASE UNCHANGED vars
  BY <1>2 DEF vars, HeldInv, IsServer
<1>3. ASSUME UNCHANGED <<scope_handlers, held>>, control.at # "entering",
             control'.at # "entering"
      PROVE  HeldInv'
  BY <1>3 DEF HeldInv, IsServer
<1>4. CASE SendStart \/ SendBody \/ Returns \/ ReachesServer \/ \E e \in Exceptions : Raises(e)
  <2>1. control \in ControlType
    BY DEF IInv, TypeOK, ControlType
  <2>2. control.at # "entering" /\ UNCHANGED <<scope_handlers, held>>
    BY <1>4 DEF SendStart, SendBody, Send, Sends, Returns, ReachesServer, Caught, Raises, UserCode
  <2>3. control'.at # "entering"
    <3>1. ASSUME NEW e, Propagates(e) PROVE control'.at # "entering"
      BY <3>1 DEF Propagates, Control
    <3>2. CASE SendStart \/ SendBody
      BY <2>2, <3>1, <3>2 DEF SendStart, SendBody, Send
    <3>3. CASE Returns
      BY <3>1, <3>3 DEF Returns, Control
    <3>4. CASE ReachesServer \/ \E e \in Exceptions : Raises(e)
      BY <3>1, <3>4 DEF ReachesServer, Raises, Control
    <3>5. QED
      BY <1>4, <3>2, <3>3, <3>4
  <2>4. QED
    BY <1>3, <2>2, <2>3
<1>5. ASSUME NEW k \in Layer, Catch(k) \/ HandlerReturns(k) \/ HandlerReturnsNone(k)
      PROVE  HeldInv'
  <2>1. control \in ControlType
    BY DEF IInv, TypeOK, ControlType
  <2>2. control.at # "entering" /\ UNCHANGED <<scope_handlers, held>>
    BY <1>5 DEF Catch, Caught, CatchServer, CatchWrapped, HandlerReturns, HandlerReturnsNone
  <2>3. control'.at # "entering"
    BY <1>5, <2>1, <2>2 DEF Catch, CatchServer, CatchWrapped, HandlerReturns, HandlerReturnsNone,
          Answers, Calls, Propagates, Control, ControlType
  <2>4. QED
    BY <1>3, <2>2, <2>3
<1>6. QED
  BY <1>1, <1>2, <1>4, <1>5 DEF Next

\* The handler of a layer for an exception matches it, and none matches it better.
LEMMA HandlerForBest ==
  ASSUME NEW k, NEW e \in Exceptions, HandlerFor(k, e) # "none", held[k] = {Layers[k].app}
  PROVE  /\ HandlerFor(k, e) \in Matching(k, e)
         /\ ~\E key \in Matching(k, e) : Better(key, HandlerFor(k, e), e)
<1>0. HandlersAt(k) = HandlersOf(Layers[k].app)
  BY DEF HandlersAt
<1>1. CASE Status[e] \in HandlersAt(k)
  BY <1>0, <1>1 DEF HandlerFor, Matching, Better
<1>2. CASE Status[e] \notin HandlersAt(k)
  <2> DEFINE handlers == HandlersAt(k)
  <2>1. HandlerFor(k, e) = Lookup(handlers, e)
    BY <1>2 DEF HandlerFor
  <2>2. PICK i \in DOMAIN Mro[e] : Mro[e][i] \in handlers
    BY <2>1, LookupNone
  <2>3. PICK n \in DOMAIN Mro[e] : /\ Mro[e][n] \in handlers
                                   /\ Lookup(handlers, e) = Mro[e][n]
                                   /\ \A j \in DOMAIN Mro[e] : Mro[e][j] \in handlers => n <= j
    BY <2>2, LookupFirst
  <2>4. HandlerFor(k, e) = Mro[e][n]
    BY <2>1, <2>3
  <2>5. HandlerFor(k, e) \in Matching(k, e)
    BY <1>0, <2>3, <2>4 DEF Matching
  <2>6. ASSUME NEW key \in Matching(k, e), Better(key, HandlerFor(k, e), e)
        PROVE  FALSE
    <3>1. key \in handlers /\ key # Status[e]
      BY <1>0, <1>2 DEF Matching
    <3>2. PICK a, b \in DOMAIN Mro[e] : a < b /\ Mro[e][a] = key /\ Mro[e][b] = HandlerFor(k, e)
      BY <2>6, <3>1 DEF Better
    <3>3. b = n /\ n <= a
      BY <2>3, <2>4, <3>1, <3>2, ExceptionsAssumption
    <3>4. a \in Nat /\ b \in Nat
      BY ExceptionsAssumption
    <3>5. QED
      BY <3>2, <3>3, <3>4
  <2>7. QED
    BY <2>5, <2>6
<1>3. QED
  BY <1>1, <1>2

\* Every handler that is called for an exception is the most specific one of its
\* application: by status code, or else by the most derived class.
THEOREM Specific == Spec => []MostSpecific
<1>1. Init => HeldInv /\ MostSpecific
  <2>1. SUFFICES ASSUME Init PROVE HeldInv /\ MostSpecific
    OBVIOUS
  <2>2. control.at = "entering" /\ control.layer = 1
    BY <2>1 DEF Init, Control
  <2>3. HeldInv
    <3>1. \A k \in Layer : ~(k < control.layer)
      BY <2>2, LayerFacts
    <3>2. ~(control.layer > 1)
      BY <2>2
    <3>3. QED
      BY <2>2, <3>1, <3>2 DEF HeldInv
  <2>4. QED
    BY <2>1, <2>3 DEF Init, MostSpecific
<1>2. IInv /\ HeldInv /\ MostSpecific /\ [Next]_vars => HeldInv' /\ MostSpecific'
  <2>1. SUFFICES ASSUME IInv, HeldInv, MostSpecific, [Next]_vars
                 PROVE  HeldInv' /\ MostSpecific'
    OBVIOUS
  <2>h. HeldInv'
    BY <2>1, HeldStep
  <2>2. UNCHANGED registered
    BY <2>1 DEF vars, Next, Enter, SendStart, SendBody, Send, Returns, Raises, Catch, CatchServer,
                CatchWrapped, HandlerReturns, HandlerReturnsNone, ReachesServer
  <2>3. CASE UNCHANGED calls
    <3>1. \A j, f : Matching(j, f)' = Matching(j, f)
      BY <2>2 DEF Matching, HandlersOf
    <3>2. SUFFICES ASSUME NEW i \in DOMAIN calls
                   PROVE  \/ IsServer(calls[i].layer)
                          \/ /\ calls[i].key \in Matching(calls[i].layer, calls[i].exc)
                             /\ ~\E other \in Matching(calls[i].layer, calls[i].exc) :
                                   Better(other, calls[i].key, calls[i].exc)
      BY <2>h, <2>3, <3>1 DEF MostSpecific, IsServer, Better
    <3>3. QED
      BY <2>1 DEF MostSpecific
  <2>4. ASSUME NEW k \in Layer, Catch(k), calls' # calls
        PROVE  MostSpecific'
    <3> DEFINE e == control.exc
    <3>1. e \in Exceptions /\ calls \in Seq(CallType)
      BY <2>1, <2>4 DEF IInv, TypeOK, CallType, ControlInv, Catch, Caught
    <3>2. PICK key : /\ calls' = Append(calls, [layer |-> k, exc |-> e, key |-> key])
                     /\ IsServer(k) \/ (key = HandlerFor(k, e) /\ key # "none")
      BY <2>4 DEF Catch, CatchServer, CatchWrapped, Calls
    <3> DEFINE c == [layer |-> k, exc |-> e, key |-> key]
    <3>3. IsServer(k) \/ (/\ key \in Matching(k, e)
                          /\ ~\E other \in Matching(k, e) : Better(other, key, e))
      <4>1. ~IsServer(k) => held[k] = {Layers[k].app}
        BY <2>1, <2>4 DEF HeldInv, Catch, Caught
      <4>2. QED
        BY <3>1, <3>2, <4>1, HandlerForBest
    <3>4. \A i \in DOMAIN calls' : \/ i \in DOMAIN calls /\ calls'[i] = calls[i]
                                   \/ calls'[i] = c
      BY <3>1, <3>2
    <3>5. \A j, f : Matching(j, f)' = Matching(j, f)
      BY <2>2 DEF Matching, HandlersOf
    <3>6. SUFFICES ASSUME NEW i \in DOMAIN calls'
                   PROVE  \/ IsServer(calls'[i].layer)
                          \/ /\ calls'[i].key \in Matching(calls'[i].layer, calls'[i].exc)
                             /\ ~\E other \in Matching(calls'[i].layer, calls'[i].exc) :
                                   Better(other, calls'[i].key, calls'[i].exc)
      BY <3>5 DEF MostSpecific, IsServer, Better
    <3>7. CASE i \in DOMAIN calls /\ calls'[i] = calls[i]
      BY <2>1, <3>7 DEF MostSpecific
    <3>8. CASE calls'[i] = c
      BY <3>3, <3>8
    <3>9. QED
      BY <3>4, <3>6, <3>7, <3>8
  <2>5. QED
    BY <2>1, <2>h, <2>3, <2>4
       DEF vars, Next, Enter, SendStart, SendBody, Send, Returns, Raises, HandlerReturns,
           HandlerReturnsNone, ReachesServer
<1>3. QED
  BY <1>1, <1>2, Invariant, PTL DEF Spec

\* Each layer calls one handler at most for a request, and it is the most specific one of
\* its application: the two invariants together.
THEOREM Right == Spec => []RightHandler
<1>1. MostSpecific /\ NoHandlerLoop => RightHandler
  BY DEF RightHandler
<1>2. QED
  BY <1>1, Specific, Safe, PTL

-----------------------------------------------------------------------------
(* What the client and the server are told.                                *)

\* A start that was noted is on the wire, unless the client has gone; an exception that
\* leaves the outermost layer has been answered, unless a handler failed to.
AnsweredInv ==
  /\ \A k \in Layer : response_started[k] => wire # <<>> \/ gone
  /\ phase # "none" => wire # <<>>
  /\ control.at = "failing" /\ control.layer = 0 /\ ~gone /\ ~unanswered => wire # <<>>
  /\ Answered

\* ServerErrorMiddleware has sent something.
ServerAnswered == \E i \in DOMAIN wire : wire[i].by \in Layer /\ IsServer(wire[i].by)

\* Behind its answer an exception is on its way to the server: only a layer of the same
\* kind may still catch it, and raises again.
RaisedInv ==
  ServerAnswered =>
    \/ control.at = "failing"
    \/ control.at \in {"handler", "response"} /\ IsServer(control.layer)
    \/ control.at = "over" /\ raised # "none"

LEMMA OutermostIsServer == 1 \in Layer /\ IsServer(1)
BY OutermostAssumption, LayerFacts DEF Layer, IsServer

\* An exception leaves control.layer; past the outermost layer it was answered.
LEMMA PropagateTold ==
  ASSUME IInv, AnsweredInv, RaisedInv, NEW e \in Exceptions, Propagates(e),
         control.at # "over", control.at = "failing" => control.layer \in Layer,
         UNCHANGED <<wire, response_started, phase>>,
         gone => gone', unanswered => unanswered',
         control.layer = 1 /\ IsServer(1) => wire # <<>> \/ gone' \/ unanswered'
  PROVE  AnsweredInv' /\ RaisedInv'
<1>1. control'.at = "failing" /\ control'.layer = control.layer - 1 /\ control.layer \in Nat
  BY OutsideFacts DEF IInv, Propagates, Control
<1>2. control.layer - 1 = 0 => wire # <<>> \/ gone' \/ unanswered'
  BY <1>1, OutermostIsServer
<1>3. AnsweredInv'
  BY <1>1, <1>2 DEF AnsweredInv, Answered
<1>4. RaisedInv'
  BY <1>1 DEF RaisedInv
<1>5. QED
  BY <1>3, <1>4

\* A message is sent, or the client is found to be gone.
LEMMA SendTold ==
  ASSUME IInv, AnsweredInv, RaisedInv, Sends,
         NEW type \in {"start", "body"}, NEW more \in BOOLEAN, Send(type, more)
  PROVE  AnsweredInv' /\ RaisedInv'
<1>1. control \in ControlType /\ wire \in Seq(Message) /\ response_started \in [Layer -> BOOLEAN]
      /\ gone \in BOOLEAN
  BY DEF IInv, TypeOK, ControlType
<1>2. CASE gone' = TRUE /\ Propagates(ClientGone) /\ UNCHANGED <<wire, phase>>
  <2>1. control'.at = "failing"
    BY <1>2 DEF Propagates, Control
  <2>2. UNCHANGED <<unanswered, raised>>
    BY DEF Send
  <2>3. QED
    BY <1>2, <2>1, <2>2 DEF AnsweredInv, Answered, RaisedInv
<1>3. CASE /\ wire' = Append(wire, [type |-> type, more_body |-> more, by |-> control.layer])
           /\ UNCHANGED <<gone, control>>
  <2> DEFINE m == [type |-> type, more_body |-> more, by |-> control.layer]
  <2>1. /\ wire' # <<>> /\ DOMAIN wire' = 1..(Len(wire) + 1) /\ DOMAIN wire = 1..Len(wire)
        /\ \A i \in DOMAIN wire' : wire'[i] = m \/ (i \in DOMAIN wire /\ wire'[i] = wire[i])
    BY <1>1, <1>3
  <2>2. AnsweredInv'
    BY <2>1 DEF AnsweredInv, Answered
  <2>3. control.at = "endpoint" => control.layer \notin Layer
    BY LayerFacts DEF IInv, ControlInv
  <2>4. control.at = "response" => control.layer \in Layer
    BY DEF IInv, ControlInv
  <2>5. ServerAnswered' => ServerAnswered \/ (control.layer \in Layer /\ IsServer(control.layer))
    BY <1>3, <2>1 DEF ServerAnswered, IsServer
  <2>6. UNCHANGED <<control, raised>>
    BY <1>3 DEF Send
  <2>7. RaisedInv'
    BY <2>3, <2>5, <2>6 DEF RaisedInv, Sends, IsServer
  <2>8. QED
    BY <2>2, <2>7
<1>4. QED
  BY <1>2, <1>3 DEF Send

\* A layer answers an exception, or lets it go on.
LEMMA AnswerTold ==
  ASSUME IInv, AnsweredInv, RaisedInv, NEW k \in Layer, Answers(k), control.layer = k,
         control.at = "handler" \/ (control.at = "failing" /\ IsServer(k)),
         UNCHANGED <<response_started, gone, wire, unanswered, raised>>
  PROVE  AnsweredInv' /\ RaisedInv'
<1>1. control \in ControlType /\ control.exc \in Exceptions
  BY OutsideFacts DEF IInv, ControlInv
<1>2. CASE response_started[k]
  <2>1. Propagates(control.exc) /\ UNCHANGED phase
    BY <1>2 DEF Answers
  <2>2. wire # <<>> \/ gone
    BY <1>2 DEF AnsweredInv
  <2>3. QED
    BY <1>1, <2>1, <2>2, PropagateTold
<1>3. CASE ~response_started[k]
  <2>1. control' = [control EXCEPT !.at = "response"] /\ phase' = "none"
    BY <1>3 DEF Answers
  <2>2. control'.at = "response" /\ control'.layer = k
    BY <1>1, <2>1 DEF ControlType
  <2>3. AnsweredInv'
    BY <2>1, <2>2 DEF AnsweredInv, Answered
  <2>4. RaisedInv'
    <3>1. ServerAnswered => IsServer(k)
      BY DEF RaisedInv
    <3>2. QED
      BY <2>2, <3>1 DEF RaisedInv, ServerAnswered, IsServer
  <2>5. QED
    BY <2>3, <2>4
<1>4. QED
  BY <1>2, <1>3

\* A handler is called: by a wrapped application only as long as nothing was sent.
LEMMA CallTold ==
  ASSUME IInv, AnsweredInv, RaisedInv, NEW k \in Layer, NEW key, Calls(k, key), Caught(k),
         IsServer(k) \/ ~response_started[k],
         UNCHANGED <<response_started, phase, gone, wire, unanswered, raised>>
  PROVE  AnsweredInv' /\ RaisedInv'
<1>1. control \in ControlType
  BY DEF IInv, TypeOK, ControlType
<1>2. control'.at = "handler" /\ control'.layer = k
  BY <1>1 DEF Calls, Caught, ControlType
<1>3. AnsweredInv'
  BY <1>2 DEF AnsweredInv, Answered
<1>4. ServerAnswered => IsServer(k)
  <2>1. wire # <<>> => response_started[k]
    BY LayerFacts DEF IInv, StartedInv, Caught
  <2>2. ServerAnswered => wire # <<>>
    BY DEF ServerAnswered
  <2>3. QED
    BY <2>1, <2>2
<1>5. RaisedInv'
  BY <1>2, <1>4 DEF RaisedInv, ServerAnswered, IsServer
<1>6. QED
  BY <1>3, <1>5

\* A response has been sent.
LEMMA ReturnTold ==
  ASSUME IInv, AnsweredInv, RaisedInv, Returns
  PROVE  AnsweredInv' /\ RaisedInv'
<1>1. /\ Sends /\ phase = "complete" /\ wire # <<>>
      /\ UNCHANGED <<response_started, phase, gone, wire, calls, unanswered, raised>>
  BY DEF Returns, AnsweredInv
<1>2. CASE control.at = "response" /\ IsServer(control.layer)
  <2>1. Propagates(control.exc) /\ control.exc \in Exceptions
    BY <1>2 DEF Returns, IInv, ControlInv
  <2>2. QED
    BY <1>1, <1>2, <2>1, PropagateTold
<1>3. CASE ~(control.at = "response" /\ IsServer(control.layer))
  <2>1. control'.at = "over"
    BY <1>3 DEF Returns, Control
  <2>2. ~ServerAnswered
    BY <1>1, <1>3 DEF RaisedInv, Sends
  <2>3. QED
    BY <1>1, <2>1, <2>2 DEF AnsweredInv, Answered, RaisedInv, ServerAnswered, IsServer
<1>4. QED
  BY <1>2, <1>3

\* User code raises: a 500 handler that does is noted.
LEMMA RaiseTold ==
  ASSUME IInv, AnsweredInv, RaisedInv, NEW e \in Exceptions, Raises(e)
  PROVE  AnsweredInv' /\ RaisedInv'
<1>1. /\ Propagates(e) /\ control.at \in {"endpoint", "handler", "response"}
      /\ unanswered' = (unanswered \/ (control.at # "endpoint" /\ IsServer(control.layer)))
      /\ UNCHANGED <<response_started, phase, gone, wire, calls, raised>>
  BY DEF Raises, UserCode
<1>2. control.layer = 1 => control.at # "endpoint"
  BY OutermostAssumption, LayerFacts DEF IInv, ControlInv
<1>3. control.layer = 1 /\ IsServer(1) => unanswered'
  BY <1>1, <1>2
<1>4. unanswered => unanswered'
  BY <1>1
<1>5. QED
  BY <1>1, <1>3, <1>4, PropagateTold

\* A layer catches an exception.
LEMMA CatchTold ==
  ASSUME IInv, AnsweredInv, RaisedInv, NEW k \in Layer, Catch(k)
  PROVE  AnsweredInv' /\ RaisedInv'
<1>1. Caught(k) /\ control.at = "failing" /\ control.layer = k /\ control.exc \in Exceptions
  BY DEF Catch, Caught, IInv, ControlInv
<1>2. CASE IsServer(k)
  <2>1. CatchServer(k)
    BY <1>2 DEF Catch
  <2>2. UNCHANGED <<registered, scope_handlers, held, response_started, gone, wire, unanswered, raised>>
    BY <2>1 DEF CatchServer
  <2>3. CASE Calls(k, "500") /\ UNCHANGED phase
    BY <1>1, <1>2, <2>2, <2>3, CallTold
  <2>4. CASE Answers(k)
    BY <1>1, <1>2, <2>2, <2>4, AnswerTold
  <2>5. QED
    BY <2>1, <2>3, <2>4 DEF CatchServer
<1>3. CASE ~IsServer(k)
  <2>1. CatchWrapped(k)
    BY <1>3 DEF Catch
  <2>2. UNCHANGED <<registered, scope_handlers, held, response_started, phase, gone, wire, unanswered, raised>>
    BY <2>1 DEF CatchWrapped
  <2>3. ASSUME NEW e \in Exceptions, Propagates(e) PROVE AnsweredInv' /\ RaisedInv'
    BY <1>1, <1>3, <2>2, <2>3, PropagateTold
  <2>4. ASSUME NEW key, Calls(k, key), ~response_started[k] PROVE AnsweredInv' /\ RaisedInv'
    BY <1>1, <2>2, <2>4, CallTold
  <2>5. AlreadyStarted \in Exceptions
    BY ExceptionsAssumption
  <2>6. QED
    BY <1>1, <2>1, <2>3, <2>4, <2>5 DEF CatchWrapped
<1>4. QED
  BY <1>2, <1>3

LEMMA NextTold ==
  ASSUME IInv, AnsweredInv, RaisedInv, [Next]_vars
  PROVE  AnsweredInv' /\ RaisedInv'
<1>1. CASE UNCHANGED vars
  BY <1>1 DEF vars, AnsweredInv, Answered, RaisedInv, ServerAnswered, IsServer
<1>2. CASE SendStart \/ SendBody
  BY <1>2, SendTold DEF SendStart, SendBody
<1>0. ASSUME NEW k \in Layer, Enter(k) PROVE AnsweredInv' /\ RaisedInv'
  <2>1. /\ control.at = "entering" /\ control'.at \in {"entering", "endpoint"}
        /\ UNCHANGED <<response_started, phase, gone, wire, unanswered, raised>>
    BY <1>0 DEF Enter, Control
  <2>2. wire = <<>>
    BY <2>1 DEF IInv, PhaseInv
  <2>3. QED
    BY <2>1, <2>2 DEF AnsweredInv, Answered, RaisedInv, ServerAnswered, IsServer
<1>3. CASE \E e \in Exceptions : Raises(e)
  BY <1>3, RaiseTold
<1>4. ASSUME NEW k \in Layer, HandlerReturns(k) PROVE AnsweredInv' /\ RaisedInv'
  BY <1>4, AnswerTold DEF HandlerReturns
<1>5. ASSUME NEW k \in Layer, HandlerReturnsNone(k) PROVE AnsweredInv' /\ RaisedInv'
  <2>1. /\ control.at = "handler" /\ ~IsServer(control.layer) /\ control'.at = "over"
        /\ unanswered' = TRUE
        /\ UNCHANGED <<response_started, phase, gone, wire, raised>>
    BY <1>5 DEF HandlerReturnsNone, Control
  <2>2. ~ServerAnswered
    BY <2>1 DEF RaisedInv
  <2>3. QED
    BY <2>1, <2>2 DEF AnsweredInv, Answered, RaisedInv, ServerAnswered, IsServer
<1>6. CASE ReachesServer
  <2>1. /\ control.at = "failing" /\ control.layer = 0 /\ control'.at = "over"
        /\ raised' = control.exc /\ control.exc # "none"
        /\ UNCHANGED <<response_started, phase, gone, wire, unanswered>>
    BY <1>6, ExceptionsAssumption DEF ReachesServer, Caught, Control, IInv, ControlInv
  <2>2. QED
    BY <2>1 DEF AnsweredInv, Answered, RaisedInv
<1>7. QED
  BY <1>0, <1>1, <1>2, <1>3, <1>4, <1>5, <1>6, ReturnTold, CatchTold DEF Next

\* An exception is told to the client, unless it is gone or a handler failed to answer; and
\* what a ServerErrorMiddleware has answered leaves the application, however deep it is
\* mounted and whatever the layers around it catch.
THEOREM Told == Spec => []ErrorIsTold
<1>1. Init => AnsweredInv /\ RaisedInv
  BY DEF Init, AnsweredInv, Answered, RaisedInv, ServerAnswered, Control
<1>2. IInv /\ AnsweredInv /\ RaisedInv /\ [Next]_vars => AnsweredInv' /\ RaisedInv'
  BY NextTold
<1>3. AnsweredInv /\ RaisedInv => ErrorIsTold
  BY DEF AnsweredInv, RaisedInv, ServerAnswered, ErrorIsTold, ErrorIsRaised
<1>4. QED
  BY <1>1, <1>2, <1>3, Invariant, PTL DEF Spec

=============================================================================
