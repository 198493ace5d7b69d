------------------------- MODULE CostPipeline_proofs -------------------------
(***************************************************************************)
(* Proofs about CostPipeline, for every set of requests, number of         *)
(* invocations and GETs, batch size and number of faults.  First that the  *)
(* pipeline is to its response queue what QueueConsumer expects of a       *)
(* sender, which carries the theorems about the consumer over; then one    *)
(* lemma per action for the inductive invariant IInv.                      *)
(***************************************************************************)
EXTENDS CostPipeline, FifoQueue_proofs, FiniteSetTheorems

\* The consumer with its theorems.
Reading == INSTANCE QueueConsumer_proofs WITH
  Bodies <- CostResponses, Groups <- {ResponseGroup},
  GroupOf <- [b \in CostResponses |-> ResponseGroup],
  MaxFaults <- MaxReadFaults,
  queue <- responses, receipts <- handles, faults <- readFaults

\* The types of the variables up to the response queue.
FunctionTypes ==
  /\ requests \in QueueOf({RequestGroup}, Posted)
  /\ requests.held \subseteq requests.msgs
  /\ todo \in [Invocations -> SUBSET Request]
  /\ receipts \in [Invocations -> SUBSET Request]
  /\ dropped \subseteq Request
  /\ faults \in 0..MaxFaults

-----------------------------------------------------------------------------
(* The types up to the response queue.                                      *)

LEMMA RequestsType ==
  ASSUME FunctionTypes
  PROVE  /\ requests.msgs \subseteq Request
         /\ requests.recent \subseteq Posted
         /\ requests.next \in Nat
         /\ \A m \in Request : m.n \in Nat /\ m.group = RequestGroup /\ m.body \in Posted
  BY DEF FunctionTypes, QueueOf, Request, Messages

LEMMA FaultTypes == FunctionTypes /\ Fault => faults' \in 0..MaxFaults /\ faults' = faults + 1
  BY CostAssumption DEF FunctionTypes, Fault

LEMMA RemoveBatchTypes ==
  ASSUME FunctionTypes, NEW i \in Invocations, RemoveBatch(i)
  PROVE  /\ requests' \in QueueOf({RequestGroup}, Posted)
         /\ requests'.msgs = requests.msgs \ receipts[i]
         /\ requests'.held = requests.held \ receipts[i]
         /\ requests'.recent = requests.recent
         /\ requests'.next = requests.next
         /\ todo'[i] = {} /\ receipts'[i] = {}
         /\ \A j \in Invocations \ {i} : todo'[j] = todo[j] /\ receipts'[j] = receipts[j]
         /\ todo' \in [Invocations -> SUBSET Request]
         /\ receipts' \in [Invocations -> SUBSET Request]
<1>1. requests' = Delete(requests, receipts[i])
  BY DEF RemoveBatch
<1>2. requests \in QueueOf({RequestGroup}, Posted)
  BY DEF FunctionTypes
<1>3. /\ requests' \in QueueOf({RequestGroup}, Posted)
      /\ requests'.msgs = requests.msgs \ receipts[i]
      /\ requests'.held = requests.held \ receipts[i]
      /\ requests'.recent = requests.recent
      /\ requests'.next = requests.next
  BY <1>1, <1>2, DeleteFields
<1>4. QED
  BY <1>3 DEF RemoveBatch, FunctionTypes

LEMMA FunctionTypesInit == Init => FunctionTypes
<1>1. EmptyQueue.msgs = {} /\ EmptyQueue.held = {}
  BY DEF EmptyQueue
<1>2. EmptyQueue \in QueueOf({RequestGroup}, Posted)
  BY DEF EmptyQueue, QueueOf
<1>3. QED
  BY <1>1, <1>2, CostAssumption DEF Init, FunctionTypes

LEMMA FunctionTypesStep == FunctionTypes /\ [Next]_vars => FunctionTypes'
<1> SUFFICES ASSUME FunctionTypes, [Next]_vars PROVE FunctionTypes'
  OBVIOUS
<1>1. requests \in QueueOf({RequestGroup}, Posted)
  BY DEF FunctionTypes
<1>2. ASSUME NEW r \in Posted, Post(r) PROVE FunctionTypes'
  <2>1. requests' = Send(requests, RequestGroup, r)
    BY <1>2 DEF Post
  <2>2. requests' \in QueueOf({RequestGroup}, Posted) /\ requests'.held \subseteq requests'.msgs
    BY <1>1, <2>1, SendAny DEF FunctionTypes
  <2>3. QED
    BY <1>2, <2>2 DEF Post, FunctionTypes
<1>3. ASSUME NEW i \in Invocations, Receive(i) PROVE FunctionTypes'
  <2>1. PICK S \in Batches(requests, MaxBatch) :
          /\ requests' = Take(requests, S)
          /\ todo' = [todo EXCEPT ![i] = S]
          /\ receipts' = [receipts EXCEPT ![i] = S]
    BY <1>3 DEF Receive
  <2>2. S \subseteq requests.msgs
    BY BatchesAreStored
  <2>3. /\ requests' \in QueueOf({RequestGroup}, Posted)
        /\ requests'.held \subseteq requests'.msgs
    BY <1>1, <2>1, <2>2, TakeFields DEF FunctionTypes
  <2>4. QED
    BY <1>3, <2>1, <2>2, <2>3, RequestsType DEF Receive, FunctionTypes
<1>4. ASSUME NEW i \in Invocations, Answer(i) PROVE FunctionTypes'
  BY <1>4 DEF Answer, FunctionTypes
<1>5. ASSUME NEW i \in Invocations, Finish(i) PROVE FunctionTypes'
  BY <1>5, RemoveBatchTypes DEF Finish, FunctionTypes
<1>6. ASSUME NEW i \in Invocations, Swallow(i) PROVE FunctionTypes'
  BY <1>6, RemoveBatchTypes, FaultTypes DEF Swallow, FunctionTypes
<1>7. ASSUME NEW i \in Invocations, SendFails(i) PROVE FunctionTypes'
  BY <1>7, RemoveBatchTypes, FaultTypes DEF SendFails, FunctionTypes
<1>8. ASSUME NEW i \in Invocations, Crash(i) PROVE FunctionTypes'
  BY <1>8, FaultTypes DEF Crash, FunctionTypes
<1>9. CASE VisibilityTimeout
  <2>1. /\ requests' = Release(requests, requests.held)
        /\ receipts' = [i \in Invocations |-> {}]
        /\ UNCHANGED <<todo, dropped>>
        /\ faults' \in 0..MaxFaults
    BY <1>9, FaultTypes DEF VisibilityTimeout, FunctionTypes
  <2>2. /\ requests' \in QueueOf({RequestGroup}, Posted)
        /\ requests'.held \subseteq requests'.msgs
    BY <1>1, <2>1, ReleaseFields
  <2>3. QED
    BY <2>1, <2>2 DEF FunctionTypes
<1>10. CASE UNCHANGED functionVars
  BY <1>10 DEF functionVars, FunctionTypes
<1>11. QED
  BY <1>2, <1>3, <1>4, <1>5, <1>6, <1>7, <1>8, <1>9, <1>10
     DEF Next, Poll, ResponsesComeBack, vars

LEMMA FunctionTypesInvariance == Spec => []FunctionTypes
  BY FunctionTypesInit, FunctionTypesStep, PTL DEF Spec

-----------------------------------------------------------------------------
(* The pipeline is a sender of the consumer's queue.                        *)

\* The consumer's queue operators are those of this module.
LEMMA SameOperators ==
  /\ \A q, g, b : Consumer!Send(q, g, b) = Send(q, g, b) /\ Reading!Send(q, g, b) = Send(q, g, b)
  /\ \A q, S : Consumer!Take(q, S) = Take(q, S) /\ Reading!Take(q, S) = Take(q, S)
  /\ \A q, S : Consumer!Delete(q, S) = Delete(q, S) /\ Reading!Delete(q, S) = Delete(q, S)
  /\ \A q, S : Consumer!Release(q, S) = Release(q, S) /\ Reading!Release(q, S) = Release(q, S)
  /\ \A q, n : Consumer!Batches(q, n) = Batches(q, n) /\ Reading!Batches(q, n) = Batches(q, n)
<1>1. \A q, g, b : Consumer!Send(q, g, b) = Send(q, g, b) /\ Reading!Send(q, g, b) = Send(q, g, b)
  BY DEF Send, Consumer!Send, Reading!Send
<1>2. \A q, S : Consumer!Take(q, S) = Take(q, S) /\ Reading!Take(q, S) = Take(q, S)
  BY DEF Take, Consumer!Take, Reading!Take
<1>3. \A q, S : Consumer!Delete(q, S) = Delete(q, S) /\ Reading!Delete(q, S) = Delete(q, S)
  BY DEF Delete, Consumer!Delete, Reading!Delete
<1>4. \A q, S : Consumer!Release(q, S) = Release(q, S) /\ Reading!Release(q, S) = Release(q, S)
  BY DEF Release, Consumer!Release, Reading!Release
<1>5. \A q, n : Consumer!Batches(q, n) = Batches(q, n) /\ Reading!Batches(q, n) = Batches(q, n)
  BY DEF Batches, Consumer!Batches, Reading!Batches, Visible, Consumer!Visible, Reading!Visible,
         Cardinality, Consumer!Cardinality, Reading!Cardinality
<1>6. QED
  BY <1>1, <1>2, <1>3, <1>4, <1>5

\* A response goes on the queue, or is a duplicate of one that did.
LEMMA ResponseIsEnqueued ==
  ASSUME NEW r \in Posted, NEW c \in Codes(r),
         responses' = Send(responses, ResponseGroup, [request |-> r, code |-> c]),
         UNCHANGED consumerVars
  PROVE  [Consumer!Next]_(Consumer!vars)
<1> DEFINE b == [request |-> r, code |-> c]
<1>1. b \in CostResponses
  BY DEF Codes, Statuses, CostResponses
<1>2. CASE b \in responses.recent
  BY <1>2, SendDuplicate DEF consumerVars, Consumer!vars
<1>3. CASE b \notin responses.recent
  <2>1. [x \in CostResponses |-> ResponseGroup][b] = ResponseGroup
    BY <1>1
  <2>2. responses' = Consumer!Send(responses, [x \in CostResponses |-> ResponseGroup][b], b)
    BY <2>1, SameOperators
  <2>3. Consumer!Enqueue(b)
    BY <1>3, <2>2 DEF Consumer!Enqueue, consumerVars
  <2>4. QED
    BY <1>1, <2>3 DEF Consumer!Next
<1>4. QED
  BY <1>2, <1>3

LEMMA StepFeedsConsumer == FunctionTypes /\ [Next]_vars => [Consumer!Next]_(Consumer!vars)
<1> SUFFICES ASSUME FunctionTypes, [Next]_vars PROVE [Consumer!Next]_(Consumer!vars)
  OBVIOUS
<1>1. ASSUME NEW i \in Invocations, Answer(i) \/ SendFails(i)
      PROVE  [Consumer!Next]_(Consumer!vars)
  <2>1. PICK m \in Oldest(todo[i]) : \E c \in Codes(m.body) :
          responses' = Send(responses, ResponseGroup, [request |-> m.body, code |-> c])
    BY <1>1 DEF Answer, SendFails
  <2>2. UNCHANGED consumerVars
    BY <1>1 DEF Answer, SendFails
  <2>3. m.body \in Posted
    BY RequestsType DEF Oldest, FunctionTypes
  <2>4. QED
    BY <2>1, <2>2, <2>3, ResponseIsEnqueued
<1>2. CASE UNCHANGED <<responses, consumerVars>>
  BY <1>2 DEF consumerVars, Consumer!vars
<1>3. CASE Poll \/ ResponsesComeBack
  BY <1>3 DEF Poll, ResponsesComeBack, Consumer!Next
<1>4. QED
  BY <1>1, <1>2, <1>3
     DEF Next, Post, Receive, Finish, Swallow, Crash, VisibilityTimeout, vars

\* The pipeline puts its responses on the queue as QueueConsumer expects of a
\* sender, duplicates and crashes included: it implements that specification.
THEOREM ImplementsConsumer == Spec => FeedsConsumer
<1>1. Init => Consumer!Init
  BY DEF Init
<1>2. QED
  BY <1>1, FunctionTypesInvariance, StepFeedsConsumer, PTL DEF Spec, FeedsConsumer, Consumer!Spec

-----------------------------------------------------------------------------
(* What is proved of the consumer holds of the pipeline.                    *)

LEMMA SameInit == Consumer!Init => Reading!Init
  BY DEF Consumer!Init, Reading!Init, Consumer!EmptyQueue, Reading!EmptyQueue

LEMMA SameNext == Consumer!Next => Reading!Next
<1>1. ASSUME NEW b \in CostResponses, Consumer!Enqueue(b) PROVE Reading!Enqueue(b)
  BY <1>1, SameOperators DEF Consumer!Enqueue, Reading!Enqueue
<1>2. ASSUME NEW p \in Pollers, Consumer!Receive(p) PROVE Reading!Receive(p)
  BY <1>2, SameOperators DEF Consumer!Receive, Reading!Receive, Consumer!Running, Reading!Running
<1>3. ASSUME NEW p \in Pollers, Consumer!ReceiveFails(p) PROVE Reading!ReceiveFails(p)
  BY <1>3, SameOperators
     DEF Consumer!ReceiveFails, Reading!ReceiveFails, Consumer!Running, Reading!Running,
         Consumer!Fault, Reading!Fault
<1>4. ASSUME NEW p \in Pollers, Consumer!Loop(p) PROVE Reading!Loop(p)
  BY <1>4, SameOperators
     DEF Consumer!Loop, Reading!Loop, Consumer!Consume, Reading!Consume,
         Consumer!DeleteRefused, Reading!DeleteRefused, Consumer!Throw, Reading!Throw,
         Consumer!Reached, Reading!Reached
<1>5. ASSUME NEW p \in Pollers, NEW m \in batch[p], Consumer!DeleteFails(p, m)
      PROVE  Reading!DeleteFails(p, m)
  BY <1>5, SameOperators
     DEF Consumer!DeleteFails, Reading!DeleteFails, Consumer!Throw, Reading!Throw,
         Consumer!Reached, Reading!Reached, Consumer!Fault, Reading!Fault
<1>6. ASSUME NEW p \in Pollers, Consumer!Abort(p) PROVE Reading!Abort(p)
  BY <1>6
     DEF Consumer!Abort, Reading!Abort, Consumer!Throw, Reading!Throw,
         Consumer!Fault, Reading!Fault, Consumer!Running, Reading!Running
<1>7. ASSUME NEW p \in Pollers, Consumer!Respond(p) PROVE Reading!Respond(p)
  BY <1>7 DEF Consumer!Respond, Reading!Respond
<1>8. ASSUME NEW g \in {ResponseGroup}, Consumer!VisibilityTimeout(g)
      PROVE  Reading!VisibilityTimeout(g)
  BY <1>8, SameOperators
     DEF Consumer!VisibilityTimeout, Reading!VisibilityTimeout, Consumer!Fault, Reading!Fault
<1>9. QED
  BY <1>1, <1>2, <1>3, <1>4, <1>5, <1>6, <1>7, <1>8 DEF Consumer!Next, Reading!Next

LEMMA ConsumerAssumptions ==
  /\ [b \in CostResponses |-> ResponseGroup] \in [CostResponses -> {ResponseGroup}]
  /\ MaxMessages \in Nat \ {0} /\ MaxReadFaults \in Nat
  BY CostAssumption

LEMMA ConsumerSpec == Spec => Reading!Spec
<1>1. [Consumer!Next]_(Consumer!vars) => [Reading!Next]_(Reading!vars)
  BY SameNext DEF Consumer!vars, Reading!vars
<1>2. QED
  BY <1>1, SameInit, ImplementsConsumer, PTL DEF FeedsConsumer, Consumer!Spec, Reading!Spec

LEMMA ConsumerInvariance == Spec => []Reading!IInv
<1>1. Reading!Spec => []Reading!IInv
  BY ConsumerAssumptions, Reading!Invariance
<1>2. QED
  BY <1>1, ConsumerSpec, PTL

LEMMA ConsumerTypes == Reading!IInv => Consumer!TypeOK
  BY DEF Reading!IInv, Reading!SafetyInv, Reading!TypeOK, Consumer!TypeOK, Reading!Message, Consumer!Message,
         Reading!Messages, Consumer!Messages, Reading!QueueOf, Consumer!QueueOf

\* The variables keep their types.
THEOREM TypeCorrectness == Spec => []TypeOK
<1>1. FunctionTypes /\ Consumer!TypeOK => TypeOK
  BY DEF FunctionTypes, TypeOK
<1>2. QED
  BY <1>1, FunctionTypesInvariance, ConsumerInvariance, ConsumerTypes, PTL

\* Whatever happens to the requests, a response to one is read once, disappears
\* only when a GET deletes it, and never before an older one that is still on
\* the queue.
THEOREM ResponsesAreReadOnce ==
  Spec => [](/\ Consumer!ReadOnce /\ Consumer!EndsOnce
             /\ Consumer!ResultsAccounted /\ Consumer!NoOvertaking)
<1>1. Reading!IInv => /\ Consumer!ReadOnce /\ Consumer!EndsOnce
                      /\ Consumer!ResultsAccounted /\ Consumer!NoOvertaking
  BY DEF Reading!IInv, Reading!SafetyInv, Reading!ReadOnce, Consumer!ReadOnce,
         Reading!EndsOnce, Consumer!EndsOnce, Reading!ResultsAccounted,
         Consumer!ResultsAccounted, Reading!NoOvertaking, Consumer!NoOvertaking,
         Reading!Responding, Consumer!Responding
<1>2. QED
  BY <1>1, ConsumerInvariance, PTL

\* Of the responses that were stored, one fault of a GET loses those of one
\* receive at most.
THEOREM ResponseLossIsPaidFor == Spec => []Consumer!LossIsBounded
<1>1. Reading!Spec => []Reading!LossIsBounded
  BY ConsumerAssumptions, Reading!LossIsPaidFor
<1>2. Reading!LossIsBounded => Consumer!LossIsBounded
  BY DEF Reading!LossIsBounded, Consumer!LossIsBounded, Reading!Cardinality, Consumer!Cardinality
<1>3. QED
  BY <1>1, <1>2, ConsumerSpec, PTL

-----------------------------------------------------------------------------
(* Lemmas for the inductive invariant.                                      *)

LEMMA TypesAtHand ==
  ASSUME TypeOK
  PROVE  /\ FunctionTypes
         /\ requests \in QueueOf({RequestGroup}, Posted)
         /\ responses \in QueueOf({ResponseGroup}, CostResponses)
         /\ requests.held \subseteq requests.msgs
         /\ requests.msgs \subseteq Request
         /\ requests.recent \subseteq Posted
         /\ requests.next \in Nat
         /\ faults \in Nat
         /\ \A i \in Invocations : todo[i] \subseteq Request /\ receipts[i] \subseteq Request
         /\ \A m \in Request : m.n \in Nat /\ m.group = RequestGroup /\ m.body \in Posted
<1>1. FunctionTypes
  BY DEF TypeOK, FunctionTypes
<1>2. responses \in QueueOf({ResponseGroup}, CostResponses)
  BY DEF TypeOK, Consumer!TypeOK, Consumer!QueueOf, Consumer!Messages, QueueOf, Messages
<1>3. QED
  BY <1>1, <1>2, RequestsType DEF FunctionTypes

\* Waiting, by its elements.
LEMMA WaitingElements ==
  \A x : x \in Waiting <=> x \in requests.msgs \/ \E i \in Invocations : x \in todo[i]
  BY DEF Waiting

LEMMA WaitingElementsNext ==
  \A x : x \in Waiting' <=> x \in requests'.msgs \/ \E i \in Invocations : x \in todo'[i]
  BY DEF Waiting

\* What a good receipt handle is for is stored.
LEMMA ReceiptsAreStored ==
  ASSUME IInv, NEW i \in Invocations
  PROVE  /\ receipts[i] \subseteq requests.msgs
         /\ \A m \in receipts[i] : m.body \in requests.recent
  BY TypesAtHand, WaitingElements DEF IInv, OneHandle, OneMessagePerRequest

\* A response adds one answer to one request.
LEMMA ResponseAddsAnswer ==
  ASSUME TypeOK, NEW r \in Posted, NEW c \in Codes(r),
         responses' = Send(responses, ResponseGroup, [request |-> r, code |-> c])
  PROVE  /\ AnswersTo(r)' = AnswersTo(r) \cup {[request |-> r, code |-> c]}
         /\ \A x : x # r => AnswersTo(x)' = AnswersTo(x)
         /\ \A b \in responses'.recent : b \in responses.recent \/ b.request = r
<1> DEFINE b == [request |-> r, code |-> c]
<1>1. b \in CostResponses /\ b.request = r
  BY DEF Codes, Statuses, CostResponses
<1>2. responses'.recent = responses.recent \cup {b}
  <2>1. responses \in QueueOf({ResponseGroup}, CostResponses)
    BY TypesAtHand
  <2>2. QED
    BY <1>1, <2>1, SendAny
<1> HIDE DEF b
<1>3. QED
  BY <1>1, <1>2 DEF AnswersTo, b

\* The numbers that AnswersPaidFor adds are numbers.
LEMMA TurnsAreNatural ==
  ASSUME NEW r, IsFiniteSet(Answering(r))
  PROVE  Turns(r) \in Nat
  BY FS_CardinalityType DEF Turns

\* Turns do not grow when no invocation starts to answer r and r does not become
\* receivable.
LEMMA TurnsDoNotGrow ==
  ASSUME NEW r, IsFiniteSet(Answering(r)), Answering(r)' \subseteq Answering(r),
         Receivable(r)' => Receivable(r)
  PROVE  IsFiniteSet(Answering(r)') /\ Turns(r)' <= Turns(r)
<1>1. /\ IsFiniteSet(Answering(r)')
      /\ Cardinality(Answering(r)') <= Cardinality(Answering(r))
  BY FS_Subset
<1>2. Cardinality(Answering(r)) \in Nat /\ Cardinality(Answering(r)') \in Nat
  BY <1>1, FS_CardinalityType
<1>3. QED
  BY <1>1, <1>2 DEF Turns

\* An invocation that stops answering r gives a turn back.
LEMMA TurnEnds ==
  ASSUME NEW r, NEW i \in Answering(r), IsFiniteSet(Answering(r)),
         Answering(r)' \subseteq Answering(r) \ {i},
         Receivable(r)' => Receivable(r)
  PROVE  IsFiniteSet(Answering(r)') /\ Turns(r)' + 1 <= Turns(r)
<1>1. /\ IsFiniteSet(Answering(r) \ {i})
      /\ Cardinality(Answering(r) \ {i}) = Cardinality(Answering(r)) - 1
  BY FS_RemoveElement
<1>2. /\ IsFiniteSet(Answering(r)')
      /\ Cardinality(Answering(r)') <= Cardinality(Answering(r) \ {i})
  BY <1>1, FS_Subset
<1>3. Cardinality(Answering(r)) \in Nat /\ Cardinality(Answering(r)') \in Nat
  BY <1>2, FS_CardinalityType
<1>4. QED
  BY <1>1, <1>2, <1>3 DEF Turns

\* In the worst case r becomes receivable once more.
LEMMA TurnComesBack ==
  ASSUME NEW r, IsFiniteSet(Answering(r)), Answering(r)' \subseteq Answering(r)
  PROVE  IsFiniteSet(Answering(r)') /\ Turns(r)' <= Turns(r) + 1
<1>1. /\ IsFiniteSet(Answering(r)')
      /\ Cardinality(Answering(r)') <= Cardinality(Answering(r))
  BY FS_Subset
<1>2. Cardinality(Answering(r)) \in Nat /\ Cardinality(Answering(r)') \in Nat
  BY <1>1, FS_CardinalityType
<1>3. QED
  BY <1>1, <1>2 DEF Turns

\* An invocation that starts to answer r uses the turn of the receive.
LEMMA TurnStarts ==
  ASSUME NEW r, NEW i, IsFiniteSet(Answering(r)), Answering(r)' = Answering(r) \cup {i},
         Receivable(r), ~Receivable(r)'
  PROVE  IsFiniteSet(Answering(r)') /\ Turns(r)' <= Turns(r)
<1>1. /\ IsFiniteSet(Answering(r)')
      /\ \/ Cardinality(Answering(r)') = Cardinality(Answering(r))
         \/ Cardinality(Answering(r)') = Cardinality(Answering(r)) + 1
  BY FS_AddElement
<1>2. Cardinality(Answering(r)) \in Nat /\ Cardinality(Answering(r)') \in Nat
  BY <1>1, FS_CardinalityType
<1>3. QED
  BY <1>1, <1>2 DEF Turns

\* What a step may do to the budget of a request.
LEMMA BudgetKept ==
  ASSUME NEW r \in Posted, TypeOK, TypeOK', AnswersPaidFor,
         IsFiniteSet(Answering(r)'),
         \/ /\ AnswersTo(r)' = AnswersTo(r)
            /\ Turns(r)' <= Turns(r) /\ faults' >= faults
         \/ /\ AnswersTo(r)' = AnswersTo(r)
            /\ Turns(r)' <= Turns(r) + 1 /\ faults' = faults + 1
         \/ /\ \E b : AnswersTo(r)' = AnswersTo(r) \cup {b}
            /\ Turns(r)' + 1 <= Turns(r) /\ faults' >= faults
  PROVE  /\ IsFiniteSet(AnswersTo(r)')
         /\ Cardinality(AnswersTo(r)') + Turns(r)' <= 1 + faults'
<1>1. /\ IsFiniteSet(AnswersTo(r)) /\ IsFiniteSet(Answering(r))
      /\ Cardinality(AnswersTo(r)) + Turns(r) <= 1 + faults
  BY DEF AnswersPaidFor
<1>2. Turns(r) \in Nat /\ Turns(r)' \in Nat
  BY <1>1, TurnsAreNatural, FS_CardinalityType DEF Turns
<1>3. faults \in Nat /\ faults' \in Nat
  BY CostAssumption DEF TypeOK
<1>4. Cardinality(AnswersTo(r)) \in Nat
  BY <1>1, FS_CardinalityType
<1>5. CASE AnswersTo(r)' = AnswersTo(r)
  BY <1>1, <1>2, <1>3, <1>4, <1>5
<1>6. ASSUME NEW b, AnswersTo(r)' = AnswersTo(r) \cup {b},
             Turns(r)' + 1 <= Turns(r), faults' >= faults
      PROVE  /\ IsFiniteSet(AnswersTo(r)')
             /\ Cardinality(AnswersTo(r)') + Turns(r)' <= 1 + faults'
  <2>1. /\ IsFiniteSet(AnswersTo(r)')
        /\ \/ Cardinality(AnswersTo(r)') = Cardinality(AnswersTo(r))
           \/ Cardinality(AnswersTo(r)') = Cardinality(AnswersTo(r)) + 1
    BY <1>1, <1>6, FS_AddElement
  <2>2. QED
    BY <1>1, <1>2, <1>3, <1>4, <1>6, <2>1
<1>7. QED
  BY <1>5, <1>6

-----------------------------------------------------------------------------
(* One lemma per action.  TypeOK' is TypeCorrectness.                       *)

LEMMA InitInv == Init /\ TypeOK => IInv
<1> SUFFICES ASSUME Init, TypeOK PROVE IInv
  OBVIOUS
<1>1. /\ requests.msgs = {} /\ requests.recent = {} /\ requests.held = {}
      /\ responses.recent = {}
      /\ \A i \in Invocations : todo[i] = {} /\ receipts[i] = {}
      /\ faults = 0
  BY DEF Init, EmptyQueue, Consumer!Init, Consumer!EmptyQueue
<1>2. OneMessagePerRequest /\ OneHandle /\ RemovedIsAnswered /\ BatchesArePrefixes
  BY <1>1, WaitingElements DEF OneMessagePerRequest, OneHandle, RemovedIsAnswered, BatchesArePrefixes
<1>3. RequestsAccounted /\ FirstAnswersInOrder
  BY <1>1 DEF RequestsAccounted, FirstAnswersInOrder
<1>4. ASSUME NEW r \in Posted
      PROVE  /\ IsFiniteSet(AnswersTo(r)) /\ IsFiniteSet(Answering(r))
             /\ Cardinality(AnswersTo(r)) + Turns(r) <= 1 + faults
  <2>1. AnswersTo(r) = {} /\ Answering(r) = {}
    BY <1>1 DEF AnswersTo, Answering
  <2>2. QED
    BY <1>1, <2>1, FS_EmptySet DEF Turns
<1>5. QED
  BY <1>2, <1>3, <1>4 DEF IInv, AnswersPaidFor

\* GETs change nothing that IInv speaks of but their own variables.
LEMMA NothingMoves ==
  ASSUME IInv, TypeOK', UNCHANGED functionVars, responses'.recent = responses.recent
  PROVE  IInv'
<1> USE DEF IInv, functionVars
<1>1. \A r : AnswersTo(r)' = AnswersTo(r)
  BY DEF AnswersTo
<1>2. Waiting' = Waiting
  BY DEF Waiting
<1>3. OneMessagePerRequest' /\ OneHandle' /\ RemovedIsAnswered' /\ BatchesArePrefixes'
  BY <1>1, <1>2 DEF OneMessagePerRequest, OneHandle, RemovedIsAnswered, BatchesArePrefixes
<1>4. RequestsAccounted' /\ FirstAnswersInOrder'
  BY <1>1 DEF RequestsAccounted, FirstAnswersInOrder, WasDropped
<1>5. \A r : Turns(r)' = Turns(r) /\ Answering(r)' = Answering(r)
  BY DEF Turns, Answering, Receivable
<1>6. AnswersPaidFor'
  BY <1>1, <1>5 DEF AnswersPaidFor
<1>7. QED
  BY <1>3, <1>4, <1>6

LEMMA PostInv ==
  ASSUME IInv, TypeOK', NEW r \in Posted, Post(r)
  PROVE  IInv'
<1> USE DEF IInv
<1>1. /\ requests' = Send(requests, RequestGroup, r)
      /\ UNCHANGED <<todo, receipts, responses, dropped, faults>>
  BY DEF Post
<1>2. CASE r \in requests.recent
  BY <1>1, <1>2, SendDuplicate, NothingMoves DEF functionVars
<1>3. CASE r \notin requests.recent
  <2> DEFINE new == [n |-> requests.next, group |-> RequestGroup, body |-> r]
  <2>1. /\ requests'.msgs = requests.msgs \cup {new}
        /\ requests'.held = requests.held
        /\ requests'.recent = requests.recent \cup {r}
        /\ requests'.next = requests.next + 1
    BY <1>1, <1>3, SendNew, TypesAtHand
  <2>2. new.n = requests.next /\ new.body = r
    OBVIOUS
  <2> HIDE DEF new
  <2>3. \A x : AnswersTo(x)' = AnswersTo(x)
    BY <1>1 DEF AnswersTo
  <2>4. AnswersTo(r) = {}
    BY <1>3 DEF AnswersTo, OneMessagePerRequest
  <2>5. \A x \in Waiting : x.n \in Nat /\ x.n < requests.next /\ x.body # r
    BY <1>3, TypesAtHand, WaitingElements DEF OneMessagePerRequest
  <2>6. \A x : x \in Waiting' <=> x \in Waiting \/ x = new
    BY <1>1, <2>1, WaitingElements, WaitingElementsNext
  <2>7. OneMessagePerRequest'
    <3>1. \A x, y \in Waiting' : x.body = y.body => x = y
      BY <2>2, <2>5, <2>6 DEF OneMessagePerRequest
    <3>2. \A x \in Waiting' : x.body \in requests'.recent /\ x.n < requests'.next
      BY <2>1, <2>2, <2>5, <2>6, TypesAtHand DEF OneMessagePerRequest
    <3>3. \A b \in responses'.recent : b.request \in requests'.recent
      BY <1>1, <2>1 DEF OneMessagePerRequest
    <3>4. QED
      BY <3>1, <3>2, <3>3 DEF OneMessagePerRequest
  <2>8. OneHandle' /\ RemovedIsAnswered'
    BY <1>1, <2>1, <2>3 DEF OneHandle, RemovedIsAnswered
  <2>9. BatchesArePrefixes'
    <3>1. \A i \in Invocations : \A x \in todo[i] : ~(new.n < x.n)
      BY <2>2, <2>5, WaitingElements, TypesAtHand
    <3>2. QED
      BY <1>1, <2>1, <2>3, <3>1 DEF BatchesArePrefixes
  <2>10. RequestsAccounted'
    BY <1>1, <2>1, <2>2, <2>3 DEF RequestsAccounted, WasDropped
  <2>11. FirstAnswersInOrder'
    <3>1. ASSUME NEW m \in requests'.msgs, NEW x \in requests'.msgs, m.n < x.n,
                 AnswersTo(x.body) # {}
          PROVE  AnswersTo(m.body) # {}
      <4>1. x \in requests.msgs
        BY <2>1, <2>2, <2>4, <3>1
      <4>2. m \in requests.msgs
        BY <2>1, <2>2, <2>5, <3>1, <4>1, WaitingElements, TypesAtHand
      <4>3. QED
        BY <3>1, <4>1, <4>2 DEF FirstAnswersInOrder
    <3>2. QED
      BY <2>3, <3>1 DEF FirstAnswersInOrder
  <2>12. AnswersPaidFor'
    <3>1. ASSUME NEW z \in Posted
          PROVE  IsFiniteSet(Answering(z)') /\ Turns(z)' <= Turns(z)
      <4>1. Answering(z)' = Answering(z)
        BY <1>1 DEF Answering
      <4>2. CASE z = r
        <5>1. Receivable(z)
          BY <1>3, <4>2, ReceiptsAreStored DEF Receivable
        <5>2. QED
          BY <4>1, <5>1, TurnsDoNotGrow DEF AnswersPaidFor
      <4>3. CASE z # r
        <5>1. Receivable(z)' => Receivable(z)
          BY <1>1, <2>1, <2>2, <4>3 DEF Receivable
        <5>2. QED
          BY <4>1, <5>1, TurnsDoNotGrow DEF AnswersPaidFor
      <4>4. QED
        BY <4>2, <4>3
    <3>2. faults' >= faults
      BY <1>1, TypesAtHand
    <3>3. QED
      BY <2>3, <3>1, <3>2, BudgetKept DEF AnswersPaidFor
  <2>13. QED
    BY <2>7, <2>8, <2>9, <2>10, <2>11, <2>12
<1>4. QED
  BY <1>2, <1>3

LEMMA ReceiveInv ==
  ASSUME IInv, TypeOK', NEW i \in Invocations, Receive(i)
  PROVE  IInv'
<1> USE DEF IInv
<1>1. PICK S \in Batches(requests, MaxBatch) :
        /\ requests' = Take(requests, S)
        /\ todo' = [todo EXCEPT ![i] = S]
        /\ receipts' = [receipts EXCEPT ![i] = S]
        /\ UNCHANGED <<responses, dropped, faults>>
  BY DEF Receive
<1>2. /\ S \subseteq requests.msgs
      /\ S \cap requests.held = {}
      /\ \A m \in S, x \in requests.msgs : x.n < m.n => x \in S
  BY BatchesAreStored, BatchesAreOldest, TypesAtHand
<1>3. /\ requests'.msgs = requests.msgs
      /\ requests'.held = requests.held \cup S
      /\ requests'.recent = requests.recent
      /\ requests'.next = requests.next
  BY <1>1, <1>2, TakeFields, TypesAtHand
<1>4. /\ todo[i] = {} /\ receipts[i] = {}
      /\ todo'[i] = S /\ receipts'[i] = S
      /\ \A j \in Invocations \ {i} : todo'[j] = todo[j] /\ receipts'[j] = receipts[j]
  BY <1>1 DEF TypeOK, Receive, Idle
<1>5. \A x : AnswersTo(x)' = AnswersTo(x)
  BY <1>1 DEF AnswersTo
<1>6. \A x : x \in Waiting' => x \in Waiting
  BY <1>2, <1>3, <1>4, WaitingElements, WaitingElementsNext
<1>7. OneMessagePerRequest'
  BY <1>1, <1>3, <1>6 DEF OneMessagePerRequest
<1>8. OneHandle'
  BY <1>2, <1>3, <1>4 DEF OneHandle
<1>9. RemovedIsAnswered' /\ BatchesArePrefixes'
  BY <1>2, <1>3, <1>4, <1>5 DEF RemovedIsAnswered, BatchesArePrefixes
<1>10. RequestsAccounted' /\ FirstAnswersInOrder'
  BY <1>1, <1>3, <1>5 DEF RequestsAccounted, FirstAnswersInOrder, WasDropped
<1>11. AnswersPaidFor'
  <2>1. ASSUME NEW r \in Posted
        PROVE  IsFiniteSet(Answering(r)') /\ Turns(r)' <= Turns(r)
    <3>1. IsFiniteSet(Answering(r))
      BY DEF AnswersPaidFor
    <3>2. CASE \E m \in S : m.body = r
      <4>1. PICK m \in S : m.body = r
        BY <3>2
      <4>2. Answering(r)' = Answering(r) \cup {i}
        BY <1>4, <3>2 DEF Answering
      <4>3. \A j \in Invocations : \A x \in receipts[j] : x.body # r
        <5> SUFFICES ASSUME NEW j \in Invocations, NEW x \in receipts[j], x.body = r PROVE FALSE
          OBVIOUS
        <5>1. x = m
          BY <1>2, <4>1, ReceiptsAreStored, WaitingElements DEF OneMessagePerRequest
        <5>2. QED
          BY <1>2, <5>1 DEF OneHandle
      <4>4. Receivable(r) /\ ~Receivable(r)'
        BY <1>2, <1>4, <4>1, <4>3 DEF Receivable
      <4>5. QED
        BY <3>1, <4>2, <4>4, TurnStarts
    <3>3. CASE ~\E m \in S : m.body = r
      <4>1. Answering(r)' = Answering(r)
        BY <1>4, <3>3 DEF Answering
      <4>2. Receivable(r)' => Receivable(r)
        BY <1>3, <1>4 DEF Receivable
      <4>3. QED
        BY <3>1, <4>1, <4>2, TurnsDoNotGrow
    <3>4. QED
      BY <3>2, <3>3
  <2>2. faults' >= faults
    BY <1>1, TypesAtHand
  <2>3. QED
    BY <1>5, <2>1, <2>2, BudgetKept DEF AnswersPaidFor
<1>12. QED
  BY <1>7, <1>8, <1>9, <1>10, <1>11

-----------------------------------------------------------------------------
(* The loop and the ends of an invocation.                                  *)

\* What a step may do to the answers: none goes, and a request gets one only as
\* the oldest one that invocation i has to answer.
AnswersInTurn(i) ==
  /\ \A r : AnswersTo(r) \subseteq AnswersTo(r)'
  /\ \A r : AnswersTo(r)' # {} =>
       AnswersTo(r) # {} \/ \E m \in Oldest(todo[i]) : m.body = r

\* Answers in turn are answers in order.
LEMMA OrderKept ==
  ASSUME IInv, NEW i \in Invocations, AnswersInTurn(i), requests'.msgs \subseteq requests.msgs
  PROVE  FirstAnswersInOrder'
<1> USE DEF IInv
<1>1. ASSUME NEW m \in requests.msgs, NEW x \in requests.msgs, m.n < x.n,
             AnswersTo(x.body)' # {}
      PROVE  AnswersTo(m.body)' # {}
  <2>1. CASE AnswersTo(x.body) # {}
    BY <1>1, <2>1 DEF FirstAnswersInOrder, AnswersInTurn
  <2>2. ASSUME NEW y \in Oldest(todo[i]), y.body = x.body
        PROVE  AnswersTo(m.body)' # {}
    <3>1. y \in todo[i] /\ x = y
      BY <2>2, WaitingElements DEF OneMessagePerRequest, Oldest
    <3>2. m \notin todo[i]
      BY <1>1, <2>2, <3>1, TypesAtHand DEF Oldest
    <3>3. AnswersTo(m.body) # {}
      BY <1>1, <3>1, <3>2 DEF BatchesArePrefixes
    <3>4. QED
      BY <3>3 DEF AnswersInTurn
  <2>3. QED
    BY <1>1, <2>1, <2>2 DEF AnswersInTurn
<1>2. QED
  BY <1>1 DEF FirstAnswersInOrder

\* The response to the oldest message of an invocation is an answer in turn.
LEMMA ResponseInTurn ==
  ASSUME TypeOK, NEW i \in Invocations, NEW m \in Oldest(todo[i]), NEW c \in Codes(m.body),
         responses' = Send(responses, ResponseGroup, [request |-> m.body, code |-> c])
  PROVE  /\ AnswersInTurn(i)
         /\ AnswersTo(m.body)' # {}
         /\ \E b : AnswersTo(m.body)' = AnswersTo(m.body) \cup {b}
         /\ \A x : x # m.body => AnswersTo(x)' = AnswersTo(x)
         /\ \A b \in responses'.recent : b \in responses.recent \/ b.request = m.body
         /\ m \in todo[i] /\ m \in Request /\ m.body \in Posted
<1>1. m \in todo[i] /\ m \in Request /\ m.body \in Posted
  BY TypesAtHand DEF Oldest
<1>2. /\ AnswersTo(m.body)' = AnswersTo(m.body) \cup {[request |-> m.body, code |-> c]}
      /\ \A x : x # m.body => AnswersTo(x)' = AnswersTo(x)
      /\ \A b \in responses'.recent : b \in responses.recent \/ b.request = m.body
  BY <1>1, ResponseAddsAnswer
<1>3. AnswersInTurn(i)
  BY <1>2 DEF AnswersInTurn
<1>4. QED
  BY <1>1, <1>2, <1>3

LEMMA NoAnswers ==
  ASSUME NEW i, responses'.recent = responses.recent
  PROVE  AnswersInTurn(i) /\ \A x : AnswersTo(x)' = AnswersTo(x)
  BY DEF AnswersInTurn, AnswersTo

\* Nobody but i can be answering what i answers: a message of the same body
\* is the same message.
LEMMA StopsAnswering ==
  ASSUME IInv, NEW i \in Invocations, NEW m \in todo[i],
         todo'[i] \subseteq todo[i] \ {m},
         \A j \in Invocations \ {i} : todo'[j] = todo[j]
  PROVE  /\ i \in Answering(m.body)
         /\ Answering(m.body)' \subseteq Answering(m.body) \ {i}
<1>1. \A x \in todo'[i] : x.body # m.body
  BY WaitingElements DEF IInv, OneMessagePerRequest
<1>2. QED
  BY <1>1 DEF Answering

LEMMA AnswerInv ==
  ASSUME IInv, TypeOK', NEW i \in Invocations, Answer(i)
  PROVE  IInv'
<1> USE DEF IInv
<1>1. PICK m \in Oldest(todo[i]) : \E c \in Codes(m.body) :
        /\ todo' = [todo EXCEPT ![i] = @ \ {m}]
        /\ responses' = Send(responses, ResponseGroup, [request |-> m.body, code |-> c])
        /\ UNCHANGED <<requests, receipts, dropped, faults>>
  BY DEF Answer
<1>2. /\ AnswersInTurn(i)
      /\ AnswersTo(m.body)' # {}
      /\ \E b : AnswersTo(m.body)' = AnswersTo(m.body) \cup {b}
      /\ \A x : x # m.body => AnswersTo(x)' = AnswersTo(x)
      /\ \A b \in responses'.recent : b \in responses.recent \/ b.request = m.body
      /\ m \in todo[i] /\ m \in Request /\ m.body \in Posted
  BY <1>1, ResponseInTurn
<1>3. /\ todo'[i] = todo[i] \ {m}
      /\ \A j \in Invocations \ {i} : todo'[j] = todo[j]
  BY <1>1 DEF TypeOK
<1>4. \A x : x \in Waiting' => x \in Waiting
  BY <1>1, <1>3, WaitingElements, WaitingElementsNext
<1>5. OneMessagePerRequest'
  BY <1>1, <1>2, <1>4, WaitingElements DEF OneMessagePerRequest
<1>6. OneHandle'
  BY <1>1 DEF OneHandle
<1>7. RemovedIsAnswered' /\ BatchesArePrefixes'
  BY <1>1, <1>2, <1>3 DEF RemovedIsAnswered, BatchesArePrefixes, AnswersInTurn
<1>8. RequestsAccounted'
  BY <1>1, <1>2 DEF RequestsAccounted, WasDropped, AnswersInTurn
<1>9. FirstAnswersInOrder'
  BY <1>1, <1>2, OrderKept
<1>10. AnswersPaidFor'
  <2>1. \A r : Receivable(r)' = Receivable(r)
    BY <1>1 DEF Receivable
  <2>2. faults' >= faults
    BY <1>1, TypesAtHand
  <2>3. ASSUME NEW r \in Posted, r # m.body
        PROVE  IsFiniteSet(Answering(r)') /\ Turns(r)' <= Turns(r)
    <3>1. Answering(r)' \subseteq Answering(r)
      BY <1>3 DEF Answering
    <3>2. QED
      BY <2>1, <3>1, TurnsDoNotGrow DEF AnswersPaidFor
  <2>4. IsFiniteSet(Answering(m.body)') /\ Turns(m.body)' + 1 <= Turns(m.body)
    <3>1. /\ i \in Answering(m.body)
          /\ Answering(m.body)' \subseteq Answering(m.body) \ {i}
      BY <1>2, <1>3, StopsAnswering
    <3>2. QED
      BY <1>2, <2>1, <3>1, TurnEnds DEF AnswersPaidFor
  <2>5. ASSUME NEW r \in Posted
        PROVE  /\ IsFiniteSet(AnswersTo(r)') /\ IsFiniteSet(Answering(r)')
               /\ Cardinality(AnswersTo(r)') + Turns(r)' <= 1 + faults'
    <3>1. CASE r = m.body
      BY <1>2, <2>2, <2>4, <3>1, BudgetKept
    <3>2. CASE r # m.body
      BY <1>2, <2>2, <2>3, <3>2, BudgetKept
    <3>3. QED
      BY <3>1, <3>2
  <2>6. QED
    BY <2>5 DEF AnswersPaidFor
<1>11. QED
  BY <1>5, <1>6, <1>7, <1>8, <1>9, <1>10

\* The removal of a batch each message of which is answered or counted as
\* dropped; what it answers on the way is paid for with the turn of i.
LEMMA RemoveBatchInv ==
  ASSUME IInv, TypeOK', NEW i \in Invocations, RemoveBatch(i), AnswersInTurn(i),
         dropped \subseteq dropped',
         \A m \in receipts[i] : AnswersTo(m.body)' # {} \/ m \in dropped',
         \A b \in responses'.recent : b.request \in requests.recent,
         faults' >= faults,
         \/ \A r : AnswersTo(r)' = AnswersTo(r)
         \/ \E m \in todo[i] :
              /\ \E b : AnswersTo(m.body)' = AnswersTo(m.body) \cup {b}
              /\ \A r : r # m.body => AnswersTo(r)' = AnswersTo(r)
  PROVE  IInv'
<1> USE DEF IInv
<1>1. /\ requests'.msgs = requests.msgs \ receipts[i]
      /\ requests'.held = requests.held \ receipts[i]
      /\ requests'.recent = requests.recent
      /\ requests'.next = requests.next
      /\ todo'[i] = {} /\ receipts'[i] = {}
      /\ \A j \in Invocations \ {i} : todo'[j] = todo[j] /\ receipts'[j] = receipts[j]
  BY RemoveBatchTypes, TypesAtHand
<1>2. \A x : x \in Waiting' => x \in Waiting
  BY <1>1, WaitingElements, WaitingElementsNext
<1>3. OneMessagePerRequest'
  BY <1>1, <1>2 DEF OneMessagePerRequest
<1>4. OneHandle'
  BY <1>1 DEF OneHandle
<1>5. RemovedIsAnswered' /\ BatchesArePrefixes'
  BY <1>1 DEF RemovedIsAnswered, BatchesArePrefixes, AnswersInTurn
<1>6. RequestsAccounted'
  <2>1. ASSUME NEW r \in requests.recent
        PROVE  \/ \E m \in requests'.msgs : m.body = r
               \/ AnswersTo(r)' # {}
               \/ \E m \in dropped' : m.body = r
    BY <1>1, <2>1 DEF RequestsAccounted, WasDropped, AnswersInTurn
  <2>2. QED
    BY <1>1, <2>1 DEF RequestsAccounted, WasDropped
<1>7. FirstAnswersInOrder'
  BY <1>1, OrderKept
<1>8. AnswersPaidFor'
  <2>1. ASSUME NEW r \in Posted
        PROVE  Receivable(r)' => Receivable(r)
    <3>1. SUFFICES ASSUME Receivable(r)', ~Receivable(r) PROVE FALSE
      OBVIOUS
    <3>2. PICK j \in Invocations : \E y \in receipts[j] : y.body = r
      BY <1>1, <3>1 DEF Receivable
    <3>3. PICK y \in receipts[i] : y.body = r
      BY <1>1, <3>1, <3>2 DEF Receivable
    <3>4. y \in requests.msgs /\ r \in requests.recent
      BY <3>3, ReceiptsAreStored
    <3>5. PICK m \in requests'.msgs : m.body = r
      BY <1>1, <3>1, <3>4 DEF Receivable
    <3>6. m = y
      BY <1>1, <3>3, <3>4, <3>5, WaitingElements DEF OneMessagePerRequest
    <3>7. QED
      BY <1>1, <3>3, <3>5, <3>6
  <2>2. ASSUME NEW r \in Posted
        PROVE  IsFiniteSet(Answering(r)') /\ Turns(r)' <= Turns(r)
    <3>1. Answering(r)' \subseteq Answering(r)
      BY <1>1 DEF Answering
    <3>2. QED
      BY <2>1, <3>1, TurnsDoNotGrow DEF AnswersPaidFor
  <2>3. ASSUME NEW r \in Posted, AnswersTo(r)' # AnswersTo(r)
        PROVE  /\ \E b : AnswersTo(r)' = AnswersTo(r) \cup {b}
               /\ Turns(r)' + 1 <= Turns(r)
    <3>1. PICK m \in todo[i] : m.body = r /\ \E b : AnswersTo(r)' = AnswersTo(r) \cup {b}
      BY <2>3
    <3>2. i \in Answering(r) /\ Answering(r)' \subseteq Answering(r) \ {i}
      BY <1>1, <3>1, StopsAnswering
    <3>3. QED
      BY <2>1, <3>1, <3>2, TurnEnds DEF AnswersPaidFor
  <2>4. QED
    BY <2>2, <2>3, BudgetKept DEF AnswersPaidFor
<1>9. QED
  BY <1>3, <1>4, <1>5, <1>6, <1>7, <1>8

LEMMA FinishInv ==
  ASSUME IInv, TypeOK', NEW i \in Invocations, Finish(i)
  PROVE  IInv'
<1>1. /\ RemoveBatch(i) /\ todo[i] = {}
      /\ UNCHANGED <<responses, dropped, faults>>
  BY DEF Finish
<1>2. AnswersInTurn(i) /\ \A r : AnswersTo(r)' = AnswersTo(r)
  BY <1>1, NoAnswers
<1>3. \A m \in receipts[i] : AnswersTo(m.body)' # {}
  BY <1>1, <1>2 DEF IInv, RemovedIsAnswered
<1>4. faults' >= faults
  BY <1>1, TypesAtHand DEF IInv
<1>5. \A b \in responses'.recent : b.request \in requests.recent
  BY <1>1 DEF IInv, OneMessagePerRequest
<1>6. QED
  BY <1>1, <1>2, <1>3, <1>4, <1>5, RemoveBatchInv

LEMMA SwallowInv ==
  ASSUME IInv, TypeOK', NEW i \in Invocations, Swallow(i)
  PROVE  IInv'
<1>1. /\ RemoveBatch(i)
      /\ dropped' = dropped \cup (todo[i] \cap receipts[i])
      /\ faults' = faults + 1
      /\ UNCHANGED responses
  BY DEF Swallow, Fault
<1>2. AnswersInTurn(i) /\ \A r : AnswersTo(r)' = AnswersTo(r)
  BY <1>1, NoAnswers
<1>3. \A m \in receipts[i] : AnswersTo(m.body)' # {} \/ m \in dropped'
  BY <1>1, <1>2 DEF IInv, RemovedIsAnswered
<1>4. faults' >= faults
  BY <1>1, TypesAtHand DEF IInv
<1>5. \A b \in responses'.recent : b.request \in requests.recent
  BY <1>1 DEF IInv, OneMessagePerRequest
<1>6. QED
  BY <1>1, <1>2, <1>3, <1>4, <1>5, RemoveBatchInv

LEMMA SendFailsInv ==
  ASSUME IInv, TypeOK', NEW i \in Invocations, SendFails(i)
  PROVE  IInv'
<1>1. PICK m \in Oldest(todo[i]) : \E c \in Codes(m.body) :
        /\ responses' = Send(responses, ResponseGroup, [request |-> m.body, code |-> c])
        /\ dropped' = dropped \cup ((todo[i] \ {m}) \cap receipts[i])
  BY DEF SendFails
<1>2. RemoveBatch(i) /\ faults' = faults + 1
  BY DEF SendFails, Fault
<1>3. /\ AnswersInTurn(i)
      /\ AnswersTo(m.body)' # {}
      /\ \E b : AnswersTo(m.body)' = AnswersTo(m.body) \cup {b}
      /\ \A x : x # m.body => AnswersTo(x)' = AnswersTo(x)
      /\ \A b \in responses'.recent : b \in responses.recent \/ b.request = m.body
      /\ m \in todo[i] /\ m \in Request /\ m.body \in Posted
  BY <1>1, ResponseInTurn DEF IInv
<1>4. ASSUME NEW x \in receipts[i]
      PROVE  AnswersTo(x.body)' # {} \/ x \in dropped'
  <2>1. CASE x \in todo[i]
    BY <1>1, <1>3, <2>1
  <2>2. CASE x \notin todo[i]
    BY <1>3, <2>2 DEF IInv, RemovedIsAnswered, AnswersInTurn
  <2>3. QED
    BY <2>1, <2>2
<1>5. faults' >= faults
  BY <1>2, TypesAtHand DEF IInv
<1>6. \A b \in responses'.recent : b.request \in requests.recent
  BY <1>3, WaitingElements DEF IInv, OneMessagePerRequest
<1>7. dropped \subseteq dropped'
  BY <1>1
<1>8. QED
  BY <1>2, <1>3, <1>4, <1>5, <1>6, <1>7, RemoveBatchInv

\* A crash, or a visibility timeout: nothing is answered, nothing is removed, and
\* a fault is counted if handles of some batch are lost.
LEMMA HandlesGoInv ==
  ASSUME IInv, TypeOK',
         requests'.msgs = requests.msgs, requests'.recent = requests.recent,
         requests'.next = requests.next,
         UNCHANGED <<responses, dropped>>,
         \A i \in Invocations : todo'[i] = todo[i] \/ todo'[i] = {},
         OneHandle', RemovedIsAnswered',
         \/ faults' = faults + 1
         \/ faults' = faults /\ \A i \in Invocations : receipts[i] = {}
  PROVE  IInv'
<1> USE DEF IInv
<1>1. \A x : AnswersTo(x)' = AnswersTo(x)
  BY DEF AnswersTo
<1>2. \A x : x \in Waiting' => x \in Waiting
  BY WaitingElements, WaitingElementsNext
<1>3. OneMessagePerRequest'
  BY <1>2 DEF OneMessagePerRequest
<1>4. BatchesArePrefixes'
  BY <1>1 DEF BatchesArePrefixes
<1>5. RequestsAccounted' /\ FirstAnswersInOrder'
  BY <1>1 DEF RequestsAccounted, FirstAnswersInOrder, WasDropped
<1>6. AnswersPaidFor'
  <2>1. ASSUME NEW r \in Posted
        PROVE  /\ IsFiniteSet(Answering(r)')
               /\ \/ faults' = faults + 1 /\ Turns(r)' <= Turns(r) + 1
                  \/ faults' >= faults /\ Turns(r)' <= Turns(r)
    <3>1. Answering(r)' \subseteq Answering(r) /\ IsFiniteSet(Answering(r))
      BY DEF Answering, AnswersPaidFor
    <3>2. CASE faults' = faults + 1
      BY <3>1, <3>2, TurnComesBack
    <3>3. CASE faults' = faults /\ \A i \in Invocations : receipts[i] = {}
      <4>1. Receivable(r)' => Receivable(r)
        BY <3>3 DEF Receivable
      <4>2. QED
        BY <3>1, <3>3, <4>1, TurnsDoNotGrow, TypesAtHand
    <3>4. QED
      BY <3>2, <3>3
  <2>2. QED
    BY <1>1, <2>1, BudgetKept DEF AnswersPaidFor
<1>7. QED
  BY <1>3, <1>4, <1>5, <1>6

LEMMA CrashInv ==
  ASSUME IInv, TypeOK', NEW i \in Invocations, Crash(i)
  PROVE  IInv'
<1> USE DEF IInv
<1>1. /\ todo' = [todo EXCEPT ![i] = {}]
      /\ receipts' = [receipts EXCEPT ![i] = {}]
      /\ faults' = faults + 1
      /\ UNCHANGED <<requests, responses, dropped>>
  BY DEF Crash, Fault
<1>2. /\ todo'[i] = {} /\ receipts'[i] = {}
      /\ \A j \in Invocations \ {i} : todo'[j] = todo[j] /\ receipts'[j] = receipts[j]
  BY <1>1 DEF TypeOK
<1>3. OneHandle' /\ RemovedIsAnswered'
  BY <1>1, <1>2 DEF OneHandle, RemovedIsAnswered, AnswersTo
<1>4. QED
  BY <1>1, <1>2, <1>3, HandlesGoInv

LEMMA VisibilityTimeoutInv ==
  ASSUME IInv, TypeOK', VisibilityTimeout
  PROVE  IInv'
<1> USE DEF IInv
<1>1. /\ requests' = Release(requests, requests.held)
      /\ receipts' = [i \in Invocations |-> {}]
      /\ UNCHANGED <<todo, responses, dropped>>
      /\ \/ faults' = faults + 1
         \/ faults' = faults /\ \A i \in Invocations : receipts[i] = {}
  BY DEF VisibilityTimeout, Fault
<1>2. /\ requests'.msgs = requests.msgs
      /\ requests'.recent = requests.recent
      /\ requests'.next = requests.next
  BY <1>1, ReleaseFields, TypesAtHand
<1>3. OneHandle' /\ RemovedIsAnswered'
  BY <1>1 DEF OneHandle, RemovedIsAnswered
<1>4. QED
  BY <1>1, <1>2, <1>3, HandlesGoInv

\* No GET sends anything.
LEMMA PollInv ==
  ASSUME IInv, TypeOK', Poll \/ ResponsesComeBack
  PROVE  IInv'
<1>1. /\ UNCHANGED functionVars
      /\ \/ responses' = responses
         \/ \E S : responses' \in {Take(responses, S), Delete(responses, S), Release(responses, S)}
  BY SameOperators
     DEF Poll, ResponsesComeBack, Consumer!Receive, Consumer!Loop, Consumer!Consume,
         Consumer!DeleteRefused, Consumer!Abort, Consumer!Respond, Consumer!VisibilityTimeout
<1>2. responses'.recent = responses.recent
  BY <1>1, TypesAtHand DEF IInv, QueueOf, Take, Delete, Release
<1>3. QED
  BY <1>1, <1>2, NothingMoves

LEMMA StepInv == IInv /\ TypeOK' /\ [Next]_vars => IInv'
<1> SUFFICES ASSUME IInv, TypeOK', [Next]_vars PROVE IInv'
  OBVIOUS
<1>1. CASE \E r \in Posted : Post(r)
  BY <1>1, PostInv
<1>2. ASSUME NEW i \in Invocations,
             Receive(i) \/ Answer(i) \/ Finish(i) \/ Swallow(i) \/ SendFails(i) \/ Crash(i)
      PROVE  IInv'
  BY <1>2, ReceiveInv, AnswerInv, FinishInv, SwallowInv, SendFailsInv, CrashInv
<1>3. CASE VisibilityTimeout
  BY <1>3, VisibilityTimeoutInv
<1>4. CASE Poll \/ ResponsesComeBack
  BY <1>4, PollInv
<1>5. CASE UNCHANGED vars
  BY <1>5, NothingMoves DEF vars
<1>6. QED
  BY <1>1, <1>2, <1>3, <1>4, <1>5 DEF Next

-----------------------------------------------------------------------------
(* The safety properties.                                                   *)

\* IInv is an invariant of every execution.
THEOREM Invariance == Spec => []IInv
  BY InitInv, StepInv, TypeCorrectness, PTL DEF Spec

\* Crashes and batches handed out twice remove no request without an answer: what
\* left its queue was answered or dropped with an error that the middleware
\* swallowed.
THEOREM RequestsAreAccounted == Spec => []RequestsAccounted
<1>1. IInv => RequestsAccounted
  BY DEF IInv
<1>2. QED
  BY <1>1, Invariance, PTL

\* Overlapping invocations answer no request before an older one that is still
\* on the queue.
THEOREM AnswersAreInOrder == Spec => []FirstAnswersInOrder
<1>1. IInv => FirstAnswersInOrder
  BY DEF IInv
<1>2. QED
  BY <1>1, Invariance, PTL

\* A request has one answer, and one more at most for each crash, failed send or
\* slow invocation.
THEOREM AnswersArePaidFor == Spec => []AnswersNeedFaults
<1>1. ASSUME IInv PROVE AnswersNeedFaults
  <2>1. ASSUME NEW r \in Posted
        PROVE  Cardinality(AnswersTo(r)) <= 1 + faults
    <3>1. /\ IsFiniteSet(AnswersTo(r)) /\ IsFiniteSet(Answering(r))
          /\ Cardinality(AnswersTo(r)) + Turns(r) <= 1 + faults
      BY <1>1 DEF IInv, AnswersPaidFor
    <3>2. Turns(r) \in Nat /\ Cardinality(AnswersTo(r)) \in Nat /\ faults \in Nat
      BY <1>1, <3>1, TurnsAreNatural, FS_CardinalityType, TypesAtHand DEF IInv
    <3>3. QED
      BY <3>1, <3>2
  <2>2. QED
    BY <2>1 DEF AnswersNeedFaults
<1>2. QED
  BY <1>1, Invariance, PTL
==============================================================================
