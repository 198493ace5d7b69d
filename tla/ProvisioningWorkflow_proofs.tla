---------------------- MODULE ProvisioningWorkflow_proofs ----------------------
(***************************************************************************)
(* Proofs about ProvisioningWorkflow, for every set of jobs and POSTs,     *)
(* every CSP answer and every number of retries and faults: the types,     *)
(* then the inductive invariant IInv by what a step does to the queues     *)
(* (nothing, a send, the end of the deduplication window), and the safety  *)
(* properties that follow from it.                                         *)
(***************************************************************************)
EXTENDS ProvisioningWorkflow, FifoQueue_proofs, FiniteSetTheorems

Bodies == [job: Jobs, response: Responses]

-----------------------------------------------------------------------------
(* What the step functions respond.                                         *)

\* Every answer of a CSP becomes a response, and the location of an environment
\* that is being created is the only one that is passed on.
LEMMA ResponseToAnswer ==
  ASSUME NEW op \in Operations, NEW answer \in Answers
  PROVE  /\ CspResponse(op, answer) \in Responses
         /\ CspResponse(op, answer).shape = "located" <=>
              CspResponse(op, answer).code = 202 /\ op = "ADD_ENVIRONMENT"
<1>1. /\ answer.status \in Statuses /\ answer.payload \in Payloads
  BY DEF Answers
<1>2. 202 \in Returned(op) <=> op = "ADD_ENVIRONMENT"
  BY DEF Returned, TaskOrderReturned
<1>3. CASE answer.status = 202 /\ answer.status \in Returned(op)
  <2>1. CspResponse(op, answer) = AsyncResponse(answer) /\ op = "ADD_ENVIRONMENT"
    BY <1>2, <1>3 DEF CspResponse
  <2>2. QED
    BY <1>1, <2>1 DEF AsyncResponse, Responses, Statuses, Shapes
<1>4. CASE ~(answer.status = 202 /\ answer.status \in Returned(op))
  <2> DEFINE shape == IF answer.status \in Returned(op) \/ answer.json THEN "object" ELSE "other"
  <2>1. CspResponse(op, answer) =
          [code |-> answer.status, shape |-> shape, payload |-> answer.payload]
    BY <1>4 DEF CspResponse
  <2>2. shape \in {"object", "other"}
    OBVIOUS
  <2> HIDE DEF shape
  <2>3. QED
    BY <1>1, <1>2, <1>4, <2>1, <2>2 DEF Responses, Shapes
<1>5. QED
  BY <1>3, <1>4

LEMMA RefusalsAndNothing ==
  /\ \A r : RefusedResponse(r) \in Responses \cup {NoResponse}
  /\ \A r : RefusedResponse(r).shape # "located" /\ RefusedResponse(r).code # 202
  /\ NoResponse.shape = "other" /\ NoResponse.code = 0
  /\ NoResponse \notin Responses
  BY DEF RefusedResponse, NoResponse, Responses, Statuses, Shapes

-----------------------------------------------------------------------------
(* Type correctness.                                                        *)

LEMMA TypesAtHand ==
  ASSUME TypeOK
  PROVE  /\ jobsQ \in QueueOf({MessageGroup}, Bodies)
         /\ asyncQ \in QueueOf({MessageGroup}, Bodies)
         /\ \A m \in jobsQ.msgs \cup asyncQ.msgs : m.body \in Bodies
         /\ faults \in Nat
         /\ \A e \in Executions :
              /\ JobOf[e] \in Jobs /\ Req(e) \in Requests
              /\ response[e] \in Responses \cup {NoResponse}
              /\ response[e] # NoResponse => Body(e) \in Bodies
              /\ at[e] \in States
         /\ sent \subseteq Executions
  BY WorkflowAssumption DEF TypeOK, Bodies, Body, Req, QueueOf, Messages

LEMMA FaultTypes == TypeOK /\ Fault => faults' \in 0..MaxFaults /\ faults' = faults + 1
  BY WorkflowAssumption DEF TypeOK, Fault

\* What a jump changes.
LEMMA GotoTypes ==
  ASSUME TypeOK, NEW e \in Executions, NEW state \in States, Goto(e, state)
  PROVE  /\ at' \in [Executions -> States] /\ tries' \in [Executions -> 0..MaxRetries]
         /\ at'[e] = state
         /\ \A x \in Executions \ {e} : at'[x] = at[x]
  BY WorkflowAssumption DEF TypeOK, Goto

LEMMA RetryTypes ==
  ASSUME TypeOK, NEW e \in Executions, tries[e] < MaxRetries,
         tries' = [tries EXCEPT ![e] = @ + 1]
  PROVE  tries' \in [Executions -> 0..MaxRetries]
<1>1. tries[e] + 1 \in 0..MaxRetries
  BY WorkflowAssumption DEF TypeOK
<1>2. QED
  BY <1>1 DEF TypeOK

\* Where a send leaves its execution's queue and the other one.
LEMMA SendResultTypes ==
  ASSUME TypeOK, NEW e \in Executions, SendResult(e)
  PROVE  /\ jobsQ' \in QueueOf({MessageGroup}, Bodies)
         /\ asyncQ' \in QueueOf({MessageGroup}, Bodies)
         /\ sent' \in SUBSET Executions
<1>1. Body(e) \in Bodies
  BY TypesAtHand DEF SendResult
<1>2. jobsQ' = jobsQ \/ jobsQ' = Send(jobsQ, MessageGroup, Body(e))
  BY DEF SendResult
<1>3. asyncQ' = asyncQ \/ asyncQ' = Send(asyncQ, MessageGroup, Body(e))
  BY DEF SendResult
<1>4. jobsQ' \in QueueOf({MessageGroup}, Bodies)
  BY <1>1, <1>2, SendAny, TypesAtHand
<1>5. asyncQ' \in QueueOf({MessageGroup}, Bodies)
  BY <1>1, <1>3, SendAny, TypesAtHand
<1>6. QED
  BY <1>4, <1>5 DEF SendResult, TypeOK

LEMMA InitTypes == Init => TypeOK
<1>1. EmptyQueue \in QueueOf({MessageGroup}, Bodies)
  BY DEF EmptyQueue, QueueOf
<1>2. QED
  BY <1>1, WorkflowAssumption DEF Init, TypeOK, States, Bodies

LEMMA PostTypes ==
  ASSUME TypeOK, NEW e \in Executions, Post(e)
  PROVE  TypeOK'
<1>1. CASE Accept(e)
  BY <1>1, GotoTypes DEF Accept, TypeOK, States
<1>2. CASE Reject(e)
  BY <1>2 DEF Reject, TypeOK
<1>3. CASE StartExecutionThrows(e)
  <2>1. at' \in [Executions -> States] /\ tries' \in [Executions -> 0..MaxRetries]
    BY <1>3, GotoTypes DEF StartExecutionThrows, TypeOK, States
  <2>2. QED
    BY <1>3, <2>1, FaultTypes DEF StartExecutionThrows, TypeOK
<1>4. QED
  BY <1>1, <1>2, <1>3 DEF Post

LEMMA InvokeRespondsTypes ==
  ASSUME TypeOK, NEW e \in Executions, InvokeResponds(e)
  PROVE  TypeOK'
<1>1. Req(e).op \in Operations
  BY TypesAtHand DEF Requests
<1>2. response' \in [Executions -> Responses \cup {NoResponse}]
  <2>1. PICK r \in Responses \cup {NoResponse} : response' = [response EXCEPT ![e] = r]
    BY <1>1, ResponseToAnswer, RefusalsAndNothing DEF InvokeResponds
  <2>2. QED
    BY <2>1 DEF TypeOK
<1>3. at' \in [Executions -> States] /\ tries' \in [Executions -> 0..MaxRetries]
  BY GotoTypes DEF InvokeResponds, States, Done
<1>4. QED
  BY <1>2, <1>3 DEF InvokeResponds, TypeOK

LEMMA RunTypes ==
  ASSUME TypeOK, NEW e \in Executions, Run(e)
  PROVE  TypeOK'
<1>1. CASE Start(e) \/ RouteResponse(e) \/ EnqueueMissing(e) \/ EnqueueInvalid(e)
  <2>1. at' \in [Executions -> States] /\ tries' \in [Executions -> 0..MaxRetries]
    BY <1>1, GotoTypes DEF Start, RouteResponse, EnqueueMissing, EnqueueInvalid, States, Done
  <2>2. QED
    BY <1>1, <2>1 DEF Start, RouteResponse, EnqueueMissing, EnqueueInvalid, TypeOK
<1>2. CASE InvokeResponds(e)
  BY <1>2, InvokeRespondsTypes
<1>3. CASE Enqueue(e)
  BY <1>3, GotoTypes, SendResultTypes DEF Enqueue, TypeOK, States, Done, Bodies
<1>4. QED
  BY <1>1, <1>2, <1>3 DEF Run

LEMMA DisturbTypes ==
  ASSUME TypeOK, NEW e \in Executions, Disturb(e)
  PROVE  TypeOK'
<1>1. /\ at' \in [Executions -> States] /\ tries' \in [Executions -> 0..MaxRetries]
  BY GotoTypes, RetryTypes
     DEF Disturb, InvokeThrows, InvokeRetries, InvokeCaught, EnqueueThrows, EnqueueRetries,
         EnqueueFails, ExecutionTimesOut, States, Done, TypeOK
<1>2. UNCHANGED <<request, reply, response>> /\ Fault
  BY DEF Disturb, InvokeThrows, InvokeRetries, InvokeCaught, EnqueueThrows, EnqueueRetries,
         EnqueueFails, ExecutionTimesOut, Interrupted, EnqueueInterrupted
<1>3. SendResult(e) \/ UNCHANGED <<jobsQ, asyncQ, sent>>
  BY DEF Disturb, InvokeThrows, InvokeRetries, InvokeCaught, EnqueueThrows, EnqueueRetries,
         EnqueueFails, ExecutionTimesOut, Interrupted, EnqueueInterrupted
<1>4. QED
  BY <1>1, <1>2, <1>3, SendResultTypes, FaultTypes DEF TypeOK, Bodies

\* The end of the deduplication window touches nothing but recent.
LEMMA DeduplicationFields ==
  ASSUME TypeOK, DeduplicationEnds
  PROVE  /\ jobsQ' \in QueueOf({MessageGroup}, Bodies)
         /\ asyncQ' \in QueueOf({MessageGroup}, Bodies)
         /\ jobsQ'.msgs = jobsQ.msgs /\ asyncQ'.msgs = asyncQ.msgs
         /\ jobsQ'.recent = jobsQ.recent \cap Retrying
         /\ asyncQ'.recent = asyncQ.recent \cap Retrying
<1>1. /\ jobsQ' = [jobsQ EXCEPT !.recent = @ \cap Retrying]
      /\ asyncQ' = [asyncQ EXCEPT !.recent = @ \cap Retrying]
  BY DEF DeduplicationEnds
<1>2. QED
  BY <1>1, TypesAtHand DEF QueueOf

LEMMA StepTypes == TypeOK /\ [Next]_vars => TypeOK'
<1> SUFFICES ASSUME TypeOK, [Next]_vars PROVE TypeOK'
  OBVIOUS
<1>1. CASE DeduplicationEnds
  BY <1>1, DeduplicationFields DEF DeduplicationEnds, TypeOK, Bodies
<1>2. CASE UNCHANGED vars
  BY <1>2 DEF vars, TypeOK
<1>3. QED
  BY <1>1, <1>2, PostTypes, RunTypes, DisturbTypes DEF Next

\* The variables keep their types: whatever a CSP answers, a message has the
\* response of a function that has responded.
THEOREM TypeCorrectness == Spec => []TypeOK
  BY InitTypes, StepTypes, PTL DEF Spec

-----------------------------------------------------------------------------
(* The steps that send nothing.                                             *)

LEMMA InitInv == Init => IInv
<1> SUFFICES ASSUME Init PROVE IInv
  OBVIOUS
<1>1. TypeOK
  BY InitTypes
<1>2. /\ jobsQ.msgs = {} /\ jobsQ.recent = {} /\ asyncQ.msgs = {} /\ asyncQ.recent = {}
      /\ sent = {}
      /\ \A e \in Executions : at[e] = "none" /\ response[e] = NoResponse
  BY DEF Init, EmptyQueue
<1>3. \A e \in Executions : Consistent(e)
  BY <1>2, RefusalsAndNothing DEF Consistent, Done
<1>4. \A j : ResultsOf(j) = {} /\ PendingOf(j) = {} /\ SendersOf(j) = {}
  BY <1>2 DEF ResultsOf, PendingOf, SendersOf
<1>5. FinitelyMany
  BY <1>4, FS_EmptySet DEF FinitelyMany
<1>6. OneMessagePerExecution
  BY <1>4, FS_EmptySet DEF OneMessagePerExecution, SendersOf
<1>7. /\ MessagesHaveSenders /\ RecentIsStored /\ ResendsAreRecent
      /\ SentIsStored /\ PendingEnvironmentsStayAsync
  BY <1>2 DEF MessagesHaveSenders, RecentIsStored, ResendsAreRecent, SentIsStored,
              PendingEnvironmentsStayAsync
<1>8. QED
  BY <1>1, <1>3, <1>5, <1>6, <1>7 DEF IInv

\* Nothing changes for the other executions; a fault only weakens what is said
\* of them.
LEMMA OthersStayConsistent ==
  ASSUME IInv, TypeOK', NEW e \in Executions, UNCHANGED request, faults' >= faults,
         NEW x \in Executions \ {e},
         at'[x] = at[x], response'[x] = response[x], x \in sent' <=> x \in sent
  PROVE  Consistent(x)'
<1>1. Consistent(x)
  BY DEF IInv
<1>2. Req(x)' = Req(x) /\ Reportable(x)' = Reportable(x)
  BY DEF Req, Reportable
<1>3. faults' = 0 => faults = 0
  BY WorkflowAssumption DEF IInv, TypeOK
<1>4. QED
  BY <1>1, <1>2, <1>3 DEF Consistent

LEMMA QuietInv ==
  ASSUME IInv, TypeOK', NEW e \in Executions,
         UNCHANGED <<request, jobsQ, asyncQ, sent>>, faults' >= faults,
         \A x \in Executions \ {e} : at'[x] = at[x] /\ response'[x] = response[x],
         e \in sent => response'[e] = response[e],
         e \in sent /\ at'[e] = "EnqueueResults" => at[e] = "EnqueueResults",
         Consistent(e)'
  PROVE  IInv'
<1> USE DEF IInv
<1>1. \A x \in Executions : Consistent(x)'
  BY OthersStayConsistent
<1>2. \A x \in sent : Body(x)' = Body(x) /\ QueueFor(x)' = QueueFor(x)
  BY TypesAtHand DEF Body, QueueFor
<1>3. MessagesHaveSenders' /\ SentIsStored'
  BY <1>2 DEF MessagesHaveSenders, SentIsStored, Stored
<1>4. RecentIsStored' /\ PendingEnvironmentsStayAsync'
  BY DEF RecentIsStored, PendingEnvironmentsStayAsync
<1>5. ResendsAreRecent'
  BY <1>2, TypesAtHand DEF ResendsAreRecent
<1>6. FinitelyMany' /\ OneMessagePerExecution'
  BY DEF FinitelyMany, OneMessagePerExecution, ResultsOf, PendingOf, SendersOf
<1>7. QED
  BY <1>1, <1>3, <1>4, <1>5, <1>6

LEMMA PostInv ==
  ASSUME IInv, TypeOK', NEW e \in Executions, Post(e)
  PROVE  IInv'
<1>1. /\ UNCHANGED <<request, jobsQ, asyncQ, sent, response>>
      /\ at[e] = "none" /\ at'[e] \in {"none", "StartState"}
      /\ \A x \in Executions \ {e} : at'[x] = at[x]
      /\ faults' >= faults
  BY TypesAtHand, FaultTypes
     DEF Post, Accept, Reject, StartExecutionThrows, Goto, IInv, TypeOK
<1>2. Consistent(e) /\ e \notin sent
  BY <1>1 DEF IInv, Consistent, Done
<1>3. Consistent(e)'
  BY <1>1, <1>2 DEF Consistent, Req, Done
<1>4. QED
  BY <1>1, <1>2, <1>3, QuietInv

\* Start, RouteResponse, EnqueueMissing and EnqueueInvalid: an execution ends only
\* without a response to report, and goes on to EnqueueResults only with one.
LEMMA GoesOnInv ==
  ASSUME IInv, TypeOK', NEW e \in Executions,
         Start(e) \/ RouteResponse(e) \/ EnqueueMissing(e) \/ EnqueueInvalid(e)
  PROVE  IInv'
<1>1. /\ UNCHANGED <<request, jobsQ, asyncQ, sent, response, faults>>
      /\ \A x \in Executions \ {e} : at'[x] = at[x]
  BY DEF Start, RouteResponse, EnqueueMissing, EnqueueInvalid, Goto, IInv, TypeOK
<1>2. \/ at[e] = "StartState" /\ at'[e] \in {"Invoke", "Failed"}
      \/ /\ at[e] = "HttpResponse"
         /\ IF response[e].code \in Routed THEN at'[e] = "EnqueueResults" ELSE at'[e] = "Failed"
      \/ /\ at[e] = "EnqueueResults" /\ at'[e] \in Done
         /\ response[e] = NoResponse \/ ~ValidResult(Req(e), response[e])
  BY DEF Start, RouteResponse, EnqueueMissing, EnqueueInvalid, Goto, IInv, TypeOK, Done
<1>3. Consistent(e)
  BY DEF IInv
<1>4. at'[e] \in Done => ~Reportable(e)
  BY <1>2, <1>3 DEF Reportable, Consistent, Routed, Done
<1>5. Req(e)' = Req(e) /\ Reportable(e)' = Reportable(e)
  BY <1>1 DEF Req, Reportable
<1>6. e \notin sent
  <2>1. at[e] # "EnqueueResults" => e \notin sent
    BY <1>2, <1>3 DEF Consistent, Done
  <2>2. at[e] = "EnqueueResults" => ~Reportable(e)
    BY <1>2 DEF Reportable
  <2>3. QED
    BY <1>3, <2>1, <2>2 DEF Consistent
<1>7. Consistent(e)'
  BY <1>1, <1>2, <1>3, <1>4, <1>5, <1>6 DEF Consistent, Done
<1>8. faults' >= faults
  BY <1>1, TypesAtHand DEF IInv
<1>9. QED
  BY <1>1, <1>6, <1>7, <1>8, QuietInv

LEMMA InvokeRespondsInv ==
  ASSUME IInv, TypeOK', NEW e \in Executions, InvokeResponds(e)
  PROVE  IInv'
<1>1. /\ UNCHANGED <<request, jobsQ, asyncQ, sent, faults>>
      /\ at[e] = "Invoke"
      /\ at'[e] = (IF response'[e] = NoResponse THEN "Failed" ELSE "HttpResponse")
      /\ \A x \in Executions \ {e} : at'[x] = at[x]
  BY DEF InvokeResponds, Goto, IInv, TypeOK
<1>2. Req(e) \in Requests /\ Req(e).op \in Operations
  BY TypesAtHand DEF IInv, Requests
<1>3. PICK r : /\ response' = [response EXCEPT ![e] = r]
               /\ r.shape = "located" <=> r.code = 202 /\ Req(e).op = "ADD_ENVIRONMENT"
  BY <1>2, ResponseToAnswer, RefusalsAndNothing DEF InvokeResponds
<1>4. /\ response'[e] = r
      /\ \A x \in Executions \ {e} : response'[x] = response[x]
  BY <1>3 DEF IInv, TypeOK
<1>5. Consistent(e) /\ e \notin sent
  BY <1>1 DEF IInv, Consistent, Done
<1>6. Req(e)' = Req(e)
  BY <1>1 DEF Req
<1>7. Consistent(e)'
  BY <1>1, <1>3, <1>4, <1>5, <1>6 DEF Consistent, Reportable, Done
<1>8. faults' >= faults
  BY <1>1, TypesAtHand DEF IInv
<1>9. QED
  BY <1>1, <1>4, <1>5, <1>7, <1>8, QuietInv

\* A fault that sends nothing: the execution stays, is caught, or ends.
LEMMA DisturbedQuietlyInv ==
  ASSUME IInv, TypeOK', NEW e \in Executions, Disturb(e), UNCHANGED <<jobsQ, asyncQ, sent>>
  PROVE  IInv'
<1>1. UNCHANGED <<request, response>> /\ faults' = faults + 1
  BY DEF Disturb, InvokeThrows, InvokeRetries, InvokeCaught, EnqueueThrows, EnqueueRetries,
         EnqueueFails, ExecutionTimesOut, Interrupted, EnqueueInterrupted, Fault
<1>2. /\ \A x \in Executions \ {e} : at'[x] = at[x]
      /\ \/ at'[e] \in Done
         \/ at'[e] = at[e]
         \/ at[e] = "Invoke" /\ at'[e] = "EnqueueResults"
  BY DEF Disturb, InvokeThrows, InvokeRetries, InvokeCaught, EnqueueThrows, EnqueueRetries,
         EnqueueFails, ExecutionTimesOut, Interrupted, EnqueueInterrupted, Goto, IInv, TypeOK, Done
<1>3. Consistent(e)
  BY DEF IInv
<1>4. Req(e)' = Req(e) /\ Reportable(e)' = Reportable(e)
  BY <1>1 DEF Req, Reportable
<1>5. faults \in Nat
  BY TypesAtHand DEF IInv
<1>6. e \in sent /\ at'[e] = "EnqueueResults" => at[e] = "EnqueueResults"
  BY <1>2, <1>3 DEF Consistent, Done
<1>7. Consistent(e)'
  BY <1>1, <1>2, <1>3, <1>4, <1>5, <1>6 DEF Consistent, Done
<1>8. QED
  BY <1>1, <1>2, <1>5, <1>6, <1>7, QuietInv

-----------------------------------------------------------------------------
(* The steps that send, and the end of the deduplication window.            *)

\* One message more, at most, and only for an execution that had sent none.
LEMMA Added ==
  ASSUME NEW S, NEW T, NEW x, IsFiniteSet(S), T = S \/ T = S \cup {x}
  PROVE  /\ IsFiniteSet(T) /\ Cardinality(S) \in Nat /\ Cardinality(T) \in Nat
         /\ Cardinality(S) <= Cardinality(T)
         /\ Cardinality(T) <= Cardinality(S) + 1
         /\ T = S \cup {x} /\ x \notin S => Cardinality(T) = Cardinality(S) + 1
<1>1. IsFiniteSet(S \cup {x}) /\ IsFiniteSet(T)
  BY FS_AddElement
<1>2. Cardinality(S) \in Nat
  BY FS_CardinalityType
<1>3. Cardinality(S \cup {x}) = IF x \in S THEN Cardinality(S) ELSE Cardinality(S) + 1
  BY FS_AddElement
<1>4. QED
  BY <1>1, <1>2, <1>3

\* The queue that SendResult sends to, before and after.
LEMMA SentToOneQueue ==
  ASSUME TypeOK, NEW e \in Executions, NEW q, NEW qNext,
         q \in QueueOf({MessageGroup}, Bodies), qNext = Send(q, MessageGroup, Body(e)),
         Body(e) \in Bodies
  PROVE  /\ q.msgs \subseteq qNext.msgs
         /\ qNext.recent = q.recent \cup {Body(e)}
         /\ \A m \in qNext.msgs : m \in q.msgs \/ m.body = Body(e)
         /\ Body(e) \in q.recent => qNext = q
         /\ Body(e) \notin q.recent =>
              /\ \E m \in qNext.msgs : m.body = Body(e)
              /\ \E m : m.body = Body(e) /\ qNext.msgs = q.msgs \cup {m}
<1>1. CASE Body(e) \in q.recent
  BY <1>1, SendAny, SendDuplicate
<1>2. CASE Body(e) \notin q.recent
  <2>1. PICK m : m = [n |-> q.next, group |-> MessageGroup, body |-> Body(e)]
    OBVIOUS
  <2>2. qNext.msgs = q.msgs \cup {m} /\ m.body = Body(e)
    BY <1>2, <2>1, SendNew
  <2>3. QED
    BY <1>2, <2>2, SendAny
<1>3. QED
  BY <1>1, <1>2

LEMMA SendResultInv ==
  ASSUME IInv, TypeOK', NEW e \in Executions, SendResult(e),
         UNCHANGED <<request, response>>, faults' >= faults,
         \A x \in Executions \ {e} : at'[x] = at[x],
         at'[e] \in {"EnqueueResults"} \cup Done
  PROVE  IInv'
<1> USE DEF IInv
<1>1. /\ at[e] = "EnqueueResults" /\ response[e] # NoResponse
      /\ ValidResult(Req(e), response[e])
      /\ sent' = sent \cup {e}
  BY DEF SendResult
<1>2. /\ Body(e) \in Bodies /\ Body(e).job = JobOf[e] /\ Body(e).response = response[e]
      /\ JobOf[e] \in Jobs /\ response[e] \in Responses
  BY <1>1, TypesAtHand DEF Body
<1>3. Consistent(e)
  OBVIOUS
<1>4. \A x \in Executions : /\ Req(x)' = Req(x) /\ Reportable(x)' = Reportable(x)
                            /\ Body(x)' = Body(x)
  BY DEF Req, Reportable, Body
<1>5. Reportable(e)
  BY <1>1, <1>3 DEF Reportable, Consistent, Routed
<1>6. \A x \in Executions : Consistent(x)'
  <2>1. Consistent(e)'
    BY <1>1, <1>3, <1>4, <1>5 DEF Consistent, Done
  <2>2. ASSUME NEW x \in Executions \ {e} PROVE Consistent(x)'
    BY <1>1, <2>2, OthersStayConsistent
  <2>3. QED
    BY <2>1, <2>2
<1>7. /\ jobsQ.msgs \subseteq jobsQ'.msgs /\ asyncQ.msgs \subseteq asyncQ'.msgs
      /\ \A m \in jobsQ'.msgs : \/ m \in jobsQ.msgs
                                \/ m.body = Body(e) /\ response[e].shape # "located"
      /\ \A m \in asyncQ'.msgs : \/ m \in asyncQ.msgs
                                 \/ m.body = Body(e) /\ response[e].shape = "located"
      /\ jobsQ.recent \subseteq jobsQ'.recent /\ asyncQ.recent \subseteq asyncQ'.recent
      /\ Body(e) \in QueueFor(e)'.recent
      /\ RecentIsStored'
  <2>1. CASE response[e].shape = "located"
    <3>1. asyncQ' = Send(asyncQ, MessageGroup, Body(e)) /\ jobsQ' = jobsQ
      BY <2>1 DEF SendResult
    <3>2. /\ asyncQ.msgs \subseteq asyncQ'.msgs
          /\ asyncQ'.recent = asyncQ.recent \cup {Body(e)}
          /\ \A m \in asyncQ'.msgs : m \in asyncQ.msgs \/ m.body = Body(e)
          /\ Body(e) \in asyncQ.recent \/ \E m \in asyncQ'.msgs : m.body = Body(e)
      BY <1>2, <3>1, SentToOneQueue, TypesAtHand
    <3>3. QED
      BY <1>2, <2>1, <3>1, <3>2 DEF RecentIsStored, QueueFor
  <2>2. CASE response[e].shape # "located"
    <3>1. jobsQ' = Send(jobsQ, MessageGroup, Body(e)) /\ asyncQ' = asyncQ
      BY <2>2 DEF SendResult
    <3>2. /\ jobsQ.msgs \subseteq jobsQ'.msgs
          /\ jobsQ'.recent = jobsQ.recent \cup {Body(e)}
          /\ \A m \in jobsQ'.msgs : m \in jobsQ.msgs \/ m.body = Body(e)
          /\ Body(e) \in jobsQ.recent \/ \E m \in jobsQ'.msgs : m.body = Body(e)
      BY <1>2, <3>1, SentToOneQueue, TypesAtHand
    <3>3. QED
      BY <1>2, <2>2, <3>1, <3>2 DEF RecentIsStored, QueueFor
  <2>3. QED
    BY <2>1, <2>2
<1>8. MessagesHaveSenders'
  BY <1>1, <1>4, <1>7, TypesAtHand DEF MessagesHaveSenders
<1>9. SentIsStored'
  <2>1. \E m \in jobsQ'.msgs \cup asyncQ'.msgs : m.body = Body(e)
    BY <1>7 DEF RecentIsStored, QueueFor
  <2>2. \A x \in sent : Stored(x)'
    BY <1>4, <1>7, TypesAtHand DEF SentIsStored, Stored
  <2>3. QED
    BY <1>1, <1>4, <2>1, <2>2 DEF SentIsStored, Stored
<1>10. ResendsAreRecent'
  <2>1. ASSUME NEW x \in sent \ {e}, at'[x] = "EnqueueResults"
        PROVE  Body(x)' \in QueueFor(x)'.recent
    <3>1. x \in Executions /\ at[x] = "EnqueueResults"
      BY <2>1, TypesAtHand
    <3>2. QED
      BY <1>4, <1>7, <3>1 DEF ResendsAreRecent, QueueFor
  <2>2. QED
    BY <1>1, <1>4, <1>7, <2>1 DEF ResendsAreRecent
<1>11. PendingEnvironmentsStayAsync'
  <2>1. Req(e) = request[JobOf[e]]
    BY DEF Req
  <2>2. QED
    BY <1>2, <1>3, <1>7, <2>1 DEF PendingEnvironmentsStayAsync, Consistent
<1>12. ASSUME NEW j \in Jobs
       PROVE  /\ IsFiniteSet(ResultsOf(j)') /\ IsFiniteSet(PendingOf(j)')
              /\ IsFiniteSet(SendersOf(j)')
              /\ Cardinality(ResultsOf(j)') + Cardinality(PendingOf(j)')
                   <= Cardinality(SendersOf(j)')
  <2>1. /\ IsFiniteSet(ResultsOf(j)) /\ IsFiniteSet(PendingOf(j)) /\ IsFiniteSet(SendersOf(j))
        /\ Cardinality(ResultsOf(j)) + Cardinality(PendingOf(j)) <= Cardinality(SendersOf(j))
    BY DEF FinitelyMany, OneMessagePerExecution, SendersOf
  <2>2. SendersOf(j)' = (IF JobOf[e] = j THEN SendersOf(j) \cup {e} ELSE SendersOf(j))
    BY <1>1 DEF SendersOf
  <2>3. CASE Body(e) \in QueueFor(e).recent
    <3>1. jobsQ' = jobsQ /\ asyncQ' = asyncQ
      BY <2>3, SendDuplicate DEF SendResult, QueueFor
    <3>2. ResultsOf(j)' = ResultsOf(j) /\ PendingOf(j)' = PendingOf(j)
      BY <3>1 DEF ResultsOf, PendingOf
    <3>3. /\ IsFiniteSet(SendersOf(j)')
          /\ Cardinality(SendersOf(j)) <= Cardinality(SendersOf(j)')
          /\ Cardinality(SendersOf(j)) \in Nat /\ Cardinality(SendersOf(j)') \in Nat
      BY <2>1, <2>2, Added
    <3>4. Cardinality(ResultsOf(j)) \in Nat /\ Cardinality(PendingOf(j)) \in Nat
      BY <2>1, FS_CardinalityType
    <3>5. QED
      BY <2>1, <3>2, <3>3, <3>4
  <2>4. CASE Body(e) \notin QueueFor(e).recent
    <3>1. e \notin sent
      BY <1>1, <2>4 DEF ResendsAreRecent
    <3>2. PICK m : /\ m.body = Body(e)
                   /\ \/ jobsQ'.msgs = jobsQ.msgs \cup {m} /\ asyncQ' = asyncQ
                      \/ asyncQ'.msgs = asyncQ.msgs \cup {m} /\ jobsQ' = jobsQ
      <4>1. CASE response[e].shape = "located"
        <5>1. asyncQ' = Send(asyncQ, MessageGroup, Body(e)) /\ jobsQ' = jobsQ
          BY <4>1 DEF SendResult
        <5>2. \E m : m.body = Body(e) /\ asyncQ'.msgs = asyncQ.msgs \cup {m}
          BY <1>2, <2>4, <4>1, <5>1, SentToOneQueue, TypesAtHand DEF QueueFor
        <5>3. QED
          BY <5>1, <5>2
      <4>2. CASE response[e].shape # "located"
        <5>1. jobsQ' = Send(jobsQ, MessageGroup, Body(e)) /\ asyncQ' = asyncQ
          BY <4>2 DEF SendResult
        <5>2. \E m : m.body = Body(e) /\ jobsQ'.msgs = jobsQ.msgs \cup {m}
          BY <1>2, <2>4, <4>2, <5>1, SentToOneQueue, TypesAtHand DEF QueueFor
        <5>3. QED
          BY <5>1, <5>2
      <4>3. QED
        BY <4>1, <4>2
    <3>3. CASE JobOf[e] # j
      <4>1. ResultsOf(j)' = ResultsOf(j) /\ PendingOf(j)' = PendingOf(j)
        BY <1>2, <3>2, <3>3 DEF ResultsOf, PendingOf
      <4>2. QED
        BY <2>1, <2>2, <3>3, <4>1
    <3>4. CASE JobOf[e] = j
      <4>1. SendersOf(j)' = SendersOf(j) \cup {e} /\ e \notin SendersOf(j)
        BY <2>2, <3>1, <3>4 DEF SendersOf
      <4>2. \/ ResultsOf(j)' = ResultsOf(j) \cup {m} /\ PendingOf(j)' = PendingOf(j)
            \/ PendingOf(j)' = PendingOf(j) \cup {m} /\ ResultsOf(j)' = ResultsOf(j)
        BY <1>2, <3>2, <3>4 DEF ResultsOf, PendingOf
      <4>3. /\ IsFiniteSet(SendersOf(j)')
            /\ Cardinality(SendersOf(j)') = Cardinality(SendersOf(j)) + 1
            /\ Cardinality(SendersOf(j)) \in Nat
        BY <2>1, <4>1, Added
      <4>4. /\ Cardinality(ResultsOf(j)) \in Nat /\ Cardinality(PendingOf(j)) \in Nat
        BY <2>1, FS_CardinalityType
      <4>5. CASE ResultsOf(j)' = ResultsOf(j) \cup {m} /\ PendingOf(j)' = PendingOf(j)
        <5>1. /\ IsFiniteSet(ResultsOf(j)') /\ Cardinality(ResultsOf(j)') \in Nat
              /\ Cardinality(ResultsOf(j)') <= Cardinality(ResultsOf(j)) + 1
          BY <2>1, <4>5, Added
        <5>2. QED
          BY <2>1, <4>3, <4>4, <4>5, <5>1
      <4>6. CASE PendingOf(j)' = PendingOf(j) \cup {m} /\ ResultsOf(j)' = ResultsOf(j)
        <5>1. /\ IsFiniteSet(PendingOf(j)') /\ Cardinality(PendingOf(j)') \in Nat
              /\ Cardinality(PendingOf(j)') <= Cardinality(PendingOf(j)) + 1
          BY <2>1, <4>6, Added
        <5>2. QED
          BY <2>1, <4>3, <4>4, <4>6, <5>1
      <4>7. QED
        BY <4>2, <4>5, <4>6
    <3>5. QED
      BY <3>3, <3>4
  <2>5. QED
    BY <2>3, <2>4
<1>13. FinitelyMany' /\ OneMessagePerExecution'
  BY <1>12 DEF FinitelyMany, OneMessagePerExecution, SendersOf
<1>14. QED
  BY <1>6, <1>7, <1>8, <1>9, <1>10, <1>11, <1>13

LEMMA EnqueueInv ==
  ASSUME IInv, TypeOK', NEW e \in Executions, Enqueue(e)
  PROVE  IInv'
<1>1. /\ SendResult(e)
      /\ UNCHANGED <<request, response, faults>>
      /\ \A x \in Executions \ {e} : at'[x] = at[x]
      /\ at'[e] \in Done
  BY DEF Enqueue, Goto, IInv, TypeOK, Done
<1>2. faults' >= faults
  BY <1>1, TypesAtHand DEF IInv
<1>3. QED
  BY <1>1, <1>2, SendResultInv

LEMMA DisturbInv ==
  ASSUME IInv, TypeOK', NEW e \in Executions, Disturb(e)
  PROVE  IInv'
<1>1. CASE UNCHANGED <<jobsQ, asyncQ, sent>>
  BY <1>1, DisturbedQuietlyInv
<1>2. CASE SendResult(e)
  <2>1. /\ UNCHANGED <<request, response>> /\ faults' = faults + 1
        /\ \A x \in Executions \ {e} : at'[x] = at[x]
        /\ at'[e] \in Done \/ at'[e] = at[e]
    BY <1>2
       DEF Disturb, InvokeThrows, InvokeRetries, InvokeCaught, EnqueueThrows, EnqueueRetries,
           EnqueueFails, ExecutionTimesOut, Interrupted, EnqueueInterrupted, Goto, Fault,
           SendResult, IInv, TypeOK, Done
  <2>2. faults' >= faults
    BY <2>1, TypesAtHand DEF IInv
  <2>3. at[e] = "EnqueueResults"
    BY <1>2 DEF SendResult
  <2>4. QED
    BY <1>2, <2>1, <2>2, <2>3, SendResultInv
<1>3. QED
  BY <1>1, <1>2
     DEF Disturb, InvokeThrows, InvokeRetries, InvokeCaught, EnqueueThrows, EnqueueRetries,
         EnqueueFails, ExecutionTimesOut, Interrupted, EnqueueInterrupted

LEMMA DeduplicationInv ==
  ASSUME IInv, TypeOK', DeduplicationEnds
  PROVE  IInv'
<1> USE DEF IInv
<1>1. UNCHANGED <<request, reply, at, response, tries, sent, faults>>
  BY DEF DeduplicationEnds
<1>2. /\ jobsQ'.msgs = jobsQ.msgs /\ asyncQ'.msgs = asyncQ.msgs
      /\ jobsQ'.recent = jobsQ.recent \cap Retrying
      /\ asyncQ'.recent = asyncQ.recent \cap Retrying
  BY DeduplicationFields
<1>3. \A e \in Executions : Consistent(e)'
  BY <1>1 DEF Consistent, Req, Reportable
<1>4. MessagesHaveSenders' /\ SentIsStored' /\ PendingEnvironmentsStayAsync'
  BY <1>1, <1>2 DEF MessagesHaveSenders, SentIsStored, Stored, Body, PendingEnvironmentsStayAsync
<1>5. RecentIsStored'
  BY <1>2 DEF RecentIsStored
<1>6. ResendsAreRecent'
  <2>1. \A e \in sent : at[e] = "EnqueueResults" => Body(e) \in Retrying
    BY DEF Retrying
  <2>2. QED
    BY <1>1, <1>2, <2>1 DEF ResendsAreRecent, QueueFor, Body
<1>7. FinitelyMany' /\ OneMessagePerExecution'
  BY <1>1, <1>2 DEF FinitelyMany, OneMessagePerExecution, ResultsOf, PendingOf, SendersOf
<1>8. QED
  BY <1>3, <1>4, <1>5, <1>6, <1>7

LEMMA StutterInv ==
  ASSUME IInv, TypeOK', UNCHANGED vars
  PROVE  IInv'
<1> USE DEF vars, IInv
<1>1. \A e \in Executions : Consistent(e)'
  BY DEF Consistent, Req, Reportable
<1>2. \A e : Body(e)' = Body(e) /\ QueueFor(e)' = QueueFor(e) /\ Stored(e)' = Stored(e)
  BY DEF Body, QueueFor, Stored
<1>3. MessagesHaveSenders' /\ RecentIsStored' /\ ResendsAreRecent' /\ SentIsStored'
  BY <1>2 DEF MessagesHaveSenders, RecentIsStored, ResendsAreRecent, SentIsStored
<1>4. PendingEnvironmentsStayAsync' /\ FinitelyMany' /\ OneMessagePerExecution'
  BY DEF PendingEnvironmentsStayAsync, FinitelyMany, OneMessagePerExecution, ResultsOf, PendingOf,
         SendersOf
<1>5. QED
  BY <1>1, <1>3, <1>4

LEMMA StepInv == IInv /\ TypeOK' /\ [Next]_vars => IInv'
<1> SUFFICES ASSUME IInv, TypeOK', [Next]_vars PROVE IInv'
  OBVIOUS
<1>1. ASSUME NEW e \in Executions, Run(e) PROVE IInv'
  BY <1>1, GoesOnInv, InvokeRespondsInv, EnqueueInv DEF Run
<1>2. QED
  BY <1>1, PostInv, DisturbInv, DeduplicationInv, StutterInv DEF Next

-----------------------------------------------------------------------------
(* The safety properties.                                                   *)

\* IInv is an invariant of every execution.
THEOREM Invariance == Spec => []IInv
  BY InitInv, StepInv, TypeCorrectness, PTL DEF Spec

\* Retries that cannot tell whether their message was accepted leave no job with
\* more messages than executions that sent one.
THEOREM RetriesAreDeduplicated == Spec => []OneMessagePerExecution
<1>1. IInv => OneMessagePerExecution
  BY DEF IInv
<1>2. QED
  BY <1>1, Invariance, PTL

\* Deduplication swallows no result: what an execution sent is on a queue.
THEOREM SentResultsAreStored == Spec => []SentIsStored
<1>1. IInv => SentIsStored
  BY DEF IInv
<1>2. QED
  BY <1>1, Invariance, PTL

\* An environment in the making is never a result for ServiceNow, and nothing
\* else waits for the watcher.
THEOREM PendingIsAsync == Spec => []PendingEnvironmentsStayAsync
<1>1. IInv => PendingEnvironmentsStayAsync
  BY DEF IInv
<1>2. QED
  BY <1>1, Invariance, PTL

\* Without a fault, an execution that has ended left a message exactly if the
\* pipeline can report the CSP's answer.
THEOREM EndedIsStored == Spec => []EndedIsStoredIffReportable
<1>1. ASSUME IInv PROVE EndedIsStoredIffReportable
  <2> USE <1>1 DEF IInv
  <2>1. ASSUME NEW e \in Executions, faults = 0, at[e] \in Done
        PROVE  (e \in sent <=> Reportable(e)) /\ (e \in sent <=> Stored(e))
    <3>1. e \in sent <=> Reportable(e)
      BY <2>1 DEF Consistent
    <3>2. e \in sent => Stored(e)
      BY DEF SentIsStored
    <3>3. ASSUME Stored(e) PROVE Reportable(e)
      <4>1. PICK x \in sent : Body(e) = Body(x)
        BY <3>3 DEF Stored, MessagesHaveSenders
      <4>2. JobOf[e] = JobOf[x] /\ response[e] = response[x]
        BY <4>1 DEF Body
      <4>3. Reportable(x)
        BY TypesAtHand DEF Consistent
      <4>4. QED
        BY <4>2, <4>3 DEF Reportable, Req
    <3>4. QED
      BY <3>1, <3>2, <3>3
  <2>2. QED
    BY <2>1 DEF EndedIsStoredIffReportable
<1>2. QED
  BY <1>1, Invariance, PTL
================================================================================
