---------------------------- MODULE CostPipeline ----------------------------
(***************************************************************************)
(* Cost requests from ServiceNow's POST to its GET (api/cost/*.ts,         *)
(* lib/constructs/cost-api-implementation.ts):                             *)
(*                                                                         *)
(*   POST /cost-jobs  ->  request queue  ->  cost request function  ->     *)
(*   response queue  ->  GET /cost-jobs (QueueConsumer)                    *)
(*                                                                         *)
(* The function answers the requests of a batch one after the other, and   *)
(* Lambda removes the batch at the end, also when the middleware turned an *)
(* error into a result.  The function may run for thirty seconds, as long  *)
(* as its messages are invisible: a batch can be handed out again while    *)
(* the first invocation still works on it.                                 *)
(***************************************************************************)
EXTENDS FifoQueue

CONSTANTS
  Posted,       \* cost requests as ServiceNow posts them (models/cost-jobs.ts)
  CspOf,        \* targetCspName of each: "CSP_A", one of Refusing, or another one
  Invocations,  \* invocations of the cost request function at one time
  MaxBatch,     \* messages of one invocation (10 by default)
  MaxFaults,    \* bound on what goes wrong up to the response queue
  Pollers, MaxMessages, MaxReadFaults   \* those of the consumer

Refusing == {"CSP_B", "CSP_C", "CSP_D"}

\* The statuses of a CSP's answer; the client throws an AtatApiError for all
\* but 200, and 500 stands for those without an error name of their own.
Statuses == {200, 400, 404, 500}

ASSUME CostAssumption ==
  /\ MaxBatch \in Nat \ {0} /\ MaxMessages \in Nat \ {0}
  /\ MaxFaults \in Nat /\ MaxReadFaults \in Nat

RequestGroup == "cost-request-queue-message-group"
ResponseGroup == "cost-response-queue-message-group"

\* CostResponse: it quotes the request, so that answers to different requests
\* are never duplicates of each other.
CostResponses == [request: Posted, code: Statuses]

VARIABLES
  requests,   \* the request queue
  todo,       \* of each invocation: messages the loop has not answered
  receipts,   \* of each invocation: messages whose receipt handle is still good
  responses,  \* the response queue
  dropped,    \* history: messages removed by an invocation that swallowed an error
  faults,     \* history: faults so far, up to the response queue
  batch, handles, messages, inbox, lost, readFaults   \* those of the consumer

consumerVars == <<batch, handles, messages, inbox, lost, readFaults>>
functionVars == <<requests, todo, receipts, dropped, faults>>
vars == <<functionVars, responses, consumerVars>>

\* ServiceNow's GETs.
Consumer == INSTANCE QueueConsumer WITH
  Bodies <- CostResponses, Groups <- {ResponseGroup},
  GroupOf <- [b \in CostResponses |-> ResponseGroup],
  MaxFaults <- MaxReadFaults,
  queue <- responses, receipts <- handles, faults <- readFaults

Request == Messages({RequestGroup}, Posted)

Fault == faults < MaxFaults /\ faults' = faults + 1

Idle(i) == receipts[i] = {} /\ todo[i] = {}

-----------------------------------------------------------------------------
\* POST: ServiceNow may post a request again.
Post(r) ==
  /\ requests' = Send(requests, RequestGroup, r)
  /\ UNCHANGED <<todo, receipts, responses, dropped, faults, consumerVars>>

\* Mutant: messages are removed as soon as they are received.
ReceiveAndRemove(i) ==
  /\ Idle(i)
  /\ \E S \in Batches(requests, MaxBatch) :
       /\ requests' = Delete(requests, S)
       /\ todo' = [todo EXCEPT ![i] = S]
       /\ receipts' = [receipts EXCEPT ![i] = S]
  /\ UNCHANGED <<responses, dropped, faults, consumerVars>>

Receive(i) ==
  /\ Idle(i)
  /\ \E S \in Batches(requests, MaxBatch) :
       /\ requests' = Take(requests, S)
       /\ todo' = [todo EXCEPT ![i] = S]
       /\ receipts' = [receipts EXCEPT ![i] = S]
  /\ UNCHANGED <<responses, dropped, faults, consumerVars>>

\* Mutant: an error without a CSP's answer is made an answer, too.
CodesOfErrors(r) == Statuses \cup {0}

\* makeRequest: the codes a request can be answered with, every AtatApiError
\* being one.
Codes(r) ==
  CASE CspOf[r] = "CSP_A" -> {200}
    [] CspOf[r] \in Refusing -> {404}
    [] OTHER -> Statuses

\* Mutants: the loop starts with the last record of the batch; the response does
\* not go on the queue.
AnswerLast(i) ==
  \E m \in todo[i], c \in Statuses :
    /\ \A y \in todo[i] : y.n <= m.n
    /\ c \in Codes(m.body)
    /\ todo' = [todo EXCEPT ![i] = @ \ {m}]
    /\ responses' = Send(responses, ResponseGroup, [request |-> m.body, code |-> c])
    /\ UNCHANGED <<requests, receipts, dropped, faults, consumerVars>>

AnswerNobody(i) ==
  \E m \in Oldest(todo[i]) :
    /\ todo' = [todo EXCEPT ![i] = @ \ {m}]
    /\ UNCHANGED <<requests, receipts, responses, dropped, faults, consumerVars>>

\* One turn of the loop: makeClient, makeRequest and the response.
Answer(i) ==
  \E m \in Oldest(todo[i]) : \E c \in Codes(m.body) :
    /\ todo' = [todo EXCEPT ![i] = @ \ {m}]
    /\ responses' = Send(responses, ResponseGroup, [request |-> m.body, code |-> c])
    /\ UNCHANGED <<requests, receipts, dropped, faults, consumerVars>>

\* Mutant: nothing is removed from the request queue.
RemoveNothing(i) ==
  /\ todo' = [todo EXCEPT ![i] = {}]
  /\ receipts' = [receipts EXCEPT ![i] = {}]
  /\ UNCHANGED requests

\* The invocation ends without an error that Lambda sees, and Lambda removes
\* the messages of the batch by the receipt handles that are still good.
RemoveBatch(i) ==
  /\ todo' = [todo EXCEPT ![i] = {}]
  /\ receipts' = [receipts EXCEPT ![i] = {}]
  /\ requests' = Delete(requests, receipts[i])

Finish(i) ==
  /\ ~Idle(i) /\ todo[i] = {}
  /\ RemoveBatch(i)
  /\ UNCHANGED <<responses, dropped, faults, consumerVars>>

\* makeClient finds no secret or gets no token, or the request throws something
\* else than an AtatApiError; errorHandlingMiddleware makes it a result.
Swallow(i) ==
  /\ todo[i] # {}
  /\ Fault
  /\ RemoveBatch(i)
  /\ dropped' = dropped \cup (todo[i] \cap receipts[i])
  /\ UNCHANGED <<responses, consumerVars>>

\* The send of a response throws although SQS has stored the response; where it
\* has not, that is Swallow.
SendFails(i) ==
  /\ Fault
  /\ RemoveBatch(i)
  /\ \E m \in Oldest(todo[i]) : \E c \in Codes(m.body) :
       /\ responses' = Send(responses, ResponseGroup, [request |-> m.body, code |-> c])
       /\ dropped' = dropped \cup ((todo[i] \ {m}) \cap receipts[i])
  /\ UNCHANGED consumerVars

\* The invocation dies or times out; its messages come back in time.
Crash(i) ==
  /\ ~Idle(i)
  /\ Fault
  /\ todo' = [todo EXCEPT ![i] = {}]
  /\ receipts' = [receipts EXCEPT ![i] = {}]
  /\ UNCHANGED <<requests, responses, dropped, consumerVars>>

\* Thirty seconds after the receive; an invocation that still runs counts as a
\* fault, for it is about to time out.
VisibilityTimeout ==
  /\ requests.held # {}
  /\ IF \E i \in Invocations : receipts[i] # {} THEN Fault ELSE UNCHANGED faults
  /\ requests' = Release(requests, requests.held)
  /\ receipts' = [i \in Invocations |-> {}]
  /\ UNCHANGED <<todo, responses, dropped, consumerVars>>

\* A GET takes a step of its own.
Poll ==
  /\ \E p \in Pollers :
       \/ Consumer!Receive(p)
       \/ Consumer!Loop(p)
       \/ Consumer!Abort(p)
       \/ Consumer!Respond(p)
  /\ UNCHANGED functionVars

ResponsesComeBack == Consumer!VisibilityTimeout(ResponseGroup) /\ UNCHANGED functionVars

-----------------------------------------------------------------------------
Init ==
  /\ requests = EmptyQueue
  /\ todo = [i \in Invocations |-> {}]
  /\ receipts = [i \in Invocations |-> {}]
  /\ dropped = {}
  /\ faults = 0
  /\ Consumer!Init

Next ==
  \/ \E r \in Posted : Post(r)
  \/ \E i \in Invocations :
       \/ Receive(i)
       \/ Answer(i)
       \/ Finish(i)
       \/ Swallow(i)
       \/ SendFails(i)
       \/ Crash(i)
  \/ VisibilityTimeout
  \/ Poll
  \/ ResponsesComeBack

Spec == Init /\ [][Next]_vars

\* Lambda polls the request queue and ServiceNow the response queue, each of them
\* with as many receives as it takes; invocations and GETs keep running.
Fairness ==
  /\ SF_vars(\E i \in Invocations : Receive(i))
  /\ \A i \in Invocations : WF_vars(Answer(i)) /\ WF_vars(Finish(i))
  /\ WF_vars(VisibilityTimeout)
  /\ SF_vars(\E p \in Pollers : Consumer!Receive(p) /\ UNCHANGED functionVars)
  /\ \A p \in Pollers :
       /\ WF_vars(Consumer!Loop(p) /\ UNCHANGED functionVars)
       /\ WF_vars(Consumer!Respond(p) /\ UNCHANGED functionVars)
  /\ WF_vars(ResponsesComeBack)

FairSpec == Spec /\ Fairness

-----------------------------------------------------------------------------
(* Properties.                                                              *)

\* The variables keep their types.
TypeOK ==
  /\ requests \in QueueOf({RequestGroup}, Posted)
  /\ requests.held \subseteq requests.msgs
  /\ todo \in [Invocations -> SUBSET Request]
  /\ receipts \in [Invocations -> SUBSET Request]
  /\ dropped \subseteq Request
  /\ faults \in 0..MaxFaults
  /\ Consumer!TypeOK

\* The responses to r that were ever stored.
AnswersTo(r) == {b \in responses.recent : b.request = r}

WasDropped(r) == \E m \in dropped : m.body = r

\* A request that was stored is on its queue, has an answer, or was removed by
\* an invocation that swallowed an error (cost-request-fn.ts:83-95): a crash, or
\* a batch handed out twice, removes none that has no answer.
RequestsAccounted ==
  \A r \in requests.recent :
    \/ \E m \in requests.msgs : m.body = r
    \/ AnswersTo(r) # {}
    \/ WasDropped(r)

\* No request is answered before an older one that is still waiting on the
\* queue for its first answer, although invocations overlap.
FirstAnswersInOrder ==
  \A m, x \in requests.msgs :
    m.n < x.n /\ AnswersTo(x.body) # {} => AnswersTo(m.body) # {}

\* A request, however often it is posted within five minutes, gets one answer;
\* a second one, that may differ, takes a crash or a slow invocation.
AnswersNeedFaults ==
  \A r \in Posted : Cardinality(AnswersTo(r)) <= 1 + faults

\* The function does to the response queue what QueueConsumer expects of a
\* sender, so that what is proved of the GETs there holds of this pipeline.
FeedsConsumer == Consumer!Spec

\* Every stored request is answered in a response that ServiceNow reads, that a
\* GET loses, or was removed with a swallowed error.
RequestsAreAnswered ==
  \A r \in Posted :
    r \in requests.recent ~>
      \/ WasDropped(r)
      \/ \E m \in inbox \cup lost : m.body.request = r

-----------------------------------------------------------------------------
(* The inductive invariant behind the safety properties.                    *)

\* What is on the request queue, or still to be answered by some invocation.
Waiting == requests.msgs \cup UNION {todo[i] : i \in Invocations}

\* A request is one message, however often it is posted, with a number of its own
\* below that of the next one; nothing is answered that was not posted.
OneMessagePerRequest ==
  /\ \A x, y \in Waiting : x.body = y.body => x = y
  /\ \A x \in Waiting : x.body \in requests.recent /\ x.n < requests.next
  /\ \A b \in responses.recent : b.request \in requests.recent

\* A message has one good receipt handle.
OneHandle ==
  \A i \in Invocations :
    /\ receipts[i] \subseteq requests.held
    /\ \A j \in Invocations \ {i} : receipts[i] \cap receipts[j] = {}

\* What Lambda will remove is still to be answered, or has its answer.
RemovedIsAnswered ==
  \A i \in Invocations : \A m \in receipts[i] : m \in todo[i] \/ AnswersTo(m.body) # {}

\* A batch has everything older that has no answer yet.
BatchesArePrefixes ==
  \A i \in Invocations : \A x \in todo[i], m \in requests.msgs :
    m.n < x.n => m \in todo[i] \/ AnswersTo(m.body) # {}

\* The invocations that may still answer r.
Answering(r) == {i \in Invocations : \E m \in todo[i] : m.body = r}

\* May r be received once more, without another fault?
Receivable(r) ==
  /\ r \in requests.recent => \E m \in requests.msgs : m.body = r
  /\ \A i \in Invocations : \A m \in receipts[i] : m.body # r

\* The answers to r that may still come without another fault.
Turns(r) == Cardinality(Answering(r)) + (IF Receivable(r) THEN 1 ELSE 0)

\* Every answer to r, given or to come, but one was paid for with a fault.
AnswersPaidFor ==
  \A r \in Posted :
    /\ IsFiniteSet(AnswersTo(r)) /\ IsFiniteSet(Answering(r))
    /\ Cardinality(AnswersTo(r)) + Turns(r) <= 1 + faults

IInv ==
  /\ TypeOK
  /\ OneMessagePerRequest
  /\ OneHandle
  /\ RemovedIsAnswered
  /\ BatchesArePrefixes
  /\ AnswersPaidFor
  /\ RequestsAccounted
  /\ FirstAnswersInOrder
=============================================================================
