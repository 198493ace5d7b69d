------------------------- MODULE ProvisioningWorkflow -------------------------
(***************************************************************************)
(* A provisioning request from ServiceNow's POST to the queues:            *)
(* start-provisioning-job.ts starts an execution of the state machine of   *)
(* lib/constructs/provisioning-sfn-workflow.ts, which invokes the function *)
(* of the operation, routes its response by status code and enqueues the   *)
(* result (result-fn.ts).                                                  *)
(*                                                                         *)
(* Every POST is an execution of its own.  ServiceNow may post one job     *)
(* twice: nothing names an execution after its job.                        *)
(***************************************************************************)
EXTENDS CspApi, FifoQueue

CONSTANTS
  Jobs,        \* provisioning jobs
  Executions,  \* POSTs of jobs, each with the execution it starts
  JobOf,       \* the job of each
  MaxRetries,  \* retries of a task after a Lambda service exception (6 in the code)
  MaxFaults    \* bound on the faults of all executions

ASSUME WorkflowAssumption ==
  /\ JobOf \in [Executions -> Jobs]
  /\ MaxRetries \in Nat /\ MaxFaults \in Nat

VARIABLES
  request,   \* what each job asks for
  reply,     \* what the POST was answered
  at,        \* the state each execution is in
  response,  \* cspResponse, NoResponse when it is missing
  tries,     \* retries of the current task
  jobsQ,     \* the provisioning jobs queue
  asyncQ,    \* the asynchronous provisioning jobs queue
  sent,      \* history: executions whose result SQS accepted
  faults     \* history: faults so far

vars == <<request, reply, at, response, tries, jobsQ, asyncQ, sent, faults>>

Done == {"Succeeded", "Failed"}
States == {"none", "StartState", "Invoke", "HttpResponse", "EnqueueResults"} \cup Done

MessageGroup == "provisioning-queue-message-group"

Req(e) == request[JobOf[e]]

\* The payload of the EnqueueResults task, which is the message body.
Body(e) == [job |-> JobOf[e], response |-> response[e]]

Fault ==
  /\ faults < MaxFaults
  /\ faults' = faults + 1

Goto(e, state) ==
  /\ at' = [at EXCEPT ![e] = state]
  /\ tries' = [tries EXCEPT ![e] = 0]

-----------------------------------------------------------------------------
(* start-provisioning-job.ts                                                *)

Accept(e) ==
  /\ at[e] = "none" /\ reply[e] = "none"
  /\ Acceptable(Req(e))
  /\ Goto(e, "StartState")
  /\ reply' = [reply EXCEPT ![e] = "CREATED"]
  /\ UNCHANGED <<request, response, jobsQ, asyncQ, sent, faults>>

Reject(e) ==
  /\ at[e] = "none" /\ reply[e] = "none"
  /\ ~Acceptable(Req(e))
  /\ reply' = [reply EXCEPT ![e] = "BAD_REQUEST"]
  /\ UNCHANGED <<request, at, response, tries, jobsQ, asyncQ, sent, faults>>

\* startExecution throws, before or after the execution was started.
StartExecutionThrows(e) ==
  /\ at[e] = "none" /\ reply[e] = "none"
  /\ Acceptable(Req(e))
  /\ Fault
  /\ reply' = [reply EXCEPT ![e] = "BAD_REQUEST"]
  /\ Goto(e, "StartState") \/ UNCHANGED <<at, tries>>
  /\ UNCHANGED <<request, response, jobsQ, asyncQ, sent>>

-----------------------------------------------------------------------------
(* The state machine up to its results.                                     *)

\* The StartState choice has no branch for the operations that are not handled.
Start(e) ==
  /\ at[e] = "StartState"
  /\ Goto(e, IF Req(e).op \in Handled THEN "Invoke" ELSE "Failed")
  /\ UNCHANGED <<request, reply, response, jobsQ, asyncQ, sent, faults>>

\* The function responds.  A response without a code fails the ResultSelector.
InvokeResponds(e) ==
  /\ at[e] = "Invoke"
  /\ \/ /\ Calls(Req(e))
        /\ \E answer \in Answers :
             response' = [response EXCEPT ![e] = CspResponse(Req(e).op, answer)]
     \/ /\ ~Calls(Req(e))
        /\ response' = [response EXCEPT ![e] = RefusedResponse(Req(e))]
  /\ Goto(e, IF response'[e] = NoResponse THEN "Failed" ELSE "HttpResponse")
  /\ UNCHANGED <<request, reply, jobsQ, asyncQ, sent, faults>>

\* The invocation goes wrong, before or after the CSP has acted.
Interrupted(e) ==
  /\ at[e] = "Invoke"
  /\ Fault
  /\ UNCHANGED <<request, reply, response, jobsQ, asyncQ, sent>>

\* An error that is not an AtatApiError (connection, token, secret): the
\* middleware swallows it, the response has no code and the ResultSelector fails.
InvokeThrows(e) == Interrupted(e) /\ Goto(e, "Failed")

\* The task is retried after a Lambda service exception only: no error is named
\* MockCspApiError.
InvokeRetries(e) ==
  /\ Interrupted(e)
  /\ tries[e] < MaxRetries
  /\ tries' = [tries EXCEPT ![e] = @ + 1]
  /\ UNCHANGED at

\* The task fails or times out, or has no retry left: it is caught, and
\* cspResponse stays missing.
InvokeCaught(e) == Interrupted(e) /\ Goto(e, "EnqueueResults")

\* Mutants: the choice has a default branch, or none for 202.
RouteAll(e) ==
  /\ at[e] = "HttpResponse"
  /\ Goto(e, "EnqueueResults")
  /\ UNCHANGED <<request, reply, response, jobsQ, asyncQ, sent, faults>>

RouteFinished(e) ==
  /\ at[e] = "HttpResponse"
  /\ Goto(e, IF response[e].code \in Routed \ {202} THEN "EnqueueResults" ELSE "Failed")
  /\ UNCHANGED <<request, reply, response, jobsQ, asyncQ, sent, faults>>

RouteResponse(e) ==
  /\ at[e] = "HttpResponse"
  /\ Goto(e, IF response[e].code \in Routed THEN "EnqueueResults" ELSE "Failed")
  /\ UNCHANGED <<request, reply, response, jobsQ, asyncQ, sent, faults>>

-----------------------------------------------------------------------------
(* EnqueueResults and result-fn.ts                                          *)

\* After a catch the payload cannot be built: the path $.cspResponse is missing.
EnqueueMissing(e) ==
  /\ at[e] = "EnqueueResults" /\ response[e] = NoResponse
  /\ Goto(e, "Failed")
  /\ UNCHANGED <<request, reply, response, jobsQ, asyncQ, sent, faults>>

\* The result function succeeds, with a validation error for a response.
EnqueueInvalid(e) ==
  /\ at[e] = "EnqueueResults" /\ response[e] # NoResponse
  /\ ~ValidResult(Req(e), response[e])
  /\ Goto(e, "Succeeded")
  /\ UNCHANGED <<request, reply, response, jobsQ, asyncQ, sent, faults>>

\* SendMessage, to the asynchronous queue if the response has a location.
SendResult(e) ==
  /\ at[e] = "EnqueueResults" /\ response[e] # NoResponse
  /\ ValidResult(Req(e), response[e])
  /\ IF response[e].shape = "located"
       THEN asyncQ' = Send(asyncQ, MessageGroup, Body(e)) /\ UNCHANGED jobsQ
       ELSE jobsQ' = Send(jobsQ, MessageGroup, Body(e)) /\ UNCHANGED asyncQ
  /\ sent' = sent \cup {e}

Enqueue(e) ==
  /\ SendResult(e)
  /\ Goto(e, "Succeeded")
  /\ UNCHANGED <<request, reply, response, faults>>

\* The message may have been accepted before something went wrong.
EnqueueInterrupted(e) ==
  /\ at[e] = "EnqueueResults" /\ response[e] # NoResponse
  /\ Fault
  /\ SendResult(e) \/ UNCHANGED <<jobsQ, asyncQ, sent>>
  /\ UNCHANGED <<request, reply, response>>

\* SendMessage throws: swallowed, and the execution succeeds all the same.
EnqueueThrows(e) ==
  /\ EnqueueInterrupted(e)
  /\ ValidResult(Req(e), response[e])
  /\ Goto(e, "Succeeded")

\* Mutant: nothing counts the attempts.
RetryForever(e) ==
  /\ EnqueueInterrupted(e)
  /\ tries' = [tries EXCEPT ![e] = @ + 1]
  /\ UNCHANGED at

\* Retried after a Lambda service exception, 2, 4, ... 64 seconds later.
EnqueueRetries(e) ==
  /\ EnqueueInterrupted(e)
  /\ tries[e] < MaxRetries
  /\ tries' = [tries EXCEPT ![e] = @ + 1]
  /\ UNCHANGED at

\* The task has no catch.
EnqueueFails(e) ==
  /\ EnqueueInterrupted(e)
  /\ Goto(e, "Failed")

-----------------------------------------------------------------------------
(* The clocks.                                                              *)

\* Ten minutes after the start of the execution.
ExecutionTimesOut(e) ==
  /\ at[e] \notin Done \cup {"none"}
  /\ Fault
  /\ Goto(e, "Failed")
  /\ UNCHANGED <<request, reply, response, jobsQ, asyncQ, sent>>

\* The retries of a task are over in about two minutes, so that the body an
\* execution has sent stays in the five-minute window as long as it may be sent
\* again.
Retrying == {Body(e) : e \in {x \in sent : at[x] = "EnqueueResults"}}

DeduplicationEnds ==
  /\ (jobsQ.recent \cup asyncQ.recent) \ Retrying # {}
  /\ jobsQ' = [jobsQ EXCEPT !.recent = @ \cap Retrying]
  /\ asyncQ' = [asyncQ EXCEPT !.recent = @ \cap Retrying]
  /\ UNCHANGED <<request, reply, at, response, tries, sent, faults>>

-----------------------------------------------------------------------------
Init ==
  /\ request \in [Jobs -> Requests]
  /\ reply = [e \in Executions |-> "none"]
  /\ at = [e \in Executions |-> "none"]
  /\ response = [e \in Executions |-> NoResponse]
  /\ tries = [e \in Executions |-> 0]
  /\ jobsQ = EmptyQueue
  /\ asyncQ = EmptyQueue
  /\ sent = {}
  /\ faults = 0

Post(e) == Accept(e) \/ Reject(e) \/ StartExecutionThrows(e)

\* The steps of an execution that nothing disturbs.
Run(e) ==
  \/ Start(e)
  \/ InvokeResponds(e)
  \/ RouteResponse(e)
  \/ EnqueueMissing(e)
  \/ EnqueueInvalid(e)
  \/ Enqueue(e)

Disturb(e) ==
  \/ InvokeThrows(e)
  \/ InvokeRetries(e)
  \/ InvokeCaught(e)
  \/ EnqueueThrows(e)
  \/ EnqueueRetries(e)
  \/ EnqueueFails(e)
  \/ ExecutionTimesOut(e)

Next ==
  \/ \E e \in Executions : Post(e) \/ Run(e) \/ Disturb(e)
  \/ DeduplicationEnds

\* Step Functions keeps an execution running.
Spec == Init /\ [][Next]_vars /\ \A e \in Executions : WF_vars(Run(e))

-----------------------------------------------------------------------------
(* Properties.                                                              *)

TypeOK ==
  /\ request \in [Jobs -> Requests]
  /\ reply \in [Executions -> {"none", "CREATED", "BAD_REQUEST"}]
  /\ at \in [Executions -> States]
  /\ response \in [Executions -> Responses \cup {NoResponse}]
  /\ tries \in [Executions -> 0..MaxRetries]
  /\ jobsQ \in QueueOf({MessageGroup}, [job: Jobs, response: Responses])
  /\ asyncQ \in QueueOf({MessageGroup}, [job: Jobs, response: Responses])
  /\ sent \in SUBSET Executions
  /\ faults \in 0..MaxFaults

ResultsOf(j) == {m \in jobsQ.msgs : m.body.job = j}
PendingOf(j) == {m \in asyncQ.msgs : m.body.job = j}
Stored(e) == \E m \in jobsQ.msgs \cup asyncQ.msgs : m.body = Body(e)

\* Retrying EnqueueResults, which cannot tell whether its message was accepted,
\* never gives a job more messages than it has executions that sent one: the
\* deduplication window outlasts the retries.
OneMessagePerExecution ==
  \A j \in Jobs :
    Cardinality(ResultsOf(j)) + Cardinality(PendingOf(j))
      <= Cardinality({e \in sent : JobOf[e] = j})

\* Deduplication merges equal results only: the result of every execution that
\* sent one is on a queue, whoever sent it first.
SentIsStored == \A e \in sent : Stored(e)

\* What the pipeline answers at all.
Reportable(e) ==
  /\ response[e] # NoResponse
  /\ response[e].code \in {200, 202, 400, 402, 403, 404}
  /\ response[e].code = 202 => response[e].shape = "located" \/ Req(e).op # "ADD_ENVIRONMENT"
  /\ ValidResult(Req(e), response[e])

\* When nothing goes wrong, an execution that has ended left a message exactly
\* if the CSP's answer is one the pipeline can report.
EndedIsStoredIffReportable ==
  faults = 0 =>
    \A e \in Executions :
      at[e] \in Done => (e \in sent <=> Reportable(e)) /\ (e \in sent <=> Stored(e))

\* An environment the CSP is still creating is never a result for ServiceNow,
\* and nothing but such an environment waits on the asynchronous queue, always
\* with the location the watcher needs.
PendingEnvironmentsStayAsync ==
  /\ \A m \in jobsQ.msgs :
       m.body.response.code = 202 => request[m.body.job].op # "ADD_ENVIRONMENT"
  /\ \A m \in asyncQ.msgs :
       /\ m.body.response.code = 202 /\ m.body.response.shape = "located"
       /\ request[m.body.job].op = "ADD_ENVIRONMENT"

\* ServiceNow's 201 leads to a message, unless the answer is not reportable or
\* something went wrong, and then the execution has ended.
AcceptedIsAnswered ==
  \A e \in Executions :
    reply[e] = "CREATED" ~>
      \/ Stored(e)
      \/ at[e] \in Done /\ (faults > 0 \/ ~Reportable(e))

\* docs/request-handling-process.md:68 has results with HTTP 202 written to the
\* asynchronous queue.
Http202GoesAsync == \A m \in jobsQ.msgs : m.body.response.code # 202

\* The result function takes its input and sends it to a queue that ServiceNow
\* consumes (result-fn.ts:19-20), and without a fault it does so.
SucceededIsEnqueued ==
  \A e \in Executions : at[e] = "Succeeded" /\ faults = 0 => Stored(e)

-----------------------------------------------------------------------------
(* The inductive invariant behind the safety properties.                    *)

\* What an execution has got from the CSP, and sent, by the state it is in.
Consistent(e) ==
  /\ at[e] \in {"none", "StartState", "Invoke"} => response[e] = NoResponse
  /\ at[e] = "EnqueueResults" /\ response[e] # NoResponse => response[e].code \in Routed
  /\ response[e].shape = "located" <=>
       response[e].code = 202 /\ Req(e).op = "ADD_ENVIRONMENT"
  /\ e \in sent => at[e] \in {"EnqueueResults"} \cup Done /\ Reportable(e)
  /\ at[e] \in Done /\ faults = 0 /\ Reportable(e) => e \in sent

\* Every message was sent by an execution, and is still what that execution
\* would send.
MessagesHaveSenders ==
  \A m \in jobsQ.msgs \cup asyncQ.msgs : \E e \in sent : m.body = Body(e)

\* A deduplicated body is on its queue already.
RecentIsStored ==
  /\ \A b \in jobsQ.recent : \E m \in jobsQ.msgs : m.body = b
  /\ \A b \in asyncQ.recent : \E m \in asyncQ.msgs : m.body = b

\* The queue the result of e goes to.
QueueFor(e) == IF response[e].shape = "located" THEN asyncQ ELSE jobsQ

\* What an execution has sent and may send again is deduplicated.
ResendsAreRecent ==
  \A e \in sent : at[e] = "EnqueueResults" => Body(e) \in QueueFor(e).recent

\* The executions that sent a result of j.
SendersOf(j) == {e \in sent : JobOf[e] = j}

FinitelyMany ==
  \A j \in Jobs :
    IsFiniteSet(ResultsOf(j)) /\ IsFiniteSet(PendingOf(j)) /\ IsFiniteSet(SendersOf(j))

IInv ==
  /\ TypeOK
  /\ \A e \in Executions : Consistent(e)
  /\ MessagesHaveSenders
  /\ RecentIsStored
  /\ ResendsAreRecent
  /\ SentIsStored
  /\ PendingEnvironmentsStayAsync
  /\ FinitelyMany
  /\ OneMessagePerExecution
==============================================================================
