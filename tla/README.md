# A verification development for the ATAT web API

TLA+ modules, TLC configurations and TLAPS proofs about the ATAT web API (HOTH): the
pipelines that carry provisioning and cost requests from ServiceNow through queues,
functions and a state machine to the cloud service providers (CSPs) and back; the documents
it generates; and its deployment by a pipeline that deploys itself. File and line references
are to the repository.

## The system

| Component | State it keeps | Operations | Talks to |
| --- | --- | --- | --- |
| POST /provisioning-jobs (`api/provision/start-provisioning-job.ts`) | none | check portfolio id, validate, `startExecution`, answer 201 or 400 | state machine |
| Provisioning workflow (`lib/constructs/provisioning-sfn-workflow.ts`) | one execution per POST: its state, `cspResponse`, retries | StartState, Invoke*, HttpResponse, EnqueueResults; retry, catch, timeouts | step functions, result function |
| Step functions (`api/provision/csp-*.ts`, `api/client/client.ts`) | none | one CSP call each; answer or `AtatApiError` to response | CSP, workflow |
| Result function (`api/provision/result-fn.ts`) | none | validate, choose a queue, send | both queues |
| Asynchronous queue and provisioning queue (`lib/constructs/sqs.ts`) | messages, those in flight, deduplication window | send, receive, delete, visibility timeout, retention | everything here |
| Watcher (`api/provision/async-provisioning-check.ts`) | `stillInProgress` and `moveToReady`, per invocation | first loop (status), second loop (send), return of batch item failures | asynchronous queue, CSP, provisioning queue |
| Middleware (`utils/middleware/error-handling-middleware.ts`) | none | swallow an error, or throw a `CspApiError` again | every Lambda |
| GET results (`api/util/queueConsumer.ts`) | `messages`, per request | receive up to ten, push and delete each, respond | provisioning queue or cost response queue, ServiceNow |
| Cost pipeline (`api/cost/*.ts`, `lib/constructs/cost-api-implementation.ts`) | request queue, response queue, batch of each invocation | POST, answer a batch one by one, GET | CSP, consumer |
| CSP configuration, tokens (`api/provision/csp-configuration.ts`, `idp/client.ts`) | none | secret and token requests before each call | Secrets Manager, Cognito |
| Document generation (`document-generation/`) | one request per container | validate, dispatch by type, compute, fill a template | ServiceNow, a browser |
| Custom resources (`lib/custom-resources/`) | none; CloudFormation keeps their data | remove default rules, find endpoint addresses, send them | EC2, EventBridge |
| App and pipeline (`bin/app.ts`, `lib/atat-pipeline-stack.ts`) | the deployed pipeline | synthesize from context values, update itself | CloudFormation |
| Other CDK stacks, templates, policies | none at run time | declarative | - |

What is hard in the pipelines is never inside one function. Lambda and SQS interleave,
hand messages out again and give up on slow callers; the middleware turns most errors into
successes, which Lambda, Step Functions and SQS take at face value; results live in three
queues and in the local variables of invocations that may die. In the documents it is the
reverse: one call, but the parts of a document that must agree are computed along different
ways from the same payload. In the deployment, handlers make several calls that are not
atomic to an account that others change too. The properties follow from that:

- workflow: an accepted request ends in one message on the right queue, or in an end
  whose reason is known;
- watcher: no job is reported before it is final, reported in two ways, lost without
  one of the known reasons, or left unreported when it is finished;
- consumer: no result is read twice, none overtakes another, and a fault costs at most
  one batch;
- cost pipeline: a request is answered once, in order, unless a known fault says otherwise,
  and the answers are read as the consumer promises;
- documents: what one part of a document says of the package is what the others say;
- deployment: an event that has succeeded has missed nothing that was there when it began,
  and a pipeline that deploys itself stays what it was.

## Modules

| Module | What it is |
| --- | --- |
| `FifoQueue` | The SQS FIFO queue as a value, one operator per SQS operation |
| `FifoQueue_proofs` | What each of these operators does to each field |
| `AsyncProvisioning` | Watcher, asynchronous queue, provisioning queue, CSP |
| `JobReports` | What the watcher promises, without queues or invocations |
| `AsyncProvisioning_proofs` | Theorems about the watcher |
| `CspApi` | From a CSP answer to the response the workflow sees |
| `ProvisioningWorkflow` | POST, state machine, result function |
| `ProvisioningWorkflow_proofs` | Theorems about an execution and the messages it leaves |
| `QueueConsumer` | Concurrent GETs over one results queue |
| `QueueConsumer_proofs` | Theorems about them |
| `CostPipeline` | Cost requests from POST to GET, with the consumer as an instance |
| `CostPipeline_proofs` | Theorems about it, those about the consumer carried over among them |
| `DocumentGeneration` | The function behind the document API, one request at a time |
| `DocumentGeneration_proofs` | Theorems about the payload a document is made from, and about its parts |
| `FoldLaws` | What a loop over an array computes, for any body of the loop |
| `DocumentPayloads` | Schemas, and the fields each template reads |
| `ArrayMethods` | `filter`, `sort` and the values of a `Set`, defined so that they can be reasoned about |
| `PopPeriods`, `DowTasks`, `DowSecurity` | The computed parts of a Description of Work |
| `IgceWorkbook` | The workbook of a cost estimate, as a spreadsheet program computes it |
| `AppSynthesis` | From context values to a pipeline, and its own arguments |
| `Deployment` | The pipeline over time, and the custom resources on a changing VPC |
| `Deployment_proofs` | Theorems about them |
| `MC...` | Small instances |

`FifoQueue` is extended by `AsyncProvisioning`, `ProvisioningWorkflow`, `QueueConsumer` and
`CostPipeline`; `JobReports` and `QueueConsumer` are instantiated by a more detailed module
that implements them; `DocumentGeneration` extends `DowSecurity` (and so `DowTasks` and
`PopPeriods`), `DocumentPayloads` and `IgceWorkbook`, which use `ArrayMethods`; `Deployment` extends
`AppSynthesis`.

Operators preceded by a comment that begins with "Mutant" are not part of any
specification. Each is a plausible bug of the definition that follows it, and the
property it is meant for fails when it takes the place of that definition.

### FifoQueue

`lib/constructs/sqs.ts` configures FIFO queues with content-based deduplication and
nothing else. A queue is a record of the stored messages, the next sequence number, the
messages in flight and the bodies in the five-minute deduplication window. Of SQS the
model takes: a message in flight hides its message group; a receive returns a prefix of
each visible group; an equal body in the window is accepted and dropped; the visibility
timeout shows messages again; there is no dead-letter queue.

### AsyncProvisioning

One variable per piece of state in the code: `records`, `stillInProgress` and
`moveToReady` are the arrays of the handler, `unread` is how far the first loop has come.
Each iteration of either loop is a step, because each ends in an `await`. A `Check*`
action is one status request with its outcome:

| Outcome | Code | Effect |
| --- | --- | --- |
| SUCCESS, FAILURE | `makeRequest` returns a response | pushed to `moveToReady` |
| any other status | returns `undefined` | pushed to `stillInProgress` |
| 404 | `ProvisioningJobNotFound` | swallowed: Lambda removes the whole batch |
| connection, token, secret, body | any other error | swallowed likewise |
| another status code | `CspApiError` | thrown again: the whole batch comes back |

Errors may also strike a send, before or after SQS stored the message. `Crash` ends an
invocation between any two steps. The hour of invisibility is longer than the five
minutes of an invocation and of the deduplication window, so `VisibilityTimeout` needs
the invocation over and forgets the window. There is one message group, hence one
invocation at a time.

`JobReports` says what this amounts to: every job is pending until it is reported, with
one final status, or dropped, and that is the end of it.

### ProvisioningWorkflow and CspApi

An execution is a POST with the state it is in (`at`), its `cspResponse` and the retries
of its task. Answers are abstracted to what the code tests: status, whether the body is
an object, whether there is a location header. The status 500 stands for every status
that is neither returned nor routed. `InvokeRetries` and `EnqueueRetries` are the
default retries of a Lambda task after a service exception; the retries that the
workflow adds are for errors named `MockCspApiError`, which nothing raises.
`InvokeCaught` is the catch of a task: it goes to EnqueueResults without a response, where
the payload cannot be built. `ExecutionTimesOut` is the ten-minute limit.

`DeduplicationEnds` spares the bodies of executions that may still retry their send: six
retries take some two minutes, the window five.

### QueueConsumer

A GET receives a batch and takes its messages one by one, each into its response and
off the queue. `receipts` are the receipt handles that are still good: a GET may run for
a minute (`provisioning-sfn-workflow.ts:160`) on messages that are invisible for thirty
seconds, and another GET may have received them again. SQS refuses to delete a message
of a FIFO queue by an expired handle, which ends the GET with an error. `Abort` stands
for a failed delete, a Lambda that dies or times out, and a response that is lost, for
example because the API gateway has given up.

### CostPipeline

The request queue and the response queue are `FifoQueue` values; `todo` is what the loop of
an invocation has still to answer, `receipts` what Lambda may still delete for it. The
function may run for thirty seconds, as long as its messages are invisible
(`cost-api-implementation.ts:44-63`), so that `VisibilityTimeout` may hand a batch out while
an invocation still works on it; that counts as a fault, since the invocation is about to
time out. An answer is `[request, code]`: the response quotes the request, 200 for CSP_A,
404 for the three CSPs that are refused, and whatever the CSP says for another one. `Swallow`
is everything that throws something else than an `AtatApiError` (no secret, no token, a
lost connection, a failed send): the middleware makes it a success and Lambda removes the
batch. The GET is `QueueConsumer` instantiated on the response queue, and `FeedsConsumer`
says that the pipeline implements that module, so that its theorems hold of cost responses.

### DocumentGeneration and its parts

A container handles one request: `Receive`, `Reject` (400), one of four `Generate...`
actions, `Reply`. A payload is abstracted to its top level fields, on which validation and
templates turn, and to what the computed parts read. No schema requires a field, and type
and payload are validated independently, so that what saves a document from a foreign
payload is that something needs a field that is missing (`Needs`; `MayNeed` for fields that
only some data make a template read, hence a choice).

`DowTasks` follows `getTaskPeriods`: instances are sorted by level and group, numbered,
labelled with their periods and grouped by equal periods; `Cdrls` reads the data requirements
off the task numbers, cut as the code cuts them. A task number is a sequence of numbers.
`DowSecurity` is `getSecurityRequirements`, including its two ways of looking for a
classified offering. `PopPeriods` has the columns of the PoP table and the text of
the period of performance. `IgceWorkbook` gives a sheet the values that its formulas have:
where rows are added, which rows a SUMIF stands below, which range a VLOOKUP sees. The
summary gets no rows: the template (`templates/igce-template.xlsx`) has sixteen for CLINs, rows
6 to 21, and adds them in row 22. `RowsOver` has what the cells A23, A25, C27 and C28, written
after the rows, replace in rows that reach them, and `TotalWithFees` what rows from the
seventeenth on put in the place of the subtotal, the surge and the total price.

| Property | What is compared |
| --- | --- |
| `PopTableIsExact` | table of section 7 and the sections in which the text describes the instances |
| `CdrlsMatchPackage` | data requirements from cut task numbers, and from the package itself |
| `SecurityCoversTasks` | security section and task numbers, two readings of one payload |
| `PopTextMatchesTable` | the period text and the table's columns, two derivations |
| `SummaryMatchesLineItems` | summary and grand total of the workbook, as far as the template has lines, and the plain sum of its line items |
| `PayloadsMatchTypes` | status and fields: no foreign payload becomes a document, and no own one with a usable value in every field is refused |

The section counter of `helpers.ts:96`, a module variable that survives a request, is not
modelled: only the PDF template counts with it, over a field (`selectedServiceOfferings`) that
the schema does not allow, so that no valid payload reaches it.

### AppSynthesis and Deployment

`CreateApp` is `createApp` with its checks and early returns; `SynthParams` the arguments that
the pipeline stack lists for its own synthesis. In `Deployment`, `app` is the deployed pipeline,
set by `Deploy` (by hand) and `SelfMutate`. A handler of a custom resource is a program counter
with what it has `listed` and `found`: `ListRules`, `Revoke` (ingress, then egress), `Return` for
the default security group; `ListInterfaces`, one `DescribeOne` per interface, then
`ReturnTargets`, or `SendAddresses` and `Return`, for the endpoint. `CreateVpc`, `DeleteVpc`,
`AddRule`, `RemoveRule` and `ReplaceInterface` are what others do between any two calls;
`CallFails` ends an event with FAILED, `Redeliver` starts its handler again from the
beginning. `old` remembers what was there when the event was issued: a handler can only be
held to that. Safety only: CloudFormation promises no progress.

## Runs

| Run | Result | What it asks |
| --- | --- | --- |
| `async_safety` | pass | The invariants of the watcher, and that it implements `JobReports` |
| `async_liveness` | pass | Every finished job is reported or dropped |
| `async_neighbour` | violation | Do records in progress stay on the queue? |
| `async_broken` | violation | Is every completed job written to the provisioning queue? |
| `workflow` | pass | What an execution leaves behind, with every answer and two faults |
| `workflow_202` | violation | Do all 202 answers go to the asynchronous queue? |
| `workflow_silent` | violation | Does an execution that succeeded without a fault have sent its result? |
| `consumer` | pass | Results are read once, in order, and lost only to faults |
| `cost` | pass | Requests are answered, once and in order up to faults; the pipeline implements `QueueConsumer` |
| `documents` | pass | Do the parts of a document agree with each other and with the payload? |
| `documents_topsecret` | violation | Do two top secret instances make a top secret offering? |
| `deployment` | pass | Do events miss a rule or an address, and does the pipeline stay what it was? |

Bounds. `async_safety` has three jobs and batches of two, so that a batch mixes jobs in
different stages and leaves one out; one crash and one error, which suffice for a crash
between two sends and an error in the retry; any job may be forgotten or expire.
`async_liveness` keeps one job unfinished for ever in batches of two. As many of them as a
batch holds would starve the others, which the property therefore does not claim.
`workflow` posts one job of every kind twice, with one retry per task and two faults: two
executions with equal or different results meet on the queues, and a retry of one
may overlap with the other. `consumer` has two GETs, batches of two, a group of two
results and a group of one, and two faults: one to let a batch expire under a GET and one
for what follows. Payloads are one value: bodies differ by status, shape and job.
`cost` has two requests, one to the canned CSP and one to a real one, two overlapping
invocations, batches of two, one GET at a time, one fault on either side of the response queue.

`documents` takes requests from `MCDocumentGeneration`: all pairs of instances over the groups
whose task numbers look alike and the three classes of levels; all triples of one level; one
instance of every group and level, also without a level; every order of up to three option
periods; every way to select periods for the cross domain solution; all combinations of
line item lists of up to four items and of five CLINs over up to three periods, more than the
template has rows for (`InitialRows` is 3 for the code's 20, `ClinLines` 2 for 14,
`SummaryLines` 3 for the template's 16, `OptionSheets` 2 for 6: all four limits are crossed, that of
the summary by two rows); and for every type the payload of every
schema, whole, without one field, and merged with another. `RequestsAssumption` states what
the types of the payload promise of all of them. The other invariants of one package do not
depend on a second request, so that one container with one request at a time is enough.

`deployment` has a VPC and its replacement, two zones, one change by others and one fault,
eight contexts (three that make different pipelines, a sandbox, and four that are refused).
The two zones are symmetric: nothing in the model names one.

Fairness. Lambda keeps polling and running (`ReceiveFull` strongly, since a receive is
disabled now and then; the loops and the return weakly), Step Functions keeps an execution
running, SQS's clocks go on, ServiceNow keeps polling, and the CSP finishes the jobs
outside `Stuck`. Receives take as much of a group as they can again and again. Errors,
crashes and everything else that goes wrong are never assumed, and they are bounded.
In `cost` Lambda and ServiceNow poll strongly, for a receive is disabled while the queue is
locked; invocations, GETs and SQS's clocks run weakly. `documents` and `deployment` have
safety properties only. Deadlock is not checked in the pipelines, which stop when
all requests have been dealt with; it is in the other two.

## What the violations show

- `async_neighbour`: a status request answered with 404 ends the invocation in a
  swallowed error. Lambda sees a success and removes the batch, jobs in progress included,
  although the comment at `async-provisioning-check.ts:105-107` has them stay.
- `async_broken`: results are sent after the last check only, so that one job whose check
  always ends in a `CspApiError` holds up the completed jobs of its batch.
- `workflow_202`: `result-fn.ts:27` looks for a location, `docs/request-handling-process.md:68`
  for a 202. A 202 to ADD_PORTFOLIO or UPDATE_TASK_ORDER is delivered as a result.
- `workflow_silent`: GET_PORTFOLIO results, and error bodies that are not objects, fail
  `provisionResponseSchema`. The middleware swallows the error and the execution succeeds.

- `documents_topsecret`: `containsClassifiedOffering` (`dow.ts:811-815`) maps the instances
  of compute, database, storage and general services to booleans and then looks for "S" or "TS"
  among them. They never count; only selected services do. The test at `dow.test.ts:392` has
  top secret instances count, and passes because its data has such services.
  `SecurityCoversTasks` therefore leaves out the tasks of these four arrays.

Of what else was met on the way, nothing in the repository says otherwise, so that no run
is about it: `validateCidr` passes a block with a fifth part that is no octet; the pipeline
loses a region and a CSP configuration other than the default when it first updates itself
(`MutationKeepsPipeline` says exactly that); CLINs beyond the fourteenth of a period, or with
spaces around them, are zero in the summary; the seventeenth CLIN of all periods replaces the
subtotal of the summary, and with it the grand total; a top secret general service has level 0
in its security task number.

## What is proved

`tlapm` checks, for every value of the constants:

| Module | Properties proved of every behaviour |
| --- | --- |
| `AsyncProvisioning_proofs` | `TypeOK`, `ReportsAreFinal`, `ReportsAgree`, `NothingVanishes`, `DroppedForGood`, `DuplicatesNeedCrashes`, the refinement of `JobReports` |
| `ProvisioningWorkflow_proofs` | `TypeOK`, `OneMessagePerExecution`, `SentIsStored`, `PendingEnvironmentsStayAsync`, `EndedIsStoredIffReportable` |
| `QueueConsumer_proofs` | `TypeOK`, `ReadOnce`, `EndsOnce`, `ResultsAccounted`, `NoOvertaking`, `LossIsBounded` |
| `CostPipeline_proofs` | `TypeOK`, `RequestsAccounted`, `FirstAnswersInOrder`, `AnswersNeedFaults`, the refinement `FeedsConsumer`, and through it what is proved of the consumer |
| `DocumentGeneration_proofs` | `TypeOK`, `PayloadsMatchTypes`, `PopTableIsExact`, `PopTextMatchesTable`, `CdrlsMatchPackage`, `SecurityCoversTasks`, `SummaryMatchesLineItems` |
| `Deployment_proofs` | `TypeOK`, `DefaultGroupIsEmptied`, `AddressesAreComplete`, `MutationKeepsPipeline` for every set of contexts |

The proofs have one shape: an inductive invariant `IInv`, one lemma per action that the
action preserves it, and a temporal step. Those about queues rest on the lemmas of
`FifoQueue_proofs`, one per queue operator, and all on the assumptions on the constants,
which say of their types no more than the code does (a batch size above zero, bounds in Nat,
an environment ID of a word and a spelling). The `IInv` of the watcher and of
the consumer are invariants of their runs; those of the workflow, the
cost pipeline and the documents were held against the same instances before they were proved,
after which a run adds nothing.

The properties are not inductive by themselves. What each invariant adds:

Watcher. `RecordsAccounted` says that every record of the running invocation is unread,
kept, about to be sent or sent; without it a return could remove a message that was never
dealt with. `ReadyIsFinal` ties what is about to be sent to the CSP and to what was sent
before, and `OneMessagePerJob` to one message, so that a repeated check cannot yield another
outcome. The refinement maps a job to `none`, `pending`, its status or `dropped`
(`reportOf`); a swallowed error closes the jobs of its batch that were not reported in one
abstract step.

Consumer. `OneReceiver` says that a good receipt handle belongs to one GET and to a message
in flight, and `BatchesArePrefixes` that nothing older of its group is outside the batch,
which makes the order of deletions an order of the group. These and the safety properties
are `SafetyInv`, inductive by itself.

Workflow. `Consistent` ties the response of an execution to the state it is in.
`RecentIsStored` says that a body in the deduplication window is on its queue, so that a send
that SQS drops has its message there; `ResendsAreRecent` that the body of an execution which
may still retry its send is in the window, so that the retry adds none. The count of
messages is then one of senders: each message of a job has an execution of its own, and a
retry is no second sender.

Properties that count need an account of what is still to come. Each invariant below says
that what has happened, together with what may happen without another fault, is paid for;
every action moves an amount from one side to the other, and a fault pays for one more.

- Watcher, `ReportsPaidFor`: the results of a job, and one more while `MayBeSent`, are one
  more than the crashes at most. What the second loop of the running invocation has sent
  (`SentRecords`) is what its return will remove, and is no reason to send again. Errors cost
  nothing: one in a send removes the batch, and one that brings the batch back comes before
  the first send.
- Consumer, `LossPaidFor`: a GET is `Doomed` once it holds a message whose handle has expired,
  since its next delete of it is refused and the response is lost. What is lost, and a
  batch for each doomed GET, was paid for: the expiry was the fault, and the refusal later
  is free. `OneReceiverPerGroup` is why the expiry of one group dooms one GET.
- Cost pipeline, `AnswersPaidFor`: the answers to a request and its `Turns`, which are the
  invocations that have it in `todo`, and one more if it may be received. An expired batch
  leaves its invocation answering and makes the request receivable again: two turns, one fault.

Cost pipeline. `Reading` instantiates the consumer's theorems on the response queue. The
refinement is proved first, action by action: what the request function does to that queue is
a `Send` of the consumer or a stutter, a GET is a GET. Every invariant of the consumer is then
one of the pipeline, without a second proof (`ResponsesAreReadOnce`, `ResponseLossIsPaidFor`).
Of the rest, `BatchesArePrefixes` says that what is older than a request in `todo` is in the
same `todo` or has its answer, which gives `FirstAnswersInOrder` however invocations overlap,
and `RemovedIsAnswered` is why a removed batch has no request without an answer in it.

Documents: payloads. Any type is valid with any payload that fits any schema. The argument is that
what a type needs has a field, or two, which only its own schema allows (`TellingFields`,
`NeedsOfTypes`), apart from a plan, whose schema is part of a memo's; and that no schema
lacks a field that its template may read (`SchemaHasEverything`). `Deserved` says of an
answer what the property says of a state; one lemma (`AnswerInvariant`) then serves every
action that answers.

Documents: sections. `IsDowOfPackage`, a conjunct of `IInv`, says that the Description of Work in
a container is what `DowDocument` makes of the package there; the properties are then statements
about that function, of packages with any number of instances and option periods, whose proofs
are inductions. The induction theorems of the library take a predicate, which the provers cannot
instantiate. Here the predicate is the set of the numbers that have it, and the induction an
argument about the least number outside (`Least`, `Induction`). `FoldLaws` shows by it, for a
constant operator `Op`, that `FoldLeft` is a loop: a value for each turn, each made from the one
before. Every loop of the code has an instance of that module, with the body of the loop for
`Op`. `Filter` and `Sorted` are definitions of `ArrayMethods` by the order of places, as the
library's are recursive; `SortingPlaces` shows that an array can be sorted by numbers given
to its elements, so that the `CHOOSE` of `Sorted` chooses something.

- `PopTableIsExact`: `getTaskPeriods` gives every task a place in the list of tasks and the
  grouping one in the table. Both are shown to be one to one: the first because
  levels, groups and the index in them give back the number, the second because a task joins
  the group of its own periods only. What is left is counting.
- `CdrlsMatchPackage`: cut task numbers are shown to tell groups apart, also those of two digits.
- `SecurityCoversTasks`: the class that `getSecurityRequirements` finds in the payload is the one
  in the task number, for selected services and support packages.
- `PopTextMatchesTable`: as the orders of the option periods have no gaps, the sorted
  k-th period has order k + 1, which is the label of its column; the loop over the sorted
  periods keeps their order, and opens a group only where the length changes.

Documents: workbooks. `IsWorkbookOfEstimate`, the conjunct of `IInv` for cost estimates, says that the
workbook is what `Workbook` makes of an estimate of the schema, with which generation does not
fail. `SummaryMatchesLineItems` is then one chain of equations over any number of periods and
line items, along the formulas:

- sorting keeps the elements (`PermutationIs`), so a period's sheet has its line items
  (`ByClinIs`) and, below them, each of its CLINs in one line (`LinesAre`), wherever added
  rows have moved the lines; all of the items stand above the lines, so SUMIF adds every one
  of its CLIN (`SumIfIs`);
- the lines are within the range, as there are no more CLINs than lines, so VLOOKUP finds the
  sum of the CLIN, and 0 only where the period has none (`LookUpIs`); the sheet of a period is
  the one with its number, as no two have one order (`SheetFound`);
- the summary has a row for each CLIN of some period and no other (`ContractClinsAre`), with
  the amount of each period (`SummaryRowsAre`): a row that has its CLIN always, and within the
  lines of the summary all rows have it;
- adding up rows and then periods is adding up the line items: a sum is a count of cells, and
  a table has as many by its rows as by its columns (`CellsAre`, `SwapSums`); the amount of
  an item is in one row (`ColumnAddsUp`, `RowsAddUp`). No row has replaced the formulas of the
  template then (`GrandTotalIs`), and the fees are arithmetic (`FeesAre`).

The conditions of the property are those without which the code's formulas miss amounts: no
spaces around a CLIN, no more CLINs in a period than its sheet has lines, and, for completeness
and the grand total, no more CLINs in all periods than the summary has lines. They are hazards
at `igce-document.ts:61`, `:176` and `:200`. The proof needs them where the summary trims and
VLOOKUP compares, where the range ends, and where the formulas of the template begin.

Custom resources. `CleanupOnItsWay` and `DescribingOnItsWay` say what a handler half
way still has to do: a rule (or an interface) that was there when the event began, and still
is, will be dealt with in a later call. They survive what others change because nothing that
comes is old: `OldIsPast` and `PresentIsPast` bound the numbers of what an event found, and
of what is there, by the changes so far. Two general lemmas, `HandlerInv` for a handler that
goes on and `ReportInv` for one that ends, serve all of the handlers' actions. The pipeline
has an invariant of its own, `FromContext`: what is deployed is what the app makes of some
context; `SynthesizedAgain` computes what it makes of that pipeline's arguments.

Only model-checked: the liveness properties (`async_liveness`, `workflow`, `consumer`, `cost`), as
temporal reasoning under fairness is outside the reach of the prover. Every safety property
and every action property of the passing runs is a theorem.

## Assumptions about what is not in the repository

- A middy error handler that sets a response makes the invocation a success.
- Lambda removes every message of a batch whose invocation succeeded without batch item
  failures.
- Step Functions fails an execution that meets a missing path, and a Choice that matches no
  branch.
- SQS FIFO: locking by message group, five-minute deduplication by content, refusal of
  expired receipt handles.
- A Lambda task is retried six times after a service exception, at doubling intervals from
  two seconds.
- A package selects a period once, and only option periods of its own; the base period has optionOrder 1 and the option periods
  follow without a gap (`utils.ts:35-40`); an estimate has one entry per period; the services
  with an array of their own are not among the selected services; IL6 is the one secret
  level. These are what the pages of the application let a user enter.
- The templates read the fields listed in `DocumentPayloads`; a missing one makes
  docx-templates throw.
- EC2 returns all rules of a group in one page, and revokes all rules of a call or none.
- CloudFormation deploys the stacks of a stage one after the other, the network stack first,
  and reports an event of one resource before it issues the next.

## Not modelled, and plan

Not modelled:

- The wording of the documents: the PDF, the other Word documents beyond which fields they
  need, numbers of instances and egress averages in the text of a Description of Work, the
  templates' own loops.
- Routes, policies, monitoring, networking beyond the custom resources, and the identity
  provider: declarations without behaviour of their own. The response classes and logging.
- The canned answers of mock CSPs, in whose place the models allow every answer, and the
  client's methods that nothing calls.
- Test data (`sampleTestData.ts`, fixtures).
- The retention of the results queues and of the cost request queue: what ServiceNow does not
  read within SQS's four days is gone, which `ResultsAccounted` and `RequestsAccounted` do not
  count. Only the watcher's queue has it (`RetentionEnds`), as its hourly retries meet it.
- The end of the deduplication window in `QueueConsumer` and `CostPipeline`: a request or result
  sent again after five minutes is another message to SQS, and `AnswersNeedFaults` bounds
  the answers to one request within the window.
- Nulls in payloads. Some schemas allow them, and some generators throw on them;
  `PayloadsMatchTypes` is about fields with usable values.

Plan:

1. `Provisioning`: workflow, watcher and consumer in one system, against an abstract request
   that is accepted, pending, answered or lost.
2. What the queue lemmas would give for it: that the watcher's input is what the workflow's
   `PendingEnvironmentsStayAsync` leaves on the asynchronous queue.
