-------------------------- MODULE AsyncProvisioning --------------------------
(***************************************************************************)
(* The asynchronous half of provisioning                                   *)
(* (api/provision/async-provisioning-check.ts).                            *)
(*                                                                         *)
(* A job whose CSP answered 202 waits on the asynchronous queue.  Lambda   *)
(* hands batches of that queue to the watcher, which asks the CSP for the  *)
(* status of every job of the batch (first loop), sends a result to the    *)
(* provisioning queue for every job that is finished (second loop) and     *)
(* returns the messages of the others as "failures", so that they come     *)
(* back after the visibility timeout.                                      *)
(*                                                                         *)
(* All messages are sent in one message group, so that one batch at a time *)
(* is in flight, and one invocation of the watcher is modelled.            *)
(***************************************************************************)
EXTENDS FifoQueue

CONSTANTS
  Jobs,           \* provisioning jobs that a CSP accepts with a 202
  BatchSize,      \* messages Lambda hands to one invocation (10 in the code)
  Broken,         \* jobs whose status request always ends in a CspApiError
  Forgotten,      \* jobs for which the CSP may come to answer 404
  Stuck,          \* jobs that the CSP need not ever finish
  RetentionBites, \* may a message stay queued longer than the retention period?
  MaxCrashes,     \* bound on invocations that die or time out
  MaxErrors       \* bound on transient errors

ASSUME JobsAssumption ==
  /\ IsFiniteSet(Jobs)
  /\ Broken \subseteq Jobs /\ Forgotten \subseteq Jobs /\ Stuck \subseteq Jobs
  /\ RetentionBites \in BOOLEAN
ASSUME BoundsAssumption ==
  /\ BatchSize \in Nat \ {0} /\ MaxCrashes \in Nat /\ MaxErrors \in Nat

VARIABLES
  csp,             \* what the CSP would answer about each job
  asyncQ,          \* the asynchronous provisioning jobs queue
  jobsQ,           \* the provisioning jobs queue that ServiceNow polls
  records,         \* event.Records of the invocation, {} when none runs
  unread,          \* the records that the first loop has not reached
  stillInProgress, \* records to be returned as batch item failures
  moveToReady,     \* results the second loop has not sent yet
  dropped,         \* history: jobs whose message was removed with no result
  crashes,         \* history: invocations that died
  errors           \* history: transient errors

watcher == <<records, unread, stillInProgress, moveToReady>>
vars == <<csp, asyncQ, jobsQ, watcher, dropped, crashes, errors>>

Final == {"SUCCESS", "FAILURE"}
CspStatus == {"NONE", "IN_PROGRESS", "NOT_FOUND"} \cup Final

AsyncGroup == "provisioning-queue-message-group"
ReadyGroup == "processed-async-events"

Result == [job: Jobs, status: Final]
AsyncMessage == Messages({AsyncGroup}, Jobs)

Queued(j) == \E m \in asyncQ.msgs : m.body = j
Reports(j) == {m \in jobsQ.msgs : m.body.job = j}
Reported(j) == Reports(j) # {}

-----------------------------------------------------------------------------
(* The environment: result-fn.ts and the CSP.                               *)

\* EnqueueResults finds a location in the CSP's 202 answer and queues the job.
Arrive(j) ==
  /\ csp[j] = "NONE"
  /\ csp' = [csp EXCEPT ![j] = "IN_PROGRESS"]
  /\ asyncQ' = Send(asyncQ, AsyncGroup, j)
  /\ UNCHANGED <<jobsQ, watcher, dropped, crashes, errors>>

CspFinishes(j) ==
  /\ csp[j] = "IN_PROGRESS"
  /\ \E s \in Final : csp' = [csp EXCEPT ![j] = s]
  /\ UNCHANGED <<asyncQ, jobsQ, watcher, dropped, crashes, errors>>

CspForgets(j) ==
  /\ j \in Forgotten
  /\ csp[j] \in Final \cup {"IN_PROGRESS"}
  /\ csp' = [csp EXCEPT ![j] = "NOT_FOUND"]
  /\ UNCHANGED <<asyncQ, jobsQ, watcher, dropped, crashes, errors>>

-----------------------------------------------------------------------------
(* How an invocation begins and ends.                                       *)

Idle == records = {}

\* Mutants: an array of the handler is kept for the next invocation.
KeepReady ==
  /\ records' = {}
  /\ unread' = {}
  /\ stillInProgress' = {}
  /\ UNCHANGED moveToReady

KeepInProgress ==
  /\ records' = {}
  /\ unread' = {}
  /\ moveToReady' = {}
  /\ UNCHANGED stillInProgress

EndInvocation ==
  /\ records' = {}
  /\ unread' = {}
  /\ stillInProgress' = {}
  /\ moveToReady' = {}

Receive ==
  /\ Idle
  /\ \E S \in Batches(asyncQ, BatchSize) :
       /\ asyncQ' = Take(asyncQ, S)
       /\ records' = S
       /\ unread' = S
  /\ UNCHANGED <<csp, jobsQ, stillInProgress, moveToReady, dropped, crashes, errors>>

ReceiveFull ==
  /\ Receive
  /\ records' \in FullBatches(asyncQ, BatchSize)

\* An error that errorHandlingMiddleware turns into a response: Lambda sees a
\* success without batchItemFailures and removes the whole batch.
SwallowError(q) ==
  /\ jobsQ' = q
  /\ asyncQ' = Delete(asyncQ, records)
  /\ dropped' = dropped \cup
       {j \in Jobs : /\ \E m \in records : m.body = j
                     /\ ~\E m \in q.msgs : m.body.job = j}
  /\ EndInvocation

\* An error that the middleware throws again: the batch stays in flight until
\* its visibility timeout.
RethrowError ==
  /\ EndInvocation
  /\ UNCHANGED <<asyncQ, jobsQ, dropped>>

-----------------------------------------------------------------------------
(* First loop: the status of every record.                                  *)

Checking(m) == m \in Oldest(unread)

\* Mutants: a result is sent whatever the status is, or as a success unless the
\* status is a failure.
CheckAnyStatus(m) ==
  /\ Checking(m)
  /\ m.body \notin Broken /\ csp[m.body] # "NOT_FOUND"
  /\ unread' = unread \ {m}
  /\ moveToReady' = moveToReady \cup
       {[n |-> m.n, body |-> [job |-> m.body, status |-> csp[m.body]]]}
  /\ UNCHANGED <<csp, asyncQ, jobsQ, records, stillInProgress, dropped, crashes, errors>>

CheckUnlessFailed(m) ==
  /\ Checking(m)
  /\ m.body \notin Broken /\ csp[m.body] # "NOT_FOUND"
  /\ unread' = unread \ {m}
  /\ moveToReady' = moveToReady \cup
       {[n |-> m.n, body |-> [job |-> m.body,
                             status |-> IF csp[m.body] = "FAILURE" THEN "FAILURE" ELSE "SUCCESS"]]}
  /\ UNCHANGED <<csp, asyncQ, jobsQ, records, stillInProgress, dropped, crashes, errors>>

\* The second loop will send what the CSP says now.
CheckFinished(m) ==
  /\ Checking(m)
  /\ m.body \notin Broken /\ csp[m.body] \in Final
  /\ unread' = unread \ {m}
  /\ moveToReady' = moveToReady \cup
       {[n |-> m.n, body |-> [job |-> m.body, status |-> csp[m.body]]]}
  /\ UNCHANGED <<csp, asyncQ, jobsQ, records, stillInProgress, dropped, crashes, errors>>

CheckInProgress(m) ==
  /\ Checking(m)
  /\ m.body \notin Broken /\ csp[m.body] = "IN_PROGRESS"
  /\ unread' = unread \ {m}
  /\ stillInProgress' = stillInProgress \cup {m}
  /\ UNCHANGED <<csp, asyncQ, jobsQ, records, moveToReady, dropped, crashes, errors>>

\* 404: ProvisioningJobNotFound.
CheckNotFound(m) ==
  /\ Checking(m)
  /\ m.body \notin Broken /\ csp[m.body] = "NOT_FOUND"
  /\ SwallowError(jobsQ)
  /\ UNCHANGED <<csp, crashes, errors>>

\* A failed connection, token request or secret read, a body that cannot be
\* parsed or that no mock CSP recognises: any error that is not a CspApiError.
CheckThrows(m) ==
  /\ Checking(m)
  /\ errors < MaxErrors
  /\ errors' = errors + 1
  /\ SwallowError(jobsQ)
  /\ UNCHANGED <<csp, crashes>>

\* Any status but 200 and 404: CspApiError.
CheckApiError(m) ==
  /\ Checking(m)
  /\ \/ m.body \in Broken /\ UNCHANGED errors
     \/ m.body \notin Broken /\ errors < MaxErrors /\ errors' = errors + 1
  /\ RethrowError
  /\ UNCHANGED <<csp, crashes>>

-----------------------------------------------------------------------------
(* Second loop and return.                                                  *)

Sending(r) == unread = {} /\ r \in Oldest(moveToReady)

SendReady(r) ==
  /\ Sending(r)
  /\ jobsQ' = Send(jobsQ, ReadyGroup, r.body)
  /\ moveToReady' = moveToReady \ {r}
  /\ UNCHANGED <<csp, asyncQ, records, unread, stillInProgress, dropped, crashes, errors>>

\* SendMessage fails, before or after SQS stored the message.
SendFails(r) ==
  /\ Sending(r)
  /\ errors < MaxErrors
  /\ errors' = errors + 1
  /\ \E q \in {jobsQ, Send(jobsQ, ReadyGroup, r.body)} : SwallowError(q)
  /\ UNCHANGED <<csp, crashes>>

\* Mutants: no batch item failures are returned, or the wrong ones.
ReturnNothing ==
  /\ ~Idle
  /\ unread = {} /\ moveToReady = {}
  /\ asyncQ' = Delete(asyncQ, records)
  /\ EndInvocation
  /\ UNCHANGED <<csp, jobsQ, dropped, crashes, errors>>

ReturnFinished ==
  /\ ~Idle
  /\ unread = {} /\ moveToReady = {}
  /\ asyncQ' = Delete(asyncQ, stillInProgress)
  /\ EndInvocation
  /\ UNCHANGED <<csp, jobsQ, dropped, crashes, errors>>

\* Lambda removes the records that are not among the batch item failures.
Return ==
  /\ ~Idle
  /\ unread = {} /\ moveToReady = {}
  /\ asyncQ' = Delete(asyncQ, records \ stillInProgress)
  /\ EndInvocation
  /\ UNCHANGED <<csp, jobsQ, dropped, crashes, errors>>

-----------------------------------------------------------------------------
(* Crashes and the clock.                                                   *)

\* The invocation dies or reaches its five minutes, between any two steps.
Crash ==
  /\ ~Idle
  /\ crashes < MaxCrashes
  /\ crashes' = crashes + 1
  /\ EndInvocation
  /\ UNCHANGED <<csp, asyncQ, jobsQ, dropped, errors>>

\* An hour after the receive.  The invocation is over, five minutes at most,
\* and so is the deduplication window of what it sent.
VisibilityTimeout ==
  /\ Idle
  /\ asyncQ.held # {}
  /\ asyncQ' = Release(asyncQ, asyncQ.held)
  /\ jobsQ' = Forget(jobsQ)
  /\ UNCHANGED <<csp, watcher, dropped, crashes, errors>>

\* Four days after its arrival SQS removes a message; there is no dead-letter
\* queue to move it to.
RetentionEnds ==
  /\ RetentionBites
  /\ Idle
  /\ \E m \in Oldest(asyncQ.msgs) :
       /\ asyncQ' = Delete(asyncQ, {m})
       /\ dropped' = dropped \cup {j \in {m.body} : ~Reported(j)}
  /\ UNCHANGED <<csp, jobsQ, watcher, crashes, errors>>

-----------------------------------------------------------------------------
Init ==
  /\ csp = [j \in Jobs |-> "NONE"]
  /\ asyncQ = EmptyQueue
  /\ jobsQ = EmptyQueue
  /\ records = {}
  /\ unread = {}
  /\ stillInProgress = {}
  /\ moveToReady = {}
  /\ dropped = {}
  /\ crashes = 0
  /\ errors = 0

Environment == \E j \in Jobs : Arrive(j) \/ CspFinishes(j) \/ CspForgets(j)

FirstLoop ==
  \E m \in unread :
    \/ CheckFinished(m)
    \/ CheckInProgress(m)
    \/ CheckNotFound(m)
    \/ CheckThrows(m)
    \/ CheckApiError(m)

SecondLoop == \E r \in moveToReady : SendReady(r) \/ SendFails(r)

Next ==
  \/ Environment
  \/ Receive
  \/ FirstLoop
  \/ SecondLoop
  \/ Return
  \/ Crash
  \/ VisibilityTimeout
  \/ RetentionEnds

Spec == Init /\ [][Next]_vars

\* Lambda keeps polling, an invocation keeps running, clocks keep going and
\* the CSP finishes the jobs that are not stuck.  A receive takes as much of a
\* message group as it can, so that full batches recur.  Nothing is assumed of
\* errors and crashes, which are bounded.
Fairness ==
  /\ \A j \in Jobs \ Stuck : WF_vars(CspFinishes(j))
  /\ SF_vars(ReceiveFull)
  /\ WF_vars(FirstLoop)
  /\ WF_vars(SecondLoop)
  /\ WF_vars(Return)
  /\ WF_vars(VisibilityTimeout)

FairSpec == Spec /\ Fairness

-----------------------------------------------------------------------------
(* Properties.                                                              *)

\* The variables keep their types, and the watcher works on messages in
\* flight only.
TypeOK ==
  /\ csp \in [Jobs -> CspStatus]
  /\ asyncQ \in QueueOf({AsyncGroup}, Jobs)
  /\ jobsQ \in QueueOf({ReadyGroup}, Result)
  /\ records \subseteq asyncQ.held /\ asyncQ.held \subseteq asyncQ.msgs
  /\ unread \subseteq records
  /\ stillInProgress \subseteq records
  /\ moveToReady \subseteq [n: Nat, body: Result]
  /\ dropped \subseteq Jobs
  /\ crashes \in 0..MaxCrashes
  /\ errors \in 0..MaxErrors

\* A result on the provisioning queue states the final status of its job: a job
\* is never reported while the CSP still works on it, however long ago the
\* first loop looked (async-provisioning-check.ts:59-72).
ReportsAreFinal ==
  \A m \in jobsQ.msgs : csp[m.body.job] \in {m.body.status, "NOT_FOUND"}

\* ServiceNow never reads two different outcomes for one job, although a crash
\* between the sends makes a later invocation check and report it again.
ReportsAgree ==
  \A m1, m2 \in jobsQ.msgs :
    m1.body.job = m2.body.job => m1.body.status = m2.body.status

\* A job that a CSP accepted is waiting for its next check, or was reported, or
\* was in a batch that Lambda removed after a swallowed error (or outlived the
\* retention period).  No other interleaving of checks, sends, crashes and
\* timeouts makes it vanish.
NothingVanishes ==
  \A j \in Jobs : csp[j] # "NONE" => Queued(j) \/ Reported(j) \/ j \in dropped

\* A job dropped by a swallowed error is gone for good: nothing will check it
\* again and ServiceNow never hears of it.
DroppedForGood ==
  \A j \in dropped : ~Queued(j) /\ ~Reported(j)

\* The results of a job are as many as one more than the invocations that died:
\* retries of a batch for any other reason send nothing twice.
DuplicatesNeedCrashes ==
  \A j \in Jobs : Cardinality(Reports(j)) <= 1 + crashes

\* The promise of JobReports.
reportOf ==
  [j \in Jobs |->
     IF csp[j] = "NONE" THEN "none"
     ELSE IF Reported(j)
       THEN CHOOSE s \in Final : \E m \in Reports(j) : m.body.status = s
     ELSE IF j \in dropped THEN "dropped" ELSE "pending"]

Tracking == INSTANCE JobReports WITH report <- reportOf

\* Watching the jobs over queues and crashing invocations implements the promise.
ImplementsJobReports == Tracking!Spec

\* Every job the CSP finishes is reported in the end, or was dropped by an
\* error of its batch, as long as the jobs that stay unfinished do not fill a
\* batch.
FinishedJobsAreReported ==
  \A j \in Jobs \ Stuck : csp[j] # "NONE" ~> Reported(j) \/ j \in dropped

\* docs/request-handling-process.md:73 has the watcher write the jobs that are
\* completed or failed to the provisioning queue.  A job whose status request
\* never succeeds cannot be known to be, but it should not hold up the others.
CompletedJobsAreWritten ==
  \A j \in Jobs \ Broken : csp[j] \in Final ~> Reported(j)

\* The comment above the return statement (async-provisioning-check.ts:105-107)
\* says that Lambda does not remove the records still in progress.
InProgressStaysQueued ==
  [][\A m \in stillInProgress : m \in asyncQ'.msgs]_vars

-----------------------------------------------------------------------------
(* The inductive invariant behind the safety properties.                    *)

\* A job is queued once, and not before the CSP accepted it.
OneMessagePerJob ==
  /\ \A m \in asyncQ.msgs : csp[m.body] # "NONE"
  /\ \A m1, m2 \in asyncQ.msgs : m1.body = m2.body => m1 = m2
  /\ \A j \in asyncQ.recent \cup dropped : csp[j] # "NONE"

\* A deduplicated body is on the queue already.
RecentIsStored == \A b \in jobsQ.recent : \E m \in jobsQ.msgs : m.body = b

\* What is about to be sent belongs to a record, is final, and agrees with what
\* was sent before.
ReadyIsFinal ==
  \A r \in moveToReady :
    /\ \E m \in records : m.body = r.body.job
    /\ csp[r.body.job] \in {r.body.status, "NOT_FOUND"}
    /\ \A m \in jobsQ.msgs : m.body.job = r.body.job => m.body.status = r.body.status
    /\ \A r2 \in moveToReady : r2.body.job = r.body.job => r2.body.status = r.body.status

\* Every record is unread, kept for later, about to be sent, or sent.
RecordsAccounted ==
  \A m \in records :
    \/ m \in unread \cup stillInProgress
    \/ \E r \in moveToReady : r.body.job = m.body
    \/ Reported(m.body)

\* TypeOK, the properties, and what carries them from step to step: how far the
\* running invocation has come with its records.
SafetyInv ==
  /\ TypeOK
  /\ OneMessagePerJob
  /\ RecentIsStored
  /\ ReadyIsFinal
  /\ RecordsAccounted
  /\ ReportsAreFinal
  /\ ReportsAgree
  /\ NothingVanishes
  /\ DroppedForGood

\* The first loop puts a record into one of its two arrays, and one result for
\* it at most.
RecordsAreSorted ==
  /\ unread \cap stillInProgress = {}
  /\ \A r \in moveToReady :
       \E m \in records \ (unread \cup stillInProgress) : m.body = r.body.job /\ m.n = r.n

\* The records whose results the second loop has sent.
SentRecords ==
  {m \in records :
     /\ unread = {}
     /\ m \notin stillInProgress
     /\ \A r \in moveToReady : r.body.job # m.body}

\* May a result of j be sent without another crash?
MayBeSent(j) ==
  \/ csp[j] = "NONE"
  \/ \E m \in asyncQ.msgs \ SentRecords : m.body = j

\* Every result of a job, sent or to come, but one was paid for with a crash.
ReportsPaidFor ==
  \A j \in Jobs :
    /\ IsFiniteSet(Reports(j))
    /\ Cardinality(Reports(j)) + (IF MayBeSent(j) THEN 1 ELSE 0) <= 1 + crashes

IInv ==
  /\ SafetyInv
  /\ RecordsAreSorted
  /\ ReportsPaidFor
==============================================================================
