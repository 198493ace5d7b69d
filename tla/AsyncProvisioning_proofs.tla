----------------------- MODULE AsyncProvisioning_proofs -----------------------
(***************************************************************************)
(* Proofs about AsyncProvisioning, for every set of jobs, batch size and   *)
(* number of faults: one lemma per action for SafetyInv, which is          *)
(* inductive by itself, then what a crash costs, which makes it IInv, the  *)
(* safety properties that follow, and the refinement of JobReports.        *)
(***************************************************************************)
EXTENDS AsyncProvisioning, FifoQueue_proofs, FiniteSetTheorems

\* The queues have their types, under the names the queue lemmas use.
LEMMA QueueTypes ==
  ASSUME TypeOK
  PROVE  /\ asyncQ \in QueueOf({AsyncGroup}, Jobs)
         /\ jobsQ \in QueueOf({ReadyGroup}, Result)
         /\ asyncQ.msgs \subseteq AsyncMessage /\ asyncQ.recent \subseteq Jobs
         /\ jobsQ.msgs \subseteq Messages({ReadyGroup}, Result)
         /\ records \subseteq asyncQ.msgs
  BY DEF TypeOK, QueueOf, AsyncMessage

LEMMA InitSafety == Init => SafetyInv
<1> SUFFICES ASSUME Init PROVE SafetyInv
  OBVIOUS
<1>1. EmptyQueue.msgs = {} /\ EmptyQueue.held = {} /\ EmptyQueue.recent = {}
  BY DEF EmptyQueue
<1>2. /\ EmptyQueue \in QueueOf({AsyncGroup}, Jobs)
      /\ EmptyQueue \in QueueOf({ReadyGroup}, Result)
  BY DEF EmptyQueue, QueueOf
<1>3. TypeOK
  BY <1>1, <1>2, BoundsAssumption DEF Init, TypeOK, CspStatus
<1>4. OneMessagePerJob /\ RecentIsStored /\ ReadyIsFinal /\ RecordsAccounted
  BY <1>1 DEF Init, OneMessagePerJob, RecentIsStored, ReadyIsFinal, RecordsAccounted
<1>5. ReportsAreFinal /\ ReportsAgree /\ NothingVanishes /\ DroppedForGood
  BY <1>1 DEF Init, ReportsAreFinal, ReportsAgree, NothingVanishes, DroppedForGood
<1>6. QED
  BY <1>3, <1>4, <1>5 DEF SafetyInv

-----------------------------------------------------------------------------
(* The environment's steps.                                                 *)

LEMMA ArriveInv ==
  ASSUME SafetyInv, NEW j \in Jobs, Arrive(j)
  PROVE  SafetyInv'
<1> USE DEF SafetyInv
<1> DEFINE new == [n |-> asyncQ.next, group |-> AsyncGroup, body |-> j]
<1>1. /\ csp' = [csp EXCEPT ![j] = "IN_PROGRESS"]
      /\ asyncQ' = Send(asyncQ, AsyncGroup, j)
      /\ UNCHANGED <<jobsQ, records, unread, stillInProgress, moveToReady,
                     dropped, crashes, errors>>
      /\ csp[j] = "NONE"
  BY DEF Arrive, watcher
<1>2. j \notin asyncQ.recent
  BY <1>1 DEF OneMessagePerJob
<1>3. /\ asyncQ' \in QueueOf({AsyncGroup}, Jobs)
      /\ asyncQ'.msgs = asyncQ.msgs \cup {new}
      /\ asyncQ'.held = asyncQ.held
      /\ asyncQ'.recent = asyncQ.recent \cup {j}
  <2>1. asyncQ \in QueueOf({AsyncGroup}, Jobs) /\ AsyncGroup \in {AsyncGroup}
    BY QueueTypes
  <2>2. QED
    BY <1>1, <1>2, <2>1, SendNew
<1>4. new.body = j
  OBVIOUS
<1>5. /\ \A i \in Jobs : i # j => csp'[i] = csp[i]
      /\ csp'[j] = "IN_PROGRESS"
      /\ csp' \in [Jobs -> CspStatus]
  BY <1>1 DEF TypeOK, CspStatus
<1>6. TypeOK'
  BY <1>1, <1>3, <1>5 DEF TypeOK
<1>7. OneMessagePerJob'
  BY <1>1, <1>3, <1>4, <1>5, QueueTypes DEF OneMessagePerJob, AsyncMessage, Messages, TypeOK
<1>8. RecentIsStored'
  BY <1>1 DEF RecentIsStored
<1>9. \A m \in jobsQ.msgs : m.body.job # j
  BY <1>1, QueueTypes DEF ReportsAreFinal, Messages, Result, Final
<1>10. \A r \in moveToReady : r.body.job # j
  BY <1>1 DEF ReadyIsFinal, TypeOK, Result, Final
<1>11. ReadyIsFinal'
  BY <1>1, <1>5, <1>10 DEF ReadyIsFinal, TypeOK, Result
<1>12. RecordsAccounted'
  BY <1>1 DEF RecordsAccounted, Reported, Reports
<1>13. ReportsAreFinal' /\ ReportsAgree'
  BY <1>1, <1>5, <1>9, QueueTypes DEF ReportsAreFinal, ReportsAgree, Messages, Result
<1>14. NothingVanishes'
  BY <1>1, <1>3, <1>4, <1>5 DEF NothingVanishes, Queued, Reported, Reports
<1>15. DroppedForGood'
  BY <1>1, <1>3, <1>4 DEF DroppedForGood, OneMessagePerJob, Queued, Reported, Reports
<1>16. QED
  BY <1>6, <1>7, <1>8, <1>11, <1>12, <1>13, <1>14, <1>15

\* What the CSP's own steps may change: the status of a job it accepted, to the
\* final status of a job in progress or to "NOT_FOUND".
LEMMA CspInv ==
  ASSUME SafetyInv, NEW j \in Jobs, CspFinishes(j) \/ CspForgets(j)
  PROVE  SafetyInv'
<1> USE DEF SafetyInv
<1>1. UNCHANGED <<asyncQ, jobsQ, records, unread, stillInProgress, moveToReady,
                  dropped, crashes, errors>>
  BY DEF CspFinishes, CspForgets, watcher
<1>2. /\ csp' \in [Jobs -> CspStatus]
      /\ \A i \in Jobs : i # j => csp'[i] = csp[i]
      /\ csp[j] # "NONE" /\ csp'[j] # "NONE"
      /\ csp'[j] = "NOT_FOUND" \/ csp[j] = "IN_PROGRESS"
  BY DEF CspFinishes, CspForgets, TypeOK, CspStatus, Final
<1>3. TypeOK'
  BY <1>1, <1>2 DEF TypeOK
<1>4. OneMessagePerJob'
  BY <1>1, <1>2, QueueTypes DEF OneMessagePerJob, AsyncMessage, Messages, TypeOK
<1>5. RecentIsStored' /\ RecordsAccounted' /\ ReportsAgree' /\ DroppedForGood'
  BY <1>1 DEF RecentIsStored, RecordsAccounted, ReportsAgree, DroppedForGood,
              Queued, Reported, Reports
<1>6. ReadyIsFinal'
  BY <1>1, <1>2 DEF ReadyIsFinal, TypeOK, Result, Final
<1>7. ReportsAreFinal'
  BY <1>1, <1>2, QueueTypes DEF ReportsAreFinal, Messages, Result, Final
<1>8. NothingVanishes'
  BY <1>1, <1>2 DEF NothingVanishes, Queued, Reported, Reports
<1>9. QED
  BY <1>3, <1>4, <1>5, <1>6, <1>7, <1>8

-----------------------------------------------------------------------------
(* The steps of an invocation that leave the results queue alone.           *)

LEMMA ReceiveInv ==
  ASSUME SafetyInv, Receive
  PROVE  SafetyInv'
<1> USE DEF SafetyInv
<1>1. PICK S \in Batches(asyncQ, BatchSize) :
        asyncQ' = Take(asyncQ, S) /\ records' = S /\ unread' = S
  BY DEF Receive
<1>2. UNCHANGED <<csp, jobsQ, stillInProgress, moveToReady, dropped, crashes, errors>>
  BY DEF Receive
<1>3. S \subseteq asyncQ.msgs
  BY BatchesAreStored
<1>4. /\ asyncQ' \in QueueOf({AsyncGroup}, Jobs)
      /\ asyncQ'.msgs = asyncQ.msgs
      /\ asyncQ'.held = asyncQ.held \cup S
      /\ asyncQ'.recent = asyncQ.recent
  BY <1>1, <1>3, QueueTypes, TakeFields
<1>5. stillInProgress = {} /\ moveToReady = {}
  BY DEF Receive, Idle, TypeOK, ReadyIsFinal
<1>6. TypeOK'
  BY <1>1, <1>2, <1>3, <1>4, <1>5 DEF TypeOK
<1>7. OneMessagePerJob' /\ RecentIsStored'
  BY <1>2, <1>4 DEF OneMessagePerJob, RecentIsStored
<1>8. ReadyIsFinal' /\ RecordsAccounted'
  BY <1>1, <1>2, <1>5 DEF ReadyIsFinal, RecordsAccounted
<1>9. ReportsAreFinal' /\ ReportsAgree' /\ NothingVanishes' /\ DroppedForGood'
  BY <1>2, <1>4 DEF ReportsAreFinal, ReportsAgree, NothingVanishes, DroppedForGood,
                    Queued, Reported, Reports
<1>10. QED
  BY <1>6, <1>7, <1>8, <1>9

LEMMA CheckFinishedInv ==
  ASSUME SafetyInv, NEW m \in unread, CheckFinished(m)
  PROVE  SafetyInv'
<1> USE DEF SafetyInv
<1> DEFINE new == [n |-> m.n, body |-> [job |-> m.body, status |-> csp[m.body]]]
<1>1. /\ unread' = unread \ {m}
      /\ moveToReady' = moveToReady \cup {new}
      /\ UNCHANGED <<csp, asyncQ, jobsQ, records, stillInProgress, dropped,
                     crashes, errors>>
      /\ csp[m.body] \in Final
  BY DEF CheckFinished
<1>2. m \in records /\ m.n \in Nat /\ m.body \in Jobs
  BY QueueTypes DEF TypeOK, AsyncMessage, Messages
<1>3. /\ new \in [n: Nat, body: Result]
      /\ new.body.job = m.body /\ new.body.status = csp[m.body]
  BY <1>1, <1>2 DEF Result
<1> HIDE DEF new
<1>4. TypeOK'
  BY <1>1, <1>3 DEF TypeOK
<1>5. ReadyIsFinal'
  <2>1. \A x \in jobsQ.msgs : x.body.job = m.body => x.body.status = csp[m.body]
    BY <1>1 DEF ReportsAreFinal, Final
  <2>2. \A r \in moveToReady : r.body.job = m.body => r.body.status = csp[m.body]
    BY <1>1 DEF ReadyIsFinal, Final
  <2>3. QED
    BY <1>1, <1>2, <1>3, <2>1, <2>2 DEF ReadyIsFinal
<1>6. RecordsAccounted'
  BY <1>1, <1>3 DEF RecordsAccounted, Reported, Reports
<1>7. /\ OneMessagePerJob' /\ RecentIsStored'
      /\ ReportsAreFinal' /\ ReportsAgree' /\ NothingVanishes' /\ DroppedForGood'
  BY <1>1 DEF OneMessagePerJob, RecentIsStored, ReportsAreFinal, ReportsAgree,
              NothingVanishes, DroppedForGood, Queued, Reported, Reports
<1>8. QED
  BY <1>4, <1>5, <1>6, <1>7

LEMMA CheckInProgressInv ==
  ASSUME SafetyInv, NEW m \in unread, CheckInProgress(m)
  PROVE  SafetyInv'
<1> USE DEF SafetyInv
<1>1. /\ unread' = unread \ {m}
      /\ stillInProgress' = stillInProgress \cup {m}
      /\ UNCHANGED <<csp, asyncQ, jobsQ, records, moveToReady, dropped, crashes, errors>>
  BY DEF CheckInProgress
<1>2. TypeOK'
  BY <1>1 DEF TypeOK
<1>3. ReadyIsFinal' /\ RecordsAccounted'
  BY <1>1 DEF ReadyIsFinal, RecordsAccounted, Reported, Reports
<1>4. /\ OneMessagePerJob' /\ RecentIsStored'
      /\ ReportsAreFinal' /\ ReportsAgree' /\ NothingVanishes' /\ DroppedForGood'
  BY <1>1 DEF OneMessagePerJob, RecentIsStored, ReportsAreFinal, ReportsAgree,
              NothingVanishes, DroppedForGood, Queued, Reported, Reports
<1>5. QED
  BY <1>2, <1>3, <1>4

-----------------------------------------------------------------------------
(* The results queue before and after a send.                               *)

\* What the invariant asks of the results queue, of any queue q in its place;
\* what it has more than jobsQ is about records of this invocation.
GoodResults(q) ==
  /\ q \in QueueOf({ReadyGroup}, Result)
  /\ jobsQ.msgs \subseteq q.msgs
  /\ \A b \in q.recent : \E m \in q.msgs : m.body = b
  /\ \A m \in q.msgs : csp[m.body.job] \in {m.body.status, "NOT_FOUND"}
  /\ \A m1, m2 \in q.msgs : m1.body.job = m2.body.job => m1.body.status = m2.body.status
  /\ \A m \in q.msgs : m \in jobsQ.msgs \/ \E x \in records : x.body = m.body.job
  /\ \A r \in moveToReady, m \in q.msgs :
       m.body.job = r.body.job => m.body.status = r.body.status

LEMMA SameResults == ASSUME SafetyInv PROVE GoodResults(jobsQ)
  BY QueueTypes DEF SafetyInv, GoodResults, RecentIsStored, ReadyIsFinal, ReportsAreFinal,
                    ReportsAgree

LEMMA MoreResults ==
  ASSUME SafetyInv, NEW r \in moveToReady
  PROVE  /\ GoodResults(Send(jobsQ, ReadyGroup, r.body))
         /\ \E m \in Send(jobsQ, ReadyGroup, r.body).msgs : m.body = r.body
<1> USE DEF SafetyInv
<1> DEFINE q == Send(jobsQ, ReadyGroup, r.body)
<1>1. r.body \in Result
  BY DEF TypeOK
<1>2. /\ q \in QueueOf({ReadyGroup}, Result)
      /\ jobsQ.msgs \subseteq q.msgs
      /\ q.recent = jobsQ.recent \cup {r.body}
      /\ \A m \in q.msgs : m \in jobsQ.msgs \/ m.body = r.body
      /\ r.body \in jobsQ.recent \/ \E m \in q.msgs : m.body = r.body
  <2>1. jobsQ \in QueueOf({ReadyGroup}, Result) /\ ReadyGroup \in {ReadyGroup}
    BY QueueTypes
  <2>2. QED
    BY <1>1, <2>1, SendAny
<1> HIDE DEF q
<1>3. \E m \in q.msgs : m.body = r.body
  BY <1>2 DEF RecentIsStored
<1>4. \A b \in q.recent : \E m \in q.msgs : m.body = b
  BY <1>2, <1>3 DEF RecentIsStored
<1>5. \A m \in q.msgs : csp[m.body.job] \in {m.body.status, "NOT_FOUND"}
  BY <1>2 DEF ReportsAreFinal, ReadyIsFinal
<1>6. \A m1, m2 \in q.msgs : m1.body.job = m2.body.job => m1.body.status = m2.body.status
  BY <1>2 DEF ReportsAgree, ReadyIsFinal
<1>7. \A m \in q.msgs : m \in jobsQ.msgs \/ \E x \in records : x.body = m.body.job
  BY <1>2 DEF ReadyIsFinal
<1>8. \A s \in moveToReady, m \in q.msgs :
        m.body.job = s.body.job => m.body.status = s.body.status
  BY <1>2 DEF ReadyIsFinal
<1>9. GoodResults(q)
  BY <1>2, <1>4, <1>5, <1>6, <1>7, <1>8 DEF GoodResults
<1>10. QED
  BY <1>3, <1>9 DEF q

LEMMA SendReadyInv ==
  ASSUME SafetyInv, NEW r \in moveToReady, SendReady(r)
  PROVE  SafetyInv'
<1> USE DEF SafetyInv
<1>1. /\ jobsQ' = Send(jobsQ, ReadyGroup, r.body)
      /\ moveToReady' = moveToReady \ {r}
      /\ UNCHANGED <<csp, asyncQ, records, unread, stillInProgress, dropped,
                     crashes, errors>>
  BY DEF SendReady
<1>2. GoodResults(jobsQ') /\ \E m \in jobsQ'.msgs : m.body = r.body
  BY <1>1, MoreResults
<1>3. TypeOK'
  BY <1>1, <1>2 DEF TypeOK, GoodResults
<1>4. OneMessagePerJob' /\ RecentIsStored' /\ ReportsAreFinal' /\ ReportsAgree'
  BY <1>1, <1>2 DEF OneMessagePerJob, RecentIsStored, ReportsAreFinal, ReportsAgree,
                    GoodResults
<1>5. ReadyIsFinal'
  BY <1>1, <1>2 DEF ReadyIsFinal, GoodResults
<1>6. RecordsAccounted'
  BY <1>1, <1>2 DEF RecordsAccounted, Reported, Reports, GoodResults
<1>7. NothingVanishes'
  BY <1>1, <1>2 DEF NothingVanishes, Queued, Reported, Reports, GoodResults
<1>8. DroppedForGood'
  <2>1. \A x \in records : x \in asyncQ.msgs
    BY QueueTypes
  <2>2. QED
    BY <1>1, <1>2, <2>1 DEF DroppedForGood, Queued, Reported, Reports, GoodResults
<1>9. QED
  BY <1>3, <1>4, <1>5, <1>6, <1>7, <1>8

-----------------------------------------------------------------------------
(* The ways an invocation ends.                                             *)

\* A swallowed error, whatever was sent before it.
LEMMA SwallowInv ==
  ASSUME SafetyInv, NEW q, GoodResults(q), SwallowError(q),
         UNCHANGED <<csp, crashes>>, errors' \in 0..MaxErrors
  PROVE  SafetyInv'
<1> USE DEF SafetyInv
<1>1. /\ jobsQ' = q
      /\ asyncQ' = Delete(asyncQ, records)
      /\ records' = {} /\ unread' = {} /\ stillInProgress' = {} /\ moveToReady' = {}
  BY DEF SwallowError, EndInvocation
<1>2. dropped' = dropped \cup
        {j \in Jobs : /\ \E m \in records : m.body = j
                      /\ ~\E m \in q.msgs : m.body.job = j}
  BY DEF SwallowError
<1>3. /\ asyncQ' \in QueueOf({AsyncGroup}, Jobs)
      /\ asyncQ'.msgs = asyncQ.msgs \ records
      /\ asyncQ'.held = asyncQ.held \ records
      /\ asyncQ'.recent = asyncQ.recent
  BY <1>1, QueueTypes, DeleteFields
<1>4. TypeOK'
  BY <1>1, <1>2, <1>3 DEF TypeOK, GoodResults
<1>5. \A m \in records : m \in asyncQ.msgs /\ m.body \in Jobs
  BY QueueTypes DEF AsyncMessage, Messages
<1>6. OneMessagePerJob'
  BY <1>2, <1>3, <1>5 DEF OneMessagePerJob
<1>7. RecentIsStored' /\ ReportsAreFinal' /\ ReportsAgree'
  BY <1>1 DEF RecentIsStored, ReportsAreFinal, ReportsAgree, GoodResults
<1>8. ReadyIsFinal' /\ RecordsAccounted'
  BY <1>1 DEF ReadyIsFinal, RecordsAccounted
<1>9. NothingVanishes'
  BY <1>1, <1>2, <1>3, <1>5
     DEF NothingVanishes, Queued, Reported, Reports, GoodResults
<1>10. DroppedForGood'
  BY <1>1, <1>2, <1>3, <1>5
     DEF DroppedForGood, OneMessagePerJob, Queued, Reported, Reports, GoodResults
<1>11. QED
  BY <1>4, <1>6, <1>7, <1>8, <1>9, <1>10

\* An error thrown again, a crash: the batch stays in flight.
LEMMA AbandonInv ==
  ASSUME SafetyInv, EndInvocation, UNCHANGED <<csp, asyncQ, jobsQ, dropped>>,
         errors' \in 0..MaxErrors, crashes' \in 0..MaxCrashes
  PROVE  SafetyInv'
<1> USE DEF SafetyInv
<1>1. TypeOK'
  BY DEF TypeOK, EndInvocation
<1>2. ReadyIsFinal' /\ RecordsAccounted'
  BY DEF ReadyIsFinal, RecordsAccounted, EndInvocation
<1>3. /\ OneMessagePerJob' /\ RecentIsStored'
      /\ ReportsAreFinal' /\ ReportsAgree' /\ NothingVanishes' /\ DroppedForGood'
  BY DEF OneMessagePerJob, RecentIsStored, ReportsAreFinal, ReportsAgree,
         NothingVanishes, DroppedForGood, Queued, Reported, Reports
<1>4. QED
  BY <1>1, <1>2, <1>3

\* What Lambda removes after a normal return was reported.
LEMMA ReturnInv ==
  ASSUME SafetyInv, Return
  PROVE  SafetyInv'
<1> USE DEF SafetyInv
<1> DEFINE done == records \ stillInProgress
<1>1. /\ asyncQ' = Delete(asyncQ, done)
      /\ records' = {} /\ unread' = {} /\ stillInProgress' = {} /\ moveToReady' = {}
      /\ UNCHANGED <<csp, jobsQ, dropped, crashes, errors>>
      /\ unread = {} /\ moveToReady = {}
  BY DEF Return, EndInvocation
<1>2. /\ asyncQ' \in QueueOf({AsyncGroup}, Jobs)
      /\ asyncQ'.msgs = asyncQ.msgs \ done
      /\ asyncQ'.held = asyncQ.held \ done
      /\ asyncQ'.recent = asyncQ.recent
  BY <1>1, QueueTypes, DeleteFields
<1>3. \A m \in done : Reported(m.body)
  BY <1>1 DEF RecordsAccounted
<1>4. TypeOK'
  BY <1>1, <1>2 DEF TypeOK
<1>5. OneMessagePerJob' /\ RecentIsStored' /\ ReportsAreFinal' /\ ReportsAgree'
  BY <1>1, <1>2 DEF OneMessagePerJob, RecentIsStored, ReportsAreFinal, ReportsAgree
<1>6. ReadyIsFinal' /\ RecordsAccounted'
  BY <1>1 DEF ReadyIsFinal, RecordsAccounted
<1>7. NothingVanishes'
  BY <1>1, <1>2, <1>3 DEF NothingVanishes, Queued, Reported, Reports
<1>8. DroppedForGood'
  BY <1>1, <1>2 DEF DroppedForGood, Queued, Reported, Reports
<1>9. QED
  BY <1>4, <1>5, <1>6, <1>7, <1>8

-----------------------------------------------------------------------------
(* The clocks.                                                              *)

LEMMA VisibilityTimeoutInv ==
  ASSUME SafetyInv, VisibilityTimeout
  PROVE  SafetyInv'
<1> USE DEF SafetyInv
<1>1. /\ asyncQ' = Release(asyncQ, asyncQ.held)
      /\ jobsQ' = Forget(jobsQ)
      /\ UNCHANGED <<csp, records, unread, stillInProgress, moveToReady, dropped,
                     crashes, errors>>
      /\ records = {}
  BY DEF VisibilityTimeout, Idle, watcher
<1>2. /\ asyncQ' \in QueueOf({AsyncGroup}, Jobs)
      /\ asyncQ'.msgs = asyncQ.msgs
      /\ asyncQ'.held = asyncQ.held \ asyncQ.held
      /\ asyncQ'.recent = asyncQ.recent
  BY <1>1, QueueTypes, ReleaseFields
<1>3. /\ jobsQ' \in QueueOf({ReadyGroup}, Result)
      /\ jobsQ'.msgs = jobsQ.msgs
      /\ jobsQ'.recent = {}
  BY <1>1, QueueTypes, ForgetFields
<1>4. TypeOK'
  BY <1>1, <1>2, <1>3 DEF TypeOK
<1>5. /\ OneMessagePerJob' /\ RecentIsStored' /\ ReadyIsFinal' /\ RecordsAccounted'
      /\ ReportsAreFinal' /\ ReportsAgree' /\ NothingVanishes' /\ DroppedForGood'
  BY <1>1, <1>2, <1>3
     DEF OneMessagePerJob, RecentIsStored, ReadyIsFinal, RecordsAccounted, ReportsAreFinal,
         ReportsAgree, NothingVanishes, DroppedForGood, Queued, Reported, Reports
<1>6. QED
  BY <1>4, <1>5

LEMMA RetentionEndsInv ==
  ASSUME SafetyInv, RetentionEnds
  PROVE  SafetyInv'
<1> USE DEF SafetyInv
<1>1. PICK m \in asyncQ.msgs :
        /\ asyncQ' = Delete(asyncQ, {m})
        /\ dropped' = dropped \cup {j \in {m.body} : ~Reported(j)}
  BY DEF RetentionEnds, Oldest
<1>2. /\ UNCHANGED <<csp, jobsQ, records, unread, stillInProgress, moveToReady,
                     crashes, errors>>
      /\ records = {}
  BY DEF RetentionEnds, Idle, watcher
<1>3. /\ asyncQ' \in QueueOf({AsyncGroup}, Jobs)
      /\ asyncQ'.msgs = asyncQ.msgs \ {m}
      /\ asyncQ'.held = asyncQ.held \ {m}
      /\ asyncQ'.recent = asyncQ.recent
  BY <1>1, QueueTypes, DeleteFields
<1>4. m.body \in Jobs
  BY QueueTypes DEF AsyncMessage, Messages
<1>5. TypeOK'
  BY <1>1, <1>2, <1>3, <1>4 DEF TypeOK
<1>6. OneMessagePerJob'
  BY <1>1, <1>2, <1>3 DEF OneMessagePerJob
<1>7. RecentIsStored' /\ ReadyIsFinal' /\ RecordsAccounted' /\ ReportsAreFinal' /\ ReportsAgree'
  BY <1>2 DEF RecentIsStored, ReadyIsFinal, RecordsAccounted, ReportsAreFinal, ReportsAgree
<1>8. NothingVanishes'
  BY <1>1, <1>2, <1>3 DEF NothingVanishes, Queued, Reported, Reports
<1>9. DroppedForGood'
  BY <1>1, <1>2, <1>3, <1>4
     DEF DroppedForGood, OneMessagePerJob, Queued, Reported, Reports
<1>10. QED
  BY <1>5, <1>6, <1>7, <1>8, <1>9

-----------------------------------------------------------------------------
(* All steps.                                                               *)

LEMMA StepSafety == SafetyInv /\ [Next]_vars => SafetyInv'
<1> SUFFICES ASSUME SafetyInv, [Next]_vars PROVE SafetyInv'
  OBVIOUS
<1>1. errors \in 0..MaxErrors /\ crashes \in 0..MaxCrashes
  BY DEF SafetyInv, TypeOK
<1>2. CASE UNCHANGED vars
  BY <1>2 DEF vars, watcher, SafetyInv, TypeOK, OneMessagePerJob, RecentIsStored, ReadyIsFinal,
              RecordsAccounted, ReportsAreFinal, ReportsAgree, NothingVanishes,
              DroppedForGood, Queued, Reported, Reports
<1>3. ASSUME NEW j \in Jobs, Arrive(j) PROVE SafetyInv'
  BY <1>3, ArriveInv
<1>4. ASSUME NEW j \in Jobs, CspFinishes(j) \/ CspForgets(j) PROVE SafetyInv'
  BY <1>4, CspInv
<1>5. CASE Receive
  BY <1>5, ReceiveInv
<1>6. ASSUME NEW m \in unread, CheckFinished(m) PROVE SafetyInv'
  BY <1>6, CheckFinishedInv
<1>7. ASSUME NEW m \in unread, CheckInProgress(m) PROVE SafetyInv'
  BY <1>7, CheckInProgressInv
<1>8. ASSUME NEW m \in unread, CheckNotFound(m) PROVE SafetyInv'
  BY <1>1, <1>8, SameResults, SwallowInv DEF CheckNotFound
<1>9. ASSUME NEW m \in unread, CheckThrows(m) PROVE SafetyInv'
  <2>1. errors' \in 0..MaxErrors
    BY <1>1, <1>9, BoundsAssumption DEF CheckThrows
  <2>2. QED
    BY <1>9, <2>1, SameResults, SwallowInv DEF CheckThrows
<1>10. ASSUME NEW m \in unread, CheckApiError(m) PROVE SafetyInv'
  <2>1. errors' \in 0..MaxErrors
    BY <1>1, <1>10, BoundsAssumption DEF CheckApiError
  <2>2. QED
    BY <1>1, <1>10, <2>1, AbandonInv DEF CheckApiError, RethrowError
<1>11. ASSUME NEW r \in moveToReady, SendReady(r) PROVE SafetyInv'
  BY <1>11, SendReadyInv
<1>12. ASSUME NEW r \in moveToReady, SendFails(r) PROVE SafetyInv'
  <2>1. errors' \in 0..MaxErrors
    BY <1>1, <1>12, BoundsAssumption DEF SendFails
  <2>2. PICK q \in {jobsQ, Send(jobsQ, ReadyGroup, r.body)} : SwallowError(q)
    BY <1>12 DEF SendFails
  <2>3. GoodResults(q)
    BY <2>2, SameResults, MoreResults
  <2>4. QED
    BY <1>12, <2>1, <2>2, <2>3, SwallowInv DEF SendFails
<1>13. CASE Return
  BY <1>13, ReturnInv
<1>14. CASE Crash
  <2>1. crashes' \in 0..MaxCrashes
    BY <1>1, <1>14, BoundsAssumption DEF Crash
  <2>2. QED
    BY <1>1, <1>14, <2>1, AbandonInv DEF Crash
<1>15. CASE VisibilityTimeout
  BY <1>15, VisibilityTimeoutInv
<1>16. CASE RetentionEnds
  BY <1>16, RetentionEndsInv
<1>17. QED
  BY <1>2, <1>3, <1>4, <1>5, <1>6, <1>7, <1>8, <1>9, <1>10, <1>11, <1>12, <1>13, <1>14,
     <1>15, <1>16 DEF Next, Environment, FirstLoop, SecondLoop

-----------------------------------------------------------------------------
(* What a crash costs.                                                      *)

\* ReportsPaidFor, of one job.
PaidFor(j) ==
  /\ IsFiniteSet(Reports(j))
  /\ Cardinality(Reports(j)) + (IF MayBeSent(j) THEN 1 ELSE 0) <= 1 + crashes

\* A step that sends no result lets none be sent again unless it is a crash.
LEMMA NothingSent ==
  ASSUME SafetyInv, NEW j \in Jobs, PaidFor(j), Reports(j)' = Reports(j),
         \/ crashes' = crashes /\ (MayBeSent(j)' => MayBeSent(j))
         \/ crashes' = crashes + 1
  PROVE  PaidFor(j)'
<1>1. crashes \in Nat /\ IsFiniteSet(Reports(j))
  BY BoundsAssumption DEF SafetyInv, TypeOK, PaidFor
<1>2. Cardinality(Reports(j)) \in Nat
  BY <1>1, FS_CardinalityType
<1>3. Cardinality(Reports(j)) + (IF MayBeSent(j) THEN 1 ELSE 0) <= 1 + crashes
  BY DEF PaidFor
<1>4. Cardinality(Reports(j)) + (IF MayBeSent(j)' THEN 1 ELSE 0) <= 1 + crashes'
  <2>1. CASE crashes' = crashes /\ (MayBeSent(j)' => MayBeSent(j))
    BY <1>1, <1>2, <1>3, <2>1
  <2>2. CASE crashes' = crashes + 1
    <3>1. Cardinality(Reports(j)) <= 1 + crashes
      BY <1>1, <1>2, <1>3
    <3>2. QED
      BY <1>1, <1>2, <2>2, <3>1
  <2>3. QED
    BY <2>1, <2>2
<1>5. QED
  BY <1>1, <1>4 DEF PaidFor

\* A step that sends the result of j uses it up.
LEMMA ResultSent ==
  ASSUME SafetyInv, NEW j \in Jobs, PaidFor(j), MayBeSent(j), ~MayBeSent(j)', UNCHANGED crashes,
         NEW x, Reports(j)' \subseteq Reports(j) \cup {x}
  PROVE  PaidFor(j)'
<1>1. crashes \in Nat /\ IsFiniteSet(Reports(j))
  BY BoundsAssumption DEF SafetyInv, TypeOK, PaidFor
<1>2. Cardinality(Reports(j)) \in Nat
  BY <1>1, FS_CardinalityType
<1>3. Cardinality(Reports(j)) + 1 <= 1 + crashes
  BY DEF PaidFor
<1>4. /\ IsFiniteSet(Reports(j) \cup {x})
      /\ Cardinality(Reports(j) \cup {x})
           = IF x \in Reports(j) THEN Cardinality(Reports(j)) ELSE Cardinality(Reports(j)) + 1
  BY <1>1, FS_AddElement
<1>5. Cardinality(Reports(j) \cup {x}) <= 1 + crashes /\ Cardinality(Reports(j) \cup {x}) \in Nat
  BY <1>1, <1>2, <1>3, <1>4
<1>6. IsFiniteSet(Reports(j)') /\ Cardinality(Reports(j)') <= Cardinality(Reports(j) \cup {x})
  BY <1>4, FS_Subset
<1>7. Cardinality(Reports(j)') \in Nat
  BY <1>6, FS_CardinalityType
<1>8. Cardinality(Reports(j)') + 0 <= 1 + crashes
  BY <1>1, <1>5, <1>6, <1>7
<1>9. QED
  BY <1>6, <1>8 DEF PaidFor

LEMMA NothingSentAtAll ==
  ASSUME IInv, jobsQ'.msgs = jobsQ.msgs,
         \/ UNCHANGED crashes /\ \A j \in Jobs : MayBeSent(j)' => MayBeSent(j)
         \/ crashes' = crashes + 1
  PROVE  ReportsPaidFor'
<1>1. ASSUME NEW j \in Jobs PROVE PaidFor(j)'
  <2>1. Reports(j)' = Reports(j)
    BY DEF Reports
  <2>2. SafetyInv /\ PaidFor(j)
    BY DEF IInv, ReportsPaidFor, PaidFor
  <2>3. QED
    BY <2>1, <2>2, NothingSent
<1>2. QED
  BY <1>1 DEF ReportsPaidFor, PaidFor

\* Before the second loop, and between invocations, nothing was sent yet.
LEMMA NoneSent ==
  ASSUME records = {} \/ unread # {}
  PROVE  SentRecords = {}
  BY DEF SentRecords

-----------------------------------------------------------------------------
(* The steps that send no result.                                           *)

\* The ends of an invocation leave nothing to sort.
LEMMA NothingToSort ==
  ASSUME EndInvocation
  PROVE  RecordsAreSorted'
  BY DEF EndInvocation, RecordsAreSorted

LEMMA EnvironmentPaid ==
  ASSUME IInv, Environment
  PROVE  RecordsAreSorted' /\ ReportsPaidFor'
<1>1. PICK j \in Jobs : Arrive(j) \/ CspFinishes(j) \/ CspForgets(j)
  BY DEF Environment
<1>2. UNCHANGED <<jobsQ, records, unread, stillInProgress, moveToReady, crashes>>
  BY <1>1 DEF Arrive, CspFinishes, CspForgets, watcher
<1>3. RecordsAreSorted'
  BY <1>2 DEF IInv, RecordsAreSorted
<1>4. SentRecords' = SentRecords
  BY <1>2 DEF SentRecords
<1>5. csp \in [Jobs -> CspStatus] /\ asyncQ \in QueueOf({AsyncGroup}, Jobs)
  BY DEF IInv, SafetyInv, TypeOK
<1>6. ASSUME NEW i \in Jobs, MayBeSent(i)' PROVE MayBeSent(i)
  <2>1. CASE Arrive(j)
    <3>1. /\ csp[j] = "NONE" /\ asyncQ' = Send(asyncQ, AsyncGroup, j)
          /\ csp'[j] # "NONE" /\ \A k \in Jobs \ {j} : csp'[k] = csp[k]
      BY <1>5, <2>1 DEF Arrive
    <3>2. \A m \in asyncQ'.msgs : m \in asyncQ.msgs \/ m.body = j
      <4>1. AsyncGroup \in {AsyncGroup}
        OBVIOUS
      <4>2. QED
        BY <1>5, <3>1, <4>1, SendAny
    <3>3. CASE i = j
      BY <3>1, <3>3 DEF MayBeSent
    <3>4. CASE i # j
      BY <1>4, <1>6, <3>1, <3>2, <3>4 DEF MayBeSent
    <3>5. QED
      BY <3>3, <3>4
  <2>2. CASE CspFinishes(j) \/ CspForgets(j)
    <3>1. UNCHANGED asyncQ /\ csp[j] # "NONE" /\ csp'[j] # "NONE"
      BY <1>5, <2>2 DEF CspFinishes, CspForgets, Final
    <3>2. \A k \in Jobs \ {j} : csp'[k] = csp[k]
      BY <1>5, <2>2 DEF CspFinishes, CspForgets
    <3>3. QED
      BY <1>4, <1>6, <3>1, <3>2 DEF MayBeSent
  <2>3. QED
    BY <1>1, <2>1, <2>2
<1>7. QED
  BY <1>2, <1>3, <1>6, NothingSentAtAll

LEMMA ReceivePaid ==
  ASSUME IInv, Receive
  PROVE  RecordsAreSorted' /\ ReportsPaidFor'
<1>1. PICK S \in Batches(asyncQ, BatchSize) :
        asyncQ' = Take(asyncQ, S) /\ records' = S /\ unread' = S
  BY DEF Receive
<1>2. UNCHANGED <<csp, jobsQ, stillInProgress, moveToReady, crashes>> /\ records = {}
  BY DEF Receive, Idle
<1>3. stillInProgress = {} /\ moveToReady = {}
  BY <1>2 DEF IInv, SafetyInv, TypeOK, ReadyIsFinal
<1>4. RecordsAreSorted'
  BY <1>2, <1>3 DEF RecordsAreSorted
<1>5. asyncQ'.msgs = asyncQ.msgs
  BY <1>1, BatchesAreStored, TakeFields DEF IInv, SafetyInv, TypeOK
<1>6. \A j \in Jobs : MayBeSent(j)' => MayBeSent(j)
  BY <1>2, <1>5, NoneSent DEF MayBeSent
<1>7. QED
  BY <1>2, <1>4, <1>6, NothingSentAtAll

LEMMA CheckPaid ==
  ASSUME IInv, NEW m \in unread, CheckFinished(m) \/ CheckInProgress(m)
  PROVE  RecordsAreSorted' /\ ReportsPaidFor'
<1>1. UNCHANGED <<csp, asyncQ, jobsQ, records, crashes>> /\ unread' = unread \ {m}
  BY DEF CheckFinished, CheckInProgress
<1>2. RecordsAreSorted'
  <2>1. m \in records /\ m \notin stillInProgress
    BY DEF IInv, SafetyInv, TypeOK, RecordsAreSorted
  <2>2. unread' \cap stillInProgress' = {}
    BY DEF IInv, RecordsAreSorted, CheckFinished, CheckInProgress
  <2>3. ASSUME NEW r \in moveToReady'
        PROVE  \E x \in records' \ (unread' \cup stillInProgress') : x.body = r.body.job /\ x.n = r.n
    <3>1. CASE r \in moveToReady
      <4>1. PICK x \in records \ (unread \cup stillInProgress) : x.body = r.body.job /\ x.n = r.n
        BY <3>1 DEF IInv, RecordsAreSorted
      <4>2. x \in records' \ (unread' \cup stillInProgress')
        BY <1>1, <4>1 DEF CheckFinished, CheckInProgress
      <4>3. QED
        BY <4>1, <4>2
    <3>2. CASE r \notin moveToReady
      <4>1. /\ r = [n |-> m.n, body |-> [job |-> m.body, status |-> csp[m.body]]]
            /\ UNCHANGED stillInProgress
        BY <2>3, <3>2 DEF CheckFinished, CheckInProgress
      <4>2. m.body = r.body.job /\ m.n = r.n
        BY <4>1
      <4>3. m \in records' \ (unread' \cup stillInProgress')
        BY <1>1, <2>1, <4>1
      <4>4. QED
        BY <4>2, <4>3
    <3>3. QED
      BY <3>1, <3>2
  <2>4. QED
    BY <2>2, <2>3 DEF RecordsAreSorted
<1>3. \A j \in Jobs : MayBeSent(j)' => MayBeSent(j)
  BY <1>1, NoneSent DEF MayBeSent
<1>4. QED
  BY <1>1, <1>2, <1>3, NothingSentAtAll

\* An invocation that ends without sending anything, and removes no message but
\* records.
LEMMA EndPaid ==
  ASSUME IInv, EndInvocation, UNCHANGED <<csp, crashes>>, jobsQ'.msgs = jobsQ.msgs,
         asyncQ'.msgs \subseteq asyncQ.msgs,
         asyncQ'.msgs \cap SentRecords = {}
  PROVE  RecordsAreSorted' /\ ReportsPaidFor'
<1>1. \A j \in Jobs : MayBeSent(j)' => MayBeSent(j)
  BY DEF MayBeSent
<1>2. QED
  BY <1>1, NothingToSort, NothingSentAtAll

LEMMA CheckEndsPaid ==
  ASSUME IInv, NEW m \in unread, CheckNotFound(m) \/ CheckThrows(m) \/ CheckApiError(m)
  PROVE  RecordsAreSorted' /\ ReportsPaidFor'
<1>1. EndInvocation /\ UNCHANGED <<csp, crashes, jobsQ>>
  BY DEF CheckNotFound, CheckThrows, CheckApiError, SwallowError, RethrowError
<1>2. asyncQ' = Delete(asyncQ, records) \/ UNCHANGED asyncQ
  BY DEF CheckNotFound, CheckThrows, CheckApiError, SwallowError, RethrowError
<1>3. asyncQ'.msgs \subseteq asyncQ.msgs
  BY <1>2, DeleteFields DEF IInv, SafetyInv, TypeOK
<1>4. QED
  BY <1>1, <1>3, NoneSent, EndPaid

LEMMA ReturnPaid ==
  ASSUME IInv, Return
  PROVE  RecordsAreSorted' /\ ReportsPaidFor'
<1>1. EndInvocation /\ UNCHANGED <<csp, jobsQ, crashes>>
  BY DEF Return
<1>2. asyncQ' = Delete(asyncQ, records \ stillInProgress)
  BY DEF Return
<1>3. asyncQ'.msgs = asyncQ.msgs \ (records \ stillInProgress)
  BY <1>2, DeleteFields DEF IInv, SafetyInv, TypeOK
<1>4. asyncQ'.msgs \cap SentRecords = {}
  BY <1>3 DEF SentRecords
<1>5. QED
  BY <1>1, <1>3, <1>4, EndPaid

LEMMA CrashPaid ==
  ASSUME IInv, Crash
  PROVE  RecordsAreSorted' /\ ReportsPaidFor'
  BY NothingToSort, NothingSentAtAll DEF Crash

LEMMA ClocksPaid ==
  ASSUME IInv, VisibilityTimeout \/ RetentionEnds
  PROVE  RecordsAreSorted' /\ ReportsPaidFor'
<1>1. UNCHANGED <<csp, records, unread, stillInProgress, moveToReady, crashes>> /\ records = {}
  BY DEF VisibilityTimeout, RetentionEnds, Idle, watcher
<1>2. asyncQ \in QueueOf({AsyncGroup}, Jobs) /\ jobsQ \in QueueOf({ReadyGroup}, Result)
  BY DEF IInv, SafetyInv, TypeOK
<1>3. jobsQ'.msgs = jobsQ.msgs
  BY <1>2, ForgetFields DEF VisibilityTimeout, RetentionEnds
<1>4. asyncQ'.msgs \subseteq asyncQ.msgs
  <2>1. CASE VisibilityTimeout
    BY <1>2, <2>1, ReleaseFields DEF VisibilityTimeout
  <2>2. CASE RetentionEnds
    BY <1>2, <2>2, DeleteFields DEF RetentionEnds
  <2>3. QED
    BY <2>1, <2>2
<1>5. RecordsAreSorted'
  BY <1>1 DEF IInv, RecordsAreSorted
<1>6. \A j \in Jobs : MayBeSent(j)' => MayBeSent(j)
  BY <1>1, <1>4, NoneSent DEF MayBeSent
<1>7. QED
  BY <1>1, <1>3, <1>5, <1>6, NothingSentAtAll

-----------------------------------------------------------------------------
(* The second loop.                                                         *)

\* A result about to be sent has one record, and no other result is about to be
\* sent for it.
LEMMA ReadyIsOne ==
  ASSUME IInv, NEW r \in moveToReady
  PROVE  /\ r.body.job \in Jobs
         /\ csp[r.body.job] # "NONE"
         /\ \E m \in records : m.body = r.body.job
         /\ \A m \in asyncQ.msgs : m.body = r.body.job => m \in records \ stillInProgress
         /\ \A s \in moveToReady : s.body.job = r.body.job => s = r
<1> USE DEF IInv, SafetyInv
<1>1. moveToReady \subseteq [n: Nat, body: Result] /\ records \subseteq asyncQ.msgs
  BY DEF TypeOK
<1>2. r.body.job \in Jobs /\ r.body.status \in Final
  BY <1>1 DEF Result
<1>3. csp[r.body.job] # "NONE"
  BY <1>2 DEF ReadyIsFinal, Final
<1>4. PICK m \in records \ (unread \cup stillInProgress) : m.body = r.body.job /\ m.n = r.n
  BY DEF RecordsAreSorted
<1>5. \A x \in asyncQ.msgs : x.body = r.body.job => x = m
  BY <1>1, <1>4 DEF OneMessagePerJob
<1>6. ASSUME NEW s \in moveToReady, s.body.job = r.body.job
      PROVE  s = r
  <2>1. PICK x \in records : x.body = s.body.job /\ x.n = s.n
    BY DEF RecordsAreSorted
  <2>2. x = m
    BY <1>1, <1>5, <1>6, <2>1
  <2>3. s.n = r.n
    BY <1>4, <2>1, <2>2
  <2>4. s.body.status = r.body.status
    BY <1>6 DEF ReadyIsFinal
  <2>5. s.body = r.body
    BY <1>1, <1>6, <2>4 DEF Result
  <2>6. QED
    BY <1>1, <2>3, <2>5
<1>7. QED
  BY <1>2, <1>3, <1>4, <1>5, <1>6

\* A send stores at most one result, of its job.
LEMMA OneMoreReport ==
  ASSUME IInv, NEW r \in moveToReady, NEW q \in {jobsQ, Send(jobsQ, ReadyGroup, r.body)},
         jobsQ' = q
  PROVE  /\ \A j \in Jobs : j # r.body.job => Reports(j)' = Reports(j)
         /\ \E x : Reports(r.body.job)' \subseteq Reports(r.body.job) \cup {x}
<1>1. /\ jobsQ \in QueueOf({ReadyGroup}, Result) /\ r.body \in Result
      /\ ReadyGroup \in {ReadyGroup}
  BY DEF IInv, SafetyInv, TypeOK
<1>2. PICK x : x = [n |-> jobsQ.next, group |-> ReadyGroup, body |-> r.body]
  OBVIOUS
<1>3. x.body = r.body
  BY <1>2
<1>4. jobsQ'.msgs = jobsQ.msgs \/ jobsQ'.msgs = jobsQ.msgs \cup {x}
  <2>1. CASE q = jobsQ \/ r.body \in jobsQ.recent
    BY <2>1, SendDuplicate
  <2>2. CASE q = Send(jobsQ, ReadyGroup, r.body) /\ r.body \notin jobsQ.recent
    BY <1>1, <1>2, <2>2, SendNew
  <2>3. QED
    BY <2>1, <2>2
<1>5. QED
  BY <1>3, <1>4 DEF Reports

\* A step of the second loop after which the record of r is settled.
LEMMA SendPaid ==
  ASSUME IInv, NEW r \in moveToReady, NEW q \in {jobsQ, Send(jobsQ, ReadyGroup, r.body)},
         jobsQ' = q, UNCHANGED <<csp, crashes>>,
         \A j \in Jobs : MayBeSent(j)' => MayBeSent(j),
         ~MayBeSent(r.body.job)'
  PROVE  ReportsPaidFor'
<1>1. MayBeSent(r.body.job)
  <2>1. PICK m \in records : m.body = r.body.job
    BY ReadyIsOne
  <2>2. m \in asyncQ.msgs /\ m \notin SentRecords
    BY <2>1 DEF IInv, SafetyInv, TypeOK, SentRecords
  <2>3. QED
    BY <2>1, <2>2 DEF MayBeSent
<1>2. ASSUME NEW j \in Jobs PROVE PaidFor(j)'
  <2>1. SafetyInv /\ PaidFor(j)
    BY DEF IInv, ReportsPaidFor, PaidFor
  <2>2. CASE j = r.body.job
    <3>1. PICK x : Reports(j)' \subseteq Reports(j) \cup {x}
      BY <2>2, OneMoreReport
    <3>2. MayBeSent(j) /\ ~MayBeSent(j)'
      BY <1>1, <2>2
    <3>3. QED
      BY <2>1, <3>1, <3>2, ResultSent
  <2>3. CASE j # r.body.job
    <3>1. Reports(j)' = Reports(j)
      BY <2>3, OneMoreReport
    <3>2. QED
      BY <2>1, <3>1, NothingSent
  <2>4. QED
    BY <2>2, <2>3
<1>3. QED
  BY <1>2 DEF ReportsPaidFor, PaidFor

LEMMA SendReadyPaid ==
  ASSUME IInv, NEW r \in moveToReady, SendReady(r)
  PROVE  RecordsAreSorted' /\ ReportsPaidFor'
<1>1. /\ jobsQ' = Send(jobsQ, ReadyGroup, r.body)
      /\ moveToReady' = moveToReady \ {r}
      /\ UNCHANGED <<csp, asyncQ, records, unread, stillInProgress, crashes>>
      /\ unread = {}
  BY DEF SendReady, Sending
<1>2. RecordsAreSorted'
  BY <1>1 DEF IInv, RecordsAreSorted
<1>3. SentRecords \subseteq SentRecords'
  BY <1>1 DEF SentRecords
<1>4. \A j \in Jobs : MayBeSent(j)' => MayBeSent(j)
  BY <1>1, <1>3 DEF MayBeSent
<1>5. ~MayBeSent(r.body.job)'
  <2>1. /\ csp[r.body.job] # "NONE"
        /\ \A m \in asyncQ.msgs : m.body = r.body.job => m \in records \ stillInProgress
        /\ \A s \in moveToReady : s.body.job = r.body.job => s = r
    BY ReadyIsOne
  <2>2. \A m \in asyncQ.msgs : m.body = r.body.job => m \in SentRecords'
    BY <1>1, <2>1 DEF SentRecords
  <2>3. QED
    BY <1>1, <2>1, <2>2 DEF MayBeSent
<1>6. ReportsPaidFor'
  BY <1>1, <1>4, <1>5, SendPaid
<1>7. QED
  BY <1>2, <1>6

LEMMA SendFailsPaid ==
  ASSUME IInv, NEW r \in moveToReady, SendFails(r)
  PROVE  RecordsAreSorted' /\ ReportsPaidFor'
<1>1. PICK q \in {jobsQ, Send(jobsQ, ReadyGroup, r.body)} : SwallowError(q)
  BY DEF SendFails
<1>2. /\ jobsQ' = q /\ asyncQ' = Delete(asyncQ, records)
      /\ EndInvocation /\ UNCHANGED <<csp, crashes>>
  BY <1>1 DEF SendFails, SwallowError
<1>3. asyncQ'.msgs = asyncQ.msgs \ records
  BY <1>2, DeleteFields DEF IInv, SafetyInv, TypeOK
<1>4. SentRecords \subseteq records
  BY DEF SentRecords
<1>5. \A j \in Jobs : MayBeSent(j)' => MayBeSent(j)
  BY <1>2, <1>3, <1>4 DEF MayBeSent
<1>6. ~MayBeSent(r.body.job)'
  BY <1>2, <1>3, ReadyIsOne DEF MayBeSent
<1>7. ReportsPaidFor'
  BY <1>2, <1>5, <1>6, SendPaid
<1>8. QED
  BY <1>2, <1>7, NothingToSort

-----------------------------------------------------------------------------
(* The invariant and what follows from it.                                  *)

LEMMA InitInv == Init => IInv
<1> SUFFICES ASSUME Init PROVE IInv
  OBVIOUS
<1>1. RecordsAreSorted
  BY DEF Init, RecordsAreSorted
<1>2. \A j \in Jobs : Reports(j) = {}
  BY DEF Init, Reports, EmptyQueue
<1>3. crashes = 0
  BY DEF Init
<1>4. ReportsPaidFor
  BY <1>2, <1>3, FS_EmptySet DEF ReportsPaidFor
<1>5. QED
  BY <1>1, <1>4, InitSafety DEF IInv

LEMMA StepInv == IInv /\ [Next]_vars => IInv'
<1> SUFFICES ASSUME IInv, [Next]_vars PROVE IInv'
  OBVIOUS
<1>1. SafetyInv'
  BY StepSafety DEF IInv
<1>2. RecordsAreSorted' /\ ReportsPaidFor'
  <2>1. CASE UNCHANGED vars
    <3>1. UNCHANGED <<csp, asyncQ, jobsQ, records, unread, stillInProgress, moveToReady, crashes>>
      BY <2>1 DEF vars, watcher
    <3>2. RecordsAreSorted'
      BY <3>1 DEF IInv, RecordsAreSorted
    <3>3. \A j \in Jobs : MayBeSent(j)' => MayBeSent(j)
      BY <3>1 DEF MayBeSent, SentRecords
    <3>4. QED
      BY <3>1, <3>2, <3>3, NothingSentAtAll
  <2>2. CASE FirstLoop
    BY <2>2, CheckPaid, CheckEndsPaid DEF FirstLoop
  <2>3. CASE SecondLoop
    BY <2>3, SendReadyPaid, SendFailsPaid DEF SecondLoop
  <2>4. QED
    BY <2>1, <2>2, <2>3, EnvironmentPaid, ReceivePaid, ReturnPaid, CrashPaid, ClocksPaid DEF Next
<1>3. QED
  BY <1>1, <1>2 DEF IInv

\* The inductive invariant holds in every reachable state.
THEOREM Invariance == Spec => []IInv
  BY InitInv, StepInv, PTL DEF Spec

\* Type correctness.
THEOREM TypeCorrectness == Spec => []TypeOK
<1>1. IInv => TypeOK
  BY DEF IInv, SafetyInv
<1>2. QED
  BY <1>1, Invariance, PTL

\* A job is reported with its final status only.
THEOREM ReportsAreTrue == Spec => []ReportsAreFinal
<1>1. IInv => ReportsAreFinal
  BY DEF IInv, SafetyInv
<1>2. QED
  BY <1>1, Invariance, PTL

\* However often crashes make a job be checked again, its results are the same.
THEOREM ReportsNeverDiffer == Spec => []ReportsAgree
<1>1. IInv => ReportsAgree
  BY DEF IInv, SafetyInv
<1>2. QED
  BY <1>1, Invariance, PTL

\* Whatever crashes, times out or fails, a job is queued, reported, or was in a
\* batch that Lambda removed after a swallowed error or in a message too old.
THEOREM NothingIsLostSilently == Spec => []NothingVanishes
<1>1. IInv => NothingVanishes
  BY DEF IInv, SafetyInv
<1>2. QED
  BY <1>1, Invariance, PTL

\* A dropped job never comes back.
THEOREM DroppedIsFinal == Spec => []DroppedForGood
<1>1. IInv => DroppedForGood
  BY DEF IInv, SafetyInv
<1>2. QED
  BY <1>1, Invariance, PTL

\* A job has one result, and one more at most for each invocation that died:
\* batches that come back after errors and timeouts repeat none.
THEOREM DuplicatesArePaidFor == Spec => []DuplicatesNeedCrashes
<1>1. IInv => DuplicatesNeedCrashes
  <2> SUFFICES ASSUME IInv, NEW j \in Jobs
               PROVE  Cardinality(Reports(j)) <= 1 + crashes
    BY DEF DuplicatesNeedCrashes
  <2>1. /\ IsFiniteSet(Reports(j)) /\ crashes \in Nat
        /\ Cardinality(Reports(j)) + (IF MayBeSent(j) THEN 1 ELSE 0) <= 1 + crashes
    BY BoundsAssumption DEF IInv, ReportsPaidFor, SafetyInv, TypeOK
  <2>2. Cardinality(Reports(j)) \in Nat
    BY <2>1, FS_CardinalityType
  <2>3. QED
    BY <2>1, <2>2
<1>2. QED
  BY <1>1, Invariance, PTL

-----------------------------------------------------------------------------
(* The refinement.                                                          *)

\* The mapped variable, case by case.
ReportCases ==
  /\ reportOf = [j \in Jobs |-> reportOf[j]]
  /\ \A j \in Jobs : csp[j] = "NONE" => reportOf[j] = "none"
  /\ \A j \in Jobs, m \in jobsQ.msgs : m.body.job = j => reportOf[j] = m.body.status
  /\ \A j \in Jobs : csp[j] # "NONE" /\ ~Reported(j) /\ j \in dropped
                    => reportOf[j] = "dropped"
  /\ \A j \in Jobs : csp[j] # "NONE" /\ ~Reported(j) /\ j \notin dropped
                    => reportOf[j] = "pending"

LEMMA ReportOf == SafetyInv => ReportCases
<1> SUFFICES ASSUME SafetyInv PROVE ReportCases
  OBVIOUS
<1> USE DEF SafetyInv
<1>1. \A j \in Jobs, m \in jobsQ.msgs : m.body.job = j => reportOf[j] = m.body.status
  <2> SUFFICES ASSUME NEW j \in Jobs, NEW m \in jobsQ.msgs, m.body.job = j
               PROVE  reportOf[j] = m.body.status
    OBVIOUS
  <2>1. m.body.status \in Final /\ csp[j] # "NONE"
    BY QueueTypes DEF Messages, Result, ReportsAreFinal, Final
  <2>2. m \in Reports(j) /\ Reported(j)
    BY DEF Reports, Reported
  <2>3. \A s \in Final : (\E x \in Reports(j) : x.body.status = s) <=> s = m.body.status
    BY <2>1, <2>2 DEF Reports, ReportsAgree
  <2>4. (CHOOSE s \in Final : \E x \in Reports(j) : x.body.status = s) = m.body.status
    BY <2>1, <2>3
  <2>5. QED
    BY <2>1, <2>2, <2>4 DEF reportOf
<1>2. QED
  BY <1>1 DEF reportOf, ReportCases

\* No step forgets a result or a drop, and only Arrive makes a job known.
LEMMA HistoryGrows ==
  ASSUME SafetyInv, Next, \A j \in Jobs : ~Arrive(j)
  PROVE  /\ jobsQ.msgs \subseteq jobsQ'.msgs
         /\ dropped \subseteq dropped'
         /\ \A j \in Jobs : csp'[j] = "NONE" <=> csp[j] = "NONE"
<1> USE DEF SafetyInv
<1>1. ASSUME NEW j \in Jobs, CspFinishes(j) \/ CspForgets(j)
      PROVE  /\ UNCHANGED <<jobsQ, dropped>>
             /\ \A i \in Jobs : csp'[i] = "NONE" <=> csp[i] = "NONE"
  BY <1>1 DEF CspFinishes, CspForgets, TypeOK, Final
<1>2. ASSUME NEW q, GoodResults(q), SwallowError(q)
      PROVE  jobsQ.msgs \subseteq jobsQ'.msgs /\ dropped \subseteq dropped'
  BY <1>2 DEF SwallowError, GoodResults
<1>3. CASE Receive
  BY <1>3 DEF Receive
<1>4. CASE FirstLoop
  BY <1>2, <1>4, SameResults
     DEF FirstLoop, CheckFinished, CheckInProgress, CheckNotFound, CheckThrows,
         CheckApiError, RethrowError
<1>5. CASE SecondLoop
  <2>1. ASSUME NEW r \in moveToReady, SendReady(r)
        PROVE  jobsQ.msgs \subseteq jobsQ'.msgs /\ UNCHANGED <<csp, dropped>>
    BY <2>1, MoreResults DEF SendReady, GoodResults
  <2>2. ASSUME NEW r \in moveToReady, SendFails(r)
        PROVE  jobsQ.msgs \subseteq jobsQ'.msgs /\ dropped \subseteq dropped' /\ UNCHANGED csp
    BY <1>2, <2>2, SameResults, MoreResults DEF SendFails
  <2>3. QED
    BY <1>5, <2>1, <2>2 DEF SecondLoop
<1>6. CASE Return \/ Crash
  BY <1>6 DEF Return, Crash
<1>7. CASE VisibilityTimeout
  BY <1>7, QueueTypes, ForgetFields DEF VisibilityTimeout
<1>8. CASE RetentionEnds
  BY <1>8 DEF RetentionEnds
<1>9. QED
  BY <1>1, <1>3, <1>4, <1>5, <1>6, <1>7, <1>8 DEF Next, Environment

LEMMA StepRefines == SafetyInv /\ SafetyInv' /\ [Next]_vars => [Tracking!Next]_reportOf
<1>1. SafetyInv' => ReportCases'
  BY ReportOf, PTL
<1> SUFFICES ASSUME SafetyInv, SafetyInv', [Next]_vars
             PROVE  Tracking!Next \/ reportOf' = reportOf
  OBVIOUS
<1>2. ReportCases /\ ReportCases'
  BY <1>1, ReportOf
<1>3. CASE UNCHANGED vars
  BY <1>3 DEF vars, watcher, reportOf, Reported, Reports
<1>4. ASSUME NEW j \in Jobs, Arrive(j) PROVE Tracking!Next
  <2>1. UNCHANGED <<jobsQ, dropped>> /\ csp[j] = "NONE" /\ csp'[j] = "IN_PROGRESS"
    BY <1>4 DEF Arrive, SafetyInv, TypeOK
  <2>2. \A i \in Jobs : i # j => csp'[i] = csp[i]
    BY <1>4 DEF Arrive, SafetyInv, TypeOK
  <2>3. ~Reported(j) /\ j \notin dropped
    BY <2>1, QueueTypes
       DEF SafetyInv, OneMessagePerJob, ReportsAreFinal, Reported, Reports, Messages, Result, Final
  <2>4. reportOf[j] = "none" /\ reportOf'[j] = "pending"
    BY <1>2, <2>1, <2>3 DEF ReportCases, Reported, Reports
  <2>5. \A i \in Jobs : i # j => reportOf'[i] = reportOf[i]
    BY <2>1, <2>2 DEF reportOf, Reported, Reports
  <2>6. reportOf' = [reportOf EXCEPT ![j] = "pending"]
    BY <1>2, <2>4, <2>5 DEF ReportCases
  <2>7. QED
    BY <2>4, <2>6 DEF Tracking!Next, Tracking!Accept
<1>5. ASSUME Next, \A j \in Jobs : ~Arrive(j) PROVE Tracking!Next
  <2> DEFINE S == {j \in Jobs : reportOf'[j] # reportOf[j]}
             end == [j \in S |-> reportOf'[j]]
  <2>1. \A j \in S : reportOf[j] = "pending" /\ reportOf'[j] \in Tracking!Ends
    <3> SUFFICES ASSUME NEW j \in S
                 PROVE  reportOf[j] = "pending" /\ reportOf'[j] \in Tracking!Ends
      OBVIOUS
    <3>1. csp[j] # "NONE" /\ csp'[j] # "NONE"
      BY <1>2, <1>5, HistoryGrows DEF ReportCases
    <3>2. ~Reported(j)
      BY <1>2, <1>5, HistoryGrows DEF ReportCases, Reported, Reports
    <3>3. j \notin dropped
      <4>1. j \in dropped => j \in dropped' /\ ~Reported(j)'
        BY <1>5, HistoryGrows DEF SafetyInv, DroppedForGood
      <4>2. QED
        BY <1>2, <3>1, <3>2, <4>1 DEF ReportCases
    <3>4. reportOf[j] = "pending"
      BY <1>2, <3>1, <3>2, <3>3 DEF ReportCases
    <3>5. CASE Reported(j)'
      <4>1. PICK m \in jobsQ'.msgs : m.body.job = j
        BY <3>5 DEF Reported, Reports
      <4>2. m.body.status \in Final
        <5>1. jobsQ'.msgs \subseteq Messages({ReadyGroup}, Result)
          BY DEF SafetyInv, TypeOK, QueueOf
        <5>2. QED
          BY <4>1, <5>1 DEF Messages, Result
      <4>3. QED
        BY <1>2, <3>4, <4>1, <4>2
           DEF ReportCases, Tracking!Ends, Tracking!Statuses, Final
    <3>6. CASE ~Reported(j)'
      BY <1>2, <3>1, <3>4, <3>6 DEF ReportCases, Tracking!Ends
    <3>7. QED
      BY <3>4, <3>5, <3>6
  <2>2. end \in [S -> Tracking!Ends]
    BY <2>1
  <2>3. reportOf' = [j \in Jobs |-> IF j \in S THEN end[j] ELSE reportOf[j]]
    <3>1. reportOf' = [j \in Jobs |-> reportOf'[j]]
      BY <1>2 DEF ReportCases
    <3>2. \A j \in Jobs : reportOf'[j] = IF j \in S THEN end[j] ELSE reportOf[j]
      OBVIOUS
    <3>3. QED
      BY <3>1, <3>2
  <2>4. Tracking!Close(S)
    BY <2>1, <2>2, <2>3 DEF Tracking!Close
  <2>5. QED
    BY <2>4 DEF Tracking!Next
<1>6. QED
  BY <1>3, <1>4, <1>5

\* Watching the jobs implements the promise of JobReports: accepted once, then
\* reported with one final status or dropped, and nothing after that.
THEOREM Refinement == Spec => ImplementsJobReports
<1>1. Init => Tracking!Init
  BY DEF Init, reportOf, Tracking!Init
<1>2. IInv => SafetyInv
  BY DEF IInv
<1>3. QED
  BY <1>1, <1>2, Invariance, StepRefines, PTL DEF Spec, ImplementsJobReports, Tracking!Spec
==============================================================================
