---------------------------- MODULE QueueConsumer ----------------------------
(***************************************************************************)
(* ServiceNow reading a results queue (api/util/queueConsumer.ts, as       *)
(* api/provision/consume-provisioning-job.ts and                           *)
(* api/cost/consume-cost-response.ts use it).                              *)
(*                                                                         *)
(* A GET receives a batch, and takes its messages one by one: it puts the  *)
(* message into the response and deletes it from the queue.  It responds   *)
(* at the very end, so that whatever goes wrong on the way loses what was  *)
(* deleted already.  GETs run concurrently.                                *)
(***************************************************************************)
EXTENDS FifoQueue

CONSTANTS
  Pollers,      \* GET requests that may run at one time
  Bodies,       \* results that are put on the queue
  Groups,       \* message groups
  GroupOf,      \* the message group of each body
  MaxMessages,  \* messages of one receive (10 in the code)
  MaxFaults     \* bound on everything that goes wrong

ASSUME ConsumerAssumption ==
  /\ GroupOf \in [Bodies -> Groups]
  /\ MaxMessages \in Nat \ {0} /\ MaxFaults \in Nat

VARIABLES
  queue,     \* the results queue
  batch,     \* of each GET: received messages the loop has not reached
  receipts,  \* of each GET: messages whose receipt handle is still good
  messages,  \* of each GET: messages in the response, deleted from the queue
  inbox,     \* history: messages that ServiceNow got
  lost,      \* history: messages that were deleted and never responded
  faults     \* history: faults so far

vars == <<queue, batch, receipts, messages, inbox, lost, faults>>

Message == Messages(Groups, Bodies)

Running(p) == batch[p] # {} \/ messages[p] # {}

Fault ==
  /\ faults < MaxFaults
  /\ faults' = faults + 1

-----------------------------------------------------------------------------
\* A result is put on the queue: result-fn.ts, async-provisioning-check.ts or
\* cost-request-fn.ts.
Enqueue(b) ==
  /\ b \notin queue.recent
  /\ queue' = Send(queue, GroupOf[b], b)
  /\ UNCHANGED <<batch, receipts, messages, inbox, lost, faults>>

\* Mutant: the number of messages of a receive is not limited.
ReceiveAll(p) ==
  /\ ~Running(p)
  /\ \E S \in Batches(queue, MaxMessages + 1) :
       /\ queue' = Take(queue, S)
       /\ batch' = [batch EXCEPT ![p] = S]
       /\ receipts' = [receipts EXCEPT ![p] = S]
  /\ UNCHANGED <<messages, inbox, lost, faults>>

\* ReceiveMessage.  A GET that finds no message responds with an empty list and
\* changes nothing.
Receive(p) ==
  /\ ~Running(p)
  /\ \E S \in Batches(queue, MaxMessages) :
       /\ queue' = Take(queue, S)
       /\ batch' = [batch EXCEPT ![p] = S]
       /\ receipts' = [receipts EXCEPT ![p] = S]
  /\ UNCHANGED <<messages, inbox, lost, faults>>

\* SQS hands messages out, but ReceiveMessage throws or the Lambda dies.
ReceiveFails(p) ==
  /\ ~Running(p)
  /\ Fault
  /\ \E S \in Batches(queue, MaxMessages) : queue' = Take(queue, S)
  /\ UNCHANGED <<batch, receipts, messages, inbox, lost>>

\* Mutant: the messages of a batch are processed concurrently.
ReachedAtOnce(p) == batch[p]

\* The records of a receive are in order within each group.
Reached(p) == {m \in batch[p] : \A x \in batch[p] : x.group = m.group => m.n <= x.n}

\* Mutants: the raw body is put into the response; an expired receipt handle goes
\* unnoticed; the message is deleted before it turns out to be skipped; every
\* message is skipped.
ConsumeRaw(p, m) ==
  /\ m \in Reached(p)
  /\ m \in receipts[p]
  /\ queue' = Delete(queue, {m})
  /\ batch' = [batch EXCEPT ![p] = @ \ {m}]
  /\ messages' = [messages EXCEPT ![p] = @ \cup {m.body}]
  /\ UNCHANGED <<receipts, inbox, lost, faults>>

ConsumeExpired(p, m) ==
  /\ m \in Reached(p)
  /\ queue' = Delete(queue, {m} \cap receipts[p])
  /\ batch' = [batch EXCEPT ![p] = @ \ {m}]
  /\ messages' = [messages EXCEPT ![p] = @ \cup {m}]
  /\ UNCHANGED <<receipts, inbox, lost, faults>>

DeleteSkipped(p, m) ==
  /\ m \in Reached(p)
  /\ m \in receipts[p]
  /\ queue' = Delete(queue, {m})
  /\ batch' = [batch EXCEPT ![p] = @ \ {m}]
  /\ UNCHANGED <<receipts, messages, inbox, lost, faults>>

SkipAll(p, m) ==
  /\ m \in Reached(p)
  /\ m \in receipts[p]
  /\ batch' = [batch EXCEPT ![p] = @ \ {m}]
  /\ UNCHANGED <<queue, receipts, messages, inbox, lost, faults>>

Consume(p, m) ==
  /\ m \in Reached(p)
  /\ m \in receipts[p]
  /\ queue' = Delete(queue, {m})
  /\ batch' = [batch EXCEPT ![p] = @ \ {m}]
  /\ messages' = [messages EXCEPT ![p] = @ \cup {m}]
  /\ UNCHANGED <<receipts, inbox, lost, faults>>

\* Mutant: the messages stay in an array that a later GET of the same Lambda uses.
ThrowKeeping(p, gone) ==
  /\ lost' = lost \cup messages[p] \cup gone
  /\ batch' = [batch EXCEPT ![p] = {}]
  /\ UNCHANGED <<receipts, messages, inbox>>

\* The GET ends without its response.  What the loop deleted, the messages of
\* gone included, is lost.
Throw(p, gone) ==
  /\ lost' = lost \cup messages[p] \cup gone
  /\ batch' = [batch EXCEPT ![p] = {}]
  /\ messages' = [messages EXCEPT ![p] = {}]
  /\ UNCHANGED <<receipts, inbox>>

\* SQS refuses to delete a message by a receipt handle that has expired.
DeleteRefused(p, m) ==
  /\ m \in Reached(p)
  /\ m \notin receipts[p]
  /\ Throw(p, {})
  /\ UNCHANGED <<queue, faults>>

\* DeleteMessage throws, although SQS has deleted the message.
DeleteFails(p, m) ==
  /\ m \in Reached(p)
  /\ m \in receipts[p]
  /\ Fault
  /\ queue' = Delete(queue, {m})
  /\ Throw(p, {m})

\* DeleteMessage throws and nothing is deleted, the Lambda dies or times out, or
\* its response gets lost: the API gateway gives up before the Lambda does.
Abort(p) ==
  /\ Running(p)
  /\ Fault
  /\ Throw(p, {})
  /\ UNCHANGED queue

Respond(p) ==
  /\ batch[p] = {} /\ messages[p] # {}
  /\ inbox' = inbox \cup messages[p]
  /\ messages' = [messages EXCEPT ![p] = {}]
  /\ UNCHANGED <<queue, batch, receipts, lost, faults>>

\* Thirty seconds after a receive: the messages in flight of one group come
\* from one receive.  A GET may take a minute, which counts as a fault here.
VisibilityTimeout(g) ==
  LET S == {m \in queue.held : m.group = g} IN
  /\ S # {}
  /\ IF \E p \in Pollers : S \cap batch[p] # {} THEN Fault ELSE UNCHANGED faults
  /\ queue' = Release(queue, S)
  /\ receipts' = [p \in Pollers |-> receipts[p] \ S]
  /\ UNCHANGED <<batch, messages, inbox, lost>>

-----------------------------------------------------------------------------
Init ==
  /\ queue = EmptyQueue
  /\ batch = [p \in Pollers |-> {}]
  /\ receipts = [p \in Pollers |-> {}]
  /\ messages = [p \in Pollers |-> {}]
  /\ inbox = {}
  /\ lost = {}
  /\ faults = 0

Loop(p) == \E m \in batch[p] : Consume(p, m) \/ DeleteRefused(p, m)

Next ==
  \/ \E b \in Bodies : Enqueue(b)
  \/ \E p \in Pollers :
       \/ Receive(p)
       \/ ReceiveFails(p)
       \/ Loop(p)
       \/ \E m \in batch[p] : DeleteFails(p, m)
       \/ Abort(p)
       \/ Respond(p)
  \/ \E g \in Groups : VisibilityTimeout(g)

Spec == Init /\ [][Next]_vars

\* ServiceNow keeps polling, a GET keeps running and the visibility timeout
\* comes.  A message may be out of sight each time one particular GET polls,
\* but not each time any of them does.
Fairness ==
  /\ SF_vars(\E p \in Pollers : Receive(p))
  /\ \A p \in Pollers : WF_vars(Loop(p)) /\ WF_vars(Respond(p))
  /\ \A g \in Groups : WF_vars(VisibilityTimeout(g))

FairSpec == Spec /\ Fairness

-----------------------------------------------------------------------------
(* Properties.                                                              *)

\* The variables keep their types.
TypeOK ==
  /\ queue \in QueueOf(Groups, Bodies)
  /\ queue.held \subseteq queue.msgs
  /\ batch \in [Pollers -> SUBSET Message]
  /\ receipts \in [Pollers -> SUBSET Message]
  /\ messages \in [Pollers -> SUBSET Message]
  /\ inbox \subseteq Message
  /\ lost \subseteq Message
  /\ faults \in 0..MaxFaults

\* No result is read twice: what a GET has in its response is on the queue no
\* more, was not responded before, and is in no other response, whatever the
\* visibility timeouts made of its batch (queueConsumer.ts:53-57).
ReadOnce ==
  \A p \in Pollers :
    /\ messages[p] \cap (queue.msgs \cup inbox \cup lost) = {}
    /\ \A q \in Pollers \ {p} : messages[p] \cap messages[q] = {}

\* The history of a result ends once: what ServiceNow got or what was lost is
\* not on the queue, and nothing is both.
EndsOnce ==
  /\ (inbox \cup lost) \cap queue.msgs = {}
  /\ inbox \cap lost = {}

\* What is in a response that has not arrived yet.
Responding == UNION {messages[p] : p \in Pollers}

\* A result that was sent is on the queue, in a response on its way, read or
\* lost.
ResultsAccounted ==
  \A b \in queue.recent :
    \E m \in queue.msgs \cup Responding \cup inbox \cup lost : m.body = b

\* No result overtakes an older one of its group that is still on the queue,
\* even if two GETs share a group and the first one's messages come back.
NoOvertaking ==
  \A m \in inbox \cup Responding, x \in queue.msgs :
    x.group = m.group => m.n < x.n

\* One fault costs the results of one receive at most.
LossIsBounded == Cardinality(lost) <= MaxMessages * faults

\* Every result is read in the end, or was lost to a fault.
ResultsAreRead ==
  \A b \in Bodies :
    b \in queue.recent ~> \E m \in inbox \cup lost : m.body = b

-----------------------------------------------------------------------------
(* The inductive invariant behind the safety properties.                    *)

\* The messages that a GET can still delete.
Deletable(p) == batch[p] \cap receipts[p]

\* They are in flight, for this GET only.
OneReceiver ==
  \A p \in Pollers :
    /\ Deletable(p) \subseteq queue.held
    /\ \A q \in Pollers \ {p} : Deletable(p) \cap Deletable(q) = {}

\* Nothing older of their group is on the queue outside the batch.
BatchesArePrefixes ==
  \A p \in Pollers : \A m \in Deletable(p), x \in queue.msgs :
    x.group = m.group /\ x.n < m.n => x \in batch[p]

\* Sequence numbers identify stored messages, and the next one is new.
Numbered ==
  /\ \A x, y \in queue.msgs : x.n = y.n => x = y
  /\ \A x \in queue.msgs \cup Responding \cup inbox \cup lost : x.n < queue.next

SafetyInv ==
  /\ TypeOK
  /\ OneReceiver
  /\ BatchesArePrefixes
  /\ Numbered
  /\ ReadOnce
  /\ EndsOnce
  /\ ResultsAccounted
  /\ NoOvertaking

\* A group is locked by one GET at a time.
OneReceiverPerGroup ==
  \A p, q \in Pollers : \A m \in Deletable(p), x \in Deletable(q) :
    m.group = x.group => p = q

\* The GETs that will be refused to delete a message: each has cost a fault
\* already, and what it has deleted so far will be lost.
Doomed == {p \in Pollers : ~(batch[p] \subseteq receipts[p])}

\* No GET has more messages than one receive hands out.
BatchesAreBounded ==
  /\ IsFiniteSet(queue.msgs)
  /\ \A p \in Pollers :
       /\ IsFiniteSet(batch[p] \cup messages[p])
       /\ Cardinality(batch[p] \cup messages[p]) <= MaxMessages

\* What was lost, and what the doomed GETs will lose, was paid for with faults.
LossPaidFor ==
  /\ IsFiniteSet(lost) /\ IsFiniteSet(Doomed)
  /\ Cardinality(lost) + MaxMessages * Cardinality(Doomed) <= MaxMessages * faults

IInv ==
  /\ SafetyInv
  /\ OneReceiverPerGroup
  /\ BatchesAreBounded
  /\ LossPaidFor
==============================================================================
