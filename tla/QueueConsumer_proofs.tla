------------------------- MODULE QueueConsumer_proofs -------------------------
(***************************************************************************)
(* Proofs about QueueConsumer, for every number of concurrent GETs, batch  *)
(* size and number of faults: one lemma per action for SafetyInv, which is *)
(* inductive by itself, one more per action for what a fault costs, and    *)
(* the safety properties that follow from IInv, the two together.          *)
(***************************************************************************)
EXTENDS QueueConsumer, FifoQueue_proofs, FiniteSetTheorems

\* Responding, by its elements.
LEMMA RespondingByPoller ==
  \A m : m \in Responding <=> \E p \in Pollers : m \in messages[p]
  BY DEF Responding

LEMMA RespondingByPollerNext ==
  \A m : m \in Responding' <=> \E p \in Pollers : m \in messages'[p]
  BY DEF Responding

\* The queue has its type, under the names the queue lemmas use.
LEMMA QueueType ==
  ASSUME TypeOK
  PROVE  /\ queue \in QueueOf(Groups, Bodies)
         /\ queue.msgs \subseteq Message /\ queue.held \subseteq queue.msgs
         /\ queue.recent \subseteq Bodies
         /\ queue.next \in Nat
  BY DEF TypeOK, QueueOf, Message

LEMMA InitSafety == Init => SafetyInv
<1> SUFFICES ASSUME Init PROVE SafetyInv
  OBVIOUS
<1>1. EmptyQueue.msgs = {} /\ EmptyQueue.held = {} /\ EmptyQueue.recent = {}
  BY DEF EmptyQueue
<1>2. EmptyQueue \in QueueOf(Groups, Bodies)
  BY DEF EmptyQueue, QueueOf
<1>3. TypeOK
  BY <1>1, <1>2, ConsumerAssumption DEF Init, TypeOK
<1>4. Responding = {}
  BY DEF Init, Responding
<1>5. OneReceiver /\ BatchesArePrefixes /\ Numbered
  BY <1>1, <1>4 DEF Init, OneReceiver, BatchesArePrefixes, Numbered, Deletable
<1>6. ReadOnce /\ EndsOnce /\ ResultsAccounted /\ NoOvertaking
  BY <1>1, <1>4 DEF Init, ReadOnce, EndsOnce, ResultsAccounted, NoOvertaking
<1>7. QED
  BY <1>3, <1>5, <1>6 DEF SafetyInv

-----------------------------------------------------------------------------
(* The queue grows.                                                         *)

LEMMA EnqueueInv ==
  ASSUME SafetyInv, NEW b \in Bodies, Enqueue(b)
  PROVE  SafetyInv'
<1> USE DEF SafetyInv
<1> DEFINE new == [n |-> queue.next, group |-> GroupOf[b], body |-> b]
<1>1. /\ b \notin queue.recent
      /\ queue' = Send(queue, GroupOf[b], b)
      /\ UNCHANGED <<batch, receipts, messages, inbox, lost, faults>>
  BY DEF Enqueue
<1>2. /\ queue' \in QueueOf(Groups, Bodies)
      /\ queue'.msgs = queue.msgs \cup {new}
      /\ queue'.held = queue.held
      /\ queue'.recent = queue.recent \cup {b}
      /\ queue'.next = queue.next + 1
  <2>1. GroupOf[b] \in Groups
    BY ConsumerAssumption
  <2>2. QED
    BY <1>1, <2>1, SendNew, QueueType
<1>3. Responding' = Responding
  BY <1>1 DEF Responding
<1>4. new.n = queue.next /\ new.body = b
  OBVIOUS
<1>5. /\ queue.next \in Nat
      /\ \A x \in queue.msgs \cup Responding \cup inbox \cup lost : x.n \in Nat /\ x.n < queue.next
  <2>1. \A x \in queue.msgs \cup Responding \cup inbox \cup lost : x \in Message
    BY QueueType, RespondingByPoller DEF TypeOK
  <2>2. QED
    BY <2>1, QueueType DEF Numbered, Message, Messages
<1>6. new \notin queue.msgs \cup Responding \cup inbox \cup lost
  BY <1>4, <1>5
<1>7. TypeOK'
  BY <1>1, <1>2 DEF TypeOK
<1>8. OneReceiver'
  BY <1>1, <1>2 DEF OneReceiver, Deletable
<1>9. BatchesArePrefixes'
  <2>1. \A p \in Pollers : Deletable(p) \subseteq queue.msgs
    BY QueueType DEF OneReceiver
  <2>2. \A p \in Pollers : \A m \in Deletable(p) : ~(new.n < m.n)
    BY <1>4, <1>5, <2>1
  <2>3. QED
    BY <1>1, <1>2, <2>2 DEF BatchesArePrefixes, Deletable
<1>10. Numbered'
  BY <1>1, <1>2, <1>3, <1>4, <1>5 DEF Numbered
<1>11. ReadOnce' /\ EndsOnce'
  BY <1>1, <1>2, <1>6, RespondingByPoller DEF ReadOnce, EndsOnce
<1>12. ResultsAccounted'
  BY <1>1, <1>2, <1>3, <1>4 DEF ResultsAccounted
<1>13. NoOvertaking'
  BY <1>1, <1>2, <1>3, <1>4, <1>5 DEF NoOvertaking
<1>14. QED
  BY <1>7, <1>8, <1>9, <1>10, <1>11, <1>12, <1>13

-----------------------------------------------------------------------------
(* The steps that hide and show messages.                                   *)

\* As long as no message moves, neither do the properties about where it is.
LEMMA NothingMoves ==
  ASSUME SafetyInv,
         queue'.msgs = queue.msgs, queue'.recent = queue.recent, queue'.next = queue.next,
         UNCHANGED <<messages, inbox, lost>>
  PROVE  Numbered' /\ ReadOnce' /\ EndsOnce' /\ ResultsAccounted' /\ NoOvertaking'
<1> USE DEF SafetyInv
<1>1. Responding' = Responding
  BY DEF Responding
<1>2. QED
  BY <1>1 DEF Numbered, ReadOnce, EndsOnce, ResultsAccounted, NoOvertaking

LEMMA ReceiveInv ==
  ASSUME SafetyInv, NEW p \in Pollers, Receive(p)
  PROVE  SafetyInv'
<1> USE DEF SafetyInv
<1>1. PICK S \in Batches(queue, MaxMessages) :
        /\ queue' = Take(queue, S)
        /\ batch' = [batch EXCEPT ![p] = S]
        /\ receipts' = [receipts EXCEPT ![p] = S]
        /\ UNCHANGED <<messages, inbox, lost, faults>>
  BY DEF Receive
<1>2. /\ S \subseteq queue.msgs
      /\ S \cap queue.held = {}
      /\ \A m \in S, x \in queue.msgs : x.group = m.group /\ x.n < m.n => x \in S
  BY BatchesAreStored, BatchesAreOldest
<1>3. /\ queue' \in QueueOf(Groups, Bodies)
      /\ queue'.msgs = queue.msgs
      /\ queue'.held = queue.held \cup S
      /\ queue'.recent = queue.recent
      /\ queue'.next = queue.next
  BY <1>1, <1>2, TakeFields, QueueType
<1>4. /\ batch'[p] = S /\ receipts'[p] = S
      /\ \A q \in Pollers \ {p} : batch'[q] = batch[q] /\ receipts'[q] = receipts[q]
  BY <1>1 DEF TypeOK
<1>5. TypeOK'
  BY <1>1, <1>2, <1>3, QueueType DEF TypeOK
<1>6. OneReceiver'
  BY <1>2, <1>3, <1>4 DEF OneReceiver, Deletable
<1>7. BatchesArePrefixes'
  BY <1>2, <1>3, <1>4 DEF BatchesArePrefixes, Deletable
<1>8. QED
  BY <1>1, <1>3, <1>5, <1>6, <1>7, NothingMoves

LEMMA ReceiveFailsInv ==
  ASSUME SafetyInv, NEW p \in Pollers, ReceiveFails(p)
  PROVE  SafetyInv'
<1> USE DEF SafetyInv
<1>1. PICK S \in Batches(queue, MaxMessages) :
        /\ queue' = Take(queue, S)
        /\ UNCHANGED <<batch, receipts, messages, inbox, lost>>
        /\ faults' \in 0..MaxFaults
  BY ConsumerAssumption DEF ReceiveFails, Fault, TypeOK
<1>2. S \subseteq queue.msgs
  BY BatchesAreStored
<1>3. /\ queue' \in QueueOf(Groups, Bodies)
      /\ queue'.msgs = queue.msgs
      /\ queue'.held = queue.held \cup S
      /\ queue'.recent = queue.recent
      /\ queue'.next = queue.next
  BY <1>1, <1>2, TakeFields, QueueType
<1>4. TypeOK'
  BY <1>1, <1>2, <1>3, QueueType DEF TypeOK
<1>5. OneReceiver' /\ BatchesArePrefixes'
  BY <1>1, <1>3 DEF OneReceiver, BatchesArePrefixes, Deletable
<1>6. QED
  BY <1>1, <1>3, <1>4, <1>5, NothingMoves

LEMMA VisibilityTimeoutInv ==
  ASSUME SafetyInv, NEW g \in Groups, VisibilityTimeout(g)
  PROVE  SafetyInv'
<1> USE DEF SafetyInv
<1> DEFINE S == {m \in queue.held : m.group = g}
<1>1. /\ queue' = Release(queue, S)
      /\ receipts' = [p \in Pollers |-> receipts[p] \ S]
      /\ UNCHANGED <<batch, messages, inbox, lost>>
      /\ faults' \in 0..MaxFaults
  BY ConsumerAssumption DEF VisibilityTimeout, Fault, TypeOK
<1>2. /\ queue' \in QueueOf(Groups, Bodies)
      /\ queue'.msgs = queue.msgs
      /\ queue'.held = queue.held \ S
      /\ queue'.recent = queue.recent
      /\ queue'.next = queue.next
  <2> HIDE DEF S
  <2>1. QED
    BY <1>1, ReleaseFields, QueueType
<1>3. TypeOK'
  BY <1>1, <1>2 DEF TypeOK
<1>4. \A p \in Pollers : Deletable(p)' = Deletable(p) \ S
  BY <1>1 DEF Deletable
<1>5. OneReceiver'
  BY <1>2, <1>4 DEF OneReceiver
<1>6. BatchesArePrefixes'
  BY <1>1, <1>2, <1>4 DEF BatchesArePrefixes
<1>7. QED
  BY <1>1, <1>2, <1>3, <1>5, <1>6, NothingMoves

-----------------------------------------------------------------------------
(* The loop and the ends of a GET.                                          *)

\* What the deletion of a reached message leaves to prove about batches and
\* numbers, wherever the message goes.
LEMMA DeletedByOne ==
  ASSUME SafetyInv, NEW p \in Pollers, NEW m \in Reached(p), m \in receipts[p]
  PROVE  /\ m \in queue.msgs /\ m \in Message /\ m \in Deletable(p)
         /\ \A q \in Pollers : m \notin messages[q]
         /\ m \notin inbox /\ m \notin lost
         /\ \A q \in Pollers \ {p} : m \notin Deletable(q)
         /\ \A x \in queue.msgs : x.group = m.group /\ x # m => m.n < x.n
<1> USE DEF SafetyInv
<1>1. m \in batch[p] /\ m \in Deletable(p)
  BY DEF Reached, Deletable
<1>2. m \in queue.msgs /\ m \in Message
  BY <1>1, QueueType DEF OneReceiver
<1>3. /\ \A q \in Pollers : m \notin messages[q]
      /\ m \notin inbox /\ m \notin lost
  BY <1>2 DEF ReadOnce, EndsOnce
<1>4. \A q \in Pollers \ {p} : m \notin Deletable(q)
  BY <1>1 DEF OneReceiver
<1>5. ASSUME NEW x \in queue.msgs, x.group = m.group, x # m
      PROVE  m.n < x.n
  <2>1. x.n \in Nat /\ m.n \in Nat
    BY <1>2, QueueType DEF Message, Messages
  <2>2. x.n # m.n
    BY <1>2, <1>5 DEF Numbered
  <2>3. x.n < m.n => x \in batch[p]
    BY <1>1, <1>5 DEF BatchesArePrefixes
  <2>4. x \in batch[p] => m.n <= x.n
    BY <1>5 DEF Reached
  <2>5. QED
    BY <2>1, <2>2, <2>3, <2>4
<1>6. QED
  BY <1>1, <1>2, <1>3, <1>4, <1>5

LEMMA ConsumeInv ==
  ASSUME SafetyInv, NEW p \in Pollers, NEW m, Consume(p, m)
  PROVE  SafetyInv'
<1> USE DEF SafetyInv
<1>1. /\ m \in Reached(p) /\ m \in receipts[p]
      /\ queue' = Delete(queue, {m})
      /\ batch' = [batch EXCEPT ![p] = @ \ {m}]
      /\ messages' = [messages EXCEPT ![p] = @ \cup {m}]
      /\ UNCHANGED <<receipts, inbox, lost, faults>>
  BY DEF Consume
<1>2. /\ m \in queue.msgs /\ m \in Message /\ m \in Deletable(p)
      /\ \A q \in Pollers : m \notin messages[q]
      /\ m \notin inbox /\ m \notin lost
      /\ \A q \in Pollers \ {p} : m \notin Deletable(q)
      /\ \A x \in queue.msgs : x.group = m.group /\ x # m => m.n < x.n
  BY <1>1, DeletedByOne
<1>3. /\ queue' \in QueueOf(Groups, Bodies)
      /\ queue'.msgs = queue.msgs \ {m}
      /\ queue'.held = queue.held \ {m}
      /\ queue'.recent = queue.recent
      /\ queue'.next = queue.next
  BY <1>1, DeleteFields, QueueType
<1>4. /\ batch'[p] = batch[p] \ {m}
      /\ messages'[p] = messages[p] \cup {m}
      /\ \A q \in Pollers \ {p} : batch'[q] = batch[q] /\ messages'[q] = messages[q]
  BY <1>1 DEF TypeOK
<1>5. \A x : x \in Responding' <=> x \in Responding \/ x = m
  BY <1>4, RespondingByPoller, RespondingByPollerNext
<1>6. TypeOK'
  BY <1>1, <1>2, <1>3 DEF TypeOK
<1>7. Deletable(p)' = Deletable(p) \ {m} /\ \A q \in Pollers \ {p} : Deletable(q)' = Deletable(q)
  BY <1>1, <1>4 DEF Deletable
<1>8. OneReceiver'
  BY <1>2, <1>3, <1>7 DEF OneReceiver
<1>9. BatchesArePrefixes'
  BY <1>3, <1>4, <1>7 DEF BatchesArePrefixes
<1>10. Numbered'
  BY <1>1, <1>2, <1>3, <1>5 DEF Numbered
<1>11. ReadOnce'
  <2>1. ASSUME NEW q \in Pollers
        PROVE  messages'[q] \cap (queue'.msgs \cup inbox \cup lost) = {}
    <3>1. messages[q] \cap (queue.msgs \cup inbox \cup lost) = {}
      BY DEF ReadOnce
    <3>2. QED
      BY <1>2, <1>3, <1>4, <3>1
  <2>2. ASSUME NEW q \in Pollers, NEW r \in Pollers \ {q}
        PROVE  messages'[q] \cap messages'[r] = {}
    <3>1. messages[q] \cap messages[r] = {}
      BY DEF ReadOnce
    <3>2. /\ m \notin messages[q] /\ m \notin messages[r]
          /\ messages'[q] \subseteq messages[q] \cup {m}
          /\ messages'[r] \subseteq messages[r] \cup {m}
          /\ messages'[q] = messages[q] \/ messages'[r] = messages[r]
      BY <1>2, <1>4
    <3>3. QED
      BY <3>1, <3>2
  <2>3. QED
    BY <1>1, <2>1, <2>2 DEF ReadOnce
<1>12. EndsOnce'
  BY <1>1, <1>3 DEF EndsOnce
<1>13. ResultsAccounted'
  BY <1>1, <1>3, <1>5 DEF ResultsAccounted
<1>14. NoOvertaking'
  BY <1>1, <1>2, <1>3, <1>5 DEF NoOvertaking
<1>15. QED
  BY <1>6, <1>8, <1>9, <1>10, <1>11, <1>12, <1>13, <1>14

\* A GET that ends without a response, whatever it has deleted last.
LEMMA ThrowInv ==
  ASSUME SafetyInv, NEW p \in Pollers, NEW gone, Throw(p, gone), faults' \in 0..MaxFaults,
         \/ gone = {} /\ UNCHANGED queue
         \/ \E m \in Reached(p) : m \in receipts[p] /\ gone = {m} /\ queue' = Delete(queue, {m})
  PROVE  SafetyInv'
<1> USE DEF SafetyInv
<1>1. /\ lost' = lost \cup messages[p] \cup gone
      /\ batch' = [batch EXCEPT ![p] = {}]
      /\ messages' = [messages EXCEPT ![p] = {}]
      /\ UNCHANGED <<receipts, inbox>>
  BY DEF Throw
<1>2. /\ gone \subseteq queue.msgs /\ gone \subseteq Message
      /\ gone \cap inbox = {}
      /\ \A q \in Pollers : gone \cap messages[q] = {}
      /\ \A q \in Pollers \ {p} : gone \cap Deletable(q) = {}
  <2>1. CASE gone = {}
    BY <2>1
  <2>2. CASE gone # {}
    <3>1. PICK m \in Reached(p) : m \in receipts[p] /\ gone = {m}
      BY <2>2
    <3>2. QED
      BY <3>1, DeletedByOne
  <2>3. QED
    BY <2>1, <2>2
<1>3. /\ queue' \in QueueOf(Groups, Bodies)
      /\ queue'.msgs = queue.msgs \ gone
      /\ queue'.held = queue.held \ gone
      /\ queue'.recent = queue.recent
      /\ queue'.next = queue.next
  <2>1. CASE gone = {} /\ UNCHANGED queue
    BY <2>1, QueueType
  <2>2. CASE queue' = Delete(queue, gone)
    BY <2>2, DeleteFields, QueueType
  <2>3. QED
    BY <2>1, <2>2
<1>4. /\ batch'[p] = {} /\ messages'[p] = {}
      /\ \A q \in Pollers \ {p} : batch'[q] = batch[q] /\ messages'[q] = messages[q]
  BY <1>1 DEF TypeOK
<1>5. /\ \A x \in Responding' : x \in Responding
      /\ \A x \in Responding : x \in Responding' \/ x \in lost'
      /\ \A x \in lost' : x \in lost \/ x \in Responding \/ x \in gone
  BY <1>1, <1>4, RespondingByPoller, RespondingByPollerNext
<1>6. TypeOK'
  BY <1>1, <1>2, <1>3 DEF TypeOK
<1>7. Deletable(p)' = {} /\ \A q \in Pollers \ {p} : Deletable(q)' = Deletable(q)
  BY <1>1, <1>4 DEF Deletable
<1>8. OneReceiver'
  BY <1>2, <1>3, <1>7 DEF OneReceiver
<1>9. BatchesArePrefixes'
  BY <1>3, <1>4, <1>7 DEF BatchesArePrefixes
<1>10. Numbered'
  BY <1>1, <1>2, <1>3, <1>5 DEF Numbered
<1>11. ReadOnce'
  BY <1>1, <1>2, <1>3, <1>4 DEF ReadOnce
<1>12. EndsOnce'
  BY <1>1, <1>2, <1>3 DEF EndsOnce, ReadOnce
<1>13. ResultsAccounted'
  BY <1>1, <1>3, <1>5 DEF ResultsAccounted
<1>14. NoOvertaking'
  BY <1>1, <1>3, <1>5 DEF NoOvertaking
<1>15. QED
  BY <1>6, <1>8, <1>9, <1>10, <1>11, <1>12, <1>13, <1>14

LEMMA EndsWithoutResponseInv ==
  ASSUME SafetyInv, NEW p \in Pollers, NEW m,
         DeleteRefused(p, m) \/ DeleteFails(p, m) \/ Abort(p)
  PROVE  SafetyInv'
<1>1. CASE DeleteRefused(p, m)
  BY <1>1, ThrowInv DEF DeleteRefused, SafetyInv, TypeOK
<1>2. CASE DeleteFails(p, m)
  <2>1. faults' \in 0..MaxFaults
    BY <1>2, ConsumerAssumption DEF DeleteFails, Fault, SafetyInv, TypeOK
  <2>2. QED
    BY <1>2, <2>1, ThrowInv DEF DeleteFails
<1>3. CASE Abort(p)
  <2>1. faults' \in 0..MaxFaults
    BY <1>3, ConsumerAssumption DEF Abort, Fault, SafetyInv, TypeOK
  <2>2. QED
    BY <1>3, <2>1, ThrowInv DEF Abort
<1>4. QED
  BY <1>1, <1>2, <1>3

LEMMA RespondInv ==
  ASSUME SafetyInv, NEW p \in Pollers, Respond(p)
  PROVE  SafetyInv'
<1> USE DEF SafetyInv
<1>1. /\ inbox' = inbox \cup messages[p]
      /\ messages' = [messages EXCEPT ![p] = {}]
      /\ UNCHANGED <<queue, batch, receipts, lost, faults>>
  BY DEF Respond
<1>2. /\ messages'[p] = {}
      /\ \A q \in Pollers \ {p} : messages'[q] = messages[q]
  BY <1>1 DEF TypeOK
<1>3. \A x : x \in Responding \cup inbox <=> x \in Responding' \cup inbox'
  BY <1>1, <1>2, RespondingByPoller, RespondingByPollerNext
<1>4. TypeOK'
  BY <1>1 DEF TypeOK
<1>5. OneReceiver' /\ BatchesArePrefixes'
  BY <1>1 DEF OneReceiver, BatchesArePrefixes, Deletable
<1>6. Numbered' /\ ResultsAccounted' /\ NoOvertaking'
  BY <1>1, <1>3 DEF Numbered, ResultsAccounted, NoOvertaking
<1>7. ReadOnce' /\ EndsOnce'
  BY <1>1, <1>2 DEF ReadOnce, EndsOnce
<1>8. QED
  BY <1>4, <1>5, <1>6, <1>7

-----------------------------------------------------------------------------
LEMMA StutterSafety == SafetyInv /\ UNCHANGED vars => SafetyInv'
  BY DEF vars, SafetyInv, TypeOK, OneReceiver, BatchesArePrefixes, Numbered, ReadOnce, EndsOnce,
         ResultsAccounted, NoOvertaking, Deletable, Responding

LEMMA StepSafety == SafetyInv /\ [Next]_vars => SafetyInv'
<1> SUFFICES ASSUME SafetyInv, [Next]_vars PROVE SafetyInv'
  OBVIOUS
<1>1. CASE \E b \in Bodies : Enqueue(b)
  BY <1>1, EnqueueInv
<1>2. ASSUME NEW p \in Pollers,
             \/ Receive(p)
             \/ ReceiveFails(p)
             \/ Loop(p)
             \/ \E m \in batch[p] : DeleteFails(p, m)
             \/ Abort(p)
             \/ Respond(p)
      PROVE  SafetyInv'
  BY <1>2, ReceiveInv, ReceiveFailsInv, ConsumeInv, EndsWithoutResponseInv, RespondInv DEF Loop
<1>3. CASE \E g \in Groups : VisibilityTimeout(g)
  BY <1>3, VisibilityTimeoutInv
<1>4. CASE UNCHANGED vars
  BY <1>4, StutterSafety
<1>5. QED
  BY <1>1, <1>2, <1>3, <1>4 DEF Next

-----------------------------------------------------------------------------
(* What a fault costs.                                                      *)

\* What LossPaidFor' takes, in arithmetic.
LEMMA Multiples ==
  \A a, b \in Nat :
    /\ MaxMessages * a \in Nat
    /\ MaxMessages * (a + 1) = MaxMessages * a + MaxMessages
    /\ a <= b => MaxMessages * a <= MaxMessages * b
<1>1. MaxMessages \in Nat
  BY ConsumerAssumption
<1>2. \A a, b \in Nat : MaxMessages * a \in Nat /\ MaxMessages * (a + 1) = MaxMessages * a + MaxMessages
  BY <1>1
<1>3. ASSUME NEW a \in Nat, NEW b \in Nat, a <= b
      PROVE  MaxMessages * a <= MaxMessages * b
  <2>1. b - a \in Nat /\ b = a + (b - a)
    BY <1>3
  <2>2. MaxMessages * b = MaxMessages * a + MaxMessages * (b - a)
    BY <1>1, <2>1
  <2>3. MaxMessages * (b - a) \in Nat /\ MaxMessages * a \in Nat /\ MaxMessages * b \in Nat
    BY <1>1, <2>1
  <2>4. QED
    BY <2>2, <2>3
<1>4. QED
  BY <1>2, <1>3

\* A step that loses nothing may doom a GET for a fault.
LEMMA DoomsForFaults ==
  ASSUME SafetyInv, LossPaidFor, lost' = lost,
         \/ Doomed' \subseteq Doomed /\ faults' \in {faults, faults + 1}
         \/ faults' = faults + 1 /\ \E p : Doomed' \subseteq Doomed \cup {p}
  PROVE  LossPaidFor'
<1>1. /\ faults \in Nat /\ IsFiniteSet(lost) /\ IsFiniteSet(Doomed)
      /\ Cardinality(lost) + MaxMessages * Cardinality(Doomed) <= MaxMessages * faults
  BY ConsumerAssumption DEF SafetyInv, TypeOK, LossPaidFor
<1>2. Cardinality(lost) \in Nat /\ Cardinality(Doomed) \in Nat
  BY <1>1, FS_CardinalityType
<1>3. CASE Doomed' \subseteq Doomed /\ faults' \in {faults, faults + 1}
  <2>1. IsFiniteSet(Doomed') /\ Cardinality(Doomed') <= Cardinality(Doomed)
    BY <1>1, <1>3, FS_Subset
  <2>2. Cardinality(Doomed') \in Nat
    BY <2>1, FS_CardinalityType
  <2>3. MaxMessages * Cardinality(Doomed') <= MaxMessages * Cardinality(Doomed)
    BY <1>2, <2>1, <2>2, Multiples
  <2>4. MaxMessages * faults <= MaxMessages * faults'
    BY <1>1, <1>3, Multiples
  <2>5. /\ MaxMessages * Cardinality(Doomed') \in Nat /\ MaxMessages * Cardinality(Doomed) \in Nat
        /\ MaxMessages * faults \in Nat /\ MaxMessages * faults' \in Nat
    BY <1>1, <1>2, <1>3, <2>2, Multiples
  <2>6. Cardinality(lost) + MaxMessages * Cardinality(Doomed') <= MaxMessages * faults'
    BY <1>1, <1>2, <2>3, <2>4, <2>5
  <2>7. QED
    BY <1>1, <2>1, <2>6 DEF LossPaidFor
<1>4. CASE faults' = faults + 1 /\ \E p : Doomed' \subseteq Doomed \cup {p}
  <2>1. PICK p : Doomed' \subseteq Doomed \cup {p}
    BY <1>4
  <2>2. IsFiniteSet(Doomed \cup {p}) /\ Cardinality(Doomed \cup {p}) <= Cardinality(Doomed) + 1
    <3>1. /\ IsFiniteSet(Doomed \cup {p})
          /\ Cardinality(Doomed \cup {p}) = IF p \in Doomed THEN Cardinality(Doomed) ELSE Cardinality(Doomed) + 1
      BY <1>1, FS_AddElement
    <3>2. QED
      BY <1>2, <3>1
  <2>3. IsFiniteSet(Doomed') /\ Cardinality(Doomed') <= Cardinality(Doomed \cup {p})
    BY <2>1, <2>2, FS_Subset
  <2>4. Cardinality(Doomed') \in Nat /\ Cardinality(Doomed \cup {p}) \in Nat
    BY <2>2, <2>3, FS_CardinalityType
  <2>5. Cardinality(Doomed') <= Cardinality(Doomed) + 1
    BY <1>2, <2>2, <2>3, <2>4
  <2>6. MaxMessages * Cardinality(Doomed') <= MaxMessages * (Cardinality(Doomed) + 1)
    BY <1>2, <2>4, <2>5, Multiples
  <2>7. /\ MaxMessages * (Cardinality(Doomed) + 1) = MaxMessages * Cardinality(Doomed) + MaxMessages
        /\ MaxMessages * faults' = MaxMessages * faults + MaxMessages
        /\ MaxMessages * Cardinality(Doomed') \in Nat /\ MaxMessages * Cardinality(Doomed) \in Nat
        /\ MaxMessages * faults \in Nat /\ MaxMessages \in Nat
    BY <1>1, <1>2, <1>4, <2>4, Multiples, ConsumerAssumption
  <2>8. Cardinality(lost) + MaxMessages * Cardinality(Doomed') <= MaxMessages * faults'
    BY <1>1, <1>2, <2>6, <2>7
  <2>9. QED
    BY <1>1, <2>3, <2>8 DEF LossPaidFor
<1>5. QED
  BY <1>3, <1>4

\* A GET that ends without its response was doomed, or costs a fault now.
LEMMA ThrowsForFaults ==
  ASSUME SafetyInv, BatchesAreBounded, LossPaidFor, NEW p \in Pollers,
         lost \subseteq lost', lost' \subseteq lost \cup (batch[p] \cup messages[p]),
         Doomed' \subseteq Doomed \ {p},
         \/ p \in Doomed /\ faults' = faults
         \/ faults' = faults + 1
  PROVE  LossPaidFor'
<1> DEFINE mine == batch[p] \cup messages[p]
<1>1. /\ faults \in Nat /\ IsFiniteSet(lost) /\ IsFiniteSet(Doomed)
      /\ Cardinality(lost) + MaxMessages * Cardinality(Doomed) <= MaxMessages * faults
      /\ IsFiniteSet(mine) /\ Cardinality(mine) <= MaxMessages
      /\ MaxMessages \in Nat
  BY ConsumerAssumption DEF SafetyInv, TypeOK, LossPaidFor, BatchesAreBounded
<1>2. lost' \subseteq lost \cup mine
  OBVIOUS
<1> HIDE DEF mine
<1>3. Cardinality(lost) \in Nat /\ Cardinality(Doomed) \in Nat /\ Cardinality(mine) \in Nat
  BY <1>1, FS_CardinalityType
<1>4. /\ IsFiniteSet(lost') /\ Cardinality(lost') \in Nat
      /\ Cardinality(lost') <= Cardinality(lost) + MaxMessages
  <2>1. /\ IsFiniteSet(lost \cup mine)
        /\ Cardinality(lost \cup mine) = Cardinality(lost) + Cardinality(mine) - Cardinality(lost \cap mine)
    BY <1>1, FS_Union
  <2>2. IsFiniteSet(lost \cap mine)
    BY <1>1, FS_Intersection
  <2>3. Cardinality(lost \cap mine) \in Nat
    BY <2>2, FS_CardinalityType
  <2>4. IsFiniteSet(lost') /\ Cardinality(lost') <= Cardinality(lost \cup mine)
    BY <1>2, <2>1, FS_Subset
  <2>5. Cardinality(lost') \in Nat
    BY <2>4, FS_CardinalityType
  <2>6. QED
    BY <1>1, <1>3, <2>1, <2>3, <2>4, <2>5
<1>5. IsFiniteSet(Doomed \ {p}) /\ IsFiniteSet(Doomed') /\ Cardinality(Doomed') <= Cardinality(Doomed \ {p})
  <2>1. IsFiniteSet(Doomed \ {p})
    BY <1>1, FS_RemoveElement
  <2>2. QED
    BY <2>1, FS_Subset
<1>6. Cardinality(Doomed') \in Nat /\ Cardinality(Doomed \ {p}) \in Nat
  BY <1>5, FS_CardinalityType
<1>7. /\ MaxMessages * faults \in Nat
      /\ MaxMessages * Cardinality(Doomed) \in Nat /\ MaxMessages * Cardinality(Doomed') \in Nat
  BY <1>1, <1>3, <1>6, Multiples
<1>8. CASE p \in Doomed /\ faults' = faults
  <2>1. Cardinality(Doomed \ {p}) = Cardinality(Doomed) - 1
    BY <1>1, <1>8, FS_RemoveElement
  <2>2. Cardinality(Doomed') + 1 <= Cardinality(Doomed)
    BY <1>3, <1>5, <1>6, <2>1
  <2>3. MaxMessages * (Cardinality(Doomed') + 1) <= MaxMessages * Cardinality(Doomed)
    BY <1>3, <1>6, <2>2, Multiples
  <2>4. MaxMessages * (Cardinality(Doomed') + 1) = MaxMessages * Cardinality(Doomed') + MaxMessages
    BY <1>6, Multiples
  <2>5. Cardinality(lost') + MaxMessages * Cardinality(Doomed') <= MaxMessages * faults'
    BY <1>1, <1>3, <1>4, <1>7, <1>8, <2>3, <2>4
  <2>6. QED
    BY <1>4, <1>5, <2>5 DEF LossPaidFor
<1>9. CASE faults' = faults + 1
  <2>1. Cardinality(Doomed \ {p}) <= Cardinality(Doomed)
    BY <1>1, FS_Subset
  <2>2. Cardinality(Doomed') <= Cardinality(Doomed)
    BY <1>3, <1>5, <1>6, <2>1
  <2>3. MaxMessages * Cardinality(Doomed') <= MaxMessages * Cardinality(Doomed)
    BY <1>3, <1>6, <2>2, Multiples
  <2>4. MaxMessages * faults' = MaxMessages * faults + MaxMessages
    BY <1>1, <1>9, Multiples
  <2>5. Cardinality(lost') + MaxMessages * Cardinality(Doomed') <= MaxMessages * faults'
    BY <1>1, <1>3, <1>4, <1>7, <2>3, <2>4
  <2>6. QED
    BY <1>4, <1>5, <2>5 DEF LossPaidFor
<1>10. QED
  BY <1>8, <1>9

\* A group that one GET has locked stays so when nothing is received.
LEMMA LocksStay ==
  ASSUME OneReceiverPerGroup, \A p \in Pollers : Deletable(p)' \subseteq Deletable(p)
  PROVE  OneReceiverPerGroup'
  BY DEF OneReceiverPerGroup

\* A GET has no more messages as long as it receives none.
LEMMA BatchesStay ==
  ASSUME BatchesAreBounded, queue'.msgs \subseteq queue.msgs,
         \A p \in Pollers : batch'[p] \cup messages'[p] \subseteq batch[p] \cup messages[p]
  PROVE  BatchesAreBounded'
<1>1. IsFiniteSet(queue'.msgs)
  BY FS_Subset DEF BatchesAreBounded
<1>2. ASSUME NEW p \in Pollers
      PROVE  /\ IsFiniteSet(batch'[p] \cup messages'[p])
             /\ Cardinality(batch'[p] \cup messages'[p]) <= MaxMessages
  <2>1. IsFiniteSet(batch[p] \cup messages[p]) /\ Cardinality(batch[p] \cup messages[p]) <= MaxMessages
    BY DEF BatchesAreBounded
  <2>2. /\ IsFiniteSet(batch'[p] \cup messages'[p])
        /\ Cardinality(batch'[p] \cup messages'[p]) <= Cardinality(batch[p] \cup messages[p])
    BY <2>1, FS_Subset
  <2>3. Cardinality(batch'[p] \cup messages'[p]) \in Nat /\ Cardinality(batch[p] \cup messages[p]) \in Nat
    BY <2>1, <2>2, FS_CardinalityType
  <2>4. MaxMessages \in Nat
    BY ConsumerAssumption
  <2>5. QED
    BY <2>1, <2>2, <2>3, <2>4
<1>3. QED
  BY <1>1, <1>2 DEF BatchesAreBounded

\* A timeout takes the receipt handles of one group, and so of one GET at most.
LEMMA TimeoutLoss ==
  ASSUME IInv, NEW g \in Groups, VisibilityTimeout(g)
  PROVE  OneReceiverPerGroup' /\ BatchesAreBounded' /\ LossPaidFor'
<1> USE DEF IInv
<1> DEFINE S == {m \in queue.held : m.group = g}
<1>1. /\ IF \E p \in Pollers : S \cap batch[p] # {} THEN Fault ELSE UNCHANGED faults
      /\ queue' = Release(queue, S)
      /\ receipts' = [p \in Pollers |-> receipts[p] \ S]
      /\ UNCHANGED <<batch, messages, inbox, lost>>
  BY DEF VisibilityTimeout
<1>2. queue'.msgs = queue.msgs
  <2> HIDE DEF S
  <2>1. queue \in QueueOf(Groups, Bodies)
    BY QueueType DEF SafetyInv
  <2>2. QED
    BY <1>1, <2>1, ReleaseFields
<1>3. \A p \in Pollers : receipts'[p] = receipts[p] \ S /\ batch'[p] = batch[p]
  BY <1>1
<1>4. \A p \in Pollers : Deletable(p)' \subseteq Deletable(p)
  BY <1>1, <1>3 DEF Deletable
<1>5. \A q \in Pollers : q \in Doomed' => q \in Doomed \/ \E m \in Deletable(q) : m \in S
  BY <1>1, <1>3 DEF Doomed, Deletable
<1>6. \A q \in Doomed' : q \in Pollers
  BY DEF Doomed
<1>7. LossPaidFor'
  <2>1. CASE \E p \in Pollers : \E m \in Deletable(p) : m \in S
    <3>1. PICK p \in Pollers : \E m \in Deletable(p) : m \in S
      BY <2>1
    <3>2. \A q \in Pollers : (\E m \in Deletable(q) : m \in S) => q = p
      BY <3>1 DEF OneReceiverPerGroup
    <3>3. Doomed' \subseteq Doomed \cup {p}
      BY <1>5, <1>6, <3>2
    <3>4. \E q \in Pollers : S \cap batch[q] # {}
      BY <3>1 DEF Deletable
    <3>5. faults' = faults + 1
      BY <1>1, <3>4 DEF Fault
    <3>6. QED
      BY <1>1, <3>3, <3>5, DoomsForFaults
  <2>2. CASE ~ \E p \in Pollers : \E m \in Deletable(p) : m \in S
    <3>1. Doomed' \subseteq Doomed
      BY <1>5, <1>6, <2>2
    <3>2. faults' \in {faults, faults + 1}
      BY <1>1 DEF Fault
    <3>3. QED
      BY <1>1, <3>1, <3>2, DoomsForFaults
  <2>3. QED
    BY <2>1, <2>2
<1>8. QED
  BY <1>1, <1>2, <1>4, <1>7, LocksStay, BatchesStay

\* A receive hands out at most MaxMessages messages, of unlocked groups.
LEMMA ReceiveLoss ==
  ASSUME IInv, NEW p \in Pollers, Receive(p)
  PROVE  OneReceiverPerGroup' /\ BatchesAreBounded' /\ LossPaidFor'
<1> USE DEF IInv
<1>1. PICK S \in Batches(queue, MaxMessages) :
        /\ queue' = Take(queue, S)
        /\ batch' = [batch EXCEPT ![p] = S]
        /\ receipts' = [receipts EXCEPT ![p] = S]
        /\ UNCHANGED <<messages, inbox, lost, faults>>
  BY DEF Receive
<1>2. /\ messages[p] = {}
      /\ batch \in [Pollers -> SUBSET Message] /\ receipts \in [Pollers -> SUBSET Message]
      /\ queue \in QueueOf(Groups, Bodies)
  BY DEF Receive, Running, SafetyInv, TypeOK
<1>3. S \subseteq queue.msgs /\ Cardinality(S) <= MaxMessages
  BY BatchesAreStored DEF Batches
<1>4. \A m \in S, x \in queue.held : m.group # x.group
  BY DEF Batches, Visible
<1>5. queue'.msgs = queue.msgs
  BY <1>1, <1>2, <1>3, TakeFields
<1>6. /\ batch'[p] = S /\ receipts'[p] = S
      /\ \A q \in Pollers \ {p} : batch'[q] = batch[q] /\ receipts'[q] = receipts[q]
  BY <1>1, <1>2
<1>7. Deletable(p)' = S /\ \A q \in Pollers \ {p} : Deletable(q)' = Deletable(q)
  BY <1>6 DEF Deletable
<1>8. \A q \in Pollers : Deletable(q) \subseteq queue.held
  BY DEF SafetyInv, OneReceiver
<1>9. OneReceiverPerGroup'
  <2>1. ASSUME NEW q \in Pollers, NEW r \in Pollers, NEW m \in Deletable(q)', NEW x \in Deletable(r)',
               m.group = x.group
        PROVE  q = r
    <3>1. CASE q # p /\ r # p
      BY <1>7, <2>1, <3>1 DEF OneReceiverPerGroup
    <3>2. CASE q = p /\ r # p
      BY <1>4, <1>7, <1>8, <2>1, <3>2
    <3>3. CASE q # p /\ r = p
      BY <1>4, <1>7, <1>8, <2>1, <3>3
    <3>4. QED
      BY <3>1, <3>2, <3>3
  <2>2. QED
    BY <2>1 DEF OneReceiverPerGroup
<1>10. BatchesAreBounded'
  <2>1. IsFiniteSet(queue.msgs)
    BY DEF BatchesAreBounded
  <2>2. IsFiniteSet(S)
    BY <1>3, <2>1, FS_Subset
  <2>3. messages' = messages /\ batch'[p] \cup messages[p] = S
    BY <1>1, <1>2, <1>6
  <2>4. QED
    BY <1>3, <1>5, <1>6, <2>1, <2>2, <2>3 DEF BatchesAreBounded
<1>11. Doomed' \subseteq Doomed
  BY <1>6 DEF Doomed
<1>12. LossPaidFor'
  BY <1>1, <1>11, DoomsForFaults
<1>13. QED
  BY <1>9, <1>10, <1>12

\* What a GET deletes it may still respond.
LEMMA ConsumeLoss ==
  ASSUME IInv, NEW p \in Pollers, NEW m, Consume(p, m)
  PROVE  OneReceiverPerGroup' /\ BatchesAreBounded' /\ LossPaidFor'
<1> USE DEF IInv
<1>1. /\ m \in batch[p] /\ m \in receipts[p]
      /\ queue' = Delete(queue, {m})
      /\ batch' = [batch EXCEPT ![p] = @ \ {m}]
      /\ messages' = [messages EXCEPT ![p] = @ \cup {m}]
      /\ UNCHANGED <<receipts, inbox, lost, faults>>
  BY DEF Consume, Reached
<1>2. /\ batch \in [Pollers -> SUBSET Message] /\ messages \in [Pollers -> SUBSET Message]
      /\ queue \in QueueOf(Groups, Bodies)
  BY DEF SafetyInv, TypeOK
<1>3. queue'.msgs \subseteq queue.msgs
  BY <1>1, <1>2, DeleteFields
<1>4. /\ batch'[p] = batch[p] \ {m} /\ messages'[p] = messages[p] \cup {m}
      /\ \A q \in Pollers \ {p} : batch'[q] = batch[q] /\ messages'[q] = messages[q]
  BY <1>1, <1>2
<1>5. \A q \in Pollers : Deletable(q)' \subseteq Deletable(q)
  BY <1>1, <1>4 DEF Deletable
<1>6. \A q \in Pollers : batch'[q] \cup messages'[q] \subseteq batch[q] \cup messages[q]
  BY <1>1, <1>4
<1>7. Doomed' \subseteq Doomed
  BY <1>1, <1>4 DEF Doomed
<1>8. QED
  BY <1>1, <1>3, <1>5, <1>6, <1>7, LocksStay, BatchesStay, DoomsForFaults

\* A GET that ends without its response loses what it had received, at most.
LEMMA ThrowLoss ==
  ASSUME IInv, NEW p \in Pollers, NEW gone, gone \subseteq batch[p], Throw(p, gone),
         queue'.msgs \subseteq queue.msgs,
         \/ p \in Doomed /\ faults' = faults
         \/ faults' = faults + 1
  PROVE  OneReceiverPerGroup' /\ BatchesAreBounded' /\ LossPaidFor'
<1> USE DEF IInv
<1>1. /\ lost' = lost \cup messages[p] \cup gone
      /\ batch' = [batch EXCEPT ![p] = {}]
      /\ messages' = [messages EXCEPT ![p] = {}]
      /\ UNCHANGED receipts
  BY DEF Throw
<1>2. batch \in [Pollers -> SUBSET Message] /\ messages \in [Pollers -> SUBSET Message]
  BY DEF SafetyInv, TypeOK
<1>3. /\ batch'[p] = {} /\ messages'[p] = {}
      /\ \A q \in Pollers \ {p} : batch'[q] = batch[q] /\ messages'[q] = messages[q]
  BY <1>1, <1>2
<1>4. \A q \in Pollers : Deletable(q)' \subseteq Deletable(q)
  BY <1>1, <1>3 DEF Deletable
<1>5. \A q \in Pollers : batch'[q] \cup messages'[q] \subseteq batch[q] \cup messages[q]
  BY <1>3
<1>6. Doomed' \subseteq Doomed \ {p}
  BY <1>1, <1>3 DEF Doomed
<1>7. lost \subseteq lost' /\ lost' \subseteq lost \cup (batch[p] \cup messages[p])
  BY <1>1
<1>8. LossPaidFor'
  BY <1>6, <1>7, ThrowsForFaults
<1>9. QED
  BY <1>4, <1>5, <1>8, LocksStay, BatchesStay

LEMMA EndsWithoutResponseLoss ==
  ASSUME IInv, NEW p \in Pollers, NEW m,
         DeleteRefused(p, m) \/ DeleteFails(p, m) \/ Abort(p)
  PROVE  OneReceiverPerGroup' /\ BatchesAreBounded' /\ LossPaidFor'
<1>1. queue \in QueueOf(Groups, Bodies)
  BY DEF IInv, SafetyInv, TypeOK
<1>2. CASE DeleteRefused(p, m)
  <2>1. p \in Doomed
    BY <1>2 DEF DeleteRefused, Reached, Doomed
  <2>2. QED
    BY <1>2, <2>1, ThrowLoss DEF DeleteRefused
<1>3. CASE DeleteFails(p, m)
  <2>1. queue'.msgs \subseteq queue.msgs
    BY <1>1, <1>3, DeleteFields DEF DeleteFails
  <2>2. {m} \subseteq batch[p] /\ Throw(p, {m}) /\ faults' = faults + 1
    BY <1>3 DEF DeleteFails, Reached, Fault
  <2>3. QED
    BY <2>1, <2>2, ThrowLoss
<1>4. CASE Abort(p)
  BY <1>4, ThrowLoss DEF Abort, Fault
<1>5. QED
  BY <1>2, <1>3, <1>4

LEMMA RespondLoss ==
  ASSUME IInv, NEW p \in Pollers, Respond(p)
  PROVE  OneReceiverPerGroup' /\ BatchesAreBounded' /\ LossPaidFor'
<1> USE DEF IInv
<1>1. /\ messages' = [messages EXCEPT ![p] = {}]
      /\ UNCHANGED <<queue, batch, receipts, lost, faults>>
  BY DEF Respond
<1>2. messages \in [Pollers -> SUBSET Message]
  BY DEF SafetyInv, TypeOK
<1>3. \A q \in Pollers : messages'[q] \subseteq messages[q]
  BY <1>1, <1>2
<1>4. Doomed' \subseteq Doomed /\ \A q \in Pollers : Deletable(q)' = Deletable(q)
  BY <1>1 DEF Doomed, Deletable
<1>5. QED
  BY <1>1, <1>3, <1>4, LocksStay, BatchesStay, DoomsForFaults

\* The steps of others leave the GETs alone.
LEMMA OthersLoss ==
  ASSUME IInv, UNCHANGED <<batch, receipts, messages, lost>>, IsFiniteSet(queue'.msgs),
         faults' \in {faults, faults + 1}
  PROVE  OneReceiverPerGroup' /\ BatchesAreBounded' /\ LossPaidFor'
<1>1. Doomed' = Doomed /\ \A q \in Pollers : Deletable(q)' = Deletable(q)
  BY DEF Doomed, Deletable
<1>2. OneReceiverPerGroup'
  BY <1>1, LocksStay DEF IInv
<1>3. BatchesAreBounded'
  BY DEF IInv, BatchesAreBounded
<1>4. LossPaidFor'
  BY <1>1, DoomsForFaults DEF IInv
<1>5. QED
  BY <1>2, <1>3, <1>4

LEMMA EnqueueLoss ==
  ASSUME IInv, NEW b \in Bodies, Enqueue(b)
  PROVE  OneReceiverPerGroup' /\ BatchesAreBounded' /\ LossPaidFor'
<1>1. /\ b \notin queue.recent /\ queue' = Send(queue, GroupOf[b], b)
      /\ UNCHANGED <<batch, receipts, messages, inbox, lost, faults>>
  BY DEF Enqueue
<1>2. queue \in QueueOf(Groups, Bodies) /\ GroupOf[b] \in Groups /\ IsFiniteSet(queue.msgs)
  BY ConsumerAssumption DEF IInv, SafetyInv, TypeOK, BatchesAreBounded
<1>3. queue'.msgs = queue.msgs \cup {[n |-> queue.next, group |-> GroupOf[b], body |-> b]}
  BY <1>1, <1>2, SendNew
<1>4. IsFiniteSet(queue'.msgs)
  BY <1>2, <1>3, FS_AddElement
<1>5. QED
  BY <1>1, <1>4, OthersLoss

LEMMA ReceiveFailsLoss ==
  ASSUME IInv, NEW p \in Pollers, ReceiveFails(p)
  PROVE  OneReceiverPerGroup' /\ BatchesAreBounded' /\ LossPaidFor'
<1>1. PICK S \in Batches(queue, MaxMessages) : queue' = Take(queue, S)
  BY DEF ReceiveFails
<1>2. queue \in QueueOf(Groups, Bodies) /\ IsFiniteSet(queue.msgs)
  BY DEF IInv, SafetyInv, TypeOK, BatchesAreBounded
<1>3. queue'.msgs = queue.msgs
  BY <1>1, <1>2, BatchesAreStored, TakeFields
<1>4. QED
  BY <1>2, <1>3, OthersLoss DEF ReceiveFails, Fault

-----------------------------------------------------------------------------
LEMMA InitInv == Init => IInv
<1> SUFFICES ASSUME Init PROVE IInv
  OBVIOUS
<1>1. queue.msgs = {}
  BY DEF Init, EmptyQueue
<1>2. /\ \A p \in Pollers : batch[p] = {} /\ messages[p] = {} /\ Deletable(p) = {}
      /\ Doomed = {} /\ lost = {} /\ faults = 0
  BY DEF Init, Deletable, Doomed
<1>3. OneReceiverPerGroup
  BY <1>2 DEF OneReceiverPerGroup
<1>4. BatchesAreBounded
  <2>1. \A p \in Pollers : batch[p] \cup messages[p] = {}
    BY <1>2
  <2>2. QED
    BY <1>1, <2>1, FS_EmptySet, ConsumerAssumption DEF BatchesAreBounded
<1>5. LossPaidFor
  BY <1>2, FS_EmptySet, ConsumerAssumption DEF LossPaidFor
<1>6. QED
  BY <1>3, <1>4, <1>5, InitSafety DEF IInv

LEMMA StepInv == IInv /\ [Next]_vars => IInv'
<1> SUFFICES ASSUME IInv, [Next]_vars PROVE IInv'
  OBVIOUS
<1>1. SafetyInv'
  BY StepSafety DEF IInv
<1>2. OneReceiverPerGroup' /\ BatchesAreBounded' /\ LossPaidFor'
  <2>1. CASE \E b \in Bodies : Enqueue(b)
    BY <2>1, EnqueueLoss
  <2>2. ASSUME NEW p \in Pollers,
               \/ Receive(p)
               \/ ReceiveFails(p)
               \/ Loop(p)
               \/ \E m \in batch[p] : DeleteFails(p, m)
               \/ Abort(p)
               \/ Respond(p)
        PROVE  OneReceiverPerGroup' /\ BatchesAreBounded' /\ LossPaidFor'
    BY <2>2, ReceiveLoss, ReceiveFailsLoss, ConsumeLoss, EndsWithoutResponseLoss, RespondLoss DEF Loop
  <2>3. CASE \E g \in Groups : VisibilityTimeout(g)
    BY <2>3, TimeoutLoss
  <2>4. CASE UNCHANGED vars
    BY <2>4, OthersLoss DEF vars, IInv, BatchesAreBounded
  <2>5. QED
    BY <2>1, <2>2, <2>3, <2>4 DEF Next
<1>3. QED
  BY <1>1, <1>2 DEF IInv

-----------------------------------------------------------------------------
(* The safety properties.                                                   *)

\* IInv is an invariant of every execution.
THEOREM Invariance == Spec => []IInv
  BY InitInv, StepInv, PTL DEF Spec

\* The variables keep their types.
THEOREM TypeCorrectness == Spec => []TypeOK
<1>1. IInv => TypeOK
  BY DEF IInv, SafetyInv
<1>2. QED
  BY <1>1, Invariance, PTL

\* However many GETs run, abort and time out, no result is read twice.
THEOREM ResultsAreReadOnce == Spec => []ReadOnce
<1>1. IInv => ReadOnce
  BY DEF IInv, SafetyInv
<1>2. QED
  BY <1>1, Invariance, PTL

\* What was read or lost is on the queue no more, and nothing is both.
THEOREM ResultsEndOnce == Spec => []EndsOnce
<1>1. IInv => EndsOnce
  BY DEF IInv, SafetyInv
<1>2. QED
  BY <1>1, Invariance, PTL

\* No result disappears without having been deleted by a GET.
THEOREM NothingDisappears == Spec => []ResultsAccounted
<1>1. IInv => ResultsAccounted
  BY DEF IInv, SafetyInv
<1>2. QED
  BY <1>1, Invariance, PTL

\* A result is never read before an older one of its group that is on the queue.
THEOREM GroupsStayInOrder == Spec => []NoOvertaking
<1>1. IInv => NoOvertaking
  BY DEF IInv, SafetyInv
<1>2. QED
  BY <1>1, Invariance, PTL

\* A fault, a GET that outlives its receipt handles among them, loses the
\* messages of one receive at most, however many GETs run.
THEOREM LossIsPaidFor == Spec => []LossIsBounded
<1>1. IInv => LossIsBounded
  <2> SUFFICES ASSUME IInv PROVE LossIsBounded
    OBVIOUS
  <2>1. /\ IsFiniteSet(lost) /\ IsFiniteSet(Doomed) /\ faults \in Nat
        /\ Cardinality(lost) + MaxMessages * Cardinality(Doomed) <= MaxMessages * faults
    BY ConsumerAssumption DEF IInv, LossPaidFor, SafetyInv, TypeOK
  <2>2. Cardinality(lost) \in Nat /\ Cardinality(Doomed) \in Nat
    BY <2>1, FS_CardinalityType
  <2>3. MaxMessages * Cardinality(Doomed) \in Nat /\ MaxMessages * faults \in Nat
    BY <2>1, <2>2, Multiples
  <2>4. QED
    BY <2>1, <2>2, <2>3 DEF LossIsBounded
<1>2. QED
  BY <1>1, Invariance, PTL
==============================================================================
