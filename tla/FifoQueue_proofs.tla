--------------------------- MODULE FifoQueue_proofs ---------------------------
(***************************************************************************)
(* Lemmas about the queue operators: what each returns, field by field.    *)
(* The proofs about the modules that hold queues cite them.                *)
(***************************************************************************)
EXTENDS FifoQueue, TLAPS

\* A send of a body in the deduplication window changes nothing.
LEMMA SendDuplicate ==
  ASSUME NEW q, NEW g, NEW b, b \in q.recent
  PROVE  Send(q, g, b) = q
  BY DEF Send

\* A send of any other body stores exactly one message more.
LEMMA SendNew ==
  ASSUME NEW Groups, NEW Bodies, NEW q \in QueueOf(Groups, Bodies),
         NEW g \in Groups, NEW b \in Bodies, b \notin q.recent
  PROVE  /\ Send(q, g, b) \in QueueOf(Groups, Bodies)
         /\ Send(q, g, b).msgs = q.msgs \cup {[n |-> q.next, group |-> g, body |-> b]}
         /\ Send(q, g, b).held = q.held
         /\ Send(q, g, b).recent = q.recent \cup {b}
         /\ Send(q, g, b).next = q.next + 1
<1>1. Send(q, g, b) = [q EXCEPT !.msgs = @ \cup {[n |-> q.next, group |-> g, body |-> b]},
                                !.next = @ + 1,
                                !.recent = @ \cup {b}]
  BY DEF Send
<1>2. [n |-> q.next, group |-> g, body |-> b] \in Messages(Groups, Bodies)
  BY DEF QueueOf, Messages
<1>3. Send(q, g, b) = [msgs |-> q.msgs \cup {[n |-> q.next, group |-> g, body |-> b]},
                       next |-> q.next + 1,
                       held |-> q.held,
                       recent |-> q.recent \cup {b}]
  BY <1>1 DEF QueueOf
<1>4. q.next + 1 \in Nat
  BY DEF QueueOf
<1>5. QED
  BY <1>2, <1>3, <1>4 DEF QueueOf

\* In either case the queue keeps its type and what it held, gains no message
\* with another body, and the body was stored now or is a recent one.
LEMMA SendAny ==
  ASSUME NEW Groups, NEW Bodies, NEW q \in QueueOf(Groups, Bodies),
         NEW g \in Groups, NEW b \in Bodies
  PROVE  /\ Send(q, g, b) \in QueueOf(Groups, Bodies)
         /\ Send(q, g, b).held = q.held
         /\ Send(q, g, b).recent = q.recent \cup {b}
         /\ q.msgs \subseteq Send(q, g, b).msgs
         /\ \A m \in Send(q, g, b).msgs : m \in q.msgs \/ m.body = b
         /\ b \in q.recent \/ \E m \in Send(q, g, b).msgs : m.body = b
<1>1. CASE b \in q.recent
  BY <1>1, SendDuplicate
<1>2. CASE b \notin q.recent
  <2>1. PICK m : m = [n |-> q.next, group |-> g, body |-> b]
    OBVIOUS
  <2>2. m.body = b
    BY <2>1
  <2>3. QED
    BY <1>2, <2>1, <2>2, SendNew
<1>3. QED
  BY <1>1, <1>2

\* Take, Delete, Release and Forget keep the type of a queue and touch only the
\* fields they name.
LEMMA TakeFields ==
  ASSUME NEW Groups, NEW Bodies, NEW q \in QueueOf(Groups, Bodies),
         NEW S, S \subseteq q.msgs
  PROVE  /\ Take(q, S) \in QueueOf(Groups, Bodies)
         /\ Take(q, S).msgs = q.msgs
         /\ Take(q, S).held = q.held \cup S
         /\ Take(q, S).recent = q.recent
         /\ Take(q, S).next = q.next
  BY DEF QueueOf, Take

LEMMA DeleteFields ==
  ASSUME NEW Groups, NEW Bodies, NEW q \in QueueOf(Groups, Bodies), NEW S
  PROVE  /\ Delete(q, S) \in QueueOf(Groups, Bodies)
         /\ Delete(q, S).msgs = q.msgs \ S
         /\ Delete(q, S).held = q.held \ S
         /\ Delete(q, S).recent = q.recent
         /\ Delete(q, S).next = q.next
  BY DEF QueueOf, Delete

LEMMA ReleaseFields ==
  ASSUME NEW Groups, NEW Bodies, NEW q \in QueueOf(Groups, Bodies), NEW S
  PROVE  /\ Release(q, S) \in QueueOf(Groups, Bodies)
         /\ Release(q, S).msgs = q.msgs
         /\ Release(q, S).held = q.held \ S
         /\ Release(q, S).recent = q.recent
         /\ Release(q, S).next = q.next
  BY DEF QueueOf, Release

LEMMA ForgetFields ==
  ASSUME NEW Groups, NEW Bodies, NEW q \in QueueOf(Groups, Bodies)
  PROVE  /\ Forget(q) \in QueueOf(Groups, Bodies)
         /\ Forget(q).msgs = q.msgs
         /\ Forget(q).held = q.held
         /\ Forget(q).recent = {}
  BY DEF QueueOf, Forget

\* What a receive may return is visible and stored.
LEMMA BatchesAreStored ==
  ASSUME NEW q, NEW max, NEW S \in Batches(q, max)
  PROVE  S \subseteq q.msgs
  BY DEF Batches, Visible

\* It is in no other flight, and leaves no older message of a group behind.
LEMMA BatchesAreOldest ==
  ASSUME NEW q, NEW max, NEW S \in Batches(q, max)
  PROVE  /\ S \cap q.held = {}
         /\ \A m \in S, x \in q.msgs : x.group = m.group /\ x.n < m.n => x \in S
<1>1. S \subseteq Visible(q)
  BY DEF Batches
<1>2. S \cap q.held = {}
  BY <1>1 DEF Visible
<1>3. ASSUME NEW m \in S, NEW x \in q.msgs, x.group = m.group, x.n < m.n
      PROVE  x \in S
  <2>1. x \in Visible(q)
    BY <1>1, <1>3 DEF Visible
  <2>2. QED
    BY <1>3, <2>1 DEF Batches
<1>4. QED
  BY <1>2, <1>3
==============================================================================
