------------------------------ MODULE FifoQueue ------------------------------
(***************************************************************************)
(* The SQS FIFO queue as the application configures it                     *)
(* (lib/constructs/sqs.ts): FIFO per message group, content-based          *)
(* deduplication, a visibility timeout, no dead-letter queue.              *)
(*                                                                         *)
(* A queue is a value, so that a module can hold several of them in its    *)
(* variables and every operation is an operator from a queue to a queue.   *)
(* A message is [n, group, body]; n is its sequence number and orders the  *)
(* messages, so that a queue is a set and needs no index arithmetic.       *)
(*   msgs    messages stored, in flight or not                             *)
(*   next    sequence number of the next message stored                    *)
(*   held    messages in flight: received, neither deleted nor timed out   *)
(*   recent  bodies inside the five-minute deduplication window            *)
(***************************************************************************)
EXTENDS Naturals, FiniteSets

Messages(Groups, Bodies) == [n: Nat, group: Groups, body: Bodies]

QueueOf(Groups, Bodies) ==
  [msgs: SUBSET Messages(Groups, Bodies),
   next: Nat,
   held: SUBSET Messages(Groups, Bodies),
   recent: SUBSET Bodies]

EmptyQueue == [msgs |-> {}, next |-> 1, held |-> {}, recent |-> {}]

\* Mutants: no deduplication, or one deduplication id for all messages.
SendAlways(q, g, b) ==
  [q EXCEPT !.msgs = @ \cup {[n |-> q.next, group |-> g, body |-> b]},
            !.next = @ + 1,
            !.recent = @ \cup {b}]

SendUnlessRecent(q, g, b) == IF q.recent # {} THEN q ELSE SendAlways(q, g, b)

\* SendMessage: a body that is still in the deduplication window is accepted
\* and dropped, whatever its group.
Send(q, g, b) ==
  IF b \in q.recent
    THEN q
    ELSE [q EXCEPT !.msgs = @ \cup {[n |-> q.next, group |-> g, body |-> b]},
                   !.next = @ + 1,
                   !.recent = @ \cup {b}]

\* A message in flight hides every message of its group.
Visible(q) == {m \in q.msgs : \A h \in q.held : h.group # m.group}

\* What one receive may return: at most max visible messages, oldest first
\* within each group.
Batches(q, max) ==
  {S \in SUBSET Visible(q) :
     /\ S # {}
     /\ Cardinality(S) <= max
     /\ \A m \in S, v \in Visible(q) : v.group = m.group /\ v.n < m.n => v \in S}

FullBatches(q, max) ==
  {S \in Batches(q, max) : \A T \in Batches(q, max) : Cardinality(T) <= Cardinality(S)}

Take(q, S) == [q EXCEPT !.held = @ \cup S]

Delete(q, S) == [q EXCEPT !.msgs = @ \ S, !.held = @ \ S]

\* The visibility timeout of the messages S passes.
Release(q, S) == [q EXCEPT !.held = @ \ S]

\* The deduplication window of everything sent so far passes.
Forget(q) == [q EXCEPT !.recent = {}]

Oldest(S) == {m \in S : \A x \in S : m.n <= x.n}
==============================================================================
