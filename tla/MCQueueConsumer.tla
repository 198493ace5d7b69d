--------------------------- MODULE MCQueueConsumer ---------------------------
(* A small instance of QueueConsumer: two groups, as the provisioning queue   *)
(* has, and a group of two results.                                           *)
EXTENDS QueueConsumer

CONSTANTS p1, p2, b1, b2, b3, g1, g2

TwoPollers == {p1, p2}
ThreeBodies == {b1, b2, b3}
TwoGroups == {g1, g2}
TwoAndOne == [b \in ThreeBodies |-> IF b = b3 THEN g2 ELSE g1]
==============================================================================
