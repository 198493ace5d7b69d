--------------------------- MODULE MCCostPipeline ---------------------------
(* A small instance of CostPipeline: a request to the canned CSP, one to a    *)
(* CSP that is called, and batches of two.                                    *)
EXTENDS CostPipeline

CONSTANTS r1, r2, i1, i2, p1

TwoRequests == {r1, r2}
CannedAndCalled == [r \in TwoRequests |-> IF r = r1 THEN "CSP_A" ELSE "CSP_E"]
TwoInvocations == {i1, i2}
OnePoller == {p1}
=============================================================================
