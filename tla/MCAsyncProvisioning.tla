------------------------- MODULE MCAsyncProvisioning -------------------------
(* Small instances of AsyncProvisioning.                                    *)
EXTENDS AsyncProvisioning

CONSTANTS j1, j2, j3

TwoJobs == {j1, j2}
ThreeJobs == {j1, j2, j3}
OnlyJ1 == {j1}
OnlyJ3 == {j3}
NoJobs == {}
==============================================================================
