------------------------ MODULE MCProvisioningWorkflow ------------------------
(* Small instances of ProvisioningWorkflow.                                 *)
EXTENDS ProvisioningWorkflow

CONSTANTS j1, e1, e2, p1

OneJob == {j1}
OnePost == {e1}
TwoPosts == {e1, e2}
OnePayload == {p1}
PostedOnce == [e \in OnePost |-> j1]
PostedTwice == [e \in TwoPosts |-> j1]
==============================================================================
