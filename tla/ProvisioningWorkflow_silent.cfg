\* One post and no fault.
CONSTANTS
  j1 = j1
  e1 = e1
  e2 = e2
  p1 = p1
  Payloads <- OnePayload
  Jobs <- OneJob
  Executions <- OnePost
  JobOf <- PostedOnce
  MaxRetries = 0
  MaxFaults = 0
SPECIFICATION Spec
INVARIANT
  SucceededIsEnqueued
CHECK_DEADLOCK FALSE
