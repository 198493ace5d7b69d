\* One job of any kind, posted twice, whose CSP answers differ in status and
\* headers; each task may be retried once, and two faults strike anywhere.
CONSTANTS
  j1 = j1
  e1 = e1
  e2 = e2
  p1 = p1
  Payloads <- OnePayload
  Jobs <- OneJob
  Executions <- TwoPosts
  JobOf <- PostedTwice
  MaxRetries = 1
  MaxFaults = 2
SPECIFICATION Spec
INVARIANTS
  TypeOK
  OneMessagePerExecution
  SentIsStored
  EndedIsStoredIffReportable
  PendingEnvironmentsStayAsync
PROPERTY
  AcceptedIsAnswered
CHECK_DEADLOCK FALSE
