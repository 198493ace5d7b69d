\* Two requests in batches of two; two invocations may overlap, and one GET at a
\* time reads the answers.
CONSTANTS
  r1 = r1
  r2 = r2
  i1 = i1
  i2 = i2
  p1 = p1
  Posted <- TwoRequests
  CspOf <- CannedAndCalled
  Invocations <- TwoInvocations
  MaxBatch = 2
  MaxFaults = 1
  Pollers <- OnePoller
  MaxMessages = 2
  MaxReadFaults = 1
SPECIFICATION FairSpec
INVARIANTS
  TypeOK
  RequestsAccounted
  FirstAnswersInOrder
  AnswersNeedFaults
PROPERTIES
  FeedsConsumer
  RequestsAreAnswered
CHECK_DEADLOCK FALSE
