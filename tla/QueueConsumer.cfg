\* Two GETs at a time and batches of two, on two groups with two and one
\* results; two faults strike anywhere.
CONSTANTS
  p1 = p1
  p2 = p2
  b1 = b1
  b2 = b2
  b3 = b3
  g1 = g1
  g2 = g2
  Pollers <- TwoPollers
  Bodies <- ThreeBodies
  Groups <- TwoGroups
  GroupOf <- TwoAndOne
  MaxMessages = 2
  MaxFaults = 2
SPECIFICATION FairSpec
INVARIANTS
  TypeOK
  ReadOnce
  EndsOnce
  ResultsAccounted
  NoOvertaking
  LossIsBounded
  IInv
PROPERTY
  ResultsAreRead
CHECK_DEADLOCK FALSE
