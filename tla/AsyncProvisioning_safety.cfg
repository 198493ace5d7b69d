\* Three jobs, batches of two: a batch is smaller than the queue.  One crash
\* and one transient error, any job may be forgotten or outlive the retention.
CONSTANTS
  j1 = j1
  j2 = j2
  j3 = j3
  Jobs <- ThreeJobs
  BatchSize = 2
  Broken <- NoJobs
  Forgotten <- ThreeJobs
  Stuck <- NoJobs
  RetentionBites = TRUE
  MaxCrashes = 1
  MaxErrors = 1
SPECIFICATION Spec
INVARIANTS
  TypeOK
  ReportsAreFinal
  ReportsAgree
  NothingVanishes
  DroppedForGood
  DuplicatesNeedCrashes
  IInv
PROPERTY
  ImplementsJobReports
CHECK_DEADLOCK FALSE
