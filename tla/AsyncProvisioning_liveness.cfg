\* One job never finishes and batches hold two: the others get through.
CONSTANTS
  j1 = j1
  j2 = j2
  j3 = j3
  Jobs <- ThreeJobs
  BatchSize = 2
  Broken <- NoJobs
  Forgotten <- OnlyJ1
  Stuck <- OnlyJ3
  RetentionBites = FALSE
  MaxCrashes = 1
  MaxErrors = 1
SPECIFICATION FairSpec
PROPERTY
  FinishedJobsAreReported
CHECK_DEADLOCK FALSE
