\* No crash and no error: a job the CSP has forgotten shares a batch.
CONSTANTS
  j1 = j1
  j2 = j2
  j3 = j3
  Jobs <- TwoJobs
  BatchSize = 2
  Broken <- NoJobs
  Forgotten <- OnlyJ1
  Stuck <- NoJobs
  RetentionBites = FALSE
  MaxCrashes = 0
  MaxErrors = 0
SPECIFICATION Spec
PROPERTY
  InProgressStaysQueued
CHECK_DEADLOCK FALSE
