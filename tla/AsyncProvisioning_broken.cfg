\* The status request of one job always ends in a CspApiError.
CONSTANTS
  j1 = j1
  j2 = j2
  j3 = j3
  Jobs <- TwoJobs
  BatchSize = 2
  Broken <- OnlyJ1
  Forgotten <- NoJobs
  Stuck <- NoJobs
  RetentionBites = FALSE
  MaxCrashes = 0
  MaxErrors = 0
SPECIFICATION FairSpec
PROPERTY
  CompletedJobsAreWritten
CHECK_DEADLOCK FALSE
