\* Recovery lists jobs while the worker is already running.
SPECIFICATION Spec
CONSTANTS
  r1 = r1
  r2 = r2
  s1 = s1
  NumJobs = 1
  BatchSize = 1
  QueueCapacity = 1
  MaxRevisions = 1
  Submitters <- OneSubmitter
  Reviewers <- Nobody
  StoreMayFail = FALSE
PROPERTY RecoveryTouchesOnlyInterrupted
