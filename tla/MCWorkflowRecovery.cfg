\* Two jobs, pages of one row, a queue of one: recovery beside a live worker.
SPECIFICATION FairSpec
CONSTANTS
  r1 = r1
  r2 = r2
  s1 = s1
  NumJobs = 2
  BatchSize = 1
  QueueCapacity = 1
  MaxRevisions = 1
  Submitters <- OneSubmitter
  Reviewers <- Nobody
  StoreMayFail = FALSE
INVARIANTS
  InFlightOwned
  AcceptedFirstSubmissionScheduled
PROPERTIES
  InFlightEnds
  FirstSubmissionProcessed
