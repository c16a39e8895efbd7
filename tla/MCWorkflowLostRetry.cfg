\* Retry submissions live only in the in-memory queue.
SPECIFICATION Spec
CONSTANTS
  r1 = r1
  r2 = r2
  s1 = s1
  NumJobs = 1
  BatchSize = 1
  QueueCapacity = 1
  MaxRevisions = 1
  Submitters <- OneSubmitter
  Reviewers <- Nobody
  StoreMayFail = FALSE
INVARIANT AcceptedSubmissionScheduled
