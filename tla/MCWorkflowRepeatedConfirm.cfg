\* A confirm that overlaps the one that succeeded is refused.
SPECIFICATION Spec
CONSTANTS
  r1 = r1
  r2 = r2
  s1 = s1
  NumJobs = 1
  BatchSize = 1
  QueueCapacity = 1
  MaxRevisions = 1
  Submitters <- Nobody
  Reviewers <- TwoReviewers
  StoreMayFail = FALSE
PROPERTY RepeatedConfirmAccepted
