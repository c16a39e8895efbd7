\* One job, two concurrent review requests, unreliable store: safety.
SPECIFICATION Spec
CONSTANTS
  r1 = r1
  r2 = r2
  s1 = s1
  NumJobs = 1
  BatchSize = 1
  QueueCapacity = 1
  MaxRevisions = 3
  Submitters <- OneSubmitter
  Reviewers <- TwoReviewers
  StoreMayFail = TRUE
INVARIANTS
  TypeOK
  ReviewChain
  ConfirmedExactlyOnce
  ConfirmAnswerIsTrue
PROPERTIES
  ConfirmedIsFrozen
  ImplementsLedger
SYMMETRY ReviewerSymmetry
