\* Two jobs of one or two pages, two requests at once, two periods of three pages.
SPECIFICATION Spec
CONSTANTS
  j1 = j1
  j2 = j2
  q1 = q1
  q2 = q2
  Jobs <- TwoJobs
  Requests <- TwoRequests
  NumPeriods = 2
  PageCounts <- SmallPageCounts
  PageLimit = 3
  MaxAttempts = 4
INVARIANTS
  TypeOK
  RowsAgree
  WithinLimit
  CountersMatchReservations
  AnswersAgree
  OwnerCanFinalize
PROPERTIES
  CompletedIsFinal
  OnlyOwnerFinalizes
SYMMETRY QuotaSymmetry
CHECK_DEADLOCK FALSE
