\* One invoice of two pages, two pairings, one retry and two faults.
SPECIFICATION FairSpec
CONSTANTS
  Drafts = {d1}
  PageCount = 2
  MaxDevices = 2
  MaxRetries = 1
  MaxFaults = 2
INVARIANTS
  TypeOK
  PagesSentOncePerTry
  MarkedPagesAreStored
  RejectedIsNotLost
PROPERTY UploadEnds
CHECK_DEADLOCK FALSE
