\* One session, two agents, three requests of the page, two faults.
SPECIFICATION FairSpec
CONSTANTS
  Sessions = {s1}
  Agents = {a1, a2}
  Nobody = nobody
  MaxFaults = 2
  MaxRequests = 3
INVARIANTS
  TypeOK
  LateGenerationIgnored
  LeaseIsExclusive
  DecisionDurable
  ReceiptTellsTheTruth
PROPERTIES
  SourceDecidedOnce
  OverUnlessAsked
  DecisionSettled
  QueueDrains
CHECK_DEADLOCK FALSE
