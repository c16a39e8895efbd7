\* A generation and a decision, without any fault.
SPECIFICATION Spec
CONSTANTS
  Sessions = {s1}
  Agents = {a1, a2}
  Nobody = nobody
  MaxFaults = 0
  MaxRequests = 2
PROPERTIES
  LateReplyKeepsQueue
CHECK_DEADLOCK FALSE
