\* Two pages of one chunk, a persistent client, two requests that end early, no retention.
SPECIFICATION FairSpec
CONSTANTS
  q1 = q1
  q2 = q2
  Requests <- TwoRequests
  Versions <- Scans
  Length <- ScanLength
  MaximumPageBytes = 3
  Refs <- EightRefs
  Pages <- TwoPages
  ChunkCount <- OneChunkEach
  Uploads <- HonestPages
  MaxFaults = 2
  Retention = FALSE
INVARIANT CaptureMatchesPages
PROPERTY UploadCompletes
CHECK_DEADLOCK FALSE
