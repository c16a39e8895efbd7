\* One page of two chunks, a persistent client, after the retention time.
SPECIFICATION FairSpec
CONSTANTS
  q1 = q1
  q2 = q2
  Requests <- TwoRequests
  Versions <- Scans
  Length <- ScanLength
  MaximumPageBytes = 3
  Refs <- EightRefs
  Pages <- OnePage
  ChunkCount <- TwoChunks
  Uploads <- HonestChunks
  MaxFaults = 0
  Retention = TRUE
PROPERTY UploadCompletes
CHECK_DEADLOCK FALSE
