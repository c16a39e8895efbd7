\* One page of two chunks, two contents, a corrupt chunk, one too long for its page, two requests, retention.
SPECIFICATION Spec
CONSTANTS
  q1 = q1
  q2 = q2
  Requests <- TwoRequests
  Versions <- Scans
  Length <- ScanLength
  MaximumPageBytes = 3
  Refs <- EightRefs
  Pages <- OnePage
  ChunkCount <- TwoChunks
  Uploads <- MixedUploads
  MaxFaults = 1
  Retention = TRUE
INVARIANTS
  TypeOK
  OpenPageIsOneUpload
  FinalizeNeverRefused
  RowsReadable
  NoOrphans
PROPERTY ImplementsCapture
SYMMETRY RequestSymmetry
CHECK_DEADLOCK FALSE
