SPECIFICATION Spec
CONSTANTS
  Buffer <- MCBuffer
  RecordSize <- MCRecordSize
  BufSize <- MCBufSize
  ScratchWidth = 65536
  Clients <- MCGatherClients
INVARIANTS
  RecordsKept
CHECK_DEADLOCK FALSE
