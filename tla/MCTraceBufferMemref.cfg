SPECIFICATION Spec
CONSTANTS
  Buffer <- MCBuffer
  RecordSize <- MCRecordSize
  BufSize <- MCBufSize
  ScratchWidth = 65536
  Clients <- MCMemrefClients
INVARIANTS
  RecordsFit
CHECK_DEADLOCK FALSE
