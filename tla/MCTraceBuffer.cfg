SPECIFICATION Spec
CONSTANTS
  Buffer <- MCBuffer
  RecordSize <- MCRecordSize
  BufSize <- MCBufSize
  ScratchWidth = 65536
  Clients <- MCClients
INVARIANTS
  RecordsFit
  RecordsKept
  SampleRate
CHECK_DEADLOCK FALSE
