\* A writer whose buffer is smaller than the file may get.
CONSTANTS
  RecordSize <- Sizes
  BufferSize = 4
  MaxSize = 5
  MaxBackups = 2
  MaxRecords = 4
  MaxFaults = 1
  ChunkSize = 2
  Limit = 2
  None = None
SPECIFICATION LogSpec
INVARIANT LogFitsMaxSize
