\* A writer, a reader and a follower over rotations, failures and stops.
CONSTANTS
  RecordSize <- Sizes
  BufferSize = 4
  MaxSize = 5
  MaxBackups = 2
  MaxRecords = 4
  MaxFaults = 1
  ChunkSize = 2
  Limit = 2
  None = None
SPECIFICATION LogSpec
INVARIANTS
  KeepsNewest
  FlushedLogFits
  ListsWholeRecords
  FollowsFile
PROPERTIES
  Followed
