\* Every text of up to eight characters, in chunks of up to three: nested,
\* unbalanced and cut tags around triggers, and repeated fences before them.
CONSTANTS
  Char <- Chars
  ThinkOpen <- OpenTag
  ThinkClose <- CloseTag
  Trigger <- Signal
  Fences <- OneFence
  MaxFed = 8
  MaxChunk = 3
SPECIFICATION DetectorSpec
INVARIANTS
  ChunkingIrrelevant
  HeldOnlyWhileAmbiguous
\* The text ends at MaxFed.
CHECK_DEADLOCK FALSE
