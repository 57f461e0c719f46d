\* Turns of up to six deltas and two tool calls.
CONSTANTS
  Chunk = {c1, c2}
  MaxDeltas = 6
  MaxToolCalls = 2
SYMMETRY ChunkSymmetry
SPECIFICATION EmittersSpec
INVARIANTS
  EventsAddressOpenBlocks
  CleanEnd
  EventsAddressOpenItems
  FinalTextIsDeltas
  ClientsAgree
\* A turn ends.
CHECK_DEADLOCK FALSE
