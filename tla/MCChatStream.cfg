\* Turns of up to five characters in chunks of up to two: without soft tools and with
\* each format of them, over every way a stream can end.
CONSTANTS
  Char <- Chars
  ThinkOpen <- OpenTag
  ThinkClose <- CloseTag
  Trigger <- Signal
  Fences <- NoFence
  Plain <- PlainChars
  CallOf <- CallChars
  EndTag = "endTag"
  BlockOpener = "mbtoolcalls"
  FenceLine = "fence"
  MaxFed = 5
  MaxChunk = 2
SPECIFICATION Spec
INVARIANTS
  TextIntact
  ToolTurnReported
PROPERTIES
  TurnEnds
  KeepsCallbackProtocol
\* A turn ends.
CHECK_DEADLOCK FALSE
