\* Streams of up to five lines of either protocol, cut or broken anywhere.
CONSTANTS
  MaxLines = 5
SPECIFICATION Spec
INVARIANTS
  EverythingHandedOn
PROPERTIES
  KeepsCallbackProtocol
\* A turn ends.
CHECK_DEADLOCK FALSE
