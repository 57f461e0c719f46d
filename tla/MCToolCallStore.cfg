\* Five calls in a store of three: evictions by puts and finds, and expiry.  No
\* symmetry, for the liveness property.
CONSTANTS
  ID = {a, b, c, d, e}
  MaxSize = 3
  TTL = 1
SPECIFICATION Spec
INVARIANTS
  Coherent
  KeptWhileRecent
PROPERTIES
  ExpiredDropped
  ImplementsMemory
