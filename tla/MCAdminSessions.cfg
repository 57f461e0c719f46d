\* Three requests of every kind; a password in the environment or not, and one stored
\* or not.
CONSTANTS
  Request = {r1, r2, r3}
  Password = {old, new}
  NoPassword = none
SYMMETRY Symmetry
SPECIFICATION Spec
INVARIANTS
  EndedSessionsNotAdmitted
  SessionsKept
PROPERTIES
  StaysAvailable
\* The requests are over.
CHECK_DEADLOCK FALSE
