\* Three requests that save, over starts and crashes of the program.
CONSTANTS
  Request = {r1, r2, r3}
  Feature = {f1, f2}
  Default = shipped
SYMMETRY Symmetry
SPECIFICATION Spec
INVARIANTS
  ReloadSeesOwnSave
  AppliedAlone
PROPERTIES
  RestartKeepsSaved
