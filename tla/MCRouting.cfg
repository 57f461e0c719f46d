\* One request over a reload to any of the configurations.
CONSTANTS
  k1 = k1
  k2 = k2
  m1 = m1
  m2 = m2
  p1 = p1
  Key = {k1, k2}
  Model = {m1, m2}
  Profile = {p1}
  Candidate <- Candidates
  MaxInForce = 2
  None = None
SYMMETRY Symmetry
SPECIFICATION Spec
INVARIANTS
  KeysKeepToServices
  ListedModelsServed
  RoutedByEntry
  UndisturbedByReload
  SentAsConfigured
