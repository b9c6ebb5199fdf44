SPECIFICATION Spec
CONSTANTS
  Manifests = {m1, m2}
  NoManifest = NoManifest
  Providers = {p1, p2}
  NoProvider = NoProvider
  Groups = {g1, g2}
  MaxStarts = 3
  MaxFaults = 1
SYMMETRY Symmetry
INVARIANTS
  SentWasDeployed
  StoredIsDeployed
  OldManifestIsExplained
  
CHECK_DEADLOCK FALSE
