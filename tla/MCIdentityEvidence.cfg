SPECIFICATION Spec
CONSTANTS
  Scripted = scripted
  Rotations = {scripted, byHand}
  MaxProviders = 3
  MaxRotFaults = 1
  Catalog <- CoverageCatalog
  MaxRuns = 2
  MaxChanges = 1
INVARIANTS
  TypeOK
  SomeKeySigns
  RetiredKeysStay
  RestartIsOfOneRealm
PROPERTIES
  ManifestOfThisRun
  VerifiedRotationIsOfOneRealm
CHECK_DEADLOCK FALSE
