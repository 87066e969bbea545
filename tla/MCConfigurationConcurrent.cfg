SPECIFICATION Spec
CONSTANTS
  h1 = h1
  h2 = h2
  reconciler = reconciler
  northlake = northlake
  campus = campus
  edge1 = edge1
  edge2 = edge2
  modern = modern
  basic = basic
  NoRealm = NoRealm
  NoFile = NoFile
  NoThread = NoThread
  Handlers <- TwoHandlers
  Reconciler = reconciler
  Keys <- MCKeys
  Edges <- TwoEdges
  Profiles <- MCProfiles
  DefaultSettings <- MCDefault
  DefaultProfile = modern
  Ops <- Everything
  MaxRequests = 3
  GenerationMayFail = TRUE
  MaxFaults = 1
  MaxRestarts = 1
  ReconcileAttempts = 2
INVARIANT TypeOK
INVARIANT LockDiscipline
INVARIANT SuccessIsServed
SYMMETRY HandlerSymmetry
CHECK_DEADLOCK FALSE
