SPECIFICATION RecordedSpec
CONSTANTS
  h1 = h1
  h2 = h2
  reconciler = reconciler
  northlake = northlake
  campus = campus
  edge1 = edge1
  edge2 = edge2
  modern = modern
  basic = basic
  NoRealm = NoRealm
  NoFile = NoFile
  NoThread = NoThread
  Handlers <- TwoHandlers
  Reconciler = reconciler
  Keys <- MCKeys
  Edges <- OneEdge
  Profiles <- OneProfile
  DefaultSettings <- MCDefault
  DefaultProfile = modern
  Ops <- Everything
  MaxRequests = 2
  GenerationMayFail = TRUE
  MaxFaults = 1
  MaxRestarts = 2
  ReconcileAttempts = 4
INVARIANT TruthfulAfterApplies
PROPERTY FailedApplyStaysPendingAlone
PROPERTY RequestsAnswered
PROPERTY StartupAfterApplies
CHECK_DEADLOCK FALSE
