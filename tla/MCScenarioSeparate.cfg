SPECIFICATION Spec
CONSTANTS
  h1 = h1
  h2 = h2
  northlake = northlake
  a = a
  b = b
  c = c
  NoKey = NoKey
  NoRealm = NoRealm
  NoFile = NoFile
  NoThread = NoThread
  Handlers <- TwoHandlers
  Keys <- MCKeys
  StableKey = northlake
  Choices <- SeparateChoices
  Default <- MCDefault
  Ops <- Everything
  MaxRequests = 3
  MaxFaults = 1
  MaxRestarts = 1
INVARIANT TypeOK
INVARIANT AnswerIsServed
INVARIANT SessionOfSlot
PROPERTY SelectedRealmOnly
PROPERTY StartServesBothLabs
CHECK_DEADLOCK FALSE
