SPECIFICATION Spec
CONSTANTS
  h1 = h1
  h2 = h2
  northlake = northlake
  a = a
  b = b
  c = c
  NoKey = NoKey
  NoRealm = NoRealm
  NoFile = NoFile
  NoThread = NoThread
  Handlers <- OneHandler
  Keys <- MCKeys
  StableKey = northlake
  Choices <- SwappedChoices
  Default <- MCDefault
  Ops <- ApplyOnly
  MaxRequests = 3
  MaxFaults = 0
  MaxRestarts = 0
INVARIANT AnswerIsServed
CHECK_DEADLOCK FALSE
