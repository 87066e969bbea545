SPECIFICATION Spec
CONSTANTS
  h1 = h1
  h2 = h2
  e1 = e1
  e2 = e2
  NoFile = NoFile
  NoResource = NoResource
  NoEndpoint = NoEndpoint
  Handlers <- TwoHandlers
  Endpoints <- MCEndpoints
  First = e1
  Ops <- Everything
  MaxRequests = 4
  MaxFaults = 1
  MaxRestarts = 1
INVARIANT TypeOK
INVARIANT RetryPasses
INVARIANT ResultIsTrue
PROPERTY UndoesItsOwn
CHECK_DEADLOCK FALSE
