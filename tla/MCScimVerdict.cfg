SPECIFICATION Spec
CONSTANTS
  h1 = h1
  h2 = h2
  e1 = e1
  e2 = e2
  NoFile = NoFile
  NoResource = NoResource
  NoEndpoint = NoEndpoint
  Handlers <- OneHandler
  Endpoints <- MCEndpoints
  First = e1
  Ops <- SaveVerify
  MaxRequests = 2
  MaxFaults = 1
  MaxRestarts = 0
PROPERTY VerdictRecorded
CHECK_DEADLOCK FALSE
