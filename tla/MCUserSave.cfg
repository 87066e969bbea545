SPECIFICATION Spec
CONSTANTS
  BaseUsers <- MCBaseUsers
  BaseGroups <- MCBaseGroups
  LocalUsers <- MCLocal
  UserOrder <- MCOrder
  SyntheticEmails <- MCEmails
  LongestName = 2
  PageSize = 3
  DefaultRedirects <- MCRedirects
  DefaultStandard <- MCStandard
  DefaultSaml2Int <- MCSaml2Int
  Stacks <- OneStack
  UserForms <- MCForms
  LocalGroups <- MCLocalGroups
  OidcDocuments <- OneOidc
  SamlDocuments <- OneSaml
  DriftKinds <- NoDrift
  MaxEdits = 2
  MaxFaults = 0
PROPERTY UserSaveRegenerates
CHECK_DEADLOCK FALSE
