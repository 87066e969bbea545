SPECIFICATION Spec
CONSTANTS
  BaseUsers <- MCBaseUsers
  BaseGroups <- MCBaseGroups
  LocalUsers <- MCLocal
  UserOrder <- MCOrder
  SyntheticEmails <- MCEmails
  LongestName = 2
  PageSize = 3
  DefaultRedirects <- MCRedirects
  DefaultStandard <- MCStandard
  DefaultSaml2Int <- MCSaml2Int
  Stacks <- MCStacks
  UserForms <- MCForms
  LocalGroups <- MCLocalGroups
  OidcDocuments <- MCOidcDocuments
  SamlDocuments <- MCSamlDocuments
  DriftKinds <- MCDrift
  MaxEdits = 2
  MaxFaults = 1
INVARIANT TypeOK
INVARIANT OverlaysMerge
INVARIANT PagesMatchRealm
INVARIANT GoodRealmPasses
INVARIANT GroupClaimsVerifiable
INVARIANT StableRealmPasses
INVARIANT PassingRealmIsGenerated
PROPERTY ImplementsDirectory
PROPERTY PasswordsAdvance
PROPERTY SubjectsSurvive
PROPERTY AppliedIsPreviewed
CHECK_DEADLOCK FALSE
