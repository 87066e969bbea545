SPECIFICATION RecordedSpec
CONSTANTS
  h1 = h1
  h2 = h2
  labA = labA
  labB = labB
  ra = ra
  rb = rb
  a1 = a1
  a2 = a2
  b1 = b1
  alice = alice
  bob = bob
  NoRealm = NoRealm
  NoSid = NoSid
  NoSession = NoSession
  NoTransaction = NoTransaction
  Handlers <- TwoHandlers
  Slots <- MCSlots
  Realms <- MCRealms
  Sids <- MCSids
  RealmOf <- MCRealmOf
  Users <- MCUsers
  UserOf <- MCUserOf
  Applied <- MCApplied
  Ops <- Everything
  MaxLogins = 2
  MaxLogouts = 1
  MaxRequests = 6
  OverlapRequests = 5
  MaxExpiries = 1
  MaxChanges = 1
INVARIANT TypeOK
INVARIANT OneTimeState
INVARIANT SessionBoundToIssuer
INVARIANT LogoutIsFinalAlone
INVARIANT TerminatedSessionEndedAlone
PROPERTY FrontChannelVerifiedAlone
PROPERTY RpLogoutOfRealmAlone
CHECK_DEADLOCK FALSE
