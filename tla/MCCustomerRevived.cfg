SPECIFICATION Spec
CONSTANTS
  h1 = h1
  h2 = h2
  labA = labA
  labB = labB
  ra = ra
  rb = rb
  a1 = a1
  a2 = a2
  b1 = b1
  alice = alice
  bob = bob
  NoRealm = NoRealm
  NoSid = NoSid
  NoSession = NoSession
  NoTransaction = NoTransaction
  Handlers <- TwoHandlers
  Slots <- MCSlots
  Realms <- MCRealms
  Sids <- MCSids
  RealmOf <- MCRealmOf
  Users <- MCUsers
  UserOf <- MCUserOf
  Applied <- MCApplied
  Ops <- LoginLogout
  MaxLogins = 2
  MaxLogouts = 0
  MaxRequests = 5
  MaxExpiries = 0
  MaxChanges = 0
INVARIANT LogoutIsFinal
CHECK_DEADLOCK FALSE
