SPECIFICATION FairSpec
CONSTANTS
  Users = {alice, bob}
  Limits <- MCLimits
  Closers = {client, both}
  NilCloser = nil
  NoEntry = noEntry
  NoUser = noUser
  Kickers = {enforcer}
  MaxID = 3
INVARIANTS
  TypeOK
  MapsAgree
  WithinGrantedLimit
  KickTargetsItsUser
PROPERTIES
  TokensNeverReused
  ImplementsSlots
  KickTerminates
