SPECIFICATION FairSpec
CONSTANTS
  Users = {alice}
  Conns = {c1}
  Kinds = {"socks5", "connect", "plain"}
  Profiles <- LivenessProfiles
  Enforcer = enforcer
  Admin = admin
  NilCloser = nil
  NoEntry = noEntry
  NoUser = noUser
  NoAccount = noAccount
  MaxTime = 1
  MaxUsage = 1
  MaxUid = 2
  MaxDbErrors = 1
  MaxAdminOps = 1
PROPERTIES
  PolicyCutsTunnels
  KickEndsTunnel
INVARIANTS
  SlotsMatchHandlers
  ResourcesHeldUnderSlot
