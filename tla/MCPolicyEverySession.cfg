SPECIFICATION FairSpec
CONSTANTS
  Users = {alice}
  Conns = {c1}
  Kinds = {"socks5", "connect", "plain"}
  Profiles <- SafetyProfiles
  Enforcer = enforcer
  Admin = admin
  NilCloser = nil
  NoEntry = noEntry
  NoUser = noUser
  NoAccount = noAccount
  MaxTime = 0
  MaxUsage = 1
  MaxUid = 2
  MaxDbErrors = 0
  MaxAdminOps = 1
PROPERTIES
  PolicyCutsEverySession
