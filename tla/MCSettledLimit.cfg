SPECIFICATION Spec
CONSTANTS
  Users = {alice}
  Conns = {c1, c2}
  Kinds = {"connect"}
  Profiles <- SafetyProfiles
  Enforcer = enforcer
  Admin = admin
  NilCloser = nil
  NoEntry = noEntry
  NoUser = noUser
  NoAccount = noAccount
  MaxTime = 0
  MaxUsage = 1
  MaxUid = 2
  MaxDbErrors = 0
  MaxAdminOps = 1
INVARIANTS
  SettledWithinLimit
