SPECIFICATION Spec
CONSTANTS
  root = root
  bob = bob
  Names <- MCNames
  AdminUser = root
  NoAccount = NoAccount
  NoName = NoName
  NoPayload = NoPayload
  Requests = {r1, r2}
  Roles <- MCRoles
  Payloads <- MCPayloads
  Files <- MCFiles
  MaxOps = 2
  MaxUid = 6
  MaxRestarts = 0
PROPERTY BlankCellsKept
CHECK_DEADLOCK FALSE
