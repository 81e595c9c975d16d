SPECIFICATION FairSpec
CONSTANTS
  root = root
  bob = bob
  Names <- MCNames
  AdminUser = root
  NoAccount = NoAccount
  NoName = NoName
  NoPayload = NoPayload
  Requests = {r1, r2}
  Roles <- MCRoles
  Payloads <- MCPayloads
  Files <- MCFiles
  MaxOps = 3
  MaxUid = 6
  MaxRestarts = 1
INVARIANTS
  TypeOK
  SoleAdminStays
  FoundingAdminsStay
PROPERTIES
  BootRestoresAdmin
  ImplementsTable
  RequestsEnd
CHECK_DEADLOCK FALSE
