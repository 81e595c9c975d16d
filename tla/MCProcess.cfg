SPECIFICATION FairSpec
CONSTANTS
  Handlers = {h1, h2}
  Buffer = 2
  MaxEvents = 3
  MaxBoots = 2
INVARIANTS
  TypeOK
  ServersRunInsideStore
  DomainLogInOrder
PROPERTY ShutdownCompletes
CHECK_DEADLOCK FALSE
