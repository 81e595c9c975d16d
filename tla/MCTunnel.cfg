SPECIFICATION FairSpec
CONSTANTS
  Entries = {"socks5", "connect"}
  Egresses = {"direct", "http-upstream", "socks5-upstream"}
  MaxChunks = 2
  Window = 1
INVARIANTS
  TypeOK
  StreamsIntact
  SocketsInOrder
PROPERTY HandlerEnds
CHECK_DEADLOCK FALSE
