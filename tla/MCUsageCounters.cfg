SPECIFICATION FairSpec
CONSTANTS
  Writers = {w1, w2}
  Sizes = {1}
  DaysPerMonth = 2
  MaxDay = 2
  MaxUid = 2
  NoRow = noRow
  NoOne = noOne
  MaxBytes = 2
INVARIANTS
  TypeOK
  TxOwnsRow
  CountersNested
  TotalExact
  NeverOverCharged
PROPERTIES
  ConnectionReturned
