SPECIFICATION FairSpec
CONSTANTS
  a = a
  b = b
  c = c
  NoAddr = NoAddr
  Addrs <- MCAddrs
  Portless = {c}
  Envs <- MCEnvs
  Dialers = {d1, d2}
  MaxInt = 3
  CounterRange = 5
INVARIANTS
  TypeOK
  RouteAlwaysFound
  SharesFollowWeights
PROPERTIES
  FailoverSettles
  EveryNodeServes
CHECK_DEADLOCK FALSE
