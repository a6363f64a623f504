SPECIFICATION FairDeploySpec
CHECK_DEADLOCK FALSE
CONSTANTS
  i1 = i1
  i2 = i2
  r1 = r1
  r2 = r2
  r3 = r3
  a = a
  b = b
  long = long
  Inst = {i1, i2}
  Req = {r1}
  Apelido = {a, b, long}
  NoInst = NoInst
  NoReq = NoReq
  NoPost = NoPost
  Input <- SettleInput
  Clamp <- MCClamp
  MaxTries = 2
  Limit = 1
  MaxFaults = 1
  MaxCrashes = 2
INVARIANTS
  Bootstrapped
PROPERTIES
  Settles
  ServesAgain
