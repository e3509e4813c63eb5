SPECIFICATION FairPoolSpec
CONSTANTS
  a = a
  b = b
  x = x
  y = y
  n = n
  r1 = r1
  r2 = r2
  r3 = r3
  r4 = r4
  Emails = {a, b, x, y}
  Names = {n}
  Reqs = {r1, r2, r3, r4}
  NoJob = NoJob
  Unset = Unset
  Null = Null
  InitName = n
  InitMail <- MCInitMail
  Jobs <- MCJobs
  Asks <- MCAsks
  PoolSize = 3
INVARIANTS
  PoolTypeOK
  OnlySwapsDeadlock
PROPERTIES
  EveryRequestAnswered
