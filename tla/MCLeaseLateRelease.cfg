SPECIFICATION Spec
CONSTANTS
  a1 = a1
  a2 = a2
  b1 = b1
  workerA = workerA
  workerB = workerB
  Instances = {a1, b1}
  Identities = {workerA, workerB}
  IdentityOf <- MCIdentityOf
  Poor = {workerB}
  None = None
  TTL = 2
  HeadStart = 1
  LateKinds = {"acquire", "renew", "release"}
  MaxTime = 5
  MaxEpoch = 3
  MaxWrites = 0
INVARIANT SoleAuthority
CHECK_DEADLOCK FALSE
