SPECIFICATION FleetSpec
CONSTANTS
  a1 = a1
  a2 = a2
  b1 = b1
  workerA = workerA
  workerB = workerB
  Instances = {a1, b1}
  Identities = {workerA, workerB}
  IdentityOf <- MCIdentityOf
  Poor = {workerB}
  None = None
  TTL = 1
  HeadStart = 1
  LateKinds = {"acquire"}
  MaxTime = 2
  MaxEpoch = 2
  MaxWrites = 2
  Commands = {a, b}
  Journaled = {a, b}
  Fenced = {a}
  MaxKeys = 1
  SweepAt = 1
  Failures = {"request", "write", "torn", "tidy", "crash", "stall"}
  MaxFaults = 1
  Nodes = {n1, n2}
  Home = n1
  First = n1
  Targets = {"none", n1}
  MaxRuns = 2
  MaxOutages = 1
  Hitches = {}
  Slots = {v1, v2}
  Contracts = {p, q}
  MaxTarget = 2
  Attempts = {w}
  Mishaps = {"boot", "exit", "inject", "close"}
  MaxMishaps = 1
  MaxChanges = 2
  Guests = {g1, g2}
  Observed = {g1, g2}
  Restricted = {g1}
  Dests = {d}
  Upsets = {"nft", "list", "reload"}
  MaxUpsets = 1
  boxA = boxA
  boxB = boxB
  noReport = noReport
  Boxes = {boxA, boxB}
  BoxCpus <- MCBoxCpus
  FixedBoxes = {}
  CpusPerSlot = 1
  Images = {"i1", "i2"}
  Destinations = {"github"}
  HostLabels = {"gpu"}
  ProfileNames = {"vm", "box"}
  AtStart <- MCAtStart
  Registrations <- MCRegistrations
  CpusSeen = {1, 2}
  Room = {2}
  Benchmarks <- MCBenchmarks
  MaxWork = 2
  MaxProfileEdits = 1
  MaxHostFaults = 1
  NoBox = noBox
  NoReport = noReport
SYMMETRY Twins
INVARIANT SoleAuthority
INVARIANTS
  
  AtMostOnce 
  
  PoolSound
  
  PlacementSound
PROPERTIES TermsInOrder ImplementsContract CommitsInOrder 
CHECK_DEADLOCK FALSE
