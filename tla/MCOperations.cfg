SPECIFICATION OperationsSpec
CONSTANTS
  People = {"ann", "bob"}
  HubRole <- MCHubRole
  Grants = {"g1", "g2"}
  Nobody = nobody
  Allowance = 1
  MaxLockout = 2
  MaxGuesses = 3
  MaxPast = 2
  MaxChanges = 3
  ImportNodes = {"n1", "n2"}
  ImportVals = {"v1"}
  Absent = absent
  Removed = removed
  AuditRows = 1
  MaxImports = 2
  MaxHubActs = 2
  MaxConvexActs = 1
  MaxFailedBatches = 1
  CtlProfiles = {p1, p2}
  CtlBuilds = {b1, b2}
  NoCtlBuild = noBuild
  MaxCtlRuns = 3
  MaxCtlTroubles = 2
  AgentReleases = {"r1", "r2"}
  SoundReleases = {"r1"}
  ServiceKinds = {"service", "nohup"}
  MaxSetups = 3
  MaxMishaps = 2
  Agents = {agentA, agentB}
  NoAgent = noAgent
  MaxNodeRuns = 2
  MaxNodeFaults = 2
  Guids = {d1, d2}
  NoRow = noRow
  RetryAfter = 0
  MaxDeliveryAttempts = 2
  Overlap = 1
  Seed = 1
  MaxAge = 2
  Window = 3
  Retention = 4
  PerPage = 2
  MaxPages = 2
  MaxPerRun = 1
  MaxRequests = 2
  MaxHours = 5
  MaxSends = 3
  LastSend = 2
  MaxHiccups = 1
  Spellings = {"Acme/web", "acme/web", "acme/api", "acme/cli"}
  RepoKey <- MCRepoKey
  PushApps = {appA, appB}
  Pushes = {push1}
  Unbound = unbound
  MaxGitBindings = 2
  KeptDays = 2
  RedeliverDays = 1
  MaxDays = 3
  MaxBinds = 3
  JoinHosts = {h1, h2}
  JoinTokens = {1, 2}
  TokenTTL = 1
  TokenKept = 2
  MaxMinutes = 3
  MaxJoins = 4
SYMMETRY Alike
INVARIANTS
  
  
  
  
  ArrivalsOnce
 
CHECK_DEADLOCK FALSE
