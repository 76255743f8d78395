SPECIFICATION RecordsSpec
CONSTANTS
  a1 = a1
  a2 = a2
  Attempts = {a1, a2}
  Machines = {m1}
  None = None
  MaxSlots = 1
  TestRuns = {push1, push2, pull}
  Pushes = {push1, push2}
  Tests = {"t1"}
  Statuses = {"passed", "failed", "flaky"}
  RunOf <- MCRunOf
  Commits = {"c1"}
  Unknown = unknown
  MaxCases = 2
  MaxSlowest = 1
  FitCases = 1
  MaxPassed = 2
  MaxPeers = 1
  MaxFindings = 2
  MaxFlakyAttempts = 1
  TestRetention = 1
  PurgeCases = 1
  PurgeReports = 2
  PurgeFlaky = 1
  MaxDays = 2
  CpuLevels = {1, 2}
  MaxSamples = 2
  Percentile = 50
  LateUpload = 1
  MetricsRetention = 2
  MaxMinutes = 3
  MaxUploadFaults = 1
  Nothing = nothing
  FirstProfiles <- MCFirstProfiles
  Loads <- MCLoads
  JobRuns = {run1, run2}
  MinAttempts = 2
  StandardVcpus = {1, 2, 4, 8}
  MemPerVcpu = 4
  MaxMem = 32
  MaxProfiles = 6
  MaxPaused = 1
  NoProfile = noProfile
SYMMETRY Alike
INVARIANT FlakyFound
CHECK_DEADLOCK FALSE
