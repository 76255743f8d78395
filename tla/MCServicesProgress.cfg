SPECIFICATION ServicesFairSpec
CONSTANTS
  Entries = {e}
  Sweepers = {s1}
  UploadTTL = 1
  DownloadLife = 1
  BlobGrace = 2
  OrphanGrace = 3
  SweepLimit = 1
  MaxBreaks = 1
  MaxClock = 3
  ForMinutes = 1
  CooldownMinutes = 3
  NoticeWindow = 2
  MaxSends = 2
  MaxIncidents = 2
  MaxEdits = 2
  MaxMinute = 5
  Fetches = {f1}
  Prewarm = prewarm
  NoHolder = nobody
  Asks <- MCAsks
  Items = {i1, i2}
  ItemSlots = 1
  MaxDeaths = 1
  MaxLosses = 1
  narrow = narrow
  wide = wide
  thin = thin
  Work = {narrow, wide, thin}
  Docker = {narrow, wide}
  Vcpus <- MCVcpus
  Cores = {0, 1, 2}
  Faults = {"ps", "inspect", "teardown", "unlisted"}
  MaxKills = 1
  nodeA = nodeA
  keyA = keyA
  keyB = keyB
  MeshNodes = {nodeA, nodeB}
  Creds = {"c1", "c2"}
  Keys = {keyA, keyB}
  KeyAtStart <- MCKeyAtStart
  Labels = {"app"}
  Bare = "bare"
  MeshPorts = {1, 2}
  Nil = nil
  MaxMeshActs = 4
  x = x
  y = y
  Jobs = {}
  Hosts = {h}
  HostSlots = 2
  NoOne = noOne
  MaxProvision = 2
  Runners <- MCRunners
  MaxSilence = 0
  MaxTroubles = 0
INVARIANTS CoresPartitioned GrantsSound
 
CHECK_DEADLOCK FALSE
