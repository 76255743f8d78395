SPECIFICATION ServicesSpec
CONSTANTS
  Entries = {e}
  Sweepers = {s1, s2}
  UploadTTL = 1
  DownloadLife = 1
  BlobGrace = 2
  OrphanGrace = 3
  SweepLimit = 1
  MaxBreaks = 1
  MaxClock = 4
  ForMinutes = 1
  CooldownMinutes = 4
  NoticeWindow = 2
  MaxSends = 2
  MaxIncidents = 2
  MaxEdits = 2
  MaxMinute = 6
  Fetches = {f1, f2}
  Prewarm = prewarm
  NoHolder = nobody
  Asks <- MCAsks
  Items = {i1, i2, i3}
  ItemSlots = 2
  MaxDeaths = 1
  MaxLosses = 1
  narrow = narrow
  wide = wide
  thin = thin
  Work = {narrow, wide, thin}
  Docker = {narrow, wide}
  Vcpus <- MCVcpus
  Cores = {0, 1, 2}
  Faults = {}
  MaxKills = 2
  nodeA = nodeA
  keyA = keyA
  keyB = keyB
  MeshNodes = {}
  Creds = {"c1", "c2"}
  Keys = {keyA, keyB}
  KeyAtStart <- MCKeyAtStart
  Labels = {"app"}
  Bare = "bare"
  MeshPorts = {1, 2}
  Nil = nil
  MaxMeshActs = 0
  x = x
  y = y
  Jobs = {x, y}
  Hosts = {h}
  HostSlots = 2
  NoOne = noOne
  MaxProvision = 2
  Runners <- MCRunners
  MaxSilence = 1
  MaxTroubles = 1
INVARIANTS
  
  MirrorSound
  PinnedApart
  JobsRight
PROPERTIES CooldownKeptNearby RecoverySparesLive
CHECK_DEADLOCK FALSE
