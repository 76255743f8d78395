SPECIFICATION JobsSpec
CONSTANTS
  x = x
  y = y
  Jobs = {x, y}
  Hosts = {h}
  HostSlots = 2
  NoOne = noOne
  MaxProvision = 3
  Runners <- MCRunners
  MaxSilence = 0
  MaxTroubles = 0
INVARIANT CleanExitSettles
CHECK_DEADLOCK FALSE
