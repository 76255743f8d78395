SPECIFICATION HubFairSpec
CONSTANTS
  n1 = n1
  n2 = n2
  Sites = {n1, n2}
  s1 = s1
  s2 = s2
  s3 = s3
  Sockets = {s1, s2, s3}
  SiteOf <- MCSiteOf
  r1 = r1
  r2 = r2
  r3 = r3
  Requests = {r1, r2, r3}
  AppSite <- MCAppSite
  MaxInflight = 1
  NoSocket = noSocket
  Boxes = {n1, n2}
  db = db
  Services = {web, db}
  Routed = {web}
  Pin <- MCPin
  Pipelines = {d1}
  Manuals = {d2}
  MaxLosses = 1
  MaxRestarts = 1
  provA = provA
  provB = provB
  cons = cons
  lp = lp
  lq = lq
  Peers = {provA, provB, cons}
  Links = {lp, lq}
  Provider <- MCProvider
  Consumer <- MCConsumer
  Broken = {provB}
  Cloned = {}
  Require = FALSE
  MaxFaults = 1
  MaxHellos = 3
  MaxRequests = 2
INVARIANTS WaitingWithinLimit  PortsFreed
PROPERTIES ListensAfterGrant  HubSettles
CHECK_DEADLOCK FALSE
