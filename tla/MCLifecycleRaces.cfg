SPECIFICATION FairSpec
CONSTANTS
  a1 = a1
  a2 = a2
  m1 = m1
  m2 = m2
  Attempts = {a1}
  Machines = {m1, m2}
  None = None
  MaxSlots = 1
INVARIANTS RunnerRemembered JobSpared CapacityTrue
PROPERTY AttemptsEnd
