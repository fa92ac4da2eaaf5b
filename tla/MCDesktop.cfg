SPECIFICATION Spec
CONSTANTS
  Batch = {1}
  MaxDeliveries = 2
  WindowEnds = 2
  LeaseTtl = 1
  Caller = {c1, c2}
  Fingerprint = {1, 2}
  MaxTime = 1
  MaxAttempts = 2
  MaxInstallations = 2
  c1 = c1  c2 = c2  b1 = b1  b2 = b2  s1 = s1  s2 = s2
  Bridge = {b1}
  Scan = {s1, s2}
  MarkerTtl = 1
  LinesPerTick = 1
  MaxMarkers = 2
  MaxLines = 2
  MaxFiles = 2
  MaxInterventions = 1
SYMMETRY Symmetry
CHECK_DEADLOCK FALSE
INVARIANTS OneAttemptInFlight EachArmCountedOnce NothingSkipped
PROPERTIES ArmedAsPended
