CONSTANTS
  t1 = t1
  t2 = t2
  a1 = a1
  a2 = a2
  a3 = a3
  s1 = s1
  s2 = s2
  Thread = {t1}
  Batch = {1, 2}
  PluginBatch = {}
  Attempt = {a1}
  Session = {s1, s2}
  NoSession = NoSession
  AcceptTimeout = 1
  AppServerAcceptTimeout = 1
  ObservationWindow = 1
  RedeliveryWindow = 1
  ManualWindow = 1
  Budgets = {2}
  ReadOnlyPolicies = {TRUE, FALSE}
  SweepLimit = 2
  Lag = 0
  MaxTime = 1
  MaxEpoch = 2
  MaxGeneration = 1
  AuthModes = {"strict_safe"}
  Profiles = {TRUE, FALSE}
  Snapshots = {TRUE, FALSE}
  ThreadOf <- OneThread
  BoundTo <- OneThreadSessions
  Requirements <- OwnPermission
SYMMETRY SessionSymmetry
SPECIFICATION Spec
PROPERTIES
  StrictSafeHonoured
CHECK_DEADLOCK FALSE
