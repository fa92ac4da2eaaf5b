CONSTANTS
  t1 = t1
  t2 = t2
  a1 = a1
  a2 = a2
  a3 = a3
  s1 = s1
  s2 = s2
  Thread = {t1}
  Batch = {1, 2}
  PluginBatch = {1}
  Attempt = {a1, a2}
  Session = {s1}
  NoSession = NoSession
  AcceptTimeout = 1
  AppServerAcceptTimeout = 1
  ObservationWindow = 1
  RedeliveryWindow = 2
  ManualWindow = 1
  Budgets = {2}
  ReadOnlyPolicies = {}
  SweepLimit = 2
  Lag = 0
  MaxTime = 2
  MaxEpoch = 1
  MaxGeneration = 2
  AuthModes = {"trusted_all"}
  Profiles = {FALSE}
  Snapshots = {}
  ThreadOf <- OneThread
  BoundTo <- OneThreadSessions
  Requirements <- AnyPermission
SYMMETRY AttemptSymmetry
SPECIFICATION Spec
INVARIANTS
  OneInFlight
  ClosedBatchQuiet
  AmbiguityIsManual
  AtMostOneDispatch
  BudgetAccounting
  ProofUsedOnce
PROPERTIES
  InFlightOutlivesWindow
  
  RefinesQueue
CHECK_DEADLOCK FALSE
