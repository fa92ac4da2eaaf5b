CONSTANTS
  t1 = t1
  s1 = s1
  a1 = a1
  a2 = a2
  Thread = {t1}
  Batch = {1}
  PluginBatch = {}
  Attempt = {a1, a2}
  Session = {s1}
  NoSession = NoSession
  AcceptTimeout = 1
  AppServerAcceptTimeout = 1
  ObservationWindow = 1
  RedeliveryWindow = 3
  ManualWindow = 1
  Budgets = {2}
  ReadOnlyPolicies = {}
  SweepLimit = 1
  Lag = 0
  MaxTime = 1
  MaxEpoch = 2
  MaxGeneration = 2
  AuthModes = {"trusted_all"}
  Profiles = {}
  Snapshots = {}
  ThreadOf <- OneThread
  BoundTo <- OneSession
  Requirements <- AnyPermission
  Mine = s1
  NoDelivery = NoDelivery
  MaxLate = 1
  LateKinds = {"activity", "begin"}
  MaxRevision = 1
  MaxWire = 1
  MaxEvents = 1
SPECIFICATION SidecarSpec
INVARIANTS
  ProofMatches
  DroppedIsCleared
  RejectedNeverRan
  DeliveredMeansCompleted
CHECK_DEADLOCK FALSE
SYMMETRY AttemptSymmetry
