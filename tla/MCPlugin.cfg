CONSTANTS
  t1 = t1
  c1 = c1
  c2 = c2
  Thread = {t1}
  Batch = {1}
  PluginBatch = {1}
  Attempt <- TwoAttempts
  Session = {}
  NoSession = NoSession
  AcceptTimeout = 1
  AppServerAcceptTimeout = 1
  ObservationWindow = 1
  RedeliveryWindow = 6
  ManualWindow = 1
  Budgets = {2}
  ReadOnlyPolicies = {}
  SweepLimit = 1
  Lag = 0
  MaxTime = 2
  MaxEpoch = 1
  MaxGeneration = 2
  AuthModes = {}
  Profiles = {}
  Snapshots = {}
  ThreadOf <- OneThread
  BoundTo <- NoBinding
  Requirements <- AnyPermission
  LastInstance = 1
  DeliveryTtl = 2
  PluginTtls = {1}
  Conn = {c1, c2}
  InstanceOf <- OneInstance
  RecoveryTimeout = 1
  CallTime = 1
SPECIFICATION PluginSpec
INVARIANTS
  OneTurnPerDelivery
  
PROPERTIES
  HolderKeepsServer
CHECK_DEADLOCK FALSE
SYMMETRY ConnSymmetry
