SPECIFICATION FairSpec
CONSTANTS
  d1 = d1
  d2 = d2
  NoDaemon = NoDaemon
  Task = {t1}
  Daemon = {d1}
  Default = d1
  Version <- OneVersion
  Timed = {}
  OperatorCalls = {}
  Recoverer = {r1}
  StartupRecoverer = r1
  MaxTasks = 1
  MaxStops = 1
PROPERTIES CancelResolves LostResolves KeepsPromise
CHECK_DEADLOCK FALSE
