SPECIFICATION Spec
CONSTANTS
  d1 = d1
  d2 = d2
  NoDaemon = NoDaemon
  Task = {t1}
  Daemon = {d1}
  Default = d1
  Version <- OneVersion
  Timed = {t1}
  OperatorCalls = {"complete", "fail"}
  Recoverer = {r1, r2}
  StartupRecoverer = r1
  MaxTasks = 1
  MaxStops = 1
INVARIANTS  NoOrphanedCommand RunsOnRecord
PROPERTIES NoRunAfterCancel  
CHECK_DEADLOCK FALSE
