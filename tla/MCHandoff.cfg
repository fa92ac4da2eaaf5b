SPECIFICATION FairSpec
CONSTANTS
  s1 = s1
  t1 = t1
  g1 = g1
  g2 = g2
  k1 = k1
  k2 = k2
  Daemon = {d0, g1, g2}
  Legacy = d0
  NoDaemon = NoDaemon
  Client = {c1}
  NoClient = NoClient
  Session = {s1}
  Thread = {t1}
  SessionOf <- OneSession
  ThreadOf <- OneThread
  Proc = {p1}
  NoProc = NoProc
  Coordinator = {k1, k2}
  GenOf <- OwnGenerations
  LostAnswers = {"quiesce", "adopt", "unadopt", "unquiesce"}
INVARIANTS RedirectLeads NoStray
PROPERTIES KeptServerStays AbandonedIsReaped
CHECK_DEADLOCK FALSE
