SPECIFICATION FairSpec
CONSTANTS
  a1 = a1  a2 = a2  j1 = j1  s1 = s1  s2 = s2
  Artifact = {a1, a2}
  Job = {j1}
  JobOf <- JobSame
  Sweep = {s1}
  Grace = 2
  MaxSilence = 1
  MinTtl = 1
  PostCloseTtl = 2
  PageLimit = 1
  Stuck = {a2}
  MaxDeaths = 1
  SyncsFail = FALSE
  CommitsMeetSweeps = FALSE
  
PROPERTIES Collected
