CONSTANTS
  Path <- Paths
  Above <- PathsAbove
  Unsafe = {"/work/../etc"}
  Top = "/"
  Tmp = "/tmp"
  None = None
  Answers <- AllAnswers
  Inputs <- SomeInputs
  Extent <- Extents
  MaxChanges = 1
  MaxEpoch = 2
  MaxLate = 1
SPECIFICATION PermissionSpec
INVARIANTS
  NeverWider
  DriftIsAudited
PROPERTIES
  StartupKept
CHECK_DEADLOCK FALSE
