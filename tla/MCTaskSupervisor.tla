-------------------------- MODULE MCTaskSupervisor --------------------------
(***************************************************************************)
(* Instances of TaskSupervisor for TLC: one daemon, or the daemon of the   *)
(* default socket beside that of a generation.                             *)
(***************************************************************************)
EXTENDS TaskSupervisor, TLC

CONSTANTS d1, d2

OneVersion == [d \in Daemon |-> 1]
OwnVersions == d1 :> 1 @@ d2 :> 2

TaskSymmetry == Permutations(Task)
=============================================================================
