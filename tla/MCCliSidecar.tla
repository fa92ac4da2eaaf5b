---------------------------- MODULE MCCliSidecar ----------------------------
(***************************************************************************)
(* Instances of CliSidecar for TLC: one session, one thread.               *)
(***************************************************************************)
EXTENDS CliSidecar, TLC

CONSTANTS t1, s1, a1, a2

OneThread == [b \in Batch |-> t1]
OneSession == [s \in Session |-> t1]
AttemptSymmetry == Permutations(Attempt)
AnyPermission == {BOOLEAN}
=============================================================================
