-------------------------- MODULE MCDeliveryStore ---------------------------
(***************************************************************************)
(* Instances of DeliveryStore for TLC.                                     *)
(***************************************************************************)
EXTENDS DeliveryStore, TLC

CONSTANTS t1, t2, a1, a2, a3, s1, s2

OneThread == [b \in Batch |-> t1]
TwoThreads == [b \in Batch |-> IF b = 1 THEN t1 ELSE t2]
OneThreadSessions == [s \in Session |-> t1]

AnyPermission == {BOOLEAN}
OwnPermission == {{TRUE}, {FALSE}}

AttemptSymmetry == Permutations(Attempt)
SessionSymmetry == Permutations(Session)
=============================================================================
