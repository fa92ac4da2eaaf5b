-------------------------- MODULE MCPluginDelivery --------------------------
(***************************************************************************)
(* Instances of PluginDelivery for TLC: one thread, no CLI session.        *)
(***************************************************************************)
EXTENDS PluginDelivery, TLC

CONSTANTS t1, c1, c2

OneThread == [b \in Batch |-> t1]
NoBinding == [s \in Session |-> t1]
TwoAttempts == Batch \X {1, 2}
OneInstance == [c \in Conn |-> 1]
ConnSymmetry == Permutations(Conn)
AnyPermission == {BOOLEAN}
=============================================================================
