------------------------- MODULE MCAppServerHandoff -------------------------
(***************************************************************************)
(* Instances of AppServerHandoff for TLC: one lease, the legacy daemon and *)
(* one or two generations, each with a coordinator of its own or a shared  *)
(* one.                                                                    *)
(***************************************************************************)
EXTENDS AppServerHandoff, TLC

CONSTANTS s1, t1, g1, g2, k1, k2

OneSession == [c \in Client |-> s1]
OneThread == [s \in Session |-> t1]
OwnGenerations == k1 :> g1 @@ k2 :> g2
OneGeneration == [k \in Coordinator |-> g1]
=============================================================================
