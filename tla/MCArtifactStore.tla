--------------------------- MODULE MCArtifactStore ---------------------------
(* Instances of the artifact store for TLC.                                *)
EXTENDS ArtifactStore, TLC

CONSTANTS a1, a2, j1, s1, s2

(* Both results are for the same job.                                      *)
JobSame == (a1 :> j1) @@ (a2 :> j1)

=============================================================================
