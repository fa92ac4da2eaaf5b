--------------------------- MODULE MCDesktopRelay ---------------------------
(* Instances of the Desktop bridge for TLC.                                *)
EXTENDS DesktopRelay, TLC

CONSTANTS s1, s2, b1, b2, c1, c2

Symmetry == Permutations(Scan) \union Permutations(Bridge) \union Permutations(Caller)

=============================================================================
