--------------------------- MODULE MCStormSession ---------------------------
(* StormSession on small instances: the wakes are symmetric.                *)
EXTENDS StormSession, TLC

Symmetry == Permutations(Wakes)

=============================================================================
