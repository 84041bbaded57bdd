---------------------------- MODULE MCStormReview ---------------------------
(* StormReview on small instances: what the calls ask to run is symmetric.  *)
EXTENDS StormReview, TLC

Symmetry == Permutations(Actions)

\* The calls before the last ask for one action: the last for the same, or another.
InitSameAction == Init /\ \A c \in Calls : c < MaxCalls => call[c].act = call[1].act
SpecSameAction == InitSameAction /\ [][Next]_vars

=============================================================================
