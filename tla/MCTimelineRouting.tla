--------------------------- MODULE MCTimelineRouting ---------------------------
(* Timeline messages on small instances: constant values for TLC. *)
EXTENDS TimelineRouting, TLC

CONSTANTS p, q

(* One target stands for the other. *)
MostChoices == {{}, {p}, {p, q}}

Only(given) == [k \in Kinds |-> IF k \in given THEN 1 ELSE 0]

(* A routing cut, refused or failed; a coordinator recycled or paused under a delivery; retries and  *)
(* restarts; the router switched between a POST and its retry; the project removed.                  *)
MostBudgets == {Only({"restart", "refuse", "storefail"}), Only({"restart", "recycle", "pause"}),
    Only({"retry", "recycle"}), Only({"retry", "pause"}), Only({"retry", "switch"}), Only({"retry", "restart"}),
    Only({"restart", "remove"}), Only({"pause", "storefail"}), Only({"recycle", "remove"})}
=============================================================================
