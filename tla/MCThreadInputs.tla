---------------------------- MODULE MCThreadInputs ----------------------------
(* The thread's inputs on small instances: constant values for TLC. *)
EXTENDS ThreadInputs, TLC

CONSTANTS x, y

Only(given) == [k \in Kinds |-> IF k \in given THEN 1 ELSE 0]

(* Turns that fail, are stopped or are the CLI's own, around a restart; and, of the thread's page, a *)
(* pause, a blocking item and a resolve that cross messages, most pairs of them around a restart.    *)
Pausing(given) == [Only(given) EXCEPT ![x] = 2]
MostBudgets == {Only({"restart", "own"}), Only({"restart", "bad", "stop"}), Only({"bad", "own"}),
    Only({"fail", "bad", "close", "stop"}), Only({"restart", "close", "aside"}), Only({"relay", "resolve"}),
    Pausing({"restart"}), Pausing({"ask"}), Pausing({"fail", "resolve"}), Pausing({"resolve", "ask"}),
    [Only({}) EXCEPT ![x] = 3, ![y] = 1]}
OnlyRestart == {Only({"restart"})}
=============================================================================
