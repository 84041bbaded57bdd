------------------------------- MODULE MCInbox -------------------------------
(* The connection and the inbox on small instances: constant values for TLC. *)
EXTENDS Inbox, TLC

(* Two mails and a meeting next week, by two collectors. *)
Mails == {"m1", "m2", "meeting"}
Stamps == ("m1" :> 1) @@ ("m2" :> 2) @@ ("meeting" :> 3)
By == ("m1" :> 1) @@ ("m2" :> 2) @@ ("meeting" :> 2)

KindsUsed == {"restart", "remove", "configure", "fails", "polls",
              "overlap", "block", "update", "unreadable", "patch", "delete", "note", "age"} \cup Mails

Only(given) == [k \in KindsUsed |-> IF k \in given THEN 1 ELSE 0]
Twice(given, kind) == [Only(given) EXCEPT ![kind] = 2]

Feeding(feeders, bounds) ==
    [sources |-> feeders, budget |-> bounds, config |-> IF "todos" \in feeders THEN "none" ELSE "on"]

AllMixes == {
    Feeding({}, Only({"restart", "fails", "polls", "m1", "m2"})),
    Feeding({}, Only({"remove", "configure", "polls", "m1", "m2"})),
    Feeding({"connections"}, Only({"overlap", "delete", "m2", "meeting"})),
    Feeding({"connections"}, Only({"overlap", "delete", "m1", "m2"})),
    Feeding({"connections"}, Only({"restart", "fails", "m1", "m2"})),
    Feeding({"todos"}, [Twice({"overlap", "delete"}, "patch") EXCEPT !["block"] = 3]),
    Feeding({"issues"}, Twice({"overlap", "patch"}, "update")),
    Feeding({"issues"}, [Only({"unreadable", "age"}) EXCEPT !["update"] = 3]),
    Feeding({"todos", "issues"}, Twice({"patch", "block", "note"}, "update"))}
=============================================================================
