--------------------------- MODULE ConnectionPoller ---------------------------
(* One polled connection (services/connections): its folder's three files, the loop's tick and the *)
(* person's "poll now" that poll it under one asyncio lock, and the routes that configure and       *)
(* remove it from another thread while a poll awaits the provider. The provider is external: what   *)
(* it lists, whether a session opens, whether a tool answers.                                      *)
EXTENDS Naturals, FiniteSets

CONSTANTS Things,       \* what the provider lists: mails, pages, events
          CollectorOf,  \* Things -> the place in config.json's "collectors" of the one that lists it
          Collectors,   \* how many collectors the connection runs, in that order
          Kinds         \* the occurrences a run bounds: these, and those of the modules that extend this one

ASSUME CollectorsAreNumbered ==
    IsFiniteSet(Things) /\ Collectors \in Nat \ {0} /\ CollectorOf \in [Things -> 1 .. Collectors]

ASSUME PollKinds == {"restart", "remove", "configure", "fails", "polls"} \cup Things \subseteq Kinds

VARIABLES listed,   \* what the provider lists now
          config,   \* config.json: "none", or its "enabled"
          saved,    \* state.json: the keys of cursors.*.seen, events_total, and whether the interval has passed
          lines,    \* events.jsonl: how often it holds each thing
          holder,   \* who holds the toolkit's lock
          polls,    \* each poller's poll under way
          replaced, \* the folder was removed and made again under a poll (history)
          unsaved,  \* how often what was appended was left out of the saved cursors (history)
          budget    \* how often each of Kinds may still happen

history == <<replaced, unsaved>>
pollVars == <<listed, config, saved, lines, holder, polls, replaced, unsaved>>

Pollers == {"tick", "now"}
Nobody == "nobody"

NoState == [seen |-> {}, total |-> 0, due |-> TRUE]
NoPoll == [pc |-> "idle", doc |-> NoState, at |-> 1, new |-> 0]

Spend(kind) == budget[kind] > 0 /\ budget' = [budget EXCEPT ![kind] = @ - 1]
Free == UNCHANGED budget

Configured == config # "none"
Listing(c) == {x \in listed : CollectorOf[x] = c}

Doc == [seen : SUBSET Things, total : Nat, due : BOOLEAN]

PollTypeOK ==
    /\ listed \subseteq Things /\ config \in {"none", "off", "on"} /\ saved \in Doc
    /\ lines \in [Things -> Nat] /\ holder \in Pollers \cup {Nobody} /\ replaced \in BOOLEAN /\ unsaved \in Nat
    /\ polls \in [Pollers -> [pc : {"idle", "waiting", "open", "collect", "save"}, doc : Doc, at : Nat, new : Nat]]

PollInit ==
    /\ listed = {} /\ saved = NoState /\ lines = [x \in Things |-> 0]
    /\ holder = Nobody /\ polls = [p \in Pollers |-> NoPoll] /\ replaced = FALSE /\ unsaved = 0

-----------------------------------------------------------------------------
(* One poll. *)

At(p, pc) == polls[p].pc = pc
Reads(p) == polls[p].pc \in {"collect", "save"}
Goes(p, pc) == polls' = [polls EXCEPT ![p].pc = pc]
Ends(p) == polls' = [polls EXCEPT ![p] = NoPoll] /\ holder' = Nobody

LockedByBoth(p) == IF Configured THEN holder' = p /\ Goes(p, "open") ELSE Goes(p, "idle") /\ UNCHANGED holder

(* The lock is taken and config.json read again: nothing is polled once it is gone. *)
Locked(p) ==
    /\ holder = Nobody
    /\ IF Configured THEN holder' = p /\ Goes(p, "open") ELSE Goes(p, "idle") /\ UNCHANGED holder

(* The tick polls what is on and due, and leaves a busy toolkit alone; "poll now" ignores both and waits. *)
Poll(p) ==
    /\ At(p, "idle") /\ Configured
    /\ IF p = "tick" THEN config = "on" /\ saved.due /\ holder = Nobody /\ Free ELSE Spend("polls")
    /\ IF holder = Nobody THEN Locked(p) ELSE Goes(p, "waiting") /\ UNCHANGED holder
    /\ UNCHANGED <<listed, config, saved, lines, history>>

Acquire(p) == At(p, "waiting") /\ Locked(p) /\ Free /\ UNCHANGED <<listed, config, saved, lines, history>>

(* FORCE_WAIT_S passes: "busy". *)
GiveUp(p) ==
    /\ At(p, "waiting") /\ holder # Nobody /\ Goes(p, "idle") /\ Free
    /\ UNCHANGED <<listed, config, saved, lines, holder, history>>

UpdateStateAnyway(seen, total) == saved' = [seen |-> seen, total |-> total, due |-> FALSE]
UpdateState(seen, total) ==
    saved' = IF Configured THEN [seen |-> seen, total |-> total, due |-> FALSE] ELSE saved

OpenFailsHolding(p) ==
    /\ At(p, "open") /\ Spend("fails")
    /\ UpdateState(saved.seen, saved.total) \/ UNCHANGED saved
    /\ Goes(p, "idle")
    /\ UNCHANGED <<listed, config, lines, holder, history>>

(* No session: the poll is stamped, unless that write fails too; the cursors stay. *)
OpenFails(p) ==
    /\ At(p, "open") /\ Spend("fails")
    /\ UpdateState(saved.seen, saved.total) \/ UNCHANGED saved
    /\ Ends(p)
    /\ UNCHANGED <<listed, config, lines, history>>

(* The session is open and its tools are listed: only now is state.json read. *)
Open(p) ==
    /\ At(p, "open") /\ Free
    /\ polls' = [polls EXCEPT ![p] = [pc |-> "collect", doc |-> saved, at |-> 1, new |-> 0]]
    /\ UNCHANGED <<listed, config, saved, lines, holder, history>>

NextCollector(p) == IF polls[p].at = Collectors THEN "save" ELSE "collect"

(* What a collector's answer adds: everything it lists that the poll's document has not seen. *)
FreshOf(doc, got) == got \ doc.seen

Appended(fresh) == IF Configured THEN fresh ELSE {}
Append_events(fresh) == lines' = [x \in Things |-> lines[x] + IF x \in Appended(fresh) THEN 1 ELSE 0]

RunCollector(p) ==
    /\ At(p, "collect") /\ Free
    /\ LET fresh == FreshOf(polls[p].doc, Listing(polls[p].at))
       IN /\ Append_events(fresh)
          /\ polls' = [polls EXCEPT ![p].pc = NextCollector(p), ![p].at = @ + 1, ![p].doc.seen = @ \cup fresh,
                                    ![p].new = @ + Cardinality(Appended(fresh))]
    /\ UNCHANGED <<listed, config, saved, holder, history>>

(* A collector fails or times out, or its append does once some lines are in the file: the next one *)
(* runs, and the poll does not know of those lines.                                                 *)
CollectorFails(p) ==
    /\ At(p, "collect") /\ Spend("fails")
    /\ \E written \in SUBSET Appended(FreshOf(polls[p].doc, Listing(polls[p].at))) :
           Append_events(written) /\ unsaved' = unsaved + IF written = {} THEN 0 ELSE 1
    /\ polls' = [polls EXCEPT ![p].pc = NextCollector(p), ![p].at = @ + 1]
    /\ UNCHANGED <<listed, config, saved, holder, replaced>>

(* The session died in the middle of the poll: the collectors after this one are not tried. *)
SessionLost(p) ==
    /\ At(p, "collect") /\ Spend("fails") /\ Goes(p, "save")
    /\ UNCHANGED <<listed, config, saved, lines, holder, history>>

(* The session is closed and the poll's own copy of the cursors and of the total is written. *)
Save(p) ==
    /\ At(p, "save") /\ Free
    /\ UpdateState(polls[p].doc.seen, polls[p].doc.total + polls[p].new) /\ Ends(p)
    /\ UNCHANGED <<listed, config, lines, history>>

(* The close or the write raises: the poll ends with its events in the file and its cursors lost. *)
SaveFails(p) ==
    /\ At(p, "save") /\ Spend("fails")
    /\ unsaved' = unsaved + 1 /\ Ends(p)
    /\ UNCHANGED <<listed, config, saved, lines, replaced>>

-----------------------------------------------------------------------------
(* Around it. *)

(* External: the provider lists something new. *)
Arrives(x) ==
    /\ Spend(x) /\ listed' = listed \cup {x}
    /\ UNCHANGED <<config, saved, lines, holder, polls, history>>

(* The connection's interval passes. *)
Elapse ==
    /\ Configured /\ ~saved.due /\ saved' = [saved EXCEPT !.due = TRUE] /\ Free
    /\ UNCHANGED <<listed, config, lines, holder, polls, history>>

(* PUT, in a thread of its own: makes the folder or switches the connection. *)
WriteConfig(to) ==
    /\ config # to /\ Spend("configure") /\ config' = to
    /\ replaced' = (replaced \/ (~Configured /\ \E p \in Pollers : Reads(p)))
    /\ UNCHANGED <<listed, saved, lines, holder, polls, unsaved>>

(* DELETE, in a thread of its own: the folder goes with its three files. *)
RemoveFolder ==
    /\ Configured /\ Spend("remove") /\ config' = "none"
    /\ saved' = NoState /\ lines' = [x \in Things |-> 0]
    /\ UNCHANGED <<listed, holder, polls, history>>

(* The server stops, at any await, and starts again: a poll under way is lost. *)
PollsStop ==
    /\ holder' = Nobody /\ polls' = [p \in Pollers |-> NoPoll]
    /\ unsaved' = unsaved + IF \E p \in Pollers : Reads(p) THEN 1 ELSE 0
    /\ UNCHANGED <<listed, config, saved, lines, replaced>>

PollStep(p) ==
    \/ Acquire(p) \/ GiveUp(p) \/ OpenFails(p) \/ Open(p)
    \/ RunCollector(p) \/ CollectorFails(p) \/ SessionLost(p) \/ Save(p) \/ SaveFails(p)

PollNext ==
    \/ \E p \in Pollers : Poll(p) \/ PollStep(p)
    \/ \E x \in Things : Arrives(x)
    \/ Elapse \/ RemoveFolder
    \/ \E to \in {"off", "on"} : WriteConfig(to)

PollFairness ==
    /\ WF_pollVars(Elapse) /\ SF_pollVars(Poll("tick"))
    /\ \A p \in Pollers : WF_pollVars(Open(p) \/ OpenFails(p)) /\ WF_pollVars(RunCollector(p))
                          /\ WF_pollVars(Save(p)) /\ WF_pollVars(Acquire(p) \/ GiveUp(p))
=============================================================================
