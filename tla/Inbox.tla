-------------------------------- MODULE Inbox --------------------------------
(* The inbox (services/inbox) over the connection its events come from: refreshes that read the     *)
(* document without its lock, run the feeders over what other writers keep on disk (todos, the      *)
(* issue mirrors, the connection's events.jsonl), and apply the results in one locked write, while  *)
(* a person marks items done, deletes them and adds notes. GET /api/inbox starts a refresh in a     *)
(* thread of its own, and so does a "poll now" that collected something: two may run at once, the   *)
(* throttle being checked and stamped without a lock.                                              *)
EXTENDS ConnectionPoller, Sequences, FiniteSetsExt, Functions

CONSTANTS Todos,     \* todos of the projects
          Issues,    \* issues, each of a project with a mirror of its own
          Note,      \* the key that stands for a person's own items, which have none
          StampOf,   \* Things -> the producer's time, 1 or later
          Upcoming,  \* the things whose time lies further ahead than the clock's slack when they are listed
          Mixes      \* [sources: the feeders that are on, config, budget: Kinds -> Nat], one chosen at the start

Keys == Todos \cup Issues \cup Things
Feeders == <<"todos", "issues", "connections">>
Refreshers == {"r1", "r2"}

ASSUME KeysAreApart == Things \cap (Todos \cup Issues) = {} /\ Todos \cap Issues = {} /\ Note \notin Keys

ASSUME StampsArePositive == StampOf \in [Things -> Nat \ {0}] /\ Upcoming \subseteq Things

ASSUME InboxKinds == {"overlap", "block", "update", "unreadable", "patch", "delete", "note", "age"} \subseteq Kinds

ASSUME MixesAreTyped ==
    \A m \in Mixes : m.sources \subseteq Range(Feeders) /\ m.config \in {"none", "off", "on"} /\ m.budget \in [Kinds -> Nat]

VARIABLES sources,    \* the feeders that are on
          items,      \* inbox.json: each key's items, by their places in the file's order
          cursors,    \* its cursors; 0 is a missing one
          runs,       \* each refresh under way: its snapshot's cursors and its feeders' results so far
          blocked,    \* todos in a watched status
          mirror,     \* each issue's state and updated_at
          upcoming,   \* things still ahead of the clock
          told,       \* keys the inbox has ever had an item for (history)
          recorded,   \* things ever in events.jsonl, and those of them that came
          late,       \*   when a thing of their time or a later one had been recorded (history)
          dismissed   \* keys a person marked done and has not touched since (history)

inboxVars == <<sources, items, cursors, runs, blocked, mirror, upcoming, told, recorded, late, dismissed>>
vars == <<pollVars, inboxVars, budget>>
world == <<blocked, mirror, upcoming>>
ghosts == <<told, recorded, late, dismissed>>

Cursors == {"issues", "connections"}
NoRun == [at |-> "idle", left |-> {}, from |-> [f \in Cursors |-> 0], report |-> {},
          to |-> [f \in Cursors |-> 0], unwatched |-> {}, gone |-> {}]

Item(status) == [status |-> status, auto |-> FALSE, old |-> FALSE]
NoItems == [n \in {} |-> Item("new")]

(* The place of the last of some items; 0 with none. *)
Last(its) == Max(DOMAIN its \cup {0})
With(its, n, it) == [m \in DOMAIN its \cup {n} |-> IF m = n THEN it ELSE its[m]]
AddItem(its, it) == With(its, Last(its) + 1, it)

Run == [at : {"idle", "reading"}, left : SUBSET Range(Feeders), from : [Cursors -> Nat], report : SUBSET Keys,
        to : [Cursors -> Nat], unwatched : SUBSET Keys, gone : SUBSET Keys]

TypeOK ==
    /\ PollTypeOK /\ sources \subseteq Range(Feeders) /\ budget \in [Kinds -> Nat]
    /\ cursors \in [Cursors -> Nat] /\ mirror \in [Issues -> [open : BOOLEAN, at : Nat]]
    /\ runs \in [Refreshers -> Run]
    /\ blocked \subseteq Todos /\ upcoming \subseteq Upcoming
    /\ recorded \subseteq Things /\ late \subseteq recorded /\ told \subseteq Keys /\ dismissed \subseteq Keys

Init ==
    /\ PollInit
    /\ \E m \in Mixes : sources = m.sources /\ config = m.config /\ budget = m.budget
    /\ items = [k \in Keys \cup {Note} |-> NoItems] /\ cursors = [f \in Cursors |-> 0]
    /\ runs = [r \in Refreshers |-> NoRun]
    /\ blocked = {} /\ mirror = [i \in Issues |-> [open |-> FALSE, at |-> 0]] /\ upcoming = Upcoming
    /\ told = {} /\ recorded = {} /\ late = {} /\ dismissed = {}

-----------------------------------------------------------------------------
(* A refresh: a snapshot of the document, the feeders in their order, one write. *)

Idle == \A r \in Refreshers : runs[r].at = "idle"

(* Things the inbox told of and has no item for any more: deleted, or pruned once done. *)
Gone == {x \in (Things \ Upcoming) \cap told : DOMAIN items[x] = {}}

Start(r) ==
    /\ runs[r].at = "idle" /\ (budget["overlap"] > 0 \/ Idle) /\ Free
    /\ runs' = [runs EXCEPT ![r] = [NoRun EXCEPT !.at = "reading", !.left = sources, !.from = cursors, !.gone = Gone]]
    /\ UNCHANGED <<pollVars, sources, items, cursors, world, ghosts>>

(* The feeders that are on run in their order. *)
Reading(r, f) ==
    /\ f \in runs[r].left
    /\ \A m, n \in DOMAIN Feeders : Feeders[m] \in runs[r].left /\ Feeders[n] = f => n <= m
Feeds(r, f, run) == /\ runs' = [runs EXCEPT ![r] = [run EXCEPT !.left = run.left \ {f}]]
                    /\ UNCHANGED <<pollVars, sources, items, cursors, world, ghosts>>

FeedTodos(r) ==
    /\ Reading(r, "todos") /\ Free
    /\ Feeds(r, "todos", [runs[r] EXCEPT !.report = @ \cup blocked, !.unwatched = @ \cup (Todos \ blocked)])

IsNewest(stamp, stamps) == stamp \in stamps /\ \A s \in stamps : s <= stamp

OpenIssues == {i \in Issues : mirror[i].open}

(* Watched are all open issues, reported those updated after the snapshot's cursor. A mirror that   *)
(* cannot be read hides its issue, and nothing is closed on this run.                             *)
FeedIssues(r) ==
    /\ Reading(r, "issues")
    /\ \E unreadable \in SUBSET Issues :
           /\ IF unreadable = {} THEN Free ELSE Spend("unreadable")
           /\ LET rows == Issues \ unreadable
                  stamps == {mirror[i].at : i \in rows} \cup {0}
              IN \E newest \in stamps :
                     /\ IsNewest(newest, stamps)
                     /\ Feeds(r, "issues", [runs[r] EXCEPT
                            !.report = @ \cup {i \in rows \cap OpenIssues : mirror[i].at > runs[r].from["issues"]},
                            !.to["issues"] = newest,
                            !.unwatched = @ \cup IF unreadable = {} THEN Issues \ OpenIssues ELSE {}])

Recorded == {x \in Things : Configured /\ lines[x] > 0}

StampsOfAll == {StampOf[x] : x \in Recorded} \cup {0}

(* What lies ahead is reported, and never moves the cursor. *)
StampsRead == {StampOf[x] : x \in Recorded \ upcoming} \cup {0}

FeedConnections(r) ==
    /\ Reading(r, "connections") /\ Free
    /\ \E newest \in StampsRead :
           /\ IsNewest(newest, StampsRead)
           /\ Feeds(r, "connections", [runs[r] EXCEPT
                  !.report = @ \cup {x \in Recorded : StampOf[x] > runs[r].from["connections"]},
                  !.to["connections"] = newest])

UpsertedIntoOpen(doc, report) ==
    [k \in DOMAIN doc |->
        IF k \notin report THEN doc[k]
        ELSE IF \A n \in DOMAIN doc[k] : doc[k][n].status = "done" THEN AddItem(doc[k], Item("new")) ELSE doc[k]]

(* upsert_many: a new key is appended; a known one is put back only when a feeder had closed it. *)
Upserted(doc, report) ==
    [k \in DOMAIN doc |->
        IF k \notin report THEN doc[k]
        ELSE IF DOMAIN doc[k] = {} THEN AddItem(doc[k], Item("new"))
        ELSE IF doc[k][Last(doc[k])].auto THEN With(doc[k], Last(doc[k]), Item("new")) ELSE doc[k]]

(* close_missing: open items of the feeders' keys that they no longer watch. *)
Closed(doc, unwatched) ==
    [k \in DOMAIN doc |->
        [i \in DOMAIN doc[k] |->
            IF k \in unwatched /\ doc[k][i].status # "done" THEN [doc[k][i] EXCEPT !.status = "done", !.auto = TRUE]
            ELSE doc[k][i]]]

SetBack(f, to) == IF to[f] > 0 THEN to[f] ELSE cursors[f]
Advanced(f, to) == IF to[f] > cursors[f] THEN to[f] ELSE cursors[f]

(* A write drops what is done and older than the TTL. *)
Stays(it) == ~(it.status = "done" /\ it.old)
Retained(doc) == [k \in DOMAIN doc |-> Restrict(doc[k], {n \in DOMAIN doc[k] : Stays(doc[k][n])})]
Writes(doc, changed) == items' = IF changed THEN Retained(doc) ELSE items

(* The results of the run's feeders applied to the document as it is under the lock. *)
ApplyResults(r) ==
    /\ runs[r].at = "reading" /\ runs[r].left = {} /\ Free
    /\ LET run == runs[r]
           doc == Closed(Upserted(items, run.report), run.unwatched)
       IN /\ cursors' = [f \in DOMAIN cursors |-> Advanced(f, run.to)]
          /\ Writes(doc, doc # items \/ cursors' # cursors)
          /\ told' = told \cup run.report
    /\ runs' = [runs EXCEPT ![r] = NoRun]
    /\ UNCHANGED <<pollVars, sources, world, recorded, late, dismissed>>

-----------------------------------------------------------------------------
(* A person. *)

SetStatusOnly(it, status) == [it EXCEPT !.status = status]
SetStatus(it, status) == [it EXCEPT !.status = status, !.auto = FALSE]

(* PATCH of one item or several in one write: the items named, of any source. *)
Patch(K, status) ==
    /\ \A k \in K : DOMAIN items[k] # {}
    /\ Spend("patch")
    /\ LET doc == [k \in DOMAIN items |-> IF k \in K THEN [i \in DOMAIN items[k] |-> SetStatus(items[k][i], status)]
                                                   ELSE items[k]]
       IN Writes(doc, doc # items)
    /\ dismissed' = IF status = "done" THEN dismissed \cup (K \cap Keys) ELSE dismissed \ K
    /\ UNCHANGED <<pollVars, sources, cursors, runs, world, told, recorded, late>>

DeleteItem(k) ==
    /\ Spend("delete")
    /\ \E n \in DOMAIN items[k] : Writes([items EXCEPT ![k] = Restrict(@, DOMAIN @ \ {n})], TRUE)
    /\ dismissed' = dismissed \ {k}
    /\ UNCHANGED <<pollVars, sources, cursors, runs, world, told, recorded, late>>

CreateItem ==
    /\ Spend("note") /\ Writes([items EXCEPT ![Note] = AddItem(@, Item("new"))], TRUE)
    /\ UNCHANGED <<pollVars, sources, cursors, runs, world, ghosts>>

-----------------------------------------------------------------------------
(* The workspace around it. *)

(* External: a todo gets blocked, or moves on. *)
TodoMoves(t) ==
    /\ Spend("block") /\ blocked' = IF t \in blocked THEN blocked \ {t} ELSE blocked \cup {t}
    /\ UNCHANGED <<pollVars, sources, items, cursors, runs, mirror, upcoming, ghosts>>

(* External: an issue is opened, closed, reopened or edited, and its mirror synced; updates reach the *)
(* mirrors in the order they were made.                                                              *)
IssueMoves(i, open) ==
    /\ Spend("update")
    /\ \E last \in {mirror[j].at : j \in Issues} :
           /\ IsNewest(last, {mirror[j].at : j \in Issues})
           /\ mirror' = [mirror EXCEPT ![i] = [open |-> open, at |-> last + 1]]
    /\ UNCHANGED <<pollVars, sources, items, cursors, runs, blocked, upcoming, ghosts>>

(* The clock reaches what lay ahead. *)
Comes(x) ==
    /\ x \in upcoming /\ upcoming' = upcoming \ {x} /\ Free
    /\ UNCHANGED <<pollVars, sources, items, cursors, runs, blocked, mirror, ghosts>>

(* Thirty days pass over an item. *)
Ages(k) ==
    /\ Spend("age") /\ \E i \in DOMAIN items[k] : ~items[k][i].old
    /\ items' = [items EXCEPT ![k] = [i \in DOMAIN @ |-> [@[i] EXCEPT !.old = TRUE]]]
    /\ UNCHANGED <<pollVars, sources, cursors, runs, world, ghosts>>

Restart ==
    /\ Spend("restart") /\ PollsStop /\ runs' = [r \in Refreshers |-> NoRun]
    /\ UNCHANGED <<sources, items, cursors, world, ghosts>>

(* A step of the connection's: what it records is noted, and whether it came late. *)
Connection ==
    /\ PollNext
    /\ recorded' = recorded \cup {x \in Things : lines'[x] > lines[x]}
    /\ late' = late \cup {x \in Things : lines'[x] > lines[x] /\ lines[x] = 0 /\ \E y \in recorded \ upcoming : StampOf[x] <= StampOf[y]}
    /\ UNCHANGED <<sources, items, cursors, runs, world, told, dismissed>>

Next ==
    \/ Connection \/ Restart \/ CreateItem
    \/ \E r \in Refreshers : Start(r) \/ FeedTodos(r) \/ FeedIssues(r) \/ FeedConnections(r) \/ ApplyResults(r)
    \/ \E K \in (SUBSET (Keys \cup {Note})) \ {{}}, status \in {"new", "done"} : Patch(K, status)
    \/ \E k \in Keys \cup {Note} : DeleteItem(k) \/ Ages(k)
    \/ \E t \in Todos : TodoMoves(t)
    \/ \E i \in Issues, open \in BOOLEAN : IssueMoves(i, open)
    \/ \E x \in Things : Comes(x)

Spec == Init /\ [][Next]_vars

LiveSpec == Spec /\ PollFairness

-----------------------------------------------------------------------------

(* A thing is in events.jsonl once, and once more for each time at most that appended events were    *)
(* left out of the saved cursors: a poll was cut off, or its append, close or save failed. Two polls, *)
(* or a DELETE and a PUT under one, make no repeat of their own.                                    *)
RepeatsAreUnsaved == \A x \in Things : lines[x] <= 1 + unsaved

(* What the cursors call seen is in the folder's events, whatever failed, and the total is their     *)
(* number once nobody polls, unless a save was lost. (A DELETE and a PUT under a poll do lose some:  *)
(* such folders are left out.)                                                                      *)
CursorsMatchEvents ==
    ~replaced => /\ \A x \in saved.seen : lines[x] > 0
                 /\ holder = Nobody /\ unsaved = 0 => saved.total = Cardinality({x \in Things : lines[x] > 0})

(* Two refreshes that found the same thing missing from their snapshots make one item of it.        *)
OneItemPerKey == \A k \in Keys : \A m, n \in DOMAIN items[k] : m = n

AllDone(its) == \A n \in DOMAIN its : its[n].status = "done"

(* A person's done sticks: whichever feeder closed the item before or reports it again, it has no   *)
(* open item until they touch it again. The pruning of items older than thirty days breaks this.    *)
DoneSticks == \A k \in dismissed : AllDone(items[k])

(* A refresh that begins after a past event's item was deleted does not report that event.          *)
DeletedIsNotReported == \A r \in Refreshers : runs[r].report \cap runs[r].gone = {}

(* The one cursor over all events never passes one that came in its time and was not told of: what   *)
(* lies ahead of the clock does not move it, nor does a refresh that read before the event came.    *)
PassedIsTold == \A x \in Recorded \ late : cursors["connections"] >= StampOf[x] => x \in told

(* What the provider lists is collected while the connection stays on.                             *)
ListedIsRecorded ==
    \A x \in Things : (x \in listed /\ lines[x] = 0) ~> (lines[x] > 0 \/ config # "on" \/ replaced)

=============================================================================
