---------------------------- MODULE StormReview -----------------------------
(***************************************************************************)
(* The review queue of one storm session: how a call of its CLI that only  *)
(* the person can allow is held, decided, parked, withdrawn or expired,    *)
(* and how the decision gets back to the agent (review/queue.py, with the  *)
(* engine's part of it in engine/session.py and engine/engine.py).         *)
(*                                                                         *)
(* The person's decision, the expiry pass, the pump (a call the CLI takes  *)
(* back, the end of the process), the memory guard, the admission task and *)
(* shutdown all settle the same calls.  What orders them is the lock of    *)
(* the session's writes (LiveSession._writing, first come first served),   *)
(* the compare-and-set on an item's state, and the locks of the deciding.  *)
(* How a wake becomes a turn, and its fate after that, is StormSession.    *)
(***************************************************************************)
EXTENDS Naturals, Sequences, FiniteSets

CONSTANTS
    MaxCalls,    \* how many calls the session's processes ever ask about (bound)
    Actions,     \* what a call asks to run: its canonical hash
    MaxTurns,    \* how many turns begin (bound)
    Faults,      \* the faults and outside events that may happen ...
    MaxFaults    \* ... and the bound on how many of them do

FaultKinds == {"crash", "shutdown", "store", "desk", "dies", "withdraw", "memory", "expire", "other"}

ASSUME ReviewAssumption ==
    /\ MaxCalls \in Nat \ {0} /\ MaxTurns \in Nat /\ MaxFaults \in Nat
    /\ Actions # {}
    /\ Faults \subseteq FaultKinds

Calls   == 1 .. MaxCalls      \* in the order they are asked
NoCall  == 0

VARIABLES
    \* the store: the items (one per call that was held), the grants and
    \* the wakes their decisions left, the other wakes, the running turn's wakes
    item, grant, news, mail, given,
    \* the engine's memory
    up, live, q, phase, dec, adm, look, unparked, storeFailed, backoff,
    \* the CLI: its calls, whether it runs a turn, events the pump has not read
    call, turn, ev,
    \* how often a call ran on the decision of an item
    ran, turns, budget

store  == <<item, grant, news, mail, given>>
writes == <<live, q, phase>>
holds  == <<storeFailed, backoff>>
engine == <<up, writes, dec, adm, look, unparked, holds>>
cli    == <<call, turn, ev>>
ledger == <<ran, turns, budget>>
vars   == <<store, engine, cli, ledger>>

ItemStates == {"none", "open", "decided", "withdrawn", "expired"}
Ways       == {"none", "in_call", "grant", "wake"}
NoItem     == [state |-> "none", parked |-> FALSE, via |-> "none"]
NewItem    == [state |-> "open", parked |-> FALSE, via |-> "none"]

\* A call of the CLI: not asked; its grant is being spent; its item opens; the CLI
\* took it back, or its process died, while it did ("leaves"); it waits for the
\* person; it got the decision (ran, or was denied), a park message, or a
\* refusal; it was taken back; it died with its process.
\*   act  what it asks to run       future  pending until set or cancelled (Held.future)
CallStates == {"none", "spends", "opens", "leaves", "waits", "allowed", "denied", "parked", "refused", "withdrawn", "dead"}

NoLive   == [state |-> "none", held |-> {}, deciding |-> {}, ahead |-> {}, release |-> FALSE]

\* The session's writes, in the order they got or wait for the lock; the first
\* is at `phase'.  A grant to spend, for a write that spends one.
OpKinds  == {"open", "spend", "answer", "deliver", "park", "ahead", "withdraw", "close", "moved"}
Settling == {"answer", "deliver", "park", "withdraw"}
Op(kind, calls) == [kind |-> kind, calls |-> calls, grant |-> NoCall]
SpendOp(c, g)   == [kind |-> "spend", calls |-> {c}, grant |-> g]

NoDec == [pc |-> "none", call |-> NoCall, allow |-> FALSE]
NoAdm == [pc |-> "none", mail |-> {}, news |-> {}]
NoWakes == [mail |-> FALSE, news |-> {}]

Init ==
    /\ item = [c \in Calls |-> NoItem] /\ grant = [c \in Calls |-> "none"] /\ news = [c \in Calls |-> "none"]
    /\ mail = {"other"} /\ given = NoWakes
    /\ up = "up" /\ live = NoLive /\ q = <<>> /\ phase = "wait"
    /\ dec = NoDec /\ adm = NoAdm /\ look = FALSE /\ unparked = {} /\ storeFailed = FALSE /\ backoff = FALSE
    /\ call \in [Calls -> {[state |-> "none", act |-> a, future |-> "none"] : a \in Actions}]
    /\ turn = FALSE /\ ev = {}
    /\ ran = [c \in Calls |-> 0] /\ turns = 0 /\ budget = MaxFaults

Spend(kind) ==
    /\ kind \in Faults /\ budget > 0
    /\ budget' = budget - 1 /\ UNCHANGED <<ran, turns>>

Free == UNCHANGED ledger

-----------------------------------------------------------------------------
(***************************************************************************)
(* The desk: what each transaction does to the items.                      *)
(***************************************************************************)

IsOpen(c)   == item[c].state = "open"
Parked      == {c \in Calls : IsOpen(c) /\ item[c].parked}

\* (mutant) whatever its state
ToAlways(its, calls, state) ==
    [c \in Calls |-> IF c \in calls /\ its[c].state # "none" THEN [its[c] EXCEPT !.state = state] ELSE its[c]]

\* Compare-and-set on state = 'open': what is settled is left alone.
To(its, calls, state) ==
    [c \in Calls |-> IF c \in calls /\ its[c].state = "open" THEN [its[c] EXCEPT !.state = state] ELSE its[c]]

\* ReviewQueue.park
Park(its, calls) ==
    [c \in Calls |-> IF c \in calls /\ its[c].state = "open" THEN [its[c] EXCEPT !.parked = TRUE] ELSE its[c]]

\* ReviewQueue.supersede, for a new item of call c: the parked items of the same call.
SameCallParked(c) == {d \in Parked \ {c} : call[d].act = call[c].act}

\* (mutant) the parked items of the same call stay open
OpenItemBeside(c) == item' = [item EXCEPT ![c] = NewItem]

\* desk.open, and with it one action, one item
OpenItem(c) == item' = [To(item, SameCallParked(c), "withdrawn") EXCEPT ![c] = NewItem]

\* ReviewQueue._apply's record: the decision, once.
Record(c, via) == item' = [item EXCEPT ![c].state = "decided", ![c].via = via]

\* Engine.deliver_decision once no call waits: the decision with its wake, and a grant
\* for a permission that was allowed.
Deliver(c) ==
    /\ IsOpen(c)
    /\ Record(c, IF dec.allow THEN "grant" ELSE "wake")
    /\ grant' = IF dec.allow THEN [grant EXCEPT ![c] = "open"] ELSE grant
    /\ news' = [news EXCEPT ![c] = "queued"]

\* Engine.park_item: the park, or (the queue failed in its savepoint) a hold in
\* memory that stands in for it.
ParkItems(calls) ==
    \/ item' = Park(item, calls) /\ UNCHANGED unparked /\ Free
    \/ calls # {} /\ Spend("desk") /\ unparked' = unparked \cup calls /\ UNCHANGED item

-----------------------------------------------------------------------------
(***************************************************************************)
(* LiveSession.write: one at a time, in order.  What a write changes in    *)
(* memory (prepare) changes as it starts; then the store commits it; then  *)
(* its writer goes on.                                                     *)
(***************************************************************************)

\* What prepare does to the facts: hold, settle's take, and _session_closed's gone.
Prepare(l, op) ==
    IF op.kind = "open" THEN [l EXCEPT !.held = @ \cup op.calls]
    ELSE IF op.kind = "close" THEN [l EXCEPT !.held = {}]
    ELSE IF op.kind \in Settling THEN [l EXCEPT !.held = @ \ op.calls]
    ELSE l

\* gone collects the calls still held, to park them.
Starting(l, op) == IF op.kind = "close" THEN [op EXCEPT !.calls = l.held \ l.ahead] ELSE op

\* The lock is taken at once when it is free.
Write(l, op) ==
    IF q = <<>> THEN live' = Prepare(l, op) /\ q' = <<Starting(l, op)>> /\ phase' = "out"
    ELSE live' = l /\ q' = Append(q, op) /\ UNCHANGED phase

\* A grant's writer is cancelled with its process, and gives the lock to the next.
Cancelled(op) == op.kind = "spend" /\ \A c \in op.calls : call[c].state # "spends"

StartWrite ==
    /\ q # <<>> /\ phase = "wait"
    /\ \/ /\ Cancelled(Head(q))
          /\ q' = Tail(q) /\ UNCHANGED <<live, phase>>
       \/ /\ ~Cancelled(Head(q))
          /\ live' = Prepare(live, Head(q)) /\ q' = <<Starting(live, Head(q))>> \o Tail(q) /\ phase' = "out"
    /\ UNCHANGED <<store, up, dec, adm, look, unparked, holds, cli, ledger>>

Out(kind) == q # <<>> /\ phase = "out" /\ Head(q).kind = kind
OpCall    == CHOOSE c \in Head(q).calls : TRUE

\* The store's thread, on the first write: committed, or not (its record found
\* the item settled, its grant was spent, or the store failed).
Made == phase' = "made" /\ UNCHANGED <<up, live, q, dec, adm, look, holds, cli>>
NotMade == phase' = "failed" /\ UNCHANGED <<store, up, live, q, dec, adm, look, unparked, holds, cli>>

CommitOpen == Out("open") /\ OpenItem(OpCall) /\ Made /\ Free /\ UNCHANGED <<grant, news, mail, given, unparked>>

\* (mutant) a grant somebody spent meanwhile is spent again
CommitSpendAgain ==
    /\ Out("spend") /\ Free
    /\ grant' = [grant EXCEPT ![Head(q).grant] = "used"] /\ Made /\ UNCHANGED <<item, news, mail, given, unparked>>

CommitSpend ==
    /\ Out("spend") /\ Free
    /\ \/ /\ grant[Head(q).grant] = "open"
          /\ grant' = [grant EXCEPT ![Head(q).grant] = "used"]
          /\ Made /\ UNCHANGED <<item, news, mail, given, unparked>>
       \/ grant[Head(q).grant] # "open" /\ NotMade

\* (mutant) a decision that goes into the call leaves a grant too
CommitAnswerAndGrant ==
    /\ Out("answer") /\ Free
    /\ \/ Deliver(OpCall) /\ Made /\ UNCHANGED <<mail, given, unparked>>
       \/ ~IsOpen(OpCall) /\ NotMade

CommitAnswer ==
    /\ Out("answer") /\ Free
    /\ \/ IsOpen(OpCall) /\ Record(OpCall, "in_call") /\ Made /\ UNCHANGED <<grant, news, mail, given, unparked>>
       \/ ~IsOpen(OpCall) /\ NotMade

CommitDeliver ==
    /\ Out("deliver") /\ Free
    /\ \/ Deliver(OpCall) /\ Made /\ UNCHANGED <<mail, given, unparked>>
       \/ ~IsOpen(OpCall) /\ NotMade

CommitPark ==
    /\ \E kind \in {"park", "ahead", "close"} : Out(kind)
    /\ ParkItems(Head(q).calls) /\ Made /\ UNCHANGED <<grant, news, mail, given>>

\* The CLI took the call back.
CommitWithdraw ==
    /\ Out("withdraw")
    /\ item' = To(item, Head(q).calls, "withdrawn") /\ Made /\ Free /\ UNCHANGED <<grant, news, mail, given, unparked>>

\* _person_moved_on: every parked item, and those whose park failed.
CommitMoved ==
    /\ Out("moved")
    /\ item' = To(item, Parked \cup Head(q).calls, "withdrawn")
    /\ Made /\ Free /\ UNCHANGED <<grant, news, mail, given, unparked>>

StoreFails == q # <<>> /\ phase = "out" /\ NotMade /\ Spend("store")

Commit ==
    \/ CommitOpen \/ CommitSpend \/ CommitAnswer \/ CommitDeliver
    \/ CommitPark \/ CommitWithdraw \/ CommitMoved \/ StoreFails

-----------------------------------------------------------------------------
(***************************************************************************)
(* The writer goes on.                                                     *)
(***************************************************************************)

Back(kind, to) == q # <<>> /\ phase = to /\ Head(q).kind = kind

\* (mutant) a call taken off for a write that fails is not put back
UndoOpenOnly(l) == IF Head(q).kind = "open" THEN [l EXCEPT !.held = @ \ Head(q).calls] ELSE l

\* The lock goes to the next; undo puts back what prepare took (settle) or takes
\* back what it put (hold).
Undo(l) ==
    IF Head(q).kind = "open" THEN [l EXCEPT !.held = @ \ Head(q).calls]
    ELSE IF Head(q).kind \in Settling THEN [l EXCEPT !.held = @ \cup Head(q).calls]
    ELSE l
Release(l) == live' = l /\ q' = Tail(q) /\ phase' = "wait"

Becomes(c, state) == call' = [call EXCEPT ![c].state = state]

\* Held.future.set_result: only a call that still waits hears it.
SetResult(c, state) ==
    call' = [call EXCEPT ![c].future = "done", ![c].state = IF @ = "waits" THEN state ELSE @]

\* hold, after its item opened (or could not: the host denies, fail closed).  A call
\* the CLI took back meanwhile is said to be withdrawn only now.
ReturnOpen(to) ==
    /\ Back("open", to) /\ Release(IF to = "failed" THEN Undo(live) ELSE live)
    /\ LET c == OpCall
       IN  \/ call[c].state = "opens" /\ Becomes(c, IF to = "made" THEN "waits" ELSE "refused") /\ UNCHANGED ev
           \/ call[c].state = "leaves" /\ Becomes(c, "withdrawn") /\ ev' = ev \cup {c}
           \/ call[c].state = "dead" /\ UNCHANGED <<call, ev>>
    /\ Free /\ UNCHANGED <<store, up, dec, adm, look, unparked, holds, turn>>

ReturnSpend(to) ==
    /\ Back("spend", to) /\ Release(live)
    /\ LET c == OpCall
       IN  \/ /\ call[c].state = "spends" /\ to = "made"
              /\ Becomes(c, "allowed") /\ ran' = [ran EXCEPT ![Head(q).grant] = @ + 1] /\ UNCHANGED <<turns, budget>>
           \/ call[c].state = "spends" /\ to = "failed" /\ Becomes(c, "refused") /\ Free
           \/ call[c].state = "dead" /\ UNCHANGED call /\ Free
    /\ UNCHANGED <<store, up, dec, adm, look, unparked, holds, turn, ev>>

\* LiveSession.answer: the answer goes into the call, if its future still waits.
ReturnAnswer ==
    /\ Back("answer", "made") /\ Release([live EXCEPT !.deciding = @ \ Head(q).calls])
    /\ dec' = NoDec
    /\ LET c == OpCall
       IN  \/ /\ call[c].future = "pending"
              /\ SetResult(c, IF dec.allow THEN "allowed" ELSE "denied")
              /\ ran' = IF dec.allow /\ call[c].state = "waits" THEN [ran EXCEPT ![c] = @ + 1] ELSE ran
              /\ UNCHANGED <<turns, budget>>
           \/ call[c].future = "done" /\ UNCHANGED call /\ Free
    /\ UNCHANGED <<store, up, adm, look, unparked, holds, turn, ev>>

ReturnDeliver ==
    /\ Back("deliver", "made") /\ Release(live) /\ dec' = NoDec
    /\ Free /\ UNCHANGED <<store, up, adm, look, unparked, holds, cli>>

DecisionFails ==
    /\ Back("answer", "failed") \/ Back("deliver", "failed")
    /\ Release([Undo(live) EXCEPT !.deciding = @ \ Head(q).calls]) /\ dec' = NoDec
    /\ Free /\ UNCHANGED <<store, up, adm, look, unparked, holds, cli>>

\* park_oldest: the call is denied naming its item, and the process released at idle.
ReturnPark(to) ==
    /\ Back("park", to)
    /\ \/ to = "made" /\ Release([live EXCEPT !.release = TRUE]) /\ SetResult(OpCall, "parked")
       \/ to = "failed" /\ Release(Undo(live)) /\ UNCHANGED call
    /\ Free /\ UNCHANGED <<store, up, dec, adm, look, unparked, holds, turn, ev>>

ReturnAhead(to) ==
    /\ Back("ahead", to)
    /\ Release(IF to = "made" THEN [live EXCEPT !.ahead = @ \cup Head(q).calls] ELSE live)
    /\ Free /\ UNCHANGED <<store, up, dec, adm, look, unparked, holds, cli>>

ReturnMoved(to) ==
    /\ Back("moved", to) /\ Release(live)
    /\ adm' = IF adm.pc = "moving" /\ to = "made" THEN [adm EXCEPT !.pc = "send"] ELSE NoAdm
    /\ unparked' = IF to = "made" THEN unparked \ Head(q).calls ELSE unparked
    /\ Free /\ UNCHANGED <<store, up, dec, look, holds, cli>>

ReturnWithdraw ==
    /\ Back("withdraw", "made") /\ Release(live)
    /\ Free /\ UNCHANGED <<store, up, dec, adm, look, unparked, holds, cli>>

\* session_closed: the session is cold; a process that died backs it off.
ReturnClose ==
    /\ Back("close", "made") /\ Release(NoLive)
    /\ backoff' = (backoff \/ live.state = "dying")
    /\ Free /\ UNCHANGED <<store, up, dec, adm, look, unparked, storeFailed, cli>>

\* The calls of a process that ends: its handlers are cancelled.
Died == [c \in Calls |->
    IF call[c].state \in {"spends", "opens", "leaves", "waits"}
    THEN [call[c] EXCEPT !.state = "dead", !.future = IF call[c].state = "waits" THEN "done" ELSE @] ELSE call[c]]

\* Engine.unusable: what the pump could not record is not recorded; its process is
\* closed, and the session held until the store settles it.
Unusable ==
    /\ Back("withdraw", "failed") \/ Back("close", "failed")
    /\ live' = NoLive /\ q' = <<>> /\ phase' = "wait" /\ storeFailed' = TRUE /\ UNCHANGED backoff
    /\ dec' = IF dec.pc = "session" THEN NoDec ELSE dec
    /\ adm' = IF adm.pc = "attach" THEN adm ELSE NoAdm
    /\ call' = Died /\ turn' = FALSE /\ ev' = {}
    /\ Free /\ UNCHANGED <<store, up, look, unparked>>

Return ==
    \/ \E to \in {"made", "failed"} :
          ReturnOpen(to) \/ ReturnSpend(to) \/ ReturnPark(to) \/ ReturnAhead(to) \/ ReturnMoved(to)
    \/ ReturnAnswer \/ ReturnDeliver \/ DecisionFails \/ ReturnWithdraw \/ ReturnClose \/ Unusable

\* The wakes of a turn that was cut off wait again; a person's message is not new then.
GivenBack ==
    /\ mail' = mail \cup (IF given.mail THEN {"other"} ELSE {})
    /\ news' = [c \in Calls |-> IF c \in given.news THEN "queued" ELSE news[c]]
    /\ given' = NoWakes

\* _settle_store_failed: as boot recovery would, the calls parked in the same write.
SettleStoreFailed ==
    /\ up = "up" /\ storeFailed
    /\ storeFailed' = FALSE /\ UNCHANGED backoff
    /\ ParkItems({c \in Calls : IsOpen(c) /\ ~item[c].parked}) /\ GivenBack
    /\ UNCHANGED <<grant, up, writes, dec, adm, look, cli>>

-----------------------------------------------------------------------------
(***************************************************************************)
(* The CLI, and the pump.                                                  *)
(***************************************************************************)

Asked == {c \in Calls : call[c].state # "none"}
Grants(a) == {g \in Calls : grant[g] = "open" /\ call[g].act = a}

\* EngineHost.decide_permission: the policy spends a grant for the exact action, or
\* asks: LiveSession.hold.
Ask(c) ==
    /\ live.state = "up" /\ turn /\ c \notin Asked /\ \A d \in Calls : d < c => d \in Asked
    /\ \/ \E g \in Grants(call[c].act) :
             /\ Becomes(c, "spends")
             /\ Write(live, SpendOp(c, g))
       \/ /\ Grants(call[c].act) = {}
          /\ call' = [call EXCEPT ![c].state = "opens", ![c].future = "pending"]
          /\ Write(live, Op("open", {c}))
    /\ Free /\ UNCHANGED <<store, up, dec, adm, look, unparked, holds, turn, ev>>

\* The CLI takes a call back: its wait is cancelled (Task.cancel cancels the future it
\* waits for); one whose item still opens leaves once it has (hold's shield).
TakesBack(c) ==
    /\ live.state = "up" /\ Spend("withdraw")
    /\ \/ /\ call[c].state = "waits" /\ ev' = ev \cup {c}
          /\ call' = [call EXCEPT ![c].state = "withdrawn", ![c].future = "done"]
       \/ call[c].state = "opens" /\ Becomes(c, "leaves") /\ UNCHANGED ev
    /\ UNCHANGED <<store, engine, turn>>

\* A call of the root agent holds its turn; one of a background sub-agent does not.
TurnEnds ==
    /\ live.state = "up" /\ turn
    /\ turn' = FALSE /\ given' = NoWakes
    /\ Free /\ UNCHANGED <<item, grant, news, mail, engine, call, ev>>

\* The process ends: its calls with it.
ProcessEnds(how) ==
    /\ live' = [live EXCEPT !.state = how]
    /\ call' = Died /\ turn' = FALSE
    /\ UNCHANGED <<store, q, phase, dec, look, unparked, holds, ev>>

Dies == live.state = "up" /\ ProcessEnds("dying") /\ Spend("dies") /\ UNCHANGED <<up, adm>>

\* _release, _at_idle: idle (no turn, nothing held), under the session's lock.
ReleasesIdle ==
    /\ live.state = "up" /\ up = "up"
    /\ ~turn /\ live.held = {} /\ adm.pc \in {"none", "look"}
    /\ \A c \in Calls : call[c].state \notin {"spends", "opens"}
    /\ ProcessEnds("closing") /\ Free /\ UNCHANGED <<up, adm>>

PumpFree == \A i \in 1 .. Len(q) : q[i].kind \notin {"withdraw", "close"}

\* _handle of PermissionResolved: a call resolved without our answer.
PumpResolved(c) ==
    /\ c \in ev /\ PumpFree /\ ev' = ev \ {c}
    /\ \/ c \in live.held /\ Write(live, Op("withdraw", {c}))
       \/ c \notin live.held /\ UNCHANGED writes
    /\ Free /\ UNCHANGED <<store, up, dec, adm, look, unparked, holds, call, turn>>

\* The end of the turn is recorded before that of the process: a turn that was cut off
\* is retried after a pause (turn_ended).  The calls are parked with the process's end.
PumpClosed ==
    /\ live.state \in {"dying", "closing"} /\ ev = {} /\ PumpFree
    /\ Write(live, Op("close", {})) /\ GivenBack
    /\ backoff' = (backoff \/ (live.state = "dying" /\ given # NoWakes))
    /\ Free /\ UNCHANGED <<item, grant, up, dec, adm, look, unparked, storeFailed, cli>>

BackoffOver ==
    /\ up = "up" /\ backoff /\ backoff' = FALSE
    /\ Free /\ UNCHANGED <<store, up, writes, dec, adm, look, unparked, storeFailed, cli>>

-----------------------------------------------------------------------------
(***************************************************************************)
(* The person, and time.                                                   *)
(***************************************************************************)

\* ReviewQueue.decide reads the item under its lock; what is settled is refused.
Decide(c, allow) ==
    /\ up = "up" /\ dec.pc = "none" /\ IsOpen(c)
    /\ dec' = [pc |-> "read", call |-> c, allow |-> allow]
    /\ Free /\ UNCHANGED <<store, up, writes, adm, look, unparked, holds, cli>>

\* _deliver_decision: into the call if the process holds it; if that call died, settled
\* with what tells the agent; else one write of the engine.
Route ==
    /\ dec.pc = "read"
    /\ LET c == dec.call
       IN  \/ /\ c \in live.held /\ call[c].future = "pending"
              /\ Write([live EXCEPT !.deciding = @ \cup {c}], Op("answer", {c}))
              /\ dec' = [dec EXCEPT !.pc = "session"]
           \/ /\ c \in live.held /\ call[c].future = "done"
              /\ Write(live, Op("deliver", {c})) /\ dec' = [dec EXCEPT !.pc = "session"]
           \/ c \notin live.held /\ dec' = [dec EXCEPT !.pc = "out"] /\ UNCHANGED writes
    /\ Free /\ UNCHANGED <<store, up, adm, look, unparked, holds, cli>>

DeliverOut ==
    /\ dec.pc = "out" /\ dec' = NoDec
    /\ \/ Deliver(dec.call) /\ Free
       \/ ~IsOpen(dec.call) /\ Free /\ UNCHANGED <<item, grant, news>>
       \/ Spend("store") /\ UNCHANGED <<item, grant, news>>
    /\ UNCHANGED <<mail, given, up, writes, adm, look, unparked, holds, cli>>

\* _expire_due: the parked items that are due, each with a wake; not while a decision is made.
Expire(calls) ==
    /\ up = "up" /\ dec.pc = "none" /\ calls # {} /\ Spend("expire")
    /\ item' = To(item, calls, "expired")
    /\ news' = [c \in Calls |-> IF c \in calls THEN "queued" ELSE news[c]]
    /\ UNCHANGED <<grant, mail, given, engine, cli>>

\* _relieve_memory, park_oldest: the call held longest that nobody decides.
ParkOldest ==
    LET held == {c \in live.held : IsOpen(c) /\ call[c].future = "pending" /\ c \notin live.deciding}
    IN  /\ up = "up" /\ ~live.release /\ Spend("memory")
        /\ \A i \in 1 .. Len(q) : q[i].kind # "park"
        /\ \E c \in held : (\A d \in held : c <= d) /\ Write(live, Op("park", {c}))
        /\ UNCHANGED <<store, up, dec, adm, look, unparked, holds, cli>>

Sent(m) ==
    /\ up = "up" /\ m \notin mail /\ mail' = mail \cup {m}
    /\ IF m = "person" THEN Free ELSE Spend("other")
    /\ UNCHANGED <<item, grant, news, given, engine, cli>>

-----------------------------------------------------------------------------
(***************************************************************************)
(* Admission: a session with parked items waits for the person.            *)
(***************************************************************************)

Queued == {c \in Calls : news[c] = "queued"}
Work   == mail # {} \/ Queued # {}

\* _DECISION_HOLDS and _unparked; _NEW_PERSON_MESSAGE lets go of them.
HeldForDecision == Parked \cup {c \in unparked : IsOpen(c)} # {} /\ "person" \notin mail

NoParkUnderWay == \A i \in 1 .. Len(q) : q[i].kind # "park"

PassReads ==
    /\ up = "up" /\ ~look /\ adm.pc = "none" /\ NoParkUnderWay
    /\ Work /\ ~HeldForDecision /\ ~storeFailed /\ ~backoff
    /\ look' = TRUE
    /\ unparked' = {c \in unparked : IsOpen(c)}
    /\ Free /\ UNCHANGED <<store, up, writes, dec, adm, holds, cli>>

\* The pass goes on after its awaits.
PassGoes ==
    /\ up = "up" /\ look /\ NoParkUnderWay /\ look' = FALSE
    /\ adm' = IF live.state = "none" THEN [NoAdm EXCEPT !.pc = "attach"]
              ELSE IF live.state = "up" /\ ~turn THEN [NoAdm EXCEPT !.pc = "look"]
              ELSE NoAdm
    /\ Free /\ UNCHANGED <<store, up, writes, dec, unparked, holds, cli>>

Attach ==
    /\ adm.pc = "attach" /\ live.state = "none" /\ ~storeFailed
    /\ adm' = [adm EXCEPT !.pc = "look"] /\ live' = [NoLive EXCEPT !.state = "up"]
    /\ Free /\ UNCHANGED <<store, up, q, phase, dec, look, unparked, holds, cli>>

\* _run_admission reads the wakes; a person's new message withdraws what the session
\* waits on before it is sent.
Looks ==
    /\ adm.pc = "look"
    /\ \/ /\ live.state = "up" /\ ~turn /\ Work
          /\ \/ /\ "person" \in mail
                /\ adm' = [pc |-> "moving", mail |-> mail, news |-> Queued]
                /\ Write(live, Op("moved", unparked))
             \/ "person" \notin mail /\ adm' = [pc |-> "send", mail |-> mail, news |-> Queued] /\ UNCHANGED writes
       \/ (live.state # "up" \/ turn \/ ~Work) /\ adm' = NoAdm /\ UNCHANGED writes
    /\ Free /\ UNCHANGED <<store, up, dec, look, unparked, holds, cli>>

\* LiveSession.send; nothing is sent on a stale look.
Send ==
    /\ adm.pc = "send" /\ adm' = NoAdm
    /\ \/ /\ live.state = "up" /\ ~turn /\ turns < MaxTurns
          /\ turn' = TRUE /\ turns' = turns + 1 /\ UNCHANGED <<ran, budget>>
          /\ mail' = mail \ adm.mail
          /\ news' = [c \in Calls |-> IF c \in adm.news THEN "told" ELSE news[c]]
          /\ given' = [mail |-> adm.mail # {}, news |-> adm.news]
       \/ (live.state # "up" \/ turn) /\ Free /\ UNCHANGED <<turn, mail, news, given>>
    /\ UNCHANGED <<item, grant, up, writes, dec, look, unparked, holds, call, ev>>

-----------------------------------------------------------------------------
(***************************************************************************)
(* The server's life.                                                      *)
(***************************************************************************)

\* shutdown: admission stops, and every held call is parked first (park_held).
Shutdown ==
    LET held == {c \in live.held : IsOpen(c) /\ call[c].future = "pending"}
    IN  /\ up = "up" /\ up' = "parking" /\ look' = FALSE /\ adm' = NoAdm
        /\ IF live.state = "up" /\ held # {} THEN Write(live, Op("ahead", held)) ELSE UNCHANGED writes
        /\ Spend("shutdown") /\ UNCHANGED <<store, dec, unparked, holds, cli>>

ShutdownCloses ==
    /\ up = "parking" /\ \A i \in 1 .. Len(q) : q[i].kind # "ahead"
    /\ up' = "closing"
    /\ IF live.state = "up" THEN ProcessEnds("closing") ELSE UNCHANGED <<live, call, turn, store, q, phase, dec, look, unparked, holds, ev>>
    /\ Free /\ UNCHANGED adm

\* The process is gone, or the server is: its memory with it.
Down ==
    /\ up' = "down" /\ live' = NoLive /\ q' = <<>> /\ phase' = "wait" /\ dec' = NoDec /\ adm' = NoAdm
    /\ look' = FALSE /\ unparked' = {} /\ storeFailed' = FALSE /\ backoff' = FALSE
    /\ call' = Died /\ turn' = FALSE /\ ev' = {}
    /\ UNCHANGED store

Stops   == up = "closing" /\ live.state = "none" /\ q = <<>> /\ dec.pc = "none" /\ Down /\ Free
Crashes == up # "down" /\ Down /\ Spend("crash")

\* recovery: what the dead turns had waits again.
Boot ==
    /\ up = "down" /\ up' = "boot" /\ GivenBack
    /\ Free /\ UNCHANGED <<item, grant, writes, dec, adm, look, unparked, holds, cli>>

\* _park_restarted: the calls the restart left held, before anything is admitted.
ParkRestarted ==
    /\ up = "boot" /\ up' = "up"
    /\ ParkItems({c \in Calls : IsOpen(c) /\ ~item[c].parked})
    /\ UNCHANGED <<grant, news, mail, given, writes, dec, adm, look, holds, cli>>

Next ==
    \/ StartWrite \/ Commit \/ Return
    \/ \E c \in Calls : Ask(c) \/ TakesBack(c) \/ PumpResolved(c) \/ \E allow \in BOOLEAN : Decide(c, allow)
    \/ TurnEnds \/ BackoffOver \/ Dies \/ ReleasesIdle \/ PumpClosed
    \/ Route \/ DeliverOut \/ \E calls \in SUBSET Parked : Expire(calls)
    \/ ParkOldest \/ \E m \in {"person", "other"} : Sent(m)
    \/ PassReads \/ PassGoes \/ Attach \/ Looks \/ Send
    \/ Shutdown \/ ShutdownCloses \/ Stops \/ Crashes \/ Boot \/ ParkRestarted \/ SettleStoreFailed

Spec == Init /\ [][Next]_vars

-----------------------------------------------------------------------------
(***************************************************************************)
(* What must always hold.                                                  *)
(***************************************************************************)

\* A call runs at most once on the decision of an item, and only when the person
\* allowed it, however many ways lead from the decision to the agent (the held
\* call, a grant spent by one of several calls, a call that died meanwhile).
RunsOnce ==
    \A c \in Calls : ran[c] > 0 => ran[c] = 1 /\ item[c].state = "decided" /\ item[c].via \in {"in_call", "grant"}

\* The first write, or one that waits, settles c.
Settles(c) == \E i \in 1 .. Len(q) : c \in q[i].calls /\ q[i].kind \in Settling \cup {"close", "open"}

\* park_item: "no open item whose call is gone is ever left without a hold"
\* (engine.py): an open item is held by its process, parked, or held in memory,
\* unless the server or the store's settling of the session has still to park it.
OpenItemIsHeld ==
    \A c \in Calls : IsOpen(c) =>
        c \in live.held \/ item[c].parked \/ c \in unparked \/ Settles(c) \/ up \in {"down", "boot"} \/ storeFailed

\* deliver_decision (engine.py): the answer goes into a call that is still held;
\* "otherwise (parked, ...)" it comes as a wake.  The agent of a parked call is told
\* "you'll be woken when they decide" (PARK_MESSAGE).
DecisionReachesAgent ==
    \A c \in Calls : item[c].state = "decided" /\ call[c].state = "parked" => news[c] # "none"

-----------------------------------------------------------------------------
(***************************************************************************)
(* What a step may never do.                                               *)
(***************************************************************************)

\* An item is settled once: a decision, the CLI's taking back, a supersede, the
\* expiry and a late park race for it, and what one of them settled stays.
SettledStays ==
    [][\A c \in Calls : item[c].state \in {"decided", "withdrawn", "expired"} => item'[c] = item[c]]_vars

\* supersede: "One action, one item ... so no decision on them can mint a grant": when
\* an item opens, no other open item asks for the same action for a call that is gone,
\* but one whose park failed (which nobody looks for).
OneActionOneItem ==
    [][\A c, d \in Calls :
          /\ ~IsOpen(c) /\ item'[c].state = "open"
          /\ c # d /\ call[c].act = call[d].act /\ item'[d].state = "open"
          => d \in live.held \cup unparked \/ Settles(d)]_vars

=============================================================================
