----------------------------- MODULE StormStore -----------------------------
(***************************************************************************)
(* The rows of the storm store that one session's engine works on, and the *)
(* transactions that change them (engine/records.py, store/recovery.py).   *)
(*                                                                         *)
(* A transaction is a function from tables to tables: SQLite commits it    *)
(* whole or not at all, so the engine's modules apply one per step.        *)
(*                                                                         *)
(*   wakes   what waits for the session.  A wake is `queued' until a turn  *)
(*           takes it, `taken' while that turn runs, and then `consumed',  *)
(*           `dropped', or `queued' again (handed back).  `moved' stands   *)
(*           for a row deleted here and inserted for the successor session *)
(*           when this one is retired; `absent' for no row.                *)
(*   turns   one row per turn a CLI ran; `none' for no row.                *)
(***************************************************************************)
EXTENDS Naturals, FiniteSets

CONSTANTS
    Wakes,            \* ids of wakes (a wake's id is its idempotency key)
    MaxTurns,         \* bound: turns the CLI may ever start for the session
    MaxRedeliveries   \* MAX_REDELIVERIES of store/recovery.py

ASSUME StoreAssumption ==
    /\ MaxTurns \in Nat \ {0}
    /\ MaxRedeliveries \in Nat

NoTurn  == 0
Turns   == 1 .. MaxTurns
TurnIds == 0 .. MaxTurns

WakeStates == {"absent", "queued", "taken", "consumed", "dropped", "moved"}
TurnStates == {"none", "running", "finished", "failed", "interrupted"}

\* What the end of a turn does with the wakes it took: they are done, or go
\* back to the queue, where a failure (a crash, a retryable error) counts
\* toward the redelivery bound and a restart does not.
Fates == {"consumed", "back", "counted"}

WakeRow == [state : WakeStates, turn : TurnIds, redelivery : 0 .. MaxRedeliveries, back : BOOLEAN]
TurnRow == [status : TurnStates, epoch : Nat]

NoWake == [state |-> "absent", turn |-> NoTurn, redelivery |-> 0, back |-> FALSE]
NoRow  == [status |-> "none", epoch |-> 0]

-----------------------------------------------------------------------------
(***************************************************************************)
(* The wakes table.                                                        *)
(***************************************************************************)

Queued(wk) == {w \in Wakes : wk[w].state = "queued"}

TakenBy(wk, t) == {w \in Wakes : wk[w].state = "taken" /\ wk[w].turn = t}

Enqueue(row) == [row EXCEPT !.state = "queued"]

\* A wake given back by the turn that took it.
Requeue(row, counts) ==
    [state |-> "queued", turn |-> NoTurn, back |-> TRUE,
     redelivery |-> row.redelivery + (IF counts THEN 1 ELSE 0)]

\* (mutant) nothing bounds the redeliveries
HandBackUnbounded(wk, t, counts, retired) ==
    [w \in Wakes |-> IF w \in TakenBy(wk, t) THEN Requeue(wk[w], counts) ELSE wk[w]]

\* (mutant) one wake at the bound drops the whole batch
HandBackBatch(wk, t, counts, retired) ==
    [w \in Wakes |->
        IF w \notin TakenBy(wk, t) THEN wk[w]
        ELSE IF retired \/ (counts /\ \E v \in TakenBy(wk, t) : wk[v].redelivery >= MaxRedeliveries)
             THEN [wk[w] EXCEPT !.state = "dropped"]
             ELSE Requeue(wk[w], counts)]

\* hand_back: the wakes turn t took go back to the queue; one that is at the
\* bound of counted failures is dropped, and so is every one of a retired
\* session.
HandBack(wk, t, counts, retired) ==
    [w \in Wakes |->
        IF w \notin TakenBy(wk, t) THEN wk[w]
        ELSE IF retired \/ (counts /\ wk[w].redelivery >= MaxRedeliveries)
             THEN [wk[w] EXCEPT !.state = "dropped"]
             ELSE Requeue(wk[w], counts)]

Consume(wk, t) ==
    [w \in Wakes |-> IF w \in TakenBy(wk, t) THEN [wk[w] EXCEPT !.state = "consumed"] ELSE wk[w]]

\* The wakes' part of finish_turn.
Settle(wk, t, fate, retired) ==
    IF fate = "consumed" THEN Consume(wk, t) ELSE HandBack(wk, t, fate = "counted", retired)

\* (mutant) a turn that is over always gives its late wakes back
FateIsBack(status, t, last) == "back"

\* take_wakes: the fate of wakes handed to a turn that is over already is the
\* one its end gave its own wakes; `last' is the last end the process recorded.
FateOf(status, t, last) ==
    IF last.turn = t THEN last.fate
    ELSE IF status = "finished" THEN "consumed" ELSE "counted"

\* (mutant) the turn takes what is queued by now, not what it was sent
HandAllQueued(wk, ws, t, state) ==
    [w \in Wakes |->
        IF wk[w].state = "queued" THEN [wk[w] EXCEPT !.state = state, !.turn = t] ELSE wk[w]]

Hand(wk, ws, t, state) ==
    [w \in Wakes |->
        IF w \in ws /\ wk[w].state = "queued"
        THEN [wk[w] EXCEPT !.state = state, !.turn = t] ELSE wk[w]]

TakeWakes(wk, ws, t, status, last, retired) ==
    IF status = "running" THEN Hand(wk, ws, t, "taken")
    ELSE IF FateOf(status, t, last) = "consumed" THEN Hand(wk, ws, t, "consumed")
    ELSE HandBack(Hand(wk, ws, t, "taken"), t, FateOf(status, t, last) = "counted", retired)

Drop(wk, ws) ==
    [w \in Wakes |->
        IF w \in ws /\ wk[w].state = "queued" THEN [wk[w] EXCEPT !.state = "dropped"] ELSE wk[w]]

\* succeed: the queued wakes of a retired session go to its successor.
MoveQueued(wk) ==
    [w \in Wakes |-> IF wk[w].state = "queued" THEN [wk[w] EXCEPT !.state = "moved"] ELSE wk[w]]

-----------------------------------------------------------------------------
(***************************************************************************)
(* The turns table.                                                        *)
(***************************************************************************)

EnsureTurn(tn, t, e) ==
    IF tn[t].status = "none" THEN [tn EXCEPT ![t] = [status |-> "running", epoch |-> e]] ELSE tn

EndTurn(tn, t, status) == [tn EXCEPT ![t].status = status]

Running(tn) == {t \in Turns : tn[t].status = "running"}

\* (mutant) the turns that ran are left as they were
InterruptNone(tn) == tn

InterruptRunning(tn) ==
    [t \in Turns |-> IF t \in Running(tn) THEN [tn[t] EXCEPT !.status = "interrupted"] ELSE tn[t]]

\* (mutant) the wakes of the turns are forgotten
HandBackNone(wk, ts, retired) == wk

\* (mutant) the wakes of the turns go back whether they are still taken or not
HandBackRows(wk, ts, retired) ==
    [w \in Wakes |-> IF wk[w].turn \in ts THEN Requeue(wk[w], FALSE) ELSE wk[w]]

\* Every wake taken by one of the turns ts goes back, not counted: what boot
\* recovery and the settling of a failed store do to the turns they interrupt.
HandBackAll(wk, ts, retired) ==
    [w \in Wakes |->
        IF wk[w].state = "taken" /\ wk[w].turn \in ts THEN HandBack(wk, wk[w].turn, FALSE, retired)[w] ELSE wk[w]]

=============================================================================
