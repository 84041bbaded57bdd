---------------------------- MODULE StormSession ----------------------------
(***************************************************************************)
(* One storm session: how a wake (a message, a decision, a note of another *)
(* session) becomes a turn of the agent's CLI, exactly as the engine does  *)
(* it (engine/engine.py, engine/session.py), and what crashes, shutdowns,  *)
(* failed writes and a dying CLI do to it.                                 *)
(*                                                                         *)
(* Six actors interleave: the callers of the public API, the admission     *)
(* loop (one pass at a time), the session's admission task (`adm'), its    *)
(* event pump, the engine's timers, and the CLI process.  A step is the    *)
(* code of one of them from one await to the next; a write to the store    *)
(* and the change of the in-memory facts it carries are one step           *)
(* (LiveSession.write).                                                    *)
(***************************************************************************)
EXTENDS StormStore, Sequences

CONSTANTS
    MaxFailedStarts,  \* MAX_FAILED_STARTS of engine/engine.py
    Faults,           \* the faults and outside events that may happen ...
    MaxFaults         \* ... and the bound on how many of them do

FaultKinds == {"crash", "shutdown", "store", "cli", "cli_dies", "open", "send", "own", "pause", "pool", "retire", "release", "idle"}

ASSUME SessionAssumption ==
    /\ MaxFailedStarts \in Nat \ {0}
    /\ Faults \subseteq FaultKinds
    /\ MaxFaults \in Nat

VARIABLES
    \* the store (survives everything)
    wake, turn, epoch, status, paused, retired, pool,
    \* the engine's memory (lost with the server process)
    up, live, adm, backoff, starts, storeFailed, survivor, recheck, kicked, look,
    \* the CLI processes of the session, and what really happened in them
    cli, orphans, nextTurn, got, how,
    budget

rows  == <<wake, turn, epoch, status, paused, retired, pool>>
gates == <<backoff, starts, storeFailed, survivor, recheck>>
world == <<cli, orphans, nextTurn, got, how>>
vars  == <<rows, up, live, adm, gates, kicked, look, world, budget>>

Statuses  == {"cold", "queued", "starting", "running", "warm"}
AdmStates == {"none", "attach", "opening", "opened", "closing", "look", "ready", "sending", "accepted", "take"}
Inputs    == {"none", "open", "resulted"}
CliStates == {"none", "up", "asked", "dead", "closing", "gone"}
Serving   == {"up", "asked"}
Ends      == {"completed", "failed", "retry", "crash", "interrupted"}
Events    == [kind : {"started", "finished"}, turn : Turns] \cup [kind : {"idle", "closed"}, turn : {NoTurn}]

\* LiveSession: the engine's object for the process of the session's epoch.
\*   reg     it is in Engine._live            stale, dying, took (took_input), backed (backed_off),
\*   reason  its close_reason is set          closed (facts.closed): as in the code
\*   input   facts.input: none, open, or open with `resulted' set
\*   last    _last_end: the last end recorded, and what it did with its wakes
LiveType == [epoch : Nat, reg : BOOLEAN, starting : BOOLEAN, turn : TurnIds, input : Inputs,
             closed : BOOLEAN, stale : BOOLEAN, dying : BOOLEAN, took : BOOLEAN, backed : BOOLEAN,
             reason : BOOLEAN, last : [turn : TurnIds, fate : Fates]]

NoEnd  == [turn |-> NoTurn, fate |-> "consumed"]
Opening(e) ==
    [epoch |-> e, reg |-> TRUE, starting |-> TRUE, turn |-> NoTurn, input |-> "none", closed |-> FALSE,
     stale |-> FALSE, dying |-> FALSE, took |-> FALSE, backed |-> FALSE, reason |-> FALSE, last |-> NoEnd]
NoLive == [Opening(0) EXCEPT !.reg = FALSE, !.starting = FALSE, !.closed = TRUE]

AdmType == [pc : AdmStates, ws : SUBSET Wakes, turn : TurnIds]
NoAdm   == [pc |-> "none", ws |-> {}, turn |-> NoTurn]

\* The CLI process: `dead' when it died and its end is not reported yet,
\* `asked' once the engine scheduled its close, `closing' once it was called; `turn' is what it really runs, `idle' that it
\* owes a SessionIdle, q the events the pump has not read yet.
CliType == [state : CliStates, epoch : Nat, turn : TurnIds, idle : BOOLEAN, q : Seq(Events)]
NoCli   == [state |-> "none", epoch |-> 0, turn |-> NoTurn, idle |-> FALSE, q |-> <<>>]

TypeOK ==
    /\ wake \in [Wakes -> WakeRow]
    /\ turn \in [Turns -> TurnRow]
    /\ epoch \in Nat
    /\ status \in Statuses
    /\ paused \in BOOLEAN /\ retired \in BOOLEAN
    /\ pool \in {"open", "closed"}
    /\ up \in {"up", "closing", "down"}
    /\ live \in LiveType
    /\ adm \in AdmType /\ (adm.pc \in {"accepted", "take"} => adm.turn \in Turns)
    /\ backoff \in {"none", "wait", "hold"} /\ starts \in Nat
    /\ storeFailed \in BOOLEAN /\ survivor \in BOOLEAN /\ recheck \in BOOLEAN
    /\ kicked \in BOOLEAN /\ look \in BOOLEAN
    /\ cli \in CliType
    /\ orphans \in SUBSET Nat
    /\ nextTurn \in 1 .. MaxTurns + 1
    /\ got \in [Turns -> SUBSET Wakes]
    /\ how \in [Turns -> Ends \cup {"none"}]
    /\ budget \in 0 .. MaxFaults

Init ==
    /\ wake = [w \in Wakes |-> NoWake]
    /\ turn = [t \in Turns |-> NoRow]
    /\ epoch = 0 /\ status = "cold" /\ paused = FALSE /\ retired = FALSE /\ pool = "open"
    /\ up = "up" /\ live = NoLive /\ adm = NoAdm
    /\ backoff = "none" /\ starts = 0 /\ storeFailed = FALSE /\ survivor = FALSE /\ recheck = FALSE
    /\ kicked = FALSE /\ look = FALSE
    /\ cli = NoCli /\ orphans = {} /\ nextTurn = 1
    /\ got = [t \in Turns |-> {}]
    /\ how = [t \in Turns |-> "none"]
    /\ budget = MaxFaults

Spend(kind) ==
    /\ kind \in Faults /\ budget > 0
    /\ budget' = budget - 1

Free == UNCHANGED budget

-----------------------------------------------------------------------------
(***************************************************************************)
(* LiveSession: its state and how it changes.                              *)
(***************************************************************************)

StatusOf(l) ==
    IF l.closed THEN "cold" ELSE IF l.starting THEN "starting"
    ELSE IF l.turn # NoTurn \/ l.input # "none" THEN "running" ELSE "warm"

Idle(l)  == StatusOf(l) = "warm"
Ended(l) == l.closed \/ l.dying \/ cli.state \in {"closing", "gone"}

Busy(l) == l.turn # NoTurn \/ l.input # "none"

BeginTurn(l, t) == [l EXCEPT !.turn = t, !.input = "open"]

EndInput(l) == [l EXCEPT !.input = "none"]

\* Engine._abandon, of a process nothing can be recorded for any more.
Abandoned(l) == [l EXCEPT !.stale = TRUE, !.reason = TRUE, !.reg = FALSE]

\* (mutant) the abandoned process is left alone
CloseForgotten(c) == c

CloseAsked(c) == IF c.state = "up" THEN [c EXCEPT !.state = "asked"] ELSE c

\* records.fence, of every write for the process: its epoch is the session's.
Fenced == live.epoch = epoch

\* A write for the process that was not made: the store failed it (unusable: the
\* session is held until the store settles it), or the fence did (fenced).
\* Either way the process is stale, and closed.
Unrecorded(l, c) ==
    /\ live' = Abandoned(l)
    /\ cli' = CloseAsked(c)
    /\ IF Fenced THEN Spend("store") /\ storeFailed' = TRUE ELSE Free /\ UNCHANGED storeFailed

\* The admission task holds the session's lock.
Locked == adm.pc \in {"opening", "opened", "closing", "ready", "sending", "accepted", "take"}

\* The task's next await.
Go(pc) == adm' = [adm EXCEPT !.pc = pc]

\* (mutant) nobody looks again
AdmittedQuietly == adm' = NoAdm /\ UNCHANGED kicked

\* _admitted: the task is over, and admission looks again.
Admitted == adm' = NoAdm /\ kicked' = TRUE

-----------------------------------------------------------------------------
(***************************************************************************)
(* Backoff and holds.                                                      *)
(***************************************************************************)

RetryLater == backoff' = "wait" /\ UNCHANGED starts

StartFailed ==
    /\ starts' = starts + 1
    /\ backoff' = IF starts + 1 < MaxFailedStarts THEN "wait" ELSE "hold"

HoldForPerson == backoff' = "hold" /\ starts' = 0

\* A process that failed by itself: a retry if a wake had reached it, else a
\* failed start.
FailedAlone(l) == IF l.took THEN RetryLater ELSE StartFailed

BackoffOver ==
    /\ up = "up" /\ backoff = "wait"
    /\ backoff' = "none" /\ kicked' = TRUE
    /\ UNCHANGED <<rows, up, live, adm, starts, storeFailed, survivor, recheck, look, world, budget>>

-----------------------------------------------------------------------------
(***************************************************************************)
(* The public API.                                                         *)
(***************************************************************************)

\* A wake's id is its idempotency key, so only a new one changes anything; a
\* retired session refuses it.  It lets go of a hold, and asks again whether a
\* process from before the restart is gone.
Deliver(w) ==
    /\ up = "up" /\ ~retired
    /\ wake[w].state = "absent"
    /\ wake' = [wake EXCEPT ![w] = Enqueue(@)]
    /\ IF backoff = "hold" THEN backoff' = "none" /\ starts' = 0 ELSE UNCHANGED <<backoff, starts>>
    /\ recheck' = survivor
    /\ kicked' = TRUE
    /\ UNCHANGED <<turn, epoch, status, paused, retired, pool, up, live, adm, storeFailed, survivor, look, world, budget>>

Pause ==
    /\ up = "up" /\ ~paused /\ Spend("pause")
    /\ paused' = TRUE
    /\ UNCHANGED <<wake, turn, epoch, status, retired, pool, up, live, adm, gates, kicked, look, world>>

Resume ==
    /\ up = "up" /\ paused
    /\ paused' = FALSE /\ kicked' = TRUE
    /\ UNCHANGED <<wake, turn, epoch, status, retired, pool, up, live, adm, gates, look, world, budget>>

\* (mutant) a taken wake keeps no retirement out
RetireWithTaken ==
    /\ up = "up" /\ ~retired /\ Spend("retire")
    /\ live.reg => ~Locked /\ (Idle(live) \/ StatusOf(live) = "cold")
    /\ status \in {"cold", "queued", "warm"}
    /\ retired' = TRUE
    /\ wake' = MoveQueued(wake)
    /\ UNCHANGED <<turn, epoch, status, paused, pool, up, live, adm, gates, kicked, look, world>>

\* recycle.succeed inside between_inputs: the successor's creating
\* transaction retires the session and takes its queued wakes.  A process that
\* is not idle, or an operation holding the session's lock, keeps it out.
Retire ==
    /\ up = "up" /\ ~retired /\ Spend("retire")
    /\ live.reg => ~Locked /\ (Idle(live) \/ StatusOf(live) = "cold")
    /\ status \in {"cold", "queued", "warm"}
    /\ \A w \in Wakes : wake[w].state # "taken"
    /\ retired' = TRUE
    /\ wake' = MoveQueued(wake)
    /\ UNCHANGED <<turn, epoch, status, paused, pool, up, live, adm, gates, kicked, look, world>>

-----------------------------------------------------------------------------
(***************************************************************************)
(* Admission.                                                              *)
(***************************************************************************)

\* _admission_pass up to its first await after the filters: is the session
\* wanted?  (The snapshot is used by PassAct, after more awaits.)
Wanted ==
    /\ Queued(wake) # {} /\ ~retired
    /\ ~survivor /\ adm.pc = "none" /\ ~paused /\ ~storeFailed /\ backoff = "none"

PassRead ==
    /\ up = "up" /\ kicked /\ ~look
    /\ kicked' = FALSE
    /\ look' = Wanted
    /\ UNCHANGED <<rows, up, live, adm, gates, world, budget>>

\* The process is closed while it is idle; the session stays resumable.
ClosesIdle ==
    /\ live' = [live EXCEPT !.reason = TRUE]
    /\ cli' = IF cli.state \in Serving THEN [cli EXCEPT !.state = "closing"] ELSE cli

\* The rest of the pass: a live process takes the wake only when nothing of
\* an input is under way (_admit_live), and is released when its pool is closed;
\* a session with none is started, or waits as `queued' while the pool is
\* closed (_wait).
PassAct ==
    /\ up = "up" /\ look
    /\ look' = FALSE
    /\ \/ /\ live.reg /\ (live.starting \/ Ended(live) \/ Busy(live))
          /\ UNCHANGED <<live, cli, adm, status>>
       \/ /\ live.reg /\ ~live.starting /\ ~Ended(live) /\ ~Busy(live)
          /\ \/ pool = "open" /\ Go("look") /\ UNCHANGED <<live, cli>>
             \/ pool = "closed" /\ ClosesIdle /\ UNCHANGED adm
          /\ UNCHANGED status
       \/ /\ ~live.reg
          /\ \/ pool = "closed" /\ status' = "queued" /\ UNCHANGED adm
             \/ pool = "open" /\ Go("attach") /\ UNCHANGED status
          /\ UNCHANGED <<live, cli>>
    /\ UNCHANGED <<wake, turn, epoch, paused, retired, pool, up, gates, kicked, orphans, nextTurn, got, how, budget>>

\* _attach, up to the runtime's open: a new epoch fences off every older
\* process, unless the session was retired meanwhile.
AttachBump ==
    /\ adm.pc = "attach"
    /\ IF retired
       THEN Admitted /\ UNCHANGED <<epoch, status, live>>
       ELSE /\ epoch' = epoch + 1
            /\ status' = "starting"
            /\ live' = Opening(epoch + 1)
            /\ Go("opening")
            /\ UNCHANGED kicked
    /\ UNCHANGED <<wake, turn, paused, retired, pool, up, gates, look, world, budget>>

\* runtime.open returned a session: its process runs, and its row is in procs.
Open ==
    /\ adm.pc = "opening"
    /\ cli' = [NoCli EXCEPT !.state = "up", !.epoch = live.epoch]
    /\ orphans' = orphans \cup (IF cli.state \in Serving \cup {"closing"} THEN {cli.epoch} ELSE {})
    /\ Go("opened")
    /\ UNCHANGED <<rows, up, live, gates, kicked, look, nextTurn, got, how, budget>>

\* A preparer, the checks or runtime.open failed: cold again (that write may
\* be lost), and retried or held for the person.
OpenFails(retryable, recorded) ==
    /\ adm.pc = "opening" /\ Spend("open")
    /\ live' = [live EXCEPT !.reg = FALSE, !.closed = TRUE]
    /\ status' = IF recorded THEN "cold" ELSE status
    /\ IF retryable THEN StartFailed ELSE HoldForPerson
    /\ Admitted
    /\ UNCHANGED <<wake, turn, epoch, paused, retired, pool, up, storeFailed, survivor, recheck, look, world>>

AttachWrite ==
    /\ adm.pc = "opened" /\ Fenced
    /\ live' = [live EXCEPT !.starting = FALSE]
    /\ status' = StatusOf(live')
    /\ Go("look")
    /\ UNCHANGED <<wake, turn, epoch, paused, retired, pool, up, gates, kicked, look, world, budget>>

\* The write failed, or the epoch has moved on: the process is closed
\* ("attach_failed"), and the attach waits for the pump to record its end.
AttachWriteFails ==
    /\ adm.pc = "opened"
    /\ IF Fenced THEN Spend("store") ELSE Free
    /\ live' = [live EXCEPT !.reason = TRUE]
    /\ cli' = IF cli.state \in Serving THEN [cli EXCEPT !.state = "closing"] ELSE cli
    /\ Go("closing")
    /\ UNCHANGED <<rows, up, gates, kicked, look, orphans, nextTurn, got, how>>

AttachClosed ==
    /\ adm.pc = "closing" /\ live.closed
    /\ live' = [live EXCEPT !.reg = FALSE]
    /\ status' = IF Fenced THEN "cold" ELSE status
    /\ StartFailed
    /\ Admitted
    /\ UNCHANGED <<wake, turn, epoch, paused, retired, pool, up, storeFailed, survivor, recheck, look, world, budget>>

\* _run_admission, under the lock: what waits for the session now.
Look ==
    /\ adm.pc = "look"
    /\ IF Ended(live) \/ Busy(live) \/ Queued(wake) = {}
       THEN Admitted
       ELSE adm' = [adm EXCEPT !.pc = "ready", !.ws = Queued(wake)] /\ UNCHANGED kicked
    /\ UNCHANGED <<rows, up, live, gates, look, world, budget>>

\* After the awaits of the checks: nothing is sent on a stale look.  The input
\* opens before the CLI hears of it.
Send ==
    /\ adm.pc = "ready"
    /\ IF Ended(live) \/ Busy(live)
       THEN Admitted /\ UNCHANGED live
       ELSE /\ live' = [live EXCEPT !.input = "open"]
            /\ Go("sending")
            /\ UNCHANGED kicked
    /\ UNCHANGED <<rows, up, gates, look, world, budget>>

\* The CLI has the input: it starts a turn, or adds it to the one it runs (a
\* turn of its own the pump has not heard of yet).  The runtime says the turn
\* started before its send returns.
CliAccept ==
    /\ adm.pc = "sending" /\ cli.state \in Serving
    /\ \/ /\ cli.turn = NoTurn /\ nextTurn \in Turns
          /\ nextTurn' = nextTurn + 1
          /\ cli' = [cli EXCEPT !.turn = nextTurn, !.idle = FALSE,
                                !.q = Append(@, [kind |-> "started", turn |-> nextTurn])]
       \/ /\ cli.turn # NoTurn
          /\ UNCHANGED <<cli, nextTurn>>
    /\ adm' = [adm EXCEPT !.pc = "accepted", !.turn = cli'.turn]
    /\ got' = [got EXCEPT ![cli'.turn] = @ \cup adm.ws]
    /\ UNCHANGED <<rows, up, live, gates, kicked, look, orphans, how, budget>>

\* session.send raised: nothing of the input reached the CLI, so it ends, and
\* the wakes were handed to no turn: _send_failed drops them, closes the pool,
\* or backs the session off.
Unsent == live.turn = NoTurn /\ live.input = "open"

Unopened ==
    /\ Unsent => Fenced
    /\ live' = [(IF Unsent THEN EndInput(live) ELSE live) EXCEPT !.dying = cli.state \notin Serving]
    /\ status' = IF Unsent THEN StatusOf(live') ELSE status

SendErrors == {"retryable", "fatal", "refused", "rate_limited"}

\* _send_failed: a failure that may pass backs the session off, one that will
\* not waits for the person, a refused input is dropped, a limit closes the
\* pool.  A send that found the process gone changes nothing: the pump records
\* its end.
GaveUp(code) ==
    /\ CASE code = "retryable" -> RetryLater
         [] code = "fatal"     -> HoldForPerson
         [] OTHER              -> UNCHANGED <<backoff, starts>>
    /\ wake' = IF code = "refused" /\ Fenced THEN Drop(wake, adm.ws) ELSE wake
    /\ pool' = IF code = "rate_limited" THEN "closed" ELSE pool
    /\ Admitted
    /\ UNCHANGED <<turn, epoch, paused, retired, up, survivor, recheck, look, orphans, nextTurn, got, how>>

SendFails(code) ==
    /\ adm.pc = "sending" /\ cli.state \in Serving /\ Spend("send")
    /\ Unopened /\ GaveUp(code)
    /\ UNCHANGED <<storeFailed, cli>>

SendFindsDead ==
    /\ adm.pc = "sending" /\ cli.state \notin Serving
    /\ Unopened /\ GaveUp("process_died")
    /\ UNCHANGED <<storeFailed, cli, budget>>

\* The write that ends the input was not made either.
SendFailsUnrecorded(code) ==
    /\ adm.pc = "sending" /\ Unsent
    /\ IF cli.state \in Serving THEN code # "process_died" /\ "send" \in Faults ELSE code = "process_died"
    /\ Unrecorded([live EXCEPT !.dying = code = "process_died"], cli) /\ GaveUp(code)
    /\ UNCHANGED status

\* (mutant) the turn is running whatever the pump recorded meanwhile
SendReturnBegins ==
    /\ adm.pc = "accepted"
    /\ live' = LET l == [live EXCEPT !.took = TRUE]
               IN  IF l.turn = NoTurn THEN BeginTurn(l, adm.turn) ELSE l
    /\ Go("take")
    /\ UNCHANGED <<rows, up, gates, kicked, look, world, budget>>

\* send returned: unless the pump recorded the turn's end already, it is the
\* running turn from here on.
SendReturn ==
    /\ adm.pc = "accepted"
    /\ live' = LET l == [live EXCEPT !.took = TRUE]
               IN  IF l.turn = NoTurn /\ adm.turn # l.last.turn THEN BeginTurn(l, adm.turn) ELSE l
    /\ Go("take")
    /\ UNCHANGED <<rows, up, gates, kicked, look, world, budget>>

Took ==
    /\ turn' = EnsureTurn(turn, adm.turn, live.epoch)
    /\ wake' = TakeWakes(wake, adm.ws, adm.turn, turn'[adm.turn].status, live.last, retired)
    /\ status' = StatusOf(live)

\* The take write, fenced on the process's epoch: the wakes go to the turn, or
\* to the fate its end already had.
Take ==
    /\ adm.pc = "take" /\ Fenced
    /\ Took
    /\ Admitted
    /\ UNCHANGED <<epoch, paused, retired, pool, up, live, gates, look, world, budget>>

\* The epoch moved while the input was sent: the process is stale.
TakeStale ==
    /\ adm.pc = "take" /\ ~Fenced
    /\ live' = Abandoned(live)
    /\ cli' = CloseAsked(cli)
    /\ Admitted
    /\ UNCHANGED <<rows, up, gates, look, orphans, nextTurn, got, how, budget>>

\* The store failed the take: the task ends with the error, and the wakes are
\* still queued while the turn runs.
TakeFails ==
    /\ adm.pc = "take" /\ Fenced /\ Spend("store")
    /\ Admitted
    /\ UNCHANGED <<rows, up, live, gates, look, world>>

-----------------------------------------------------------------------------
(***************************************************************************)
(* The CLI process (external: the runtime's contract, adapters/contract.py)*)
(***************************************************************************)

Emit(e) == Append(cli.q, e)

\* The events of a process that ends: its open turn's end first, then its own.
LastEvents ==
    (IF cli.turn # NoTurn THEN Append(cli.q, [kind |-> "finished", turn |-> cli.turn]) ELSE cli.q)
        \o <<[kind |-> "closed", turn |-> NoTurn]>>

EndWith(end) == how' = IF cli.turn # NoTurn THEN [how EXCEPT ![cli.turn] = end] ELSE how

CliFinish(end) ==
    /\ cli.state \in Serving \cup {"closing"} /\ cli.turn # NoTurn
    /\ IF end = "completed" THEN Free ELSE Spend("cli")
    /\ cli' = [cli EXCEPT !.turn = NoTurn, !.idle = TRUE,
                          !.q = Emit([kind |-> "finished", turn |-> cli.turn])]
    /\ EndWith(end)
    /\ UNCHANGED <<rows, up, live, adm, gates, kicked, look, orphans, nextTurn, got>>

CliIdle ==
    /\ cli.state \in Serving /\ cli.turn = NoTurn /\ cli.idle
    /\ cli' = [cli EXCEPT !.idle = FALSE, !.q = Emit([kind |-> "idle", turn |-> NoTurn])]
    /\ UNCHANGED <<rows, up, live, adm, gates, kicked, look, orphans, nextTurn, got, how, budget>>

\* A runtime that misses its idle, or says a late or repeated one before the
\* turn's end.
CliMissesIdle ==
    /\ cli.state \in Serving /\ cli.idle /\ Spend("idle")
    /\ cli' = [cli EXCEPT !.idle = FALSE]
    /\ UNCHANGED <<rows, up, live, adm, gates, kicked, look, orphans, nextTurn, got, how>>

CliLateIdle ==
    /\ cli.state \in Serving /\ ~cli.idle /\ Spend("idle")
    /\ cli' = [cli EXCEPT !.q = Emit([kind |-> "idle", turn |-> NoTurn])]
    /\ UNCHANGED <<rows, up, live, adm, gates, kicked, look, orphans, nextTurn, got, how>>

\* A worker's end wakes the CLI: a turn of its own, with no input of ours.
CliOwnTurn ==
    /\ cli.state = "up" /\ cli.turn = NoTurn /\ nextTurn \in Turns /\ Spend("own")
    /\ nextTurn' = nextTurn + 1
    /\ cli' = [cli EXCEPT !.turn = nextTurn, !.idle = FALSE,
                          !.q = Emit([kind |-> "started", turn |-> nextTurn])]
    /\ UNCHANGED <<rows, up, live, adm, gates, kicked, look, orphans, got, how>>

CliDies ==
    /\ cli.state \in Serving /\ Spend("cli_dies")
    /\ cli' = [cli EXCEPT !.state = "dead"]
    /\ UNCHANGED <<rows, up, live, adm, gates, kicked, look, orphans, nextTurn, got, how>>

\* A close called before the runtime saw the death makes it an ordinary end.
CliDeathReported ==
    /\ cli.state = "dead"
    /\ cli' = [cli EXCEPT !.state = "gone", !.turn = NoTurn, !.q = LastEvents]
    /\ EndWith("crash") \/ (live.reason /\ EndWith("interrupted"))
    /\ UNCHANGED <<rows, up, live, adm, gates, kicked, look, orphans, nextTurn, got, budget>>

\* The close _abandon scheduled is called.
CliCloseCalled ==
    /\ cli.state = "asked"
    /\ cli' = [cli EXCEPT !.state = "closing"]
    /\ UNCHANGED <<rows, up, live, adm, gates, kicked, look, orphans, nextTurn, got, how, budget>>

\* A closed process ends within its grace (or is killed); the turn it ran is
\* reported interrupted.
CliExit ==
    /\ cli.state = "closing"
    /\ cli' = [cli EXCEPT !.state = "gone", !.turn = NoTurn, !.q = LastEvents]
    /\ EndWith("interrupted")
    /\ UNCHANGED <<rows, up, live, adm, gates, kicked, look, orphans, nextTurn, got, budget>>

OrphanExits ==
    /\ \E e \in orphans : orphans' = orphans \ {e}
    /\ UNCHANGED <<rows, up, live, adm, gates, kicked, look, cli, nextTurn, got, how, budget>>

-----------------------------------------------------------------------------
(***************************************************************************)
(* The pump: one event of the process at a time, each recorded in one      *)
(* fenced transaction.                                                     *)
(***************************************************************************)

Heard(kind) ==
    /\ up # "down" /\ ~live.closed /\ ~live.stale
    /\ cli.epoch = live.epoch /\ cli.q # <<>> /\ Head(cli.q).kind = kind

Popped == [cli EXCEPT !.q = Tail(@)]

Record(kind) == Heard(kind) /\ Fenced /\ cli' = Popped

PumpStarted ==
    LET t == Head(cli.q).turn
    IN  /\ Record("started")
        /\ live' = IF live.turn = t THEN live ELSE BeginTurn(live, t)
        /\ turn' = EnsureTurn(turn, t, epoch)
        /\ status' = StatusOf(live')
        /\ kicked' = (kicked \/ live.turn = NoTurn)
        /\ UNCHANGED <<wake, epoch, paused, retired, pool, up, adm, gates, look, orphans, nextTurn, got, how, budget>>

\* (mutant) a restart counts toward the redelivery bound
OutcomeCounts(end, reason) ==
    CASE end = "completed"   -> [status |-> "finished", fate |-> "consumed"]
      [] end = "interrupted" -> [status |-> "interrupted", fate |-> IF reason THEN "counted" ELSE "consumed"]
      [] OTHER               -> [status |-> "failed", fate |-> IF end = "failed" THEN "consumed" ELSE "counted"]

\* _outcome: the turn's status and what becomes of its wakes.
Outcome(end, reason) ==
    CASE end = "completed"   -> [status |-> "finished", fate |-> "consumed"]
      [] end = "interrupted" -> [status |-> "interrupted", fate |-> IF reason THEN "back" ELSE "consumed"]
      [] end = "retry"       -> [status |-> "failed", fate |-> "counted"]
      [] end = "crash"       -> [status |-> "failed", fate |-> IF reason THEN "consumed" ELSE "counted"]
      [] OTHER               -> [status |-> "failed", fate |-> "consumed"]

\* _turn_finished and turn_ended: the record, then backoff and admission.
PumpFinished ==
    LET t   == Head(cli.q).turn
        out == Outcome(how[t], live.reason)
    IN  /\ Record("finished")
        /\ live' = [live EXCEPT !.turn = NoTurn, !.input = "resulted", !.last = [turn |-> t, fate |-> out.fate],
                                !.backed = @ \/ out.fate = "counted"]
        /\ turn' = EndTurn(EnsureTurn(turn, t, epoch), t, out.status)
        /\ wake' = Settle(wake, t, out.fate, retired)
        /\ status' = StatusOf(live')
        /\ CASE how[t] = "completed"     -> backoff' = "none" /\ starts' = 0
             [] out.fate = "counted"     -> FailedAlone(live)
             [] OTHER                    -> UNCHANGED <<backoff, starts>>
        /\ kicked' = TRUE
        /\ UNCHANGED <<epoch, paused, retired, pool, up, adm, storeFailed, survivor, recheck, look, orphans,
                       nextTurn, got, how, budget>>

\* An idle ends the input only once a turn of it ended and none has started
\* since; a late one changes nothing (and writes nothing).
EndsInput == live.input = "resulted" /\ live.turn = NoTurn

PumpIdle ==
    /\ Record("idle") /\ EndsInput
    /\ live' = EndInput(live) /\ status' = StatusOf(live')
    /\ kicked' = TRUE
    /\ UNCHANGED <<wake, turn, epoch, paused, retired, pool, up, adm, gates, look, orphans, nextTurn, got, how, budget>>

PumpLateIdle ==
    /\ Heard("idle") /\ ~EndsInput /\ cli' = Popped
    /\ UNCHANGED <<rows, up, live, adm, gates, kicked, look, orphans, nextTurn, got, how, budget>>

\* session_closed: a process that ended by itself backs the session off.
Closed(l) == [l EXCEPT !.closed = TRUE, !.reg = FALSE, !.turn = NoTurn, !.input = "none"]

ClosedAlone ==
    IF ~live.reason /\ up = "up" /\ ~live.backed THEN FailedAlone(live) ELSE UNCHANGED <<backoff, starts>>

PumpClosed ==
    /\ Record("closed")
    /\ live' = Closed(live)
    /\ status' = StatusOf(live')
    /\ ClosedAlone
    /\ kicked' = TRUE
    /\ UNCHANGED <<wake, turn, epoch, paused, retired, pool, up, adm, storeFailed, survivor, recheck, look, orphans,
                   nextTurn, got, how, budget>>

\* An event whose write is not made: the facts go back to what they were.  The
\* end of the process is kept in memory all the same.
PumpUnrecorded ==
    /\ \/ Heard("started") /\ Unrecorded(BeginTurn(live, Head(cli.q).turn), Popped)
       \/ Heard("finished") /\ Unrecorded(live, Popped)
       \/ Heard("idle") /\ EndsInput /\ Unrecorded(live, Popped)
    /\ UNCHANGED <<rows, up, adm, backoff, starts, survivor, recheck, kicked, look, orphans, nextTurn, got, how>>

PumpClosedUnrecorded ==
    /\ Heard("closed") /\ Unrecorded(Closed(live), Popped)
    /\ ClosedAlone
    /\ kicked' = TRUE
    /\ UNCHANGED <<rows, up, adm, survivor, recheck, look, orphans, nextTurn, got, how>>

\* What a stale process still says is read and dropped, up to its end.
PumpDrain ==
    /\ up # "down" /\ live.stale /\ ~live.closed /\ cli.epoch = live.epoch /\ cli.q # <<>>
    /\ cli' = Popped
    /\ IF Head(cli.q).kind = "closed"
       THEN live' = [live EXCEPT !.closed = TRUE] /\ kicked' = TRUE
       ELSE UNCHANGED <<live, kicked>>
    /\ UNCHANGED <<rows, up, adm, gates, look, orphans, nextTurn, got, how, budget>>

-----------------------------------------------------------------------------
(***************************************************************************)
(* Timers, pools, and the settling of a failed store.                      *)
(***************************************************************************)

\* IDLE_MISSING_S without an event while an input waits between turns, so the
\* CLI owes none (IDLE_MISSING_S: a real gap is never this quiet): it ends as at
\* an idle.
IdleIsMissing ==
    /\ up # "down" /\ ~live.stale /\ ~live.closed /\ ~Ended(live)
    /\ EndsInput
    /\ cli.turn = NoTurn /\ ~cli.idle /\ cli.q = <<>>

IdleMissing ==
    /\ IdleIsMissing /\ Fenced
    /\ live' = EndInput(live) /\ status' = StatusOf(live')
    /\ kicked' = TRUE
    /\ UNCHANGED <<wake, turn, epoch, paused, retired, pool, up, adm, gates, look, world, budget>>

IdleMissingUnrecorded ==
    /\ IdleIsMissing /\ Unrecorded(live, cli)
    /\ UNCHANGED <<rows, up, adm, backoff, starts, survivor, recheck, kicked, look, orphans, nextTurn, got, how>>

\* _release after IDLE_RELEASE_S, or _at_idle at once when the session was
\* retired (Engine.retired).
Release ==
    /\ up = "up" /\ live.reg /\ Idle(live) /\ ~Locked /\ ~live.reason
    /\ IF retired THEN Free ELSE Spend("release")
    /\ ClosesIdle
    /\ UNCHANGED <<rows, up, adm, gates, kicked, look, orphans, nextTurn, got, how>>

PoolCloses ==
    /\ up = "up" /\ pool = "open" /\ Spend("pool")
    /\ pool' = "closed"
    /\ UNCHANGED <<wake, turn, epoch, status, paused, retired, up, live, adm, gates, kicked, look, world>>

PoolReopens ==
    /\ up = "up" /\ pool = "closed"
    /\ pool' = "open" /\ kicked' = TRUE
    /\ UNCHANGED <<wake, turn, epoch, status, paused, retired, up, live, adm, gates, look, world, budget>>

\* Turns that run are interrupted and every wake they took goes back, on a new
\* epoch: it is not the messages' fault.
SettleStoreFailed ==
    /\ up = "up" /\ storeFailed
    /\ turn' = InterruptRunning(turn)
    /\ wake' = HandBackAll(wake, Running(turn), retired)
    /\ status' = "cold" /\ epoch' = epoch + 1
    /\ storeFailed' = FALSE /\ kicked' = TRUE
    /\ UNCHANGED <<paused, retired, pool, up, live, adm, backoff, starts, survivor, recheck, look, world, budget>>

-----------------------------------------------------------------------------
(***************************************************************************)
(* Shutdown, crash, and boot recovery.                                     *)
(***************************************************************************)

\* Admission is cancelled where it stands (a take under way may still have
\* been committed by the store's thread), and every process is closed.
Shutdown ==
    /\ up = "up" /\ Spend("shutdown")
    /\ up' = "closing" /\ look' = FALSE
    /\ adm' = NoAdm
    /\ \/ UNCHANGED <<turn, wake, status>>
       \/ adm.pc = "take" /\ Fenced /\ Took
    /\ live' = CASE adm.pc = "opening" -> [live EXCEPT !.reg = FALSE, !.closed = TRUE]
                 [] OTHER -> [live EXCEPT !.reason = TRUE]
    /\ cli' = IF cli.state \in Serving /\ adm.pc # "opening" THEN [cli EXCEPT !.state = "closing"] ELSE CloseAsked(cli)
    /\ UNCHANGED <<epoch, paused, retired, pool, gates, kicked, orphans, nextTurn, got, how>>

\* The server process is gone, with everything in memory; a CLI that still
\* runs is an orphan.
Gone ==
    /\ up' = "down" /\ live' = NoLive /\ adm' = NoAdm
    /\ backoff' = "none" /\ starts' = 0 /\ storeFailed' = FALSE /\ survivor' = FALSE /\ recheck' = FALSE
    /\ kicked' = FALSE /\ look' = FALSE
    /\ cli' = NoCli
    /\ orphans' = orphans \cup (IF cli.state \in Serving \cup {"closing"} THEN {cli.epoch} ELSE {})
    /\ how' = IF cli.turn # NoTurn THEN [how EXCEPT ![cli.turn] = "interrupted"] ELSE how
    /\ UNCHANGED <<rows, nextTurn, got>>

ShutdownDone == up = "closing" /\ live.closed /\ Gone /\ Free

ServerCrash == up # "down" /\ Spend("crash") /\ Gone

\* recovery.recover and Engine.start: the processes of the last run are stopped
\* (`left' are those that could not be), then one transaction settles what they
\* did, and the session is held back while one may still run for it.
Boot ==
    /\ up = "down"
    /\ \E left \in SUBSET orphans :
          /\ orphans' = left
          /\ survivor' = (left # {})
    /\ turn' = InterruptRunning(turn)
    /\ wake' = HandBackAll(wake, Turns, retired)
    /\ IF ~retired /\ (status # "cold" \/ \E w \in Wakes : wake[w].state = "taken")
       THEN status' = "cold" /\ epoch' = epoch + 1
       ELSE UNCHANGED <<status, epoch>>
    /\ up' = "up" /\ kicked' = TRUE
    /\ UNCHANGED <<paused, retired, pool, live, adm, backoff, starts, storeFailed, recheck, look, cli, nextTurn,
                   got, how, budget>>

\* _recheck_survivor: a message asked whether the old process is gone now.
RecheckSurvivor ==
    /\ up = "up" /\ recheck
    /\ recheck' = FALSE
    /\ orphans' \in SUBSET orphans
    /\ survivor' = (orphans' # {})
    /\ kicked' = (kicked \/ orphans' = {})
    /\ UNCHANGED <<rows, up, live, adm, backoff, starts, storeFailed, look, cli, nextTurn, got, how, budget>>

-----------------------------------------------------------------------------
Api == (\E w \in Wakes : Deliver(w)) \/ Pause \/ Resume \/ Retire

Admission ==
    \/ PassRead \/ PassAct \/ AttachBump \/ Open \/ AttachWrite \/ AttachWriteFails \/ AttachClosed
    \/ \E retryable, recorded \in BOOLEAN : OpenFails(retryable, recorded)
    \/ Look \/ Send \/ SendReturn \/ Take \/ TakeStale \/ TakeFails
    \/ SendFindsDead \/ \E code \in SendErrors : SendFails(code)
    \/ \E code \in SendErrors \cup {"process_died"} : SendFailsUnrecorded(code)

Cli ==
    \/ CliAccept \/ CliIdle \/ CliMissesIdle \/ CliLateIdle \/ CliOwnTurn \/ CliDies \/ CliDeathReported \/ CliCloseCalled
    \/ CliExit \/ OrphanExits
    \/ \E end \in {"completed", "failed", "retry"} : CliFinish(end)

Pump ==
    \/ PumpStarted \/ PumpFinished \/ PumpIdle \/ PumpLateIdle \/ PumpClosed
    \/ PumpUnrecorded \/ PumpClosedUnrecorded \/ PumpDrain

Timers == BackoffOver \/ IdleMissing \/ IdleMissingUnrecorded \/ Release \/ PoolCloses \/ PoolReopens \/ SettleStoreFailed

Life == Shutdown \/ ShutdownDone \/ ServerCrash \/ Boot \/ RecheckSurvivor

Next == Api \/ Admission \/ Cli \/ Pump \/ Timers \/ Life

Spec == Init /\ [][Next]_vars

\* What the code's scheduling gives: the event loop runs every ready task, its
\* timers fire, a CLI finishes the turns it is given and a closed one ends, and
\* a server that went down is started again.  No caller has to do anything.
Fairness ==
    /\ WF_vars(PassRead \/ PassAct)
    /\ WF_vars(AttachBump \/ Open \/ AttachWrite \/ AttachClosed \/ Look \/ Send \/ SendReturn \/ Take \/ TakeStale
                 \/ SendFindsDead)
    /\ WF_vars(~Fenced /\ AttachWriteFails)
    /\ WF_vars(PumpStarted \/ PumpFinished \/ PumpIdle \/ PumpLateIdle \/ PumpClosed \/ PumpDrain)
    /\ WF_vars(~Fenced /\ (PumpUnrecorded \/ PumpClosedUnrecorded))
    /\ WF_vars(~Fenced /\ IdleMissingUnrecorded) /\ WF_vars(~Fenced /\ SendFailsUnrecorded("process_died"))
    /\ WF_vars(BackoffOver) /\ WF_vars(IdleMissing) /\ WF_vars(PoolReopens) /\ WF_vars(SettleStoreFailed)
    /\ WF_vars(CliAccept) /\ WF_vars(CliFinish("completed") \/ CliIdle)
    /\ WF_vars(CliDeathReported) /\ WF_vars(CliCloseCalled) /\ WF_vars(CliExit)
    /\ WF_vars(ShutdownDone) /\ WF_vars(Boot)

FairSpec == Spec /\ Fairness

-----------------------------------------------------------------------------
(***************************************************************************)
(* What must never be true.                                                *)
(***************************************************************************)

\* A wake is `taken' only while the turn that took it is recorded as running:
\* whatever ends a turn (its own end, a crash, a failed store, a restart) lets
\* go of its wakes in the same transaction (finish_turn, _settle,
\* _settle_store_failed), so none is ever stuck with a turn that is over.
TakenHasRunningTurn ==
    \A w \in Wakes : wake[w].state = "taken" => wake[w].turn \in Running(turn)

\* A turn recorded as running while the server is up is one whose end will
\* still be recorded: the CLI runs it or its end is in the queue of a process
\* that is not stale, or the settling of the failed store will end it.
NoTurnIsStranded ==
    up = "up" =>
        \A t \in Running(turn) :
            \/ storeFailed
            \/ /\ ~live.closed /\ ~live.stale /\ turn[t].epoch = epoch
               /\ \/ cli.turn = t
                  \/ \E i \in 1 .. Len(cli.q) : cli.q[i] = [kind |-> "finished", turn |-> t]

\* A wake is consumed only by a turn whose CLI really received it (send and take
\* are two steps, and a turn can end between them).
ConsumedWasReceived ==
    \A w \in Wakes : wake[w].state = "consumed" => w \in got[wake[w].turn]

\* While the server and its store hold, a message goes to a second turn only if
\* the first one failed: a turn that ended before send returned, or before its
\* wakes were recorded as taken, has still had them (take_wakes, _last_end).
SentAgainOnlyAfterFailure ==
    \A w \in Wakes, s, t \in Turns :
        s < t /\ w \in got[s] \cap got[t] => how[s] \in {"retry", "crash"}

\* The turns that took wake w and failed.
FailedTurns(w) == {t \in Turns : w \in got[t] /\ how[t] \in {"failed", "retry", "crash"}}

\* A message is given up only once more than MAX_REDELIVERIES turns failed with it,
\* whatever restarts, shutdowns and failed writes came between (hand_back); or
\* because its session is retired, or the CLI refused it for good.
GivenUpAfterFailures ==
    [][\A w \in Wakes : wake[w].state # "dropped" /\ wake'[w].state = "dropped" =>
          \/ Cardinality(FailedTurns(w)') > MaxRedeliveries
          \/ retired
          \/ adm.pc = "sending" /\ w \in adm.ws /\ adm'.pc # "sending" /\ up' = "up"]_vars

\* A retired session keeps no wake: what was queued went to its successor, and
\* no admission that was under way gives it one (recycle.succeed).
RetiredHoldsNoWake ==
    retired => \A w \in Wakes : wake[w].state \notin {"queued", "taken"}

\* The turn the engine shows as running is one the CLI runs, or whose end it
\* has still to read: a session never shows a turn that is over.
TurnShownIsReal ==
    ~live.closed /\ ~live.stale /\ live.turn # NoTurn =>
        \/ cli.turn = live.turn
        \/ \E i \in 1 .. Len(cli.q) : cli.q[i] = [kind |-> "finished", turn |-> live.turn]

-----------------------------------------------------------------------------
(***************************************************************************)
(* What a step may never do.                                               *)
(***************************************************************************)

\* A wake that is done stays done, whatever a late take, a hand-back or a boot
\* does: nothing is delivered twice after it was consumed or dropped.
DoneStaysDone ==
    [][\A w \in Wakes : wake[w].state \in {"consumed", "dropped", "moved"} => wake'[w] = wake[w]]_vars

\* A process is opened only when no other of the session may still work: the one
\* before was told to end, and none survived the last restart.
OneProcessWorks ==
    [][cli'.state = "up" /\ cli'.epoch # cli.epoch => cli.state # "up" /\ ~survivor]_vars

\* The session implements the queue its senders are promised (WakeQueue).
Queue == INSTANCE WakeQueue WITH
    Items <- Wakes, Bound <- MaxRedeliveries,
    queue   <- Queued(wake),
    hands   <- {TakenBy(wake, t) : t \in Turns} \ {{}},
    done    <- {w \in Wakes : wake[w].state = "consumed"},
    givenUp <- {w \in Wakes : wake[w].state = "dropped"},
    moved   <- {w \in Wakes : wake[w].state = "moved"},
    tries   <- [w \in Wakes |-> wake[w].redelivery],
    closed  <- retired

QueueOfWakes == Queue!QSpec

-----------------------------------------------------------------------------
(***************************************************************************)
(* What must happen.                                                       *)
(***************************************************************************)

\* A wake that waits is settled in the end, unless the person has to act (the
\* session is paused, waits for their next message, or a process from before
\* the restart may still run).  MaxTurns must leave a turn for every fault.
EveryWakeIsSettled ==
    \A w \in Wakes :
        wake[w].state \in {"queued", "taken"}
            ~> \/ wake[w].state \in {"consumed", "dropped", "moved"}
               \/ paused \/ backoff = "hold" \/ survivor

=============================================================================
