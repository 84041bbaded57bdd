# Verification of XO Space

XO Space is a local server that fronts agent CLIs (Claude Code, Codex and
others).  Its core is *storm* (`src/services/cowork_agent/storm/`): an engine
that turns what waits for a session (a person's message, a review decision, a
note of another session) into turns of the session's CLI, the conversation
around it (chats, threads, reviews), and a live stream of it all.  Beside it run
a scheduler of jobs, pollers of connected services and an inbox.  All of it must
neither lose nor duplicate work when processes die, writes fail, requests
overlap or the server restarts.  This directory models these parts in TLA+,
checks them with TLC and proves theorems about them with TLAPS.

    tlc -config StormSession_safety.cfg MCStormSession    # also _inputs, _live
    tlc -config StormReview_safety.cfg  MCStormReview     # also _grants, _lost
    tlc -config StreamBus_all.cfg       MCStreamBus
    tlc -config ThreadInputs_all.cfg    MCThreadInputs    # also _redone
    tlc -config TimelineRouting_all.cfg MCTimelineRouting
    tlc -config AgentJobs_runs.cfg      MCAgentJobs
    tlc -config Inbox_all.cfg           MCInbox
    tlapm StormSession_proofs.tla   # and StormSessionCli_, WakeQueue_, StormReview_, ThreadInputs_,
                                    # TimelineRouting_, AgentJobs_, Inbox_proofs

PROJECT.json names, for every definition, the lines of the code it models
("map"), for every property a plausible bug that breaks it ("mutants"), and the
hazards the properties are aimed at, each at its line ("hazards").

## 1. Inventory of the system

| part | state | operations | how it interacts | what makes it hard | what makes it correct |
|---|---|---|---|---|---|
| engine (`storm/engine/engine.py`) | `_live`, `_admitting`, `_paused`, `_store_failed`, `_survivors`, `_backoff`, timers | deliver, pause, resume, stop, update, admission passes and tasks, hand-off of events, settling, shutdown | callers call it, it opens runtimes, writes the store, kicks itself | passes decide on snapshots taken before awaits; tasks are cancelled at any await | every wake settled once, one process per session, no wake behind a dead turn |
| live session (`engine/session.py`) | facts (turn, input, closed, held, runs), `close_reason`, last end | attach, send, stop, hold, the event pump, idle watchdog | pump reads the runtime's events; send writes to it; facts change with the write that records them | `send` and the pump race over the same turn | the shown turn is real; wakes get the fate of the turn that had them |
| store (`store/db.py`, `schema.sql`) | sessions, turns, wakes, runs, pools, procs, review items, events | one writing thread, one transaction at a time | everything writes through `Engine.write` | a write can fail, or be committed though its caller was cancelled | a transaction is all or nothing |
| recovery (`store/recovery.py`) | | recover, reap orphans, settle, hand back | at boot, and by turn ends | survivors of the last run; repeated crashes | everything taken goes back exactly once, only failures count |
| admission (`engine/admission.py`) | pools | pool state, fair order, aging | read by the passes | limits that reset, starvation | no start beyond a limit, nobody waits for ever |
| coordinator recycling (`chats/recycle.py`) | | succeed | inside `between_inputs` | an admission or a delivery under way for the session being retired | the successor has every wake, the retired one none |
| review (`storm/review/`) | items, rules, grants, denial streaks | open, park, decide, expire, withdraw, supersede, count | holds a CLI's call, wakes the session with the decision | decision, expiry, withdrawal and the call's end race | each item settled once, the answer reaches the call or a wake |
| sub-agent runs (`storm/runs/`) | runs of a session's workers | reconcile, stop | events and the CLI's own list | lost runs at a restart | a run that is over is not shown as live |
| a thread's conversation (`chats/lifecycle.py`, `cards.py`, `conversation.py`) | the thread's page state, the judgements in the log | judge an ended input, send the reply gate, follow a pause, boot's pass | listens to the engine's commits, in tasks; writes the same rows as posts, decisions, pauses | a judgement reads in one transaction and writes in a later one; several ends ask for one | each turn judged once; the page says what is so |
| a chat's timeline (`chats/delivery.py`, `router.py`) | messages, router decisions | post, resume, route by a decision model, hand over to the coordinator, boot's pass | wakes the coordinator, threads and projects | a POST is answered before its routing is done; retries overlap | a message is somebody's, once, or said to be no one's |
| comms (`storm/comms/`) | tokens per process | the tools a session calls | fenced by the process's epoch | a stale process still calling | a stale process changes nothing |
| stream (`storm/stream/`) | per client a bounded queue | subscribe, replay, offer, snapshot | listens to commits | replay/live splice, overflow, prunes | each stored frame once and in order, or a reset |
| worktrees (`storm/worktrees/`) | git worktrees | ensure, remove | before a turn | interrupted git commands | a worktree with work in it is kept |
| scheduler (`utils/commands/scheduler.py`) | jobs.json, state.json, runs/*.jsonl, running jobs | tick, run now, create, update, disable, delete, list | hands an agent job's fires to storm | a call writes several files; the clock, the slots, the command cap | no slot run twice, every fire answered |
| storm's jobs (`storm/jobs/`) | coroutines that open fires, save and register jobs | open a run, save, register an allowed item, retire | the scheduler's runner; threads and wakes in the store | two stores, awaits between look and commit | one thread per fire; an allowed item makes one job |
| connections poller (`services/connections/`) | config.json, state.json, events.jsonl per connection | poll by the loop and by hand, PUT, DELETE | asks the provider, appends events | three files, awaits, a person's DELETE in another thread | a thing is collected once, unless a save was lost |
| inbox (`services/inbox/`) | inbox.json: items and cursors | refresh (feeders), PATCH, DELETE, add | reads todos, issue mirrors, the connections' events | refreshes overlap and apply snapshots | one item per thing, deleted stays deleted, nothing passed over |
| CLI runtimes (`adapters/`) | a process and its protocol | open, send, events, close | the engine's `Session` contract | death, silence, turns of the CLI's own | the contract's order of events |
| sharing, sync, terminal, doctor, connectors, usage, self update, classic chat | JSON documents, processes | CRUD, loops | outside services | crash between two files | listed in PROJECT.json |

## 2. Modules

| module | what it is |
|---|---|
| `StormStore` | the rows one session's engine works on and the transactions on them: `HandBack`, `Settle`, `TakeWakes`, `EnsureTurn`, `HandBackAll`, ... pure operators, table to table |
| `StormSession` | one session: engine, admission task, pump, timers, CLI process, crash and boot, as one state machine over the store |
| `WakeQueue` | what a session promises its senders: a queue whose items are taken in batches, finished or given back whole, given up after too many failures |
| `StormReview` | one session's review queue: calls of the CLI held for the person, their items, and every way one is settled |
| `ThreadInputs` | a thread's conversation: the listener that judges ended inputs, the page's state, posts, pauses, resumes, blocking items, and the loop breaker |
| `TimelineRouting` | a timeline message's way: straight to the coordinator, or through a decision model, with retries, restarts, recycles and the removal of its project |
| `StreamBus` | the live stream as one client gets it: bus, queue, replay, snapshot, reconnects |
| `EventFeed` | what the stream promises: the stored frames, each once and in order, or being told to start again |
| `Scheduler` | the scheduler's calls under its lock, file by file |
| `AgentJobs` | extends `Scheduler` with storm's side: fires that open threads, saves, allowed items, retired projects |
| `ConnectionPoller` | one polled connection: its two pollers, its lock, its three files, DELETE and PUT |
| `Inbox` | extends `ConnectionPoller` with the inbox fed from it, from todos and from issue mirrors |
| `MC...` | the instances TLC checks: constants, the mixes of faults, symmetry; `MCStreamBus` and `MCAgentJobs` also state properties |
| `..._proofs` | theorems and lemmas: `StormSession_proofs`, `StormSessionCli_proofs`, `StormReview_proofs`, `StreamBus_proofs`, `ThreadInputs_proofs`, `TimelineRouting_proofs`, `AgentJobs_proofs`, `Inbox_proofs` |

`StormSession` is the engine in full.  The modules about what surrounds it
(`StormReview`, `ThreadInputs`, `TimelineRouting`, `AgentJobs`) take from it only
what they see: that a turn begins and ends, that wakes wait and are taken, that
the server stops.  Composition is by `EXTENDS` where two components share files
and locks and interleave step by step (scheduler and storm's jobs, poller and
inbox).

### State and code

`StormStore`, `StormSession`:

* `wake`, `turn`, `epoch`, `status`, `paused`, `retired`, `pool` are rows of the
  store: wakes, turns, and the session's and its pool's row.  They survive
  everything.  A wake's `state` is the column; `moved` stands for the row
  deleted here and inserted for the successor.  `back` is the column that says
  the wake was handed back.
* `live` is the `LiveSession` and its `_Facts`, `adm` the admission task and the
  await it is at (`attach`, `opening`, `opened`, `closing`: inside `_attach`;
  `look`, `ready`: in `_run_admission` before the send; `sending`, `accepted`,
  `take`: inside `LiveSession.send`).  `look` is the snapshot a pass holds
  between its filters and `_admit`; `kicked` the event `kick` sets.  `backoff`,
  `starts` are `_Backoff`; `storeFailed`, `survivor` the membership of the
  session in `_store_failed` and `_survivors`; `recheck` a recheck of the
  survivor that is under way.
* `cli` is the process the engine opened last, with the events its pump has not
  read; `orphans` the older ones that still run.  `got` and `how` are history:
  the wakes each turn's CLI really received, and how the turn really ended.  No
  guard of the engine's reads them, but `Outcome` reads `how` for what the
  event says.

`StormReview`: `item`, `grant`, `news` (the wake of a decision or an expiry) and
`mail` (the other wakes) are rows of the store; `live.held` is `_Facts.held`,
`call[c].future` the future of `Held`, `unparked` is `Engine._unparked`, `dec` the one
decision `ReviewQueue._deciding` lets through.  `q` is the lock
`LiveSession._writing`: the writes in the order asyncio serves them, the first of
them `out` (prepared, on the store's thread), `made` or `failed` (committed or not,
its writer not yet resumed).  That order is what the module is about: what a
writer looked at before it waited may have changed when its write starts.

`ThreadInputs`: `log` is the session's events in commit order, what the
judgements read; `wakes`, `paused`, `asks`, `breaker`, `state` are rows (`state` the
thread's, as the page shows it); `tasks` the listener's tasks for the session in
the order its lock serves them, `found` what the judgement under way has read,
`posts` and `resuming` the requests of the person between their two steps.  `denied`
and `followed` are history.

`TimelineRouting`: `stored`, `decision`, `wake`, `handoffs`, `told` are rows; each
*carrier* of a message (its POST, a retry of it, the routing task, boot's pass)
is one entry of `task`: the step it is at, what it wants a coordinator for (`then`)
and what it has read.  Coordinators are numbered as they are `started`;
`coordinator` is the one that is not retired, or 0.  The chat's lock
(`Chats._lock`) is held by the carrier at `look` or `start`, or to recycle
(`recycling`).  `late` and `missed` are history.

`StreamBus`: `log`, `pruned`, `aged` are the events table, `processed` and `running`
the bus's own place and fold, `live` its collected text, `sub` the subscriber's
queue with its flags, `conn` the task that serves the SSE request, `wire` the frame
it has yielded, `client` what the browser has.

`Scheduler`, `AgentJobs`: `jobs`, `state`, `runs` are the files; `tracked` is `_running`;
`op` the call that holds the lock, with its own copy of state.json, at the file
it writes next.  `opening[j]` and `task` are storm's coroutines at their awaits;
`chats`, `threads`, `item` rows of storm's store.

`ConnectionPoller`, `Inbox`: `config`, `saved`, `lines` are config.json, state.json and
events.jsonl; `polls` each poller's poll, with its copy of the state; `items`,
`cursors` are inbox.json; `runs` each refresh, with the cursors and the items it
read when it began and what its feeders found.  `told`, `late`, `dismissed`,
`recorded`, `replaced`, `unsaved` are history: `unsaved` counts how often what was
appended was left out of the saved cursors.

### Actions and code

Each action is what one actor does from one await (or one file, or one
transaction) to the next.

`StormSession`: `Deliver`, `Pause`, `Resume`, `Retire` (the API); `PassRead`, `PassAct` (a
pass), `AttachBump`, `Open`, `OpenFails`, `AttachWrite`, `AttachWriteFails`,
`AttachClosed` (`_attach`), `Look`, `Send`, `CliAccept`, `SendReturn`, `Take` and their
failures (`_run_admission` and `LiveSession.send`); `Pump...` (one event each);
`BackoffOver`, `IdleMissing`, `Release`, `PoolReopens`, `SettleStoreFailed` (timers);
`Shutdown`, `ShutdownDone`, `ServerCrash`, `Boot`, `RecheckSurvivor`.  The `Cli...`
actions are the process, as `adapters/contract.py` promises and
`claude_code/runtime/session.py` does.

`StormReview`: `Ask`, `TakesBack`, `TurnEnds`, `Dies`, `ReleasesIdle` are the CLI and its
host; `Pump...` its pump; `Decide`, `Route`, `DeliverOut`, `Expire` the queue;
`ParkOldest` the memory guard; `PassReads`, `PassGoes`, `Attach`, `Looks`, `Send`
admission; `StartWrite`, `Commit...`, `Return...` the writes; the rest the server's
life.

`ThreadInputs`: `StartTurn` ... `Restart` are the engine as the listener sees it;
`JudgeRead`, then `JudgeGate` or `JudgeCard` are `_input_ended` (what it reads, and the
gate or the card it writes), `FollowPause` is `_paused`, `Recover` boot's pass; `Post`,
`PostResume`, `Retry`, `Unpause`, `UnpauseResume`, `SetResolved`, `OpenAsk`, `CloseAsk`,
`Relay` the API and the coordinator; `Deny`, `Pause`, `Suggestion` the loop breaker.

`TimelineRouting`: `Post`, `Store`, `Deliver`, `Resume` are a POST; `Classify`, `HandOff`,
`Acknowledge`, `Settle`, `Say` the routing; `Find` (the chat is read under its lock),
`Look` (its coordinator, in a second read) and `Start` (the insert, after the awaits
on pin, runtime, catalog and pool) are `with_coordinator`, which both go through;
`FindRefused`, `StartRefused`, `CallRefused`, `DeliverRetired` the refusals it handles;
`Recover` boot's pass; `RecycleLook`, then `Recycle` or `RecycleBusy` a recycle; `Take`,
`Pause`, `Remove`, `SetMode`, `Restart`, `StoreFails` what happens around it.

`StreamBus`: `TurnBegins`, `TextRecorded`, `TurnEnds`, `Noted`, `Delta` are the agent and
the store's commits, `Announce` and `Flush` the bus, `CheckHead` ... `HangUp` the stream's
task (replay, going live, its queue), `Connect` and `Receive` the client; `Prune`,
`Drop`, `Stop`, `Restart` the rest.

`Scheduler`/`AgentJobs`: `Ticks`, `Reads`, `PersonCalls` begin a call, `CallSteps` write its
next file; `Look`, `Check`, `Commit`, `Opened` open a fire; the `TaskStep`s save,
register and turn off.

`ConnectionPoller`/`Inbox`: `Poll`, `Acquire`, `Open`, `RunCollector`, `Save` and their
failures (`OpenFails`, `CollectorFails`, `SessionLost`, `SaveFails`); `Start`, `FeedTodos`, `FeedIssues`, `FeedConnections`, `ApplyResults` a
refresh; `Patch`, `DeleteItem`, `CreateItem` the person; the rest the world.
### What is abstracted

In `StormSession`:

* A write of a live session and the change of the facts it carries are one
  step: `LiveSession.write` holds `_writing` and undoes the facts when the
  write fails.  What follows the write in the same handler without waiting for
  anything (backoff, kick) is part of the step.
* A pass's filters and its read of the store are one step (`PassRead`), the rest
  up to `_admit` another.  The register of the new process and the bump of its
  epoch are one step.
* The reading of the peak memory in `_turn_finished`, the memory guard and the
  pacing of spawns delay steps only, which interleaving covers.
* Pools are `open` or `closed` (limited); `warn` and `paid` admit the same wakes
  here.  A limit whose reset time is known reopens; one that has none waits for
  the person and is not modelled.
* The turns of a CLI are numbered as it starts them.  An own turn (a background
  worker's end) is the fault `own`.  A runtime queues `TurnStarted` before its
  `send` returns, and the end of an open turn before `SessionClosed`.
* A crash of the CLI has two moments: it is `dead`, and then reported.  A send
  fails with `process_died` only when the process no longer serves.
* Whether the coordinator's reply was judged (`input_ended`) is the caller's
  condition for retirement and may hold at any time.
* Redelivery texts, notes, events of the log and the stream are left out.

In `StormReview`:

* A turn is on or off, admission is cut to what reads the holds and sends, and a
  send is one step: `StormSession` has the rest.  A wake that was told is not
  followed further, but what a cut-off turn had waits again.
* A call asks for one action (its canonical hash).  The policy either finds an
  unspent grant for it or asks; rules, tiers, denials by policy, questions,
  secrets and usage items are left out.  The read of the grants and the place
  of the write in the lock's queue are one step.
* Time: an item expires when the expiry pass commits; grants do not time out
  (`GRANT_TTL_S`, 30 minutes), which only removes behaviours.
* When the pump cannot record, the writes queued behind are dropped with their
  process; in the code they run on it until it is fenced.
* A session whose store failed is not attached.
* A sub-agent's call outlives its turn; `TurnEnds` may come while calls wait, which
  covers it.

In `ThreadInputs`: the engine is cut to what the listener reads.  What an agent
says in a turn is one of reply, nothing-to-say, and a question to its
coordinator.  At boot, `recover`'s read precedes that of any POST, because the
store is one thread that serves in order (`db.py:141`).  The coordinators' branch
of the judgement, checklists, the hops' `delivered` and retired sessions are left
out.

In `TimelineRouting`: the classifier answers one of the constant `Choices` (in the
run none, one or both targets; one target stands for the other, which the
proofs do not assume); the coordinator takes all that waits in one step.
Everything between the look and the insert of a coordinator is one wait, in
which anything may happen.

In `StreamBus`: one client, one session, and of a turn's blocks only its text, of
which only the length matters.  Subscribers do not see each other.  The daily
prune takes what is older than the retention; that it never falls into a replay,
into a turn or between a client's loss of its connection inside the newest event
and its return is the constant `PruneDuring` (section 6).

In `Scheduler` and `AgentJobs`: whole seconds; a thread's own work is a flag that it
is `working`.  Hand-edited files, the switch `XO_SCHEDULER_ENABLED`, a clock that
goes back, and the prune of wakes 30 days after a fire, by which `_fired` would
no longer find it, are left out.

In `ConnectionPoller` and `Inbox`: one connection with two collectors, one server
process, `flock` always obtained (`flock.py` goes on without it after 2 s), a failed
close of the session and a failed state write one step (`SaveFails`: nothing is
written), a failed append any part of its lines, the removal of a folder one step, the seen list longer than what the provider lists,
no caps on what a feeder reads or on the items.  Mirrors are synced in the order
of the updates.  That a refresh is throttled is subsumed: one may start whenever
none runs, and the budget `overlap` lets two run at once, as the unlocked check
of the throttle does.

## 3. What is checked

Bounds.  Every unbounded thing is bounded by a named constant, and the
occurrences of faults and outside events by budgets.  In `StormSession` and
`StormReview` a run lists kinds of faults and how many of them may happen in all:
two faults are what it takes to have one during the recovery from another.  In
the later modules a run lists *mixes*: for each, how often each kind may happen.
A mix holds the kinds that interact (a pause that crosses a recycle and a
retry), so that every pair which touches the same state meets in some mix, and
the product with kinds that do not interact is not paid for.  Deadlock is not
checked: a system whose budgets are spent really stops.

| run | instance | states | properties |
|---|---|---|---|
| `session_safety` | 2 wakes, 2 turns, all 13 faults, 2 of them | 758,665 | `TypeOK`, `TakenHasRunningTurn`, `NoTurnIsStranded`, `ConsumedWasReceived`, `RetiredHoldsNoWake`, `DoneStaysDone`, `OneProcessWorks`, `QueueOfWakes`, `GivenUpAfterFailures` |
| `session_inputs` | 2 wakes, 3 turns, 9 faults, 3 of them | 259 k | `TurnShownIsReal`, `SentAgainOnlyAfterFailure` |
| `session_live` | 1 wake, 4 turns, 12 faults, 2 of them, fair | 114 k | `EveryWakeIsSettled` |
| `review_safety` | 2 calls for one action, 2 turns, 7 faults, 2 of them | 1.82 M | `RunsOnce`, `OpenItemIsHeld`, `SettledStays`, `OneActionOneItem` |
| `review_grants` | 3 calls, the last for the same or another action, 2 turns, 1 of: a call taken back, memory pressure, another message | 1.35 M | `RunsOnce` where two calls read one grant |
| `stream_all` | 3 events, 1 delta, queue of 2, pages of 1, 2 filters, 1 fault, fair | 145,363 | `ViewIsWhole`, `Feed`, `UpToDate` |
| `inputs_all` | 3 turns, 1 message, 1 relay, 11 mixes, fair | 200,559 | `TurnsAreJudgedOnce`, `PauseShownIsReal`, `ApprovalShownIsOpen`, `PausesOnAStreak`, `EveryTurnIsJudged` |
| `routing_all` | 2 messages, 2 targets, 9 mixes, fair | 352,143 | `RoutedOnce`, `QueuedIsLive`, `MessageLiftsPause`, `EveryMessageIsSomeones` |
| `jobs_runs` | 2 jobs, 2 chats, 1 item, 3 seconds, 8 mixes, fair | 229,244 | `OneThreadPerFire`, `SlotFiresOnce`, `FireIsAnswered`, `AllowedIsSettled` |
| `inbox_all` | 3 things of 2 collectors, 1 todo, 2 issues, 9 mixes, fair | 333,329 | `RepeatsAreUnsaved`, `CursorsMatchEvents`, `OneItemPerKey`, `DeletedIsNotReported`, `PassedIsTold`, `DoneSticks`, `ListedIsRecorded` |
| `review_lost`, `inputs_redone` | smallest that show it | | the findings of section 5 |

Why these bounds are enough to be worth something: a batch with different
histories needs two wakes; a bound on retries is reached on both sides with
`MaxRedeliveries` 1 in place of 3, `MaxFailedStarts` 2 in place of 5, `StreakToPause`
2 in place of 10; supersede and a second reader of a grant need two calls, three
where two read one grant; the splice of replay and live needs an event before,
at and after the subscription; two messages are what share a coordinator, a
recycle and a pause; a slot missed and a slot to come need three seconds; a
cursor that passes an event needs two events and one ahead of the clock.

The session's properties:

* `TakenHasRunningTurn`: a wake is taken only while the turn that took it runs.
* `NoTurnIsStranded`: a turn recorded as running has an end still to come.
* `ConsumedWasReceived`: a wake is consumed only by a turn whose CLI got it.
* `GivenUpAfterFailures`: only more failed turns than the bound give a message up,
  whatever restarts, shutdowns and failed writes came between; a message of a
  retired session or one the CLI refused is exempt.
* `RetiredHoldsNoWake`: a retired session has no wake left.
* `SentAgainOnlyAfterFailure`, `TurnShownIsReal`: with a store that holds, nothing is
  sent twice but after a failure, and the shown turn is real.  (With crashes and
  failed writes delivery is at least once by design: `recovery.py:16`.  A CLI's
  own turn breaks `TurnShownIsReal`, section 5.)
* `DoneStaysDone`, `OneProcessWorks`: what no step may do.
* `QueueOfWakes`: `StormSession` implements `WakeQueue` under the mapping at the end
  of the module: queue and batches are read off the wakes' rows, `tries` is the
  redelivery column.
* `EveryWakeIsSettled`: a wake that waits is consumed, dropped or moved in the end,
  unless the person has to act.

Of the review queue:

* `RunsOnce`: a call runs at most once on the decision of an item, and only if the
  person allowed it, by whichever way the decision came.
* `OpenItemIsHeld`: "no open item whose call is gone is ever left without a hold"
  (`engine.py:753`): it is held by its process, parked, held in memory, or its
  parking is still to come (boot, the settling after a failed write).
* `SettledStays`: decision, withdrawal, supersede, expiry and parking race, and the
  first one wins for good.
* `OneActionOneItem`: a new item is opened with no parked one for its action left.
  Exempt is one whose park failed: `supersede` looks at `parked = 1` only.

Of a thread and a timeline:

* `TurnsAreJudgedOnce`, `EveryTurnIsJudged`: the judgements partition the finished
  turns in order, whichever of an idle, a process's end and boot's pass asked for
  them; every finished turn is judged in the end, unless a queued wake leaves it
  to its own run, or the store failed the judgement.
* `PauseShownIsReal`, `ApprovalShownIsOpen`: the page's state against the rows it
  stands for, whatever posts, resumes, decisions and resolves cross.
* `PausesOnAStreak`: the loop breaker, against its definition over the history of
  denials.
* `RoutedOnce`, `QueuedIsLive`, `MessageLiftsPause`, `EveryMessageIsSomeones`: a timeline
  message is handed to each target once and never both routed and handed over;
  what waits, waits for a coordinator that is not retired itself and lifts its
  pause; and in the end it is somebody's, or said to be no one's.

Of the stream: `Feed` (the refinement of `EventFeed`: each stored frame once and in
order, or the client is told), `ViewIsWhole` (what the client shows of open
blocks is what the bus has, once what is on its way arrived), `UpToDate`.

Of jobs: `OneThreadPerFire`, `SlotFiresOnce` (a scheduled fire is of a slot that is
due, and the write that records it moves past it), `FireIsAnswered` and
`AllowedIsSettled` in the end.

Of connections and the inbox: `RepeatsAreUnsaved` (a thing is in events.jsonl once,
and once more at most for each time that what was appended was left out of the
saved cursors: a poll cut off, or its append, close or save failed),
`CursorsMatchEvents` (what the cursors call seen is in the file, whatever failed;
the total is exact once nobody polls, while no save was lost), `ListedIsRecorded`;
`OneItemPerKey`, `DeletedIsNotReported`, `PassedIsTold` (the cursor passes nothing the
inbox was not told of), `DoneSticks` (a person's done stays, whichever feeder
closed or reports the item).

### Liveness and fairness

No fairness is assumed of callers, faults or outside events.

* `session_live`: weak fairness of what the code schedules by itself: passes that
  were kicked, the admission task, the pump (asyncio runs every ready task); its
  timers (backoff, idle missing, pool reset, settling); the CLI finishing a turn
  it runs and exiting when it is closed (`_close` kills it after its grace);
  shutdown ending and the server being started again.  `own` is left out: the
  disagreement about the shown turn (section 5) is a way to wait for ever.
* `stream_all`: the bus's announcements and its flush timer, the stream's task, the
  client that reads and connects again, a stopped server started again.
* `inputs_all`, `routing_all`: the engine's turns end and what may run is admitted
  (`StormSession`); while a task or carrier can go on some does; a coordinator's
  recycle ends, with a successor or without.
* `jobs_runs`: the tick's loop, the writes of the call that holds the lock, and
  strong fairness of the coroutines that wait for that lock: it is a
  `threading.Lock`, and the loop that would take it again waits for its interval
  in between, so a waiter finds it free again and again.
* `inbox_all`: the connection's interval passes, the provider's calls end (an
  answer or an error; errors are bounded), a poll under way goes on; strong
  fairness of the tick's poll, which leaves a busy connection alone and comes
  back.
## 4. What is proved

Eight modules hold theorems; each is proved for every value of the constants
(any wakes, messages, bounds, budgets and mixes), where the runs show one small
instance.  The assumptions are the modules' own named ASSUMEs: bounds are
naturals, fault kinds are among those named, keys of different sources are
apart.  TLC evaluates them on every run.

| module | theorems | of the run's property |
|---|---|---|
| `StormSession_proofs` | `TypeCorrect`, `DoneIsDone`, `RetiredIsEmpty`, `TakenIsRunning`, `ImplementsQueue` | `TypeOK`, `DoneStaysDone`, `RetiredHoldsNoWake`, `TakenHasRunningTurn`, `QueueOfWakes` |
| `StormSessionCli_proofs` | `TurnsAreAwaited`, `ProcessesAreExclusive`, `ConsumedIsReceived`, `GivenUpIsFailed`, `TurnsShownAreReal`, `SentAgainIsFailed` | `NoTurnIsStranded`, `OneProcessWorks`, `ConsumedWasReceived`, `GivenUpAfterFailures`, `TurnShownIsReal`, `SentAgainOnlyAfterFailure` |
| `StormReview_proofs` | `SettledIsSettled`, `CallsRunOnce`, `OpenItemsAreHeld`, `OneItemPerAction` | `SettledStays`, `RunsOnce`, `OpenItemIsHeld`, `OneActionOneItem` |
| `StreamBus_proofs` | `StreamFits`, `StreamIsFeed`, `ViewFits`, `ViewIsComplete` | `Feed`, `ViewIsWhole` |
| `ThreadInputs_proofs` | `TypeCorrect`, `ApprovalIsOfSomething`, `PauseShownIsOfTheSession`, `PausesAreStreaks`, `TurnsAreJudgedInOrder` | `ApprovalShownIsOpen`, `PauseShownIsReal`, `PausesOnAStreak`, `TurnsAreJudgedOnce` |
| `TimelineRouting_proofs` | `TypeCorrect`, `WaitsForTheLiveOne`, `EscalatedReachesSomeone`, `QueuedWaitsForLive`, `PauseIsLifted`, `RoutedOnceEach` | `QueuedIsLive`, `MessageLiftsPause`, `RoutedOnce` |
| `AgentJobs_proofs` | `FiresOpenOneThread`, `SlotsFireOnce` | `OneThreadPerFire`, `SlotFiresOnce` |
| `Inbox_proofs` | `TypeCorrect`, `PollsRely`, `RecordedOnceButForUnsaved`, `EventsAreSeenAndCounted`, `CursorsRely`, `NothingPassedUntold`, `DeletedStaysDeleted`, `OneItemForEachKey`, `DismissedStaysDone` | `RepeatsAreUnsaved`, `CursorsMatchEvents`, `PassedIsTold`, `DeletedIsNotReported`, `OneItemPerKey`, `DoneSticks` |

**The session.**  The module first proves what the transactions of `StormStore` do
(`HandBackType`, `SettleType`, `TakeTakesRunning`, `HandBackAllLetsGo`, ...).  Then
`StepIsTransaction`: whatever step of the forty-odd actions is taken, what it does
to the tables `wake`, `turn` and `retired` is one of eight transactions (nothing,
delivered, recycled, refused, handed, began, finished, interrupted).  Each
invariant is then proved against eight cases and not forty, from the lemmas of
the store.  `TypeOK` is inductive by itself, once it says that a task waiting to
take has a turn.  `RetiredHoldsNoWake` needs that a retired session refuses what
is delivered and drops what is handed back; `TakenHasRunningTurn` that whatever
ends a turn settles its wakes in the same transaction, and that `TakeWakes` leaves
a wake taken only when the turn is running: both are inductive over the eight
transactions together with `TypeOK`.

**The process and its turns.**  None of the properties that relate the store to
the CLI is inductive: each depends on what the process has said that the engine
has not read.  `CliInv` says how the two fit together, in four parts: `HoldInv`
(while a survivor of the last run may still run there is no admission),
`ProcInv` (the object and the process are of the same opening, unless the object is
closed or its process still being opened; the process of a closed or stale
object is not up; an object goes stale in its own epoch only if the store failed),
`QueueInv` (in the events not read yet every turn's start comes before its end
and `closed` is the last) and `RunInv`, which is `NoTurnIsStranded` with the turn that
a task has sent and not yet recorded added: without that case the store can show
a turn as running whose end was read before.  The steps are grouped by what they
do to the process (it is kept, talks, loses the event that is read, is renewed or
goes), so that the invariant is proved against groups and not against actions.
`GotInv`, for `ConsumedWasReceived`, follows a batch from `send` to `take_wakes`: what
the task holds is what the turn it names received.

`GivenUpAfterFailures` is a claim about history: the count in a row against the
turns that really failed.  `CountInv` says that a wake's count is at most the
number of turns that received it, failed, and whose end is recorded, the turn a
task is about to record left out; a step that counts does so with a failure not
counted before (`StepRedelivery`).  That rests on `NumberInv` (turns are numbered in
the order they begin, a turn ends once, its end is in the queue at most once,
and the end of an interrupted turn is the last of a process) and on `LastInv`
(`_last_end` is what really happened, a row that says `failed` belongs to a turn that
failed): a late `take_wakes` believes `_last_end`, and would otherwise count a turn that
the user interrupted.

`TurnsShownAreReal` is about the turn an object shows, which two parties set: the
pump, when it reads that a turn began, and the task whose input the CLI accepted,
after the turn may already have ended.  `ShownInv` adds the second: an accepted
input's turn has its end ahead of the pump, or `_last_end` names it, and then it is
not shown.  `_last_end` holds one turn only, so that needs `OrderInv`: turns end in the
order they began, and no end of an older turn comes after the newest one's to
overwrite it.  The hypothesis is the run's: a CLI that begins turns of its own
breaks the property (section 5).

`SentAgainIsFailed` assumes, as its run does, a server and a store that hold and a CLI
that begins no turn of its own; the CLI may still die, fail a turn, refuse an input, and
say its idle late, twice or never, and the session may be paused, retired or released.
What a batch's turn did and what the store believes of it can then differ only while
the task is between `send` and `take_wakes`, or the end is not read yet.  `SteadyInv` says what the hypothesis buys: the object is never
stale, no drain of an old pump runs, and, because a process is closed only while it
is idle, no turn is interrupted.  `NewestInv` says that at most one input is on its way:
a turn whose end is still to be read is the newest, its input is open, and the
task is idle or hands over that very turn.  A late `take_wakes` therefore finds its own
turn as `_last_end` and settles the batch as the turn ended (`LateTake`).  `AgainInv` is the
property carried through the store: a row that waits, and a batch the task holds,
went before only to turns that failed; a row that is taken, also to the turn that
has it; and of the turns that received it every one but the last failed.

**The queue of wakes.**  `ImplementsQueue` is the refinement for every set of wakes.  By
`StepIsTransaction` eight cases are left, each a lemma that names the step of
`WakeQueue` it is: a delivery adds, a recycle closes, a refused input refuses, a
handing over takes up, or finishes, fails or leaves as it was the batch of a turn
that is over already, an end settles its batch, an interruption gives every batch
back.  The mapping reads batches off rows, so the lemmas on batches say that two
turns' batches share no wake and what one turn's rows do to the set of batches.
The steps rely on the invariants above: an interruption gives every batch back
because what is taken belongs to a turn that runs, and nothing is handed back in a
retired session because it holds no wake.  The one strengthening of its own is
`MovedIsRetired`: only a retired session has moved wakes.

**The review queue.**  `StepEffect` cuts the some thirty actions down to seven effects
on the items, the grants and the calls that ran (nothing, an item opens, items are
parked, withdrawn or expired, a grant is spent, an answer goes into its call, the
decision is delivered, a call runs) and to what each does to the session's queue
of writes.  `OpensOnce` is then inductive: a call asks once, so one write of the
queue opens its item, and until the store makes that write there is no item; with
it every transaction writes an item that is open or absent, which is
`SettledIsSettled`.  For `CallsRunOnce` the strengthening `Decisions` says which one
way leads from a decision to a call: a decision delivered as a wake runs nothing;
one answered in the call has run 0 or 1 times, and 0 as long as the write that
recorded it is made and its writer has not gone on; one delivered with a grant has
run 0 times while the grant is open, and while the spending is made and not
yet followed.  Because a grant goes from open to used in the transaction of the
one that spends it, a second spender that had read it open fails.

`OpenItemIsHeld` is not inductive: its exception for a call that some write
settles says nothing about what is left when that write fails.  `HeldInv`
replaces it by the way a call really takes.  Its item is `Aside` (parked, or kept
in memory after a park that failed), or the call is `Kept`: its process holds it, or
the first write has taken it out, and then either its writer is still there to
put it back or the session is left to the store.  `InOrder` says of the writes that
wait that a process has one close, behind everything that opens an item (so that
nothing opens for a process that is gone), and that what is parked ahead of a
shutdown has an item; `LockInv` says what the write with the lock may rely on; `LifeInv`
that there is no process while the server is off or the store has failed.
`OneActionOneItem` follows: when an item opens its process is there, so every other
open item is aside or held, and the parked ones of that action are withdrawn in
the same transaction.

**A thread.**  `PausesOnAStreak` compares a row of two fields with the whole history
of denials.  Its strengthening `StreakInv` says what the row is: the last denied
action, and as streak the length of the run of denials of that action which ends
the history and holds no pause.  `PauseShownIsReal` follows from `FollowInv`: while
every pause and resume has its task, the last of those tasks in the listener's
queue agrees with the session's `paused`, and with none in the queue the page
does not say paused for a session that is not; the queue being served in order
is what makes it inductive.  `ApprovalShownIsOpen` needs that a judgement's verdict
and the closing of an item read the open items in the transaction that writes
the state.  `TurnsAreJudgedOnce` is about the whole log, which a judgement reads in
one transaction and extends in a later one.  `FoundInv` carries what it read across
the steps between: it begins where the last judgement ended, because the tasks of
a session are served one at a time and no other is written meanwhile, and it has
every turn up to its end but those of an input that goes back.  `LogInv` (turns end in
the order of their numbers) and `JudgedInv` (a judgement names only turns it reaches)
then put all its turns after those judged before.

**A timeline.**  `LiveInv`: what waits is for the coordinator that is not retired.
That a start makes no second one needs the chat's lock: at most one carrier is
between its look and its insert, none is while one is recycled, and where one is
starting there is none (a removal in between leaves none either).  So a start
strands no wake; a recycle moves every queued wake in its own transaction, a
removal drops them, and a delivery that looked before either finds its
coordinator retired and looks again.  `LiftInv` adds which resume each queued wake still has
to come.  `RouteInv`, for `RoutedOnce`, is the bookkeeping of the carriers: a
message's requests keep the mode they read; at most one carrier routes it; its
decision is pending as long as it is carried, and was asked before; a target
still to be handed to was not yet handed the message; and a message whose
decision is pending has woken nobody.

**Jobs.**  Only three steps add a thread, and each finds in the same transaction that
its fire has none (`OnlyOpeningAdds`); what else changes threads leaves a thread's
fire alone.  `SlotFiresOnce` is about a copy that goes stale: a call changes its
copy of state.json in memory and writes it, whole or after other files, or never.
`CopyInv` relates the two at each place of each call: until the tick fires a job or
the person's call changes it, a copy's entry has the file's slot and the file's fire
or none (`SameSlot`); what differs by more is a due slot whose successor lies in the
future (`FiresOnce`, by `AdvancePasses`, the arithmetic of missed slots).  A crash loses the
copy, a failed write drops it, and nobody else writes the file meanwhile.

**Connections and inbox.**  `RepeatsAreUnsaved` and `CursorsMatchEvents` rest on the
lock: a poll past `waiting` holds it, so at most one is (`PollsRely`); an absent
folder has no events; and what was recorded since cursors were last left unsaved
is known to the saved cursors or to the one poll under way (`RecordedIsKnown`), so
that a thing is repeated only after another loss.  `SeenAndCounted` carries the same
for the seen list, and for the total while no save was lost.  For `PassedIsTold` the cursor, saved or
in a refresh's result, stands at a time for which every event that came in its
time is told of or in that refresh's report; events collected late (with a time
no later than one already recorded) are the exemption the property names.
`DeletedIsNotReported`: what a refresh saw as gone lies at or before the cursor it
began with.  For `OneItemPerKey` it is enough that results are applied to the document
as it is under the lock, and not to the snapshot (`Keyed`).  `DoneSticks` is proved for
every behaviour in which nothing with a key ages past thirty days, as an older item
breaks it (section 5): what a person marked done is done and not flagged as closed by a
feeder (`IsDismissed`), and `Keeps` says of each of a refresh's three passes over the
document that it leaves such an item as it is.

**The stream.**  Every stored frame has a number (`Num`: two per event, for the event that
ends a block gives two), every resume point the number up to which it covers (`Ord`), and
`Due` is the set of the numbers the client asked for.  `Run(Due, s, a, b)` says that a
sequence holds exactly what is due after `a`, up to `b`, in order.  `FeedInv` chains such
runs: the frame on the wire is the next after the client's place; the page runs from
there to where the replay has read; the queue, unless it was reset, runs from some `a`
to what the bus announced; and once the replay has read all it reads, nothing is due
between its end and `a`.  That is the point of the handover from replay to queue: a
subscriber is registered before the first page is read, so the two overlap, and
`go_live` takes out of the queue what the replay covered.  A full queue drops live-only
frames first and stored ones only with a reset, which gives up the run.  `AgedInv` keeps
what retention passed behind all of these.  It needs `PruneDuring = {}`: without it
the disagreements of section 5 are behaviours of the model, and `Feed` is false.
`StreamIsFeed` then shows for each action what it does to the client's position among
what is due: a received frame moves it by one, a snapshot or an announcement by none, a
reset tells the client.  The pages and queues are ordered sets of places (`InOrder`,
`Sifted`); that such an order exists is proved from the least counterexample, so no step
is an induction over data.

**What the client shows.**  `ViewIsWhole` is about the fold of all that is on the wire and
in the queue over what the client shows now, so it is not inductive: it says nothing of
a client that is replaying, is due a snapshot or asks for less.  `ViewInv` adds what makes
it so.  `AgentInv` is about the store and the bus: the turn and the open block that the bus
presents are those that the events it handed on leave running, a text or an end that waits
for its announcement is of that turn and finishes that block, and a block number is used
once in a turn.  `StreamInv` is about a client that asked for turns and blocks.  Its view
fits the number it is at (`Fits`): each block it shows as open is of a turn that began and
has not ended by then, each one it shows as done was closed by then.  Every stored frame
on its way says what its event does (`Truthful`).  Every live-only one is about a turn that
has not ended by the number where it will be read (`LiveInTurn`), and there is none in
the queue of a client that is not live or waits for a snapshot (`PhaseInv`).

Then each step is accounted for.  A due frame, applied to a view that fits, gives one that
fits its number (`FitsFrame`), so a run of stored frames brings a view from the run's
start to its end (`FitsRun`).  A snapshot behind such a run makes the view complete
(`SnapshotCompletes`): what fits the number that the bus is at and is open is of the turn
that the bus presents, and the snapshot replaces that.  The fresh snapshot of a squeezed
queue overtakes stored frames, and is complete once they have come (`SnapshotAhead`):
what of that turn is open and not in the snapshot is of a block that some frame behind
closes, and none of those frames touches what is in it (`OpenStays`).  From then on every
frame the bus offers makes a complete view complete for the state after it
(`AnnounceShows`, `LiveTells`), as long as the queue took it, and a queue that did not is
stale (`OfferShows`).  The fold itself is a recursive function of the number of frames; that
it exists, and what one frame more or the first one less does to it (`ShowsOneMore`,
`ShowsHead`), is again proved from the least counterexample.

Every safety invariant and action property of the passing runs is a theorem.  Only
model-checked: the liveness properties, which are out of the prover's reach
(`EveryWakeIsSettled`, `UpToDate`, `FireIsAnswered`, `AllowedIsSettled`,
`EveryTurnIsJudged`, `EveryMessageIsSomeones`, `ListedIsRecorded`); and the two runs that
TLC refutes, which state what does not hold.

## 5. Disagreements found

Two have a run that TLC refutes:

* `review_lost`: a decision that waits for the write lock behind the parking of its
  call is recorded as answered in the call; no wake and no grant are left, and
  the agent, told it would be woken, never hears of it (`session.py:602`).
* `inputs_redone`: after a restart in a turn, the rerun's judgement still counts the
  interrupted turn, because boot's `turn.finished` names no wakes that went back
  (`recovery.py:142`, read at `lifecycle.py:226`); an agent that answers nothing then
  gets no gate.

Met while modelling, described and kept out of the passing runs by an exemption
or a mix that the properties name:

*Engine and session.*

* A pass that read the session before the pause starts a turn after it, though
  `pause` says no new turns start (`engine.py:521`).
* The hold after a failed write is a filter of the pass only; a newer turn can
  start while the older still has its wakes (`engine.py:987`).
* A CLI that died before a shutdown's close was handled is reported as closed: the
  crashed turn consumes its message, though a crash is handed back
  (`recovery.py:62-65`, `session.py:955`).
* `send` begins a turn that is over when a turn of the CLI's own ended after it
  (`session.py:439`); the session then shows it until the process ends.

*Review.*

* A decision that waits behind the withdrawal of its call fails and puts the call
  back on the session, which then waits on the person for a call nobody can
  settle (`session.py:615`).

*Threads and timeline.*

* A crash between the commit of a pause or resume and its listener's task leaves
  the page's state stale (`lifecycle.py:192`).
* A paused thread that is resolved and reopened shows "working", and so does a
  resumed one that has an open blocking item.
* `recover` leaves out a session with a queued wake, so an input of a paused
  session that ended unheard stays unjudged until it is resumed.
* "Reached no one" is said though the coordinator has the message, when the write
  after its resume fails (`delivery.py:187`, `:292`); and a routing refused after
  some hand-offs hands the rest over with a note that does not mention them.
* A retry that overlaps its first request around a switch of the router's mode can
  be routed and handed over both (`delivery.py:15`); `RoutedOnce` exempts it by
  `OneMode`.
* A project removed while its chat's coordinator is being started leaves a live
  coordinator in a retired chat, and the message's wake is queued and run there:
  `with_coordinator` reads `retired_at` once (`chats/__init__.py:368`) and then awaits
  the second read, pin, runtime, catalog and pool (`:369`, `:404-411`, `engine.py:390`)
  before the insert, while `retire_project` (`:324-332`) takes no lock and retires the
  sessions it finds.  The comments say nothing more runs in a removed project
  (`:336`) and that a chat retired since the caller read it starts nothing (`:367`).
  `QueuedIsLive` is about the coordinator's own retirement only.
* Hand-offs made for a coordinator that was retired with its chat are still written:
  `message_thread` does not ask after the chat (`comms/talk.py:369`).
* A pause committed between a recycle's look (`_due`, `chats/__init__.py:440`) and its
  write (`recycle.py:104`) is lost with its coordinator, though "a paused one waits for
  the person": the successor is not paused and takes what waited.
* The loop breaker's pause is a second write: a restart in between loses it, with
  its streak already reset (`review/queue.py:328`).
* A pass uses review holds it read before its awaits (`engine.py:717`), and the hold
  of a write that failed is set after it (`engine.py:1119`).

*Stream.*

* A prune while a client replays, or between events of its turn, deletes frames it
  has not read without its being told; `PruneDuring = {}` keeps the run from it.
* `bus.py:89-91` bounds the queue by `QUEUE_LIMIT`; with the owed snapshot it can hold
  one frame more.

*Jobs.*

* A job that is moved to another chat while its old chat is removed is turned off
  all the same: `chat_retired` disables by id without naming the chat.
* A one-time job's fire is recorded as skipped while a manual run of it works
  (`scheduler.py:962`), though one-time jobs are said to be delayed, never skipped.
* An item whose `_settle` write failed registers a second job at the next boot, if
  the first one's prompt was edited or the job deleted meanwhile.

*Connections and inbox.*

* DELETE and PUT while a poll is under way: the poll saves its old cursors into the
  new folder, and what it had seen is never collected there (`store.py:297` says a
  DELETE must not be undone by a poll in flight).  `CursorsMatchEvents` and
  `ListedIsRecorded` exempt such a folder.
* The item of an event still ahead of the clock is made again by every refresh
  after the person deleted it, as the cursor has not passed it
  (`feeders.py:356`, `service.py:54`); so it is by a refresh that began before.
* Of two overlapping refreshes the one with the older list of watched issues may be
  applied last: it closes an issue that was reopened and that the cursor has
  passed, so nothing opens it again (`feeders.py:5`).
* One cursor stands for all events: what is collected after one of a later time
  never surfaces (`feeders.py:350-356`).  `PassedIsTold` exempts it as `late`.
* Two server processes overwrite each other's cursors (`store.py:22-24`).
* A session's close (`poller.py:537`; a failing one is thought of at `:295-300`), a state
  write (`:543`) or an append that raises after lines were written ends the poll
  or its collector with events in the file that the cursors do not name; `poll_once`
  goes on (`:569-572`), the next poll records them again, without a restart, and the
  total stays short.  `RepeatsAreUnsaved` and `CursorsMatchEvents` count these.
* A person's Done on an item older than 30 days is pruned by the write that records
  it, so a todo that is still blocked returns as new at the next refresh
  (`inbox/store.py:26-28` says their own "Done" sticks; `apply_retention`, `:251`).

## 6. Not modelled

PROJECT.json "components" names every part and why.

* *Engine*: Stop, send-now and steering into a running turn (Stop is an event of
  `ThreadInputs`), model and effort updates, sub-agent runs, usage decisions, pools
  that warn or are paid, fair order and aging over several sessions, the memory
  guard's thresholds, the engine's file lock.
* *Review*: the policy and its tiers, standing rules, questions, secrets, and items
  other than permissions.
* *Chats*: the coordinators' branch of the judgement, checklists, memory,
  attachments, erasure, the classifier.
* *Stream*: heartbeats, the frames of sub-agent runs, the presenter's other blocks.
* *Connections*: the healing of an MCP session, account labels, the rotation of
  events.jsonl, the seen list's cap.  *Inbox*: the timeline and sharing feeders (a
  cursor like the connections'), its caps.
* *Assumptions on the environment*: the store's file is written by one process, the
  clock does not go back, files are not edited by hand, and retention's prune does
  not fall where `PruneDuring` says.

Most of the repository is not core logic of this kind and is left out for good:
HTTP routers and visualizers, the protocol parsers of a dozen CLIs, OAuth flows,
git and file browsing, presets and texts, the browser's code.  They are I/O,
presentation or configuration, whose correctness is a matter of formats and not
of the order of steps.

## 7. Plan

Done, in this order: `StormStore`, `StormSession`, `WakeQueue`; `StormReview`;
`StreamBus` and `EventFeed`; `Scheduler` and `AgentJobs`; `ThreadInputs`;
`TimelineRouting`; `ConnectionPoller` and `Inbox`; the proofs of section 4.

What a continuation would take up:

1. Several sessions: pools, fair order and aging, with the memory guard.
2. Stop, send-now and sub-agent runs in `StormSession`; the coordinators' branch of
   the judgement.
3. The engine lock with boot and shutdown of two servers; storage primitives;
   worktrees.
