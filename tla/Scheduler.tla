------------------------------ MODULE Scheduler ------------------------------
(***************************************************************************)
(* The scheduler of utils/commands/scheduler.py: jobs, their slots and     *)
(* their runs.                                                             *)
(*                                                                         *)
(* Its files are jobs.json (the definitions), state.json (each job's next  *)
(* slot and what runs) and one history per job.  One lock serializes its   *)
(* calls; but a call writes several files, one after the other, so the     *)
(* server may stop, or a write may fail, between any two of them.  `op' is *)
(* the call that holds the lock: where it is, and its copy of state.json,  *)
(* which it changes in memory before it writes it.                         *)
(*                                                                         *)
(* A command job's run is a thread of the scheduler.  An agent job's is a  *)
(* fire handed to storm, which answers later through a future: what storm  *)
(* does with it is the module that extends this one.                       *)
(***************************************************************************)
EXTENDS Integers, Sequences, FiniteSets

CONSTANTS
    JobIds,          \* the ids jobs get, never used twice
    Chats,           \* the chats agent jobs name
    Items,           \* the review items that ask for a job
    MaxConcurrent,   \* XO_SCHEDULER_MAX_CONCURRENT
    MaxTime          \* bound: the last second

NoChat == "no chat"
NoItem == "no item"

FaultKinds == {"disk", "launch", "refuse", "crash", "stop", "agent", "store"}

ASSUME SchedulerAssumption ==
    /\ JobIds \subseteq Nat \ {0}
    /\ NoChat \notin Chats /\ NoItem \notin Items
    /\ MaxConcurrent \in Nat \ {0} /\ MaxTime \in Nat

VARIABLES
    clock,     \* the time, in whole seconds
    jobs,      \* jobs.json: a definition, or that the id is unused or deleted
    state,     \* state.json: an entry, or none
    runs,      \* runs/<id>.jsonl, a line per run
    tracked,   \* _running: the runs this process started and did not record yet
    runner,    \* storm registered the agent runner (_agent_runner)
    op,        \* the call that holds the lock
    faults     \* the faults that may happen, and how many more

files  == <<jobs, state, runs>>
memory == <<tracked, runner>>
schedulerVars == <<clock, files, memory, op, faults>>

-----------------------------------------------------------------------------
(***************************************************************************)
(* Definitions, entries, slots.  A time of 0 is null.                      *)
(***************************************************************************)

\* `every' 0 is null: one-time with `first', by hand only without.
Definitions ==
    [kind : {"command", "agent"}, every : Nat, first : Nat, chat : Chats \cup {NoChat},
     enabled : BOOLEAN, item : Items \cup {NoItem}]

NoJob   == [kind |-> "none"]
Deleted == [kind |-> "deleted"]

Exists(j)  == jobs[j].kind \in {"command", "agent"}
IsAgent(j) == jobs[j].kind = "agent"
Once(d)    == d.every = 0

NoFire  == [at |-> 0, trigger |-> "none"]
NoEntry == [next |-> -1, since |-> 0, fire |-> NoFire]
NoRun   == [agent |-> FALSE, at |-> 0, trigger |-> "none", written |-> FALSE, out |-> "none"]

Tracked(j) == tracked[j] # NoRun
Ended(j)   == Tracked(j) /\ tracked[j].out # "running"

AdvanceShort(next, every, t) ==
    IF next > t THEN next ELSE next + every * ((t - next) \div every)

\* The first slot of the grid strictly after t: the missed ones collapse.
Advance(next, every, t) ==
    IF next > t THEN next ELSE next + every * (((t - next) \div every) + 1)

FirstSlot(d, t) ==
    CASE Once(d)                      -> d.first
      [] ~Once(d) /\ d.first = 0      -> t + d.every
      [] ~Once(d) /\ d.first # 0      -> IF d.first >= t THEN d.first ELSE Advance(d.first, d.every, t)

InitialEntry(d, t) == [next |-> FirstSlot(d, t), since |-> 0, fire |-> NoFire]

Cleared(entry) == [entry EXCEPT !.since = 0, !.fire = NoFire]

CommandsRunning == Cardinality({j \in JobIds : Tracked(j) /\ ~tracked[j].agent})

Held(agent) == IF agent THEN ~runner ELSE CommandsRunning >= MaxConcurrent

Line(at, trigger, status) == [at |-> at, trigger |-> trigger, status |-> status]

-----------------------------------------------------------------------------
(***************************************************************************)
(* The lock: one call at a time.                                           *)
(***************************************************************************)

Person  == <<"person", 0>>
Watcher == <<"watcher", 0>>

Idle == [kind |-> "none", at |-> "idle", who |-> Person, job |-> 0, def |-> NoJob, now |-> 0,
         doc |-> <<>>, left |-> {}, changed |-> FALSE]

Begin(kind, at, who, j, d, doc) ==
    /\ op.at = "idle"
    /\ op' = [kind |-> kind, at |-> at, who |-> who, job |-> j, def |-> d, now |-> clock,
              doc |-> doc, left |-> {i \in JobIds : Tracked(i)}, changed |-> FALSE]

\* The call returns or raises; only storm's callers wait for its answer.
Leave(answer) ==
    op' = IF op.who \in {Person, Watcher} THEN Idle
          ELSE [Idle EXCEPT !.at = answer, !.who = op.who]

Return == Leave("returned")
Raise  == Leave("raised")

Goto(at) == op' = [op EXCEPT !.at = at]

Fault(kind) ==
    /\ kind \in faults.may /\ faults.left > 0
    /\ faults' = [faults EXCEPT !.left = @ - 1]

\* The jobs a tick has left; it ends by writing what it only changed in memory.
Consider(left, doc, changed) ==
    IF left = {} /\ ~changed THEN Return
    ELSE op' = [op EXCEPT !.at = "consider", !.job = 0, !.left = left, !.doc = doc, !.changed = changed]

\* A file is written, or the write fails.
WriteState(doc)  == state' = doc /\ UNCHANGED faults
WriteFails       == Fault("disk") /\ UNCHANGED files
AppendLine(j, line) == runs' = [runs EXCEPT ![j] = Append(@, line)] /\ UNCHANGED faults

-----------------------------------------------------------------------------
(***************************************************************************)
(* The calls, as they take the lock.                                       *)
(***************************************************************************)

Quiet == UNCHANGED <<clock, files, memory, faults>>

Tick      == Begin("tick", "harvest", Watcher, 0, NoJob, state) /\ Quiet
Read(who) == Begin("read", "harvest", who, 0, NoJob, state) /\ Quiet
RunNow(j) == Exists(j) /\ Begin("run", "harvest", Person, j, NoJob, state) /\ Quiet
DeleteJob(j) == Exists(j) /\ Begin("delete", "harvest", Person, j, Deleted, state) /\ Quiet

\* The job an allowed review item already made (_made_by).
MadeBy(d) == {j \in JobIds : Exists(j) /\ d.item # NoItem /\ jobs[j].item = d.item}

CreateJob(who, j, d) ==
    /\ jobs[j] = NoJob
    /\ IF MadeBy(d) # {}
       THEN op.at = "idle" /\ op' = [Idle EXCEPT !.at = "returned", !.who = who]
       ELSE Begin("create", "jobs", who, j, d, [state EXCEPT ![j] = InitialEntry(d, clock)])
    /\ Quiet

\* The prompt an item allowed stays that item's until the person rewrites it.
Updated(old, d, rewritten) ==
    [d EXCEPT !.item = IF d.kind = "agent" /\ old.kind = "agent" /\ ~rewritten THEN old.item ELSE NoItem]

UpdatedEntry(j, d) ==
    LET entry == IF state[j] = NoEntry THEN InitialEntry(d, clock) ELSE state[j]
        kept  == IF d.kind = "agent" THEN entry ELSE [entry EXCEPT !.fire = NoFire]
    IN  IF d.every # jobs[j].every \/ d.first # jobs[j].first
        THEN [kept EXCEPT !.next = FirstSlot(d, clock)] ELSE kept

UpdateJob(who, j, d, rewritten) ==
    /\ Exists(j)
    /\ Begin("update", "jobs", who, j, Updated(jobs[j], d, rewritten), [state EXCEPT ![j] = UpdatedEntry(j, d)])
    /\ Quiet

DisableJob(who, j) ==
    /\ Exists(j)
    /\ Begin("disable", IF jobs[j].enabled THEN "jobs" ELSE "harvest", who, j,
             [jobs[j] EXCEPT !.enabled = FALSE], state)
    /\ Quiet

-----------------------------------------------------------------------------
(***************************************************************************)
(* Harvest: record what ended.  The line is appended, then state.json      *)
(* written, then the run forgotten.                                        *)
(***************************************************************************)

Forget(j) == tracked' = [tracked EXCEPT ![j] = NoRun]

DropCancelled(j) ==
    /\ tracked[j].out = "cancelled"
    /\ Forget(j)
    /\ op' = [op EXCEPT !.left = @ \ {j}]
    /\ UNCHANGED <<files, runner, faults>>

AppendRun(j) ==
    /\ tracked[j].out # "cancelled" /\ ~tracked[j].written
    /\ \/ /\ AppendLine(j, Line(tracked[j].at, tracked[j].trigger, tracked[j].out))
          /\ tracked' = [tracked EXCEPT ![j].written = TRUE]
          /\ UNCHANGED op
       \/ WriteFails /\ Raise /\ UNCHANGED tracked
    /\ UNCHANGED <<jobs, state, runner>>

ReleaseRun(j) ==
    LET doc == IF op.doc[j] = NoEntry THEN op.doc ELSE [op.doc EXCEPT ![j] = Cleared(@)]
    IN  /\ tracked[j].written
        /\ \/ /\ WriteState(doc) /\ Forget(j)
              /\ op' = [op EXCEPT !.left = @ \ {j}, !.doc = doc, !.changed = TRUE]
           \/ op.doc[j] # NoEntry /\ WriteFails /\ Raise /\ UNCHANGED tracked
        /\ UNCHANGED <<jobs, runs, runner>>

Harvest ==
    /\ op.at = "harvest"
    /\ \E j \in op.left : Ended(j) /\ (DropCancelled(j) \/ AppendRun(j) \/ ReleaseRun(j))
    /\ UNCHANGED clock

Harvested == op.at = "harvest" /\ \A j \in op.left : ~Ended(j)

(***************************************************************************)
(* Sweep: what state.json says runs, and nothing here does, is lost; an    *)
(* agent's fire is not, it is handed over again.                           *)
(***************************************************************************)

Lost(j) == op.doc[j].since # 0 /\ ~Tracked(j) /\ op.doc[j].fire = NoFire

AfterSweep ==
    CASE op.kind = "tick"   -> Consider({j \in JobIds : Exists(j)}, op.doc, op.changed)
      [] op.kind = "run"    -> Goto("run")
      [] op.kind = "delete" -> op' = [op EXCEPT !.at = "jobs", !.doc[op.job] = NoEntry]
      [] OTHER              -> Return

Sweep ==
    /\ op.at = "sweep" \/ Harvested
    /\ \/ \E j \in JobIds :
            /\ Lost(j)
            /\ \/ /\ AppendLine(j, Line(op.doc[j].since, "none", "lost"))
                  /\ op' = [op EXCEPT !.at = "sweep", !.doc[j].since = 0, !.changed = TRUE]
               \/ WriteFails /\ Raise
            /\ UNCHANGED <<jobs, state>>
       \/ /\ ~ \E j \in JobIds : Lost(j)
          /\ IF op.changed /\ op.kind # "tick"
             THEN \/ WriteState(op.doc) /\ AfterSweep
                  \/ WriteFails /\ Raise
             ELSE AfterSweep /\ UNCHANGED <<state, faults>>
          /\ UNCHANGED <<jobs, runs>>
    /\ UNCHANGED <<clock, memory>>

(***************************************************************************)
(* create_job, update_job, disable_job and delete_job write jobs.json; all *)
(* but disable_job then write state.json.                                  *)
(***************************************************************************)

SaveJobs ==
    /\ op.at = "jobs"
    /\ \/ /\ jobs' = [jobs EXCEPT ![op.job] = op.def] /\ UNCHANGED <<state, runs, faults>>
          /\ Goto(IF op.kind = "disable" THEN "harvest" ELSE "state")
       \/ WriteFails /\ Raise
    /\ UNCHANGED <<clock, memory>>

SaveState ==
    /\ op.at = "state"
    /\ \/ WriteState(op.doc) /\ UNCHANGED <<jobs, runs>> /\ Return
       \/ WriteFails /\ Raise
    /\ UNCHANGED <<clock, memory>>

-----------------------------------------------------------------------------
(***************************************************************************)
(* The tick considers each job in turn (_consider).                        *)
(***************************************************************************)

Considering(j) == op.at = "consider" /\ j \in op.left /\ \A i \in op.left : j <= i

Considered(j, doc, changed) == Consider(op.left \ {j}, doc, changed)

OwedWhileOn(j) == IsAgent(j) /\ jobs[j].enabled /\ ~Tracked(j) /\ op.doc[j].fire # NoFire

\* A fire that state.json holds and no run here is opening: the server stopped.
Owed(j) == IsAgent(j) /\ ~Tracked(j) /\ op.doc[j].fire # NoFire

\* Neither off, nor manual only, nor a one-time job that ran.
Scheduled(j) ==
    /\ jobs[j].enabled
    /\ Once(jobs[j]) => jobs[j].first # 0 /\ op.doc[j].next # 0

Due(j)   == op.doc[j] # NoEntry /\ op.now >= op.doc[j].next
Waits(j) == Held(IsAgent(j)) \/ (Once(jobs[j]) /\ Tracked(j))

\* On disk before the run exists.  A write that fails leaves the copy changed.
WriteThenLaunch(j, doc) ==
    /\ \/ /\ WriteState(doc)
          /\ op' = [op EXCEPT !.at = "launch", !.job = j, !.doc = doc]
          /\ UNCHANGED <<jobs, runs>>
       \/ WriteFails /\ Considered(j, doc, op.changed)
    /\ UNCHANGED <<clock, memory>>

HandOverAgain(j) ==
    /\ Considering(j) /\ Owed(j)
    /\ IF runner THEN WriteThenLaunch(j, op.doc)
       ELSE Considered(j, op.doc, op.changed) /\ Quiet

Adopt(j) ==
    /\ Considering(j) /\ ~Owed(j) /\ Scheduled(j) /\ op.doc[j] = NoEntry
    /\ Considered(j, [op.doc EXCEPT ![j] = InitialEntry(jobs[j], op.now)], TRUE)
    /\ Quiet

\* Nothing to do for it now, or it waits for a slot or for storm, still due.
PassOver(j) ==
    /\ Considering(j) /\ ~Owed(j)
    /\ \/ ~Scheduled(j)
       \/ op.doc[j] # NoEntry /\ ~Due(j)
       \/ Due(j) /\ Waits(j) /\ ~(Tracked(j) /\ ~Once(jobs[j]))
    /\ Considered(j, op.doc, op.changed)
    /\ Quiet

\* A repeating job whose run is still in progress skips its slot.
SkipSlot(j) ==
    /\ Considering(j) /\ ~Owed(j) /\ Scheduled(j) /\ Due(j)
    /\ Tracked(j) /\ ~Once(jobs[j])
    /\ \/ /\ AppendLine(j, Line(op.now, "schedule", "skipped"))
          /\ Considered(j, [op.doc EXCEPT ![j].next = Advance(@, jobs[j].every, op.now)], TRUE)
       \/ WriteFails /\ Considered(j, op.doc, op.changed)
    /\ UNCHANGED <<clock, jobs, state, memory>>

\* The latest slot due is fired; those before it are not.
FireSlot(j) ==
    LET next == op.doc[j].next
        once == Once(jobs[j])
        following == IF once THEN 0 ELSE Advance(next, jobs[j].every, op.now)
        at        == IF once THEN next ELSE following - jobs[j].every
        fire      == IF IsAgent(j) THEN [at |-> at, trigger |-> "schedule"] ELSE NoFire
    IN  /\ Considering(j) /\ ~Owed(j) /\ Scheduled(j) /\ Due(j)
        /\ ~Tracked(j) /\ ~Waits(j)
        /\ WriteThenLaunch(j, [op.doc EXCEPT ![j] =
               [next |-> following, since |-> op.now, fire |-> IF IsAgent(j) THEN fire ELSE @.fire]])

EndTick ==
    /\ op.at = "consider" /\ op.left = {}
    /\ \/ WriteState(op.doc) /\ UNCHANGED <<jobs, runs>>
       \/ WriteFails
    /\ Return
    /\ UNCHANGED <<clock, memory>>

ConsiderJob(j) == HandOverAgain(j) \/ Adopt(j) \/ PassOver(j) \/ SkipSlot(j) \/ FireSlot(j)

(***************************************************************************)
(* Run now: this second's fire, unless the job already runs.               *)
(***************************************************************************)

RunRefused(j) ==
    \/ Tracked(j)
    \/ IsAgent(j) /\ (~runner \/ op.doc[j].fire # NoFire)
    \/ ~IsAgent(j) /\ CommandsRunning >= MaxConcurrent

Run ==
    LET j     == op.job
        entry == IF op.doc[j] = NoEntry THEN InitialEntry(jobs[j], op.now) ELSE op.doc[j]
        doc   == [op.doc EXCEPT ![j] = [entry EXCEPT !.since = op.now,
                      !.fire = IF IsAgent(j) THEN [at |-> op.now, trigger |-> "manual"] ELSE @]]
    IN  /\ op.at = "run"
        /\ \/ RunRefused(j) /\ Raise /\ UNCHANGED <<files, faults>>
           \/ /\ ~RunRefused(j)
              /\ \/ /\ WriteState(doc) /\ UNCHANGED <<jobs, runs>>
                    /\ op' = [op EXCEPT !.at = "launch", !.doc = doc]
                 \/ WriteFails /\ Raise
        /\ UNCHANGED <<clock, memory>>

(***************************************************************************)
(* _launch and _dispatch.  A fire storm's loop refuses in a tick stays in  *)
(* state.json; a manual run that does not start is taken back.             *)
(***************************************************************************)

Launched(j) ==
    IF IsAgent(j)
    THEN [agent |-> TRUE, at |-> op.doc[j].fire.at, trigger |-> op.doc[j].fire.trigger,
          written |-> FALSE, out |-> "running"]
    ELSE [agent |-> FALSE, at |-> op.now, trigger |-> IF op.kind = "run" THEN "manual" ELSE "schedule",
          written |-> FALSE, out |-> "running"]

Launch ==
    /\ op.at = "launch"
    /\ tracked' = [tracked EXCEPT ![op.job] = Launched(op.job)]
    /\ IF op.kind = "run" THEN Return ELSE Considered(op.job, op.doc, FALSE)
    /\ UNCHANGED <<clock, files, runner, faults>>

LaunchFails ==
    LET j == op.job
    IN  /\ op.at = "launch"
        /\ Fault(IF IsAgent(j) THEN "refuse" ELSE "launch")
        /\ CASE op.kind = "run" -> Goto("undo")
             [] op.kind = "tick" /\ IsAgent(j)  -> Considered(j, op.doc, op.changed)
             [] op.kind = "tick" /\ ~IsAgent(j) -> Considered(j, [op.doc EXCEPT ![j].since = 0], TRUE)
        /\ UNCHANGED <<clock, files, memory>>

UndoRun ==
    /\ op.at = "undo"
    /\ \/ WriteState([op.doc EXCEPT ![op.job] = Cleared(@)]) /\ UNCHANGED <<jobs, runs>>
       \/ WriteFails
    /\ Raise
    /\ UNCHANGED <<clock, memory>>

-----------------------------------------------------------------------------
(***************************************************************************)
(* Around it: a command ends, storm comes and goes, time passes, and the   *)
(* server stops at any moment, forgetting what only its memory holds.      *)
(***************************************************************************)

Answer(j, out) ==
    /\ tracked[j].out = "running"
    /\ tracked' = [tracked EXCEPT ![j].out = out]

CommandEnds(j) ==
    /\ Tracked(j) /\ ~tracked[j].agent /\ Answer(j, "ok")
    /\ UNCHANGED <<clock, files, runner, op, faults>>

SetRunner(to) ==
    /\ op.at = "idle"
    /\ runner' = to

Clock ==
    /\ clock < MaxTime /\ clock' = clock + 1
    /\ UNCHANGED <<files, memory, op, faults>>

Restart ==
    /\ tracked' = [j \in JobIds |-> NoRun]
    /\ runner' = FALSE
    /\ op' = Idle

SchedulerInit ==
    /\ clock = 1
    /\ state = [j \in JobIds |-> IF Exists(j) THEN InitialEntry(jobs[j], 1) ELSE NoEntry]
    /\ runs = [j \in JobIds |-> <<>>]
    /\ tracked = [j \in JobIds |-> NoRun]
    /\ runner = FALSE
    /\ op = Idle

\* The steps of the call that holds the lock.
CallStep ==
    \/ Harvest \/ Sweep \/ SaveJobs \/ SaveState
    \/ \E j \in JobIds : ConsiderJob(j)
    \/ EndTick \/ Run \/ Launch \/ LaunchFails \/ UndoRun
=============================================================================
