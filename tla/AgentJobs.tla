------------------------------ MODULE AgentJobs ------------------------------
(***************************************************************************)
(* Storm's jobs (storm/jobs): how a fire the scheduler hands over opens a  *)
(* thread, once; how a job is made, by the person or by a review item they *)
(* allowed; and how the jobs of a removed project are turned off.          *)
(*                                                                         *)
(* Each is a coroutine that awaits between its steps.  A fire looks for    *)
(* the thread it may have opened already, checks its chat and the job's    *)
(* last run, prepares a worktree and a runtime, and checks all of it again *)
(* in the transaction that writes the thread and its wake.  A save checks  *)
(* the chat, writes the scheduler's files, which the store's transactions  *)
(* do not cover, and checks the chat again.                                *)
(***************************************************************************)
EXTENDS Scheduler

CONSTANTS
    Offered,       \* the definitions the person may save
    Asked,         \* the definition each item asks for
    Settings       \* bounds: the jobs a behaviour starts with, and the calls of
                   \*   the person and the faults that may happen in it

CallKinds == {"run", "save", "command", "delete", "disable", "retire", "unlink", "write", "allow"}

ASSUME AgentJobsAssumption ==
    /\ Offered \subseteq Definitions
    /\ Asked \in [Items -> Definitions] /\ \A i \in Items : Asked[i].item = i
    /\ Settings \subseteq [jobs : [JobIds -> Definitions \cup {NoJob}],
                           calls : [may : SUBSET CallKinds, left : Nat],
                           faults : [may : SUBSET FaultKinds, left : Nat]]

VARIABLES
    chats,     \* each chat: live, retired, or its project's folder is gone
    threads,   \* the runs' threads, in order of their root messages
    item,      \* each review item's state
    opening,   \* the coroutine that opens a job's fire (Jobs._open)
    task,      \* the coroutines that save, register and retire
    stopped,   \* storm's shutdown began in this process
    calls      \* the calls the person may make, and how many more

stormVars == <<chats, threads, item, opening, task, stopped, calls>>
vars == <<schedulerVars, stormVars>>

NoOpening == [at |-> "none", chat |-> NoChat]
NoTask    == [at |-> "none", chat |-> NoChat, job |-> 0, def |-> NoJob, left |-> {},
              rewritten |-> FALSE, item |-> NoItem]

Tasks == {"save", "decided", "recover", "retire"}

Me(t)    == <<"task", t>>
Fire(j)  == <<"fire", j>>

Answered(who, answer) == op.who = who /\ op.at = answer

Call(kind) ==
    /\ kind \in calls.may /\ calls.left > 0
    /\ calls' = [calls EXCEPT !.left = @ - 1]

-----------------------------------------------------------------------------
(***************************************************************************)
(* open_run.  A thread names its fire: its wake's id is the job and the    *)
(* fire's time.                                                            *)
(***************************************************************************)

ThreadsOf(j) == {n \in DOMAIN threads : threads[n].job = j}

FiredHere(j) ==
    \E n \in ThreadsOf(j) : threads[n].at = tracked[j].at /\ threads[n].chat = opening[j].chat

Fired(j) == \E n \in ThreadsOf(j) : threads[n].at = tracked[j].at

\* The job's last run: its agent is on it, or it waits for the person.
StillWorking(j) ==
    \E n \in ThreadsOf(j) :
        /\ \A m \in ThreadsOf(j) : m <= n
        /\ threads[n].working /\ chats[threads[n].chat] # "retired"

At(j, at) == opening' = [opening EXCEPT ![j].at = at]

Outcome(j, out) ==
    /\ Answer(j, out)
    /\ opening' = [opening EXCEPT ![j] = NoOpening]
    /\ UNCHANGED <<clock, files, runner>>

Stay == UNCHANGED schedulerVars

Look(j) ==
    /\ opening[j].at = "look"
    /\ IF Fired(j) THEN Outcome(j, "ok") /\ UNCHANGED <<op, faults>>
       ELSE At(j, "check") /\ Stay
    /\ UNCHANGED <<chats, threads, item, task, stopped, calls>>

\* project_chat, the folder, the last run, the runtime.
Check(j) ==
    /\ opening[j].at = "check"
    /\ \/ chats[opening[j].chat] # "live" /\ At(j, "off") /\ Stay
       \/ /\ chats[opening[j].chat] = "live"
          /\ \/ StillWorking(j) /\ Outcome(j, "skipped") /\ UNCHANGED <<op, faults>>
             \/ ~StillWorking(j) /\ At(j, "commit") /\ Stay
             \/ ~StillWorking(j) /\ Fault("agent") /\ Outcome(j, "failed") /\ UNCHANGED op
    /\ UNCHANGED <<chats, threads, item, task, stopped, calls>>

OpenThread(j) ==
    threads' = Append(threads, [job |-> j, at |-> tracked[j].at, chat |-> opening[j].chat, working |-> TRUE])

\* start_thread's transaction, which checks again.
Commit(j) ==
    /\ opening[j].at = "commit"
    /\ CASE Fired(j)                               -> Outcome(j, "ok") /\ UNCHANGED <<threads, op, faults>>
         [] ~Fired(j) /\ chats[opening[j].chat] = "retired" -> At(j, "off") /\ Stay /\ UNCHANGED threads
         [] ~Fired(j) /\ chats[opening[j].chat] # "retired" /\ StillWorking(j) ->
                Outcome(j, "skipped") /\ UNCHANGED <<threads, op, faults>>
         [] OTHER                                  -> OpenThread(j) /\ At(j, "answer") /\ Stay
    /\ UNCHANGED <<chats, item, task, stopped, calls>>

Opened(j) ==
    /\ opening[j].at = "answer" /\ Outcome(j, "ok")
    /\ UNCHANGED <<op, faults, chats, threads, item, task, stopped, calls>>

\* Its chat will never run it: the job is turned off, then the fire has failed.
TurnOff(j) ==
    /\ opening[j].at = "off"
    /\ \/ DisableJob(Fire(j), j) /\ At(j, "turning")
       \/ ~Exists(j) /\ op.at = "idle" /\ Outcome(j, "failed") /\ UNCHANGED <<op, faults>>
    /\ UNCHANGED <<chats, threads, item, task, stopped, calls>>

TurnedOff(j) ==
    /\ opening[j].at = "turning"
    /\ Answered(Fire(j), "returned") \/ Answered(Fire(j), "raised")
    /\ Outcome(j, "failed") /\ op' = Idle
    /\ UNCHANGED <<faults, chats, threads, item, task, stopped, calls>>

Open(j) == Look(j) \/ Check(j) \/ Commit(j) \/ Opened(j) \/ TurnOff(j) \/ TurnedOff(j)

-----------------------------------------------------------------------------
(***************************************************************************)
(* A chat's jobs are turned off (chat_retired): listed, then each disabled.*)
(* The task that asked goes on at `then'.                                  *)
(***************************************************************************)

Become(t, record) == task' = [task EXCEPT ![t] = record]
Step(t, at) == Become(t, [task[t] EXCEPT !.at = at])

UnchangedByTasks == UNCHANGED <<chats, threads, opening, stopped, calls>>

Then(t) == IF t \in {"decided", "recover"} THEN [task[t] EXCEPT !.at = "settle"] ELSE NoTask

JobsIn(c) == {j \in JobIds : IsAgent(j) /\ jobs[j].chat = c /\ jobs[j].enabled}

ListJobs(t) ==
    /\ task[t].at = "list"
    /\ Read(Me(t))
    /\ Become(t, [task[t] EXCEPT !.at = "listing", !.left = JobsIn(task[t].chat)])
    /\ UNCHANGED item /\ UnchangedByTasks

\* A list that raises ends the listener.
Listed(t) ==
    /\ task[t].at = "listing"
    /\ \/ Answered(Me(t), "returned") /\ Step(t, "turn")
       \/ Answered(Me(t), "raised") /\ Become(t, NoTask)
    /\ op' = Idle
    /\ UNCHANGED <<clock, files, memory, faults, item>> /\ UnchangedByTasks

TurnOffNext(t) ==
    /\ task[t].at = "turn"
    /\ \/ /\ task[t].left = {} /\ Become(t, Then(t)) /\ Stay
       \/ \E j \in task[t].left :
            /\ task' = [task EXCEPT ![t].at = IF Exists(j) THEN "turning" ELSE "turn", ![t].left = @ \ {j}]
            /\ DisableJob(Me(t), j) \/ (~Exists(j) /\ op.at = "idle" /\ Stay)
    /\ UNCHANGED item /\ UnchangedByTasks

TurnedOffNext(t) ==
    /\ task[t].at = "turning"
    /\ Answered(Me(t), "returned") \/ Answered(Me(t), "raised")
    /\ Step(t, "turn") /\ op' = Idle
    /\ UNCHANGED <<clock, files, memory, faults, item>> /\ UnchangedByTasks

(***************************************************************************)
(* save: the person's own agent job.                                       *)
(***************************************************************************)

SaveJob(j, d, rewritten) ==
    /\ runner /\ task["save"] = NoTask /\ Call("save")
    /\ d.kind = "agent" /\ chats[d.chat] # "retired" /\ (Exists(j) \/ jobs[j] = NoJob)
    /\ rewritten => Exists(j) /\ jobs[j].item # NoItem
    /\ Become("save", [NoTask EXCEPT !.at = "save", !.chat = d.chat, !.job = j, !.def = d, !.rewritten = rewritten])
    /\ Stay /\ UNCHANGED <<chats, threads, item, opening, stopped>>

WriteSaved ==
    LET t == task["save"]
    IN  /\ t.at = "save"
        /\ \/ CreateJob(Me("save"), t.job, t.def) /\ Step("save", "saving")
           \/ UpdateJob(Me("save"), t.job, t.def, t.rewritten) /\ Step("save", "saving")
           \/ jobs[t.job] = Deleted /\ Become("save", NoTask) /\ Stay
        /\ UNCHANGED item /\ UnchangedByTasks

(***************************************************************************)
(* register: the job of an item the person allowed, once its decision      *)
(* committed, or at the next boot.                                         *)
(***************************************************************************)

CheckChat(t) ==
    /\ task[t].at = "register"
    /\ Step(t, IF chats[Asked[task[t].item].chat] = "retired" THEN "refuse" ELSE "create")
    /\ Stay /\ UNCHANGED item /\ UnchangedByTasks

RegisterJob(t) ==
    /\ task[t].at = "create"
    /\ \E j \in JobIds :
         /\ \A i \in JobIds : jobs[i] = NoJob => j <= i
         /\ CreateJob(Me(t), j, Asked[task[t].item])
    /\ Step(t, "saving")
    /\ UNCHANGED item /\ UnchangedByTasks

\* An item whose job the scheduler could not write stays allowed.
Saved(t) ==
    /\ task[t].at = "saving"
    /\ \/ Answered(Me(t), "returned") /\ Step(t, "recheck")
       \/ Answered(Me(t), "raised") /\ Become(t, NoTask)
    /\ op' = Idle
    /\ UNCHANGED <<clock, files, memory, faults, item>> /\ UnchangedByTasks

\* Was the chat retired meanwhile?
Recheck(t) ==
    /\ task[t].at = "recheck"
    /\ Become(t, IF chats[task[t].chat] = "retired" THEN [task[t] EXCEPT !.at = "list"] ELSE Then(t))
    /\ Stay /\ UNCHANGED item /\ UnchangedByTasks

\* Recorded once; the store may refuse the write.
Settle(t) ==
    /\ task[t].at \in {"settle", "refuse"}
    /\ \/ /\ item' = [item EXCEPT ![task[t].item] = IF @ # "allowed" THEN @
                        ELSE IF task[t].at = "settle" THEN "registered" ELSE "refused"]
          /\ UNCHANGED faults
       \/ Fault("store") /\ UNCHANGED item
    /\ Become(t, NoTask)
    /\ UNCHANGED <<clock, files, memory, op>> /\ UnchangedByTasks

Register(t, i) == [NoTask EXCEPT !.at = "register", !.item = i, !.chat = Asked[i].chat]

Allow(i) ==
    /\ item[i] = "open" /\ Call("allow")
    /\ item' = [item EXCEPT ![i] = "allowed"]
    /\ runner /\ task["decided"] = NoTask /\ Become("decided", Register("decided", i))
    /\ Stay /\ UNCHANGED <<chats, threads, opening, stopped>>

TaskStep(t) ==
    ListJobs(t) \/ Listed(t) \/ TurnOffNext(t) \/ TurnedOffNext(t)
      \/ CheckChat(t) \/ RegisterJob(t) \/ Saved(t) \/ Recheck(t) \/ Settle(t)

-----------------------------------------------------------------------------
(***************************************************************************)
(* The person, the agents and the server.                                  *)
(***************************************************************************)

\* A project is removed: its chat and its sessions retire in one transaction.
Retire(c) ==
    /\ runner /\ chats[c] # "retired" /\ task["retire"] = NoTask /\ Call("retire")
    /\ chats' = [chats EXCEPT ![c] = "retired"]
    /\ Become("retire", [NoTask EXCEPT !.at = "list", !.chat = c])
    /\ Stay /\ UNCHANGED <<threads, item, opening, stopped>>

\* Or its folder, without storm.
Unlink(c) ==
    /\ chats[c] = "live" /\ Call("unlink")
    /\ chats' = [chats EXCEPT ![c] = "gone"]
    /\ Stay /\ UNCHANGED <<threads, item, opening, task, stopped>>

Finish(n) ==
    /\ threads[n].working
    /\ threads' = [threads EXCEPT ![n].working = FALSE]
    /\ Stay /\ UNCHANGED <<chats, item, opening, task, stopped, calls>>

WriteTo(n) ==
    /\ ~threads[n].working /\ Call("write")
    /\ threads' = [threads EXCEPT ![n].working = TRUE]
    /\ Stay /\ UNCHANGED <<chats, item, opening, task, stopped>>

\* Calls of the scheduler itself; a command job needs no storm.
PersonCalls ==
    /\ \E j \in JobIds :
         \/ Call("run") /\ RunNow(j)
         \/ Call("delete") /\ DeleteJob(j)
         \/ Call("disable") /\ DisableJob(Person, j)
         \/ \E d \in Offered : /\ d.kind = "command" /\ Call("command")
                               /\ CreateJob(Person, j, d) \/ UpdateJob(Person, j, d, TRUE)
    /\ UNCHANGED <<chats, threads, item, opening, task, stopped>>

Reads ==
    /\ \E j \in JobIds : Ended(j)
    /\ Read(Person)
    /\ UNCHANGED stormVars

Ticks == Tick /\ UNCHANGED stormVars

\* A dispatch starts the fire's coroutine, with the job as it is now.
CallSteps ==
    /\ CallStep
    /\ opening' = IF op.at = "launch" /\ tracked'[op.job] # tracked[op.job] /\ tracked'[op.job].agent
                  THEN [opening EXCEPT ![op.job] = [at |-> "look", chat |-> jobs[op.job].chat]]
                  ELSE opening
    /\ UNCHANGED <<chats, threads, item, task, stopped, calls>>

Passing ==
    /\ Clock \/ \E j \in JobIds : CommandEnds(j)
    /\ UNCHANGED stormVars

BootForgets ==
    /\ ~runner /\ ~stopped /\ SetRunner(TRUE)
    /\ UNCHANGED <<clock, files, tracked, op, faults, stormVars>>

\* Boot registers the runner, and what was allowed and is not registered yet.
Boot ==
    /\ ~runner /\ ~stopped /\ SetRunner(TRUE)
    /\ \/ \E i \in Items : item[i] = "allowed" /\ Become("recover", Register("recover", i))
       \/ (\A i \in Items : item[i] # "allowed") /\ UNCHANGED task
    /\ UNCHANGED <<clock, files, tracked, op, faults, chats, threads, item, opening, stopped, calls>>

\* Shutdown cancels the fires that are opening; a transaction already handed
\* to the store's thread may commit all the same.
Stop ==
    /\ runner /\ SetRunner(FALSE) /\ Fault("stop") /\ stopped' = TRUE
    /\ LET open == {j \in JobIds : opening[j].at # "none"}
       IN  /\ tracked' = [j \in JobIds |-> IF j \in open THEN [tracked[j] EXCEPT !.out = "cancelled"] ELSE tracked[j]]
           /\ opening' = [j \in JobIds |-> IF j \in open THEN NoOpening ELSE opening[j]]
           /\ \/ UNCHANGED threads
              \/ \E j \in open : /\ opening[j].at = "commit" /\ ~Fired(j) /\ ~StillWorking(j)
                                 /\ chats[opening[j].chat] # "retired" /\ OpenThread(j)
    /\ task' = [task EXCEPT !["recover"] = NoTask]
    /\ UNCHANGED <<clock, files, op, chats, item, calls>>

Crash ==
    /\ IF stopped THEN UNCHANGED faults ELSE Fault("crash")
    /\ Restart
    /\ opening' = [j \in JobIds |-> NoOpening]
    /\ task' = [t \in Tasks |-> NoTask]
    /\ stopped' = FALSE
    /\ UNCHANGED <<clock, files, chats, threads, item, calls>>

Init ==
    /\ \E s \in Settings : jobs = s.jobs /\ calls = s.calls /\ faults = s.faults
    /\ SchedulerInit
    /\ chats = [c \in Chats |-> "live"]
    /\ threads = <<>>
    /\ item = [i \in Items |-> "open"]
    /\ opening = [j \in JobIds |-> NoOpening]
    /\ task = [t \in Tasks |-> NoTask]
    /\ stopped = FALSE

Next ==
    \/ Ticks \/ Reads \/ PersonCalls \/ CallSteps \/ Passing
    \/ \E j \in JobIds : Open(j)
    \/ \E t \in Tasks : TaskStep(t)
    \/ \E j \in JobIds, d \in Offered, rewritten \in BOOLEAN : SaveJob(j, d, rewritten)
    \/ WriteSaved
    \/ \E i \in Items : Allow(i)
    \/ \E c \in Chats : Retire(c) \/ Unlink(c)
    \/ \E n \in DOMAIN threads : Finish(n) \/ WriteTo(n)
    \/ Boot \/ Stop \/ Crash

Spec == Init /\ [][Next]_vars
=============================================================================
