-------------------------- MODULE AgentJobs_proofs --------------------------
(***************************************************************************)
(* What is proved of storm's jobs, for any jobs, chats, items, calls and   *)
(* faults: that a fire opens at most one thread, and that no slot fires    *)
(* twice or before its time.                                               *)
(***************************************************************************)
EXTENDS MCAgentJobs, SequenceTheorems, TLAPS

\* The threads are a sequence of runs, no two of one fire.
Runs(T, C) == [job : JobIds, at : T, chat : C, working : BOOLEAN]
ThreadsInv == (\E T, C : threads \in Seq(Runs(T, C))) /\ OneThreadPerFire

\* Only the opening of a thread adds one, when its fire has none: in the
\* transaction of the fire, or in one that a shutdown no longer stops.
LEMMA OnlyOpeningAdds ==
    ASSUME [Next]_vars
    PROVE  \/ UNCHANGED threads
           \/ \E j \in JobIds : ~Fired(j) /\ OpenThread(j)
           \/ \E n \in DOMAIN threads, working \in BOOLEAN : threads' = [threads EXCEPT ![n].working = working]
  <1>. USE DEF stormVars
  <1>1. CASE Ticks \/ Reads \/ PersonCalls \/ CallSteps \/ Passing \/ Boot \/ Crash \/ UNCHANGED vars
    BY <1>1 DEF Ticks, Reads, PersonCalls, CallSteps, Passing, Boot, Crash, vars
  <1>2. ASSUME NEW j \in JobIds, Open(j)
        PROVE  UNCHANGED threads \/ (~Fired(j) /\ OpenThread(j))
    <2>1. CASE Commit(j)
      <3>1. CASE Fired(j)
        BY <2>1, <3>1 DEF Commit
      <3>2. CASE ~Fired(j) /\ chats[opening[j].chat] = "retired"
        BY <2>1, <3>2 DEF Commit
      <3>3. CASE ~Fired(j) /\ chats[opening[j].chat] # "retired" /\ StillWorking(j)
        BY <2>1, <3>3 DEF Commit
      <3>4. CASE ~Fired(j) /\ chats[opening[j].chat] # "retired" /\ ~StillWorking(j)
        BY <2>1, <3>4 DEF Commit
      <3>. QED
        BY <3>1, <3>2, <3>3, <3>4
    <2>2. CASE Look(j) \/ Check(j) \/ Opened(j) \/ TurnOff(j) \/ TurnedOff(j)
      BY <2>2 DEF Look, Check, Opened, TurnOff, TurnedOff
    <2>. QED
      BY <1>2, <2>1, <2>2 DEF Open
  <1>3. ASSUME NEW t \in Tasks, TaskStep(t) PROVE UNCHANGED threads
    BY <1>3 DEF TaskStep, ListJobs, Listed, TurnOffNext, TurnedOffNext, CheckChat, RegisterJob, Saved, Recheck, Settle,
                UnchangedByTasks
  <1>4. ASSUME NEW j \in JobIds, NEW d \in Offered, NEW rewritten \in BOOLEAN, SaveJob(j, d, rewritten) PROVE UNCHANGED threads
    BY <1>4 DEF SaveJob
  <1>5. CASE WriteSaved \/ (\E i \in Items : Allow(i)) \/ (\E c \in Chats : Retire(c) \/ Unlink(c))
    BY <1>5 DEF WriteSaved, Allow, Retire, Unlink, UnchangedByTasks
  <1>6. ASSUME NEW n \in DOMAIN threads, Finish(n) \/ WriteTo(n)
        PROVE  \E working \in BOOLEAN : threads' = [threads EXCEPT ![n].working = working]
    BY <1>6 DEF Finish, WriteTo
  <1>7. CASE Stop
    BY <1>7 DEF Stop
  <1>. QED
    BY <1>1, <1>2, <1>3, <1>4, <1>5, <1>6, <1>7 DEF Next

\* A thread more for a fire that had none.
LEMMA OpeningKeeps ==
    ASSUME ThreadsInv, NEW j \in JobIds, ~Fired(j), OpenThread(j)
    PROVE  ThreadsInv'
  <1>1. PICK T, C : threads \in Seq(Runs(T, C))
    BY DEF ThreadsInv
  <1>. DEFINE new == [job |-> j, at |-> tracked[j].at, chat |-> opening[j].chat, working |-> TRUE]
              U == T \cup {tracked[j].at}
              D == C \cup {opening[j].chat}
  <1>2. new \in Runs(U, D)
    BY DEF Runs
  <1>3. Runs(T, C) \subseteq Runs(U, D)
    BY DEF Runs
  <1>4. threads' = Append(threads, new) /\ new.job = j /\ new.at = tracked[j].at
    BY DEF OpenThread
  <1>. HIDE DEF new, U, D
  <1>5. threads \in Seq(Runs(U, D))
    BY <1>1, <1>3
  <1>6. /\ threads' \in Seq(Runs(U, D)) /\ Len(threads) \in Nat
        /\ DOMAIN threads = 1 .. Len(threads) /\ DOMAIN threads' = 1 .. Len(threads) + 1
        /\ threads'[Len(threads) + 1] = new
        /\ \A n \in DOMAIN threads : threads'[n] = threads[n]
    BY <1>2, <1>4, <1>5
  <1>7. \A n \in DOMAIN threads : ~(threads[n].job = new.job /\ threads[n].at = new.at)
    BY <1>4 DEF Fired, ThreadsOf
  <1>8. OneThreadPerFire'
    <2>. SUFFICES ASSUME NEW m \in DOMAIN threads', NEW n \in DOMAIN threads',
                         threads'[m].job = threads'[n].job, threads'[m].at = threads'[n].at
                  PROVE  m = n
      BY DEF OneThreadPerFire
    <2>1. m \in DOMAIN threads \/ m = Len(threads) + 1
      BY <1>6
    <2>2. n \in DOMAIN threads \/ n = Len(threads) + 1
      BY <1>6
    <2>. QED
      BY <1>6, <1>7, <2>1, <2>2 DEF ThreadsInv, OneThreadPerFire
  <1>. QED
    BY <1>6, <1>8 DEF ThreadsInv

\* A thread whose agent stops, or starts, working is of the same fire.
LEMMA WorkingKeeps ==
    ASSUME ThreadsInv, NEW n \in DOMAIN threads, NEW working \in BOOLEAN, threads' = [threads EXCEPT ![n].working = working]
    PROVE  ThreadsInv'
  <1>1. PICK T, C : threads \in Seq(Runs(T, C))
    BY DEF ThreadsInv
  <1>2. DOMAIN threads = 1 .. Len(threads) /\ Len(threads) \in Nat /\ \A m \in DOMAIN threads : threads[m] \in Runs(T, C)
    BY <1>1
  <1>3. \A r \in Runs(T, C) : /\ [r EXCEPT !.working = working] \in Runs(T, C)
                              /\ [r EXCEPT !.working = working].job = r.job /\ [r EXCEPT !.working = working].at = r.at
    BY DEF Runs
  <1>4. threads' = [m \in DOMAIN threads |-> IF m = n THEN [threads[n] EXCEPT !.working = working] ELSE threads[m]]
    BY <1>2
  <1>5. \A m \in DOMAIN threads : threads'[m] \in Runs(T, C) /\ threads'[m].job = threads[m].job /\ threads'[m].at = threads[m].at
    BY <1>2, <1>3, <1>4
  <1>6. threads' \in Seq(Runs(T, C)) /\ DOMAIN threads' = DOMAIN threads
    <2>1. DOMAIN threads' = 1 .. Len(threads)
      BY <1>2, <1>4
    <2>2. threads' \in [1 .. Len(threads) -> Runs(T, C)]
      BY <1>2, <1>4, <1>5
    <2>. QED
      BY <1>2, <2>1, <2>2, SeqDef
  <1>7. OneThreadPerFire'
    BY <1>5, <1>6 DEF ThreadsInv, OneThreadPerFire
  <1>. QED
    BY <1>6, <1>7 DEF ThreadsInv

\* A fire opens one thread at most, however often it is handed over: the tick,
\* a manual run in the same second, and what follows a crash, a shutdown or a
\* failed write find it.
THEOREM FiresOpenOneThread == Spec => []OneThreadPerFire
  <1>1. Init => ThreadsInv
    <2>. SUFFICES ASSUME Init PROVE ThreadsInv
      OBVIOUS
    <2>1. threads = <<>>
      BY DEF Init
    <2>2. threads \in Seq(Runs({}, {})) /\ DOMAIN threads = {}
      BY <2>1
    <2>. QED
      BY <2>2 DEF ThreadsInv, OneThreadPerFire
  <1>2. ThreadsInv /\ [Next]_vars => ThreadsInv'
    <2>1. ThreadsInv /\ UNCHANGED threads => ThreadsInv'
      BY DEF ThreadsInv, OneThreadPerFire
    <2>. QED
      BY <2>1, OnlyOpeningAdds, OpeningKeeps, WorkingKeeps
  <1>. QED
    BY <1>1, <1>2, PTL DEF Spec, ThreadsInv

-----------------------------------------------------------------------------
(***************************************************************************)
(* A scheduled fire is of a slot that is due, and the write that records   *)
(* it moves the job past it.                                               *)
(***************************************************************************)

\* A division and its remainder.
LEMMA Division ==
    ASSUME NEW a \in Nat, NEW b \in Nat, b > 0
    PROVE  a \div b \in Int /\ b * (a \div b) <= a /\ a < b * (a \div b) + b
  OBVIOUS

\* The first slot after t lies past it, and the slot before that one does not.
LEMMA AdvancePasses ==
    ASSUME NEW next \in Int, NEW every \in Nat, every # 0, NEW t \in Int
    PROVE  /\ Advance(next, every, t) \in Int /\ Advance(next, every, t) > t
           /\ next <= t => /\ next <= Advance(next, every, t) - every
                           /\ Advance(next, every, t) - every <= t
  <1>1. CASE next > t
    BY <1>1 DEF Advance
  <1>2. CASE next <= t
    <2>. DEFINE q == (t - next) \div every
    <2>1. t - next \in Nat
      BY <1>2
    <2>2. q \in Int /\ every * q <= t - next /\ t - next < every * q + every
      BY <2>1, Division
    <2>3. Advance(next, every, t) = next + every * (q + 1)
      BY <1>2 DEF Advance
    <2>. HIDE DEF q
    <2>4. q >= 0
      BY <2>1, <2>2
    <2>5. every * q >= 0 /\ every * q \in Int /\ every * (q + 1) = every * q + every
      BY <2>2, <2>4
    <2>. QED
      BY <2>2, <2>3, <2>5
  <1>. QED
    BY <1>1, <1>2

\* What the files hold.
JobRecords == Definitions \cup {NoJob, Deleted}
FireRecords == [at : Int, trigger : {"none", "manual", "schedule"}]
Entries == [next : Int, since : Int, fire : FireRecords]
Docs == [JobIds -> Entries]

\* An entry whose run, or fire, changes.
LEMMA EntryEdits ==
    ASSUME NEW N, NEW S, NEW F, NEW entry \in [next : N, since : S, fire : F], NEW since \in S, NEW fire \in F
    PROVE  /\ [entry EXCEPT !.since = since, !.fire = fire] \in [next : N, since : S, fire : F]
           /\ [entry EXCEPT !.since = since, !.fire = fire].fire = fire
           /\ [entry EXCEPT !.since = since, !.fire = fire].next = entry.next
  OBVIOUS

\* The job's first slot is a time.
LEMMA EntryType ==
    /\ NoEntry \in Entries /\ NoEntry.fire = NoFire /\ NoFire.trigger # "schedule"
    /\ \A entry \in Entries : Cleared(entry) \in Entries /\ Cleared(entry).fire = NoFire /\ Cleared(entry).next = entry.next
    /\ \A d \in Definitions, t \in Nat :
          FirstSlot(d, t) \in Int /\ InitialEntry(d, t) \in Entries /\ InitialEntry(d, t).fire = NoFire
  <1>1. NoEntry \in Entries /\ NoEntry.fire = NoFire /\ NoFire.trigger # "schedule" /\ NoFire \in FireRecords
    <2>1. NoFire \in FireRecords /\ NoFire.trigger = "none"
      BY DEF NoFire, FireRecords
    <2>2. NoEntry \in Entries /\ NoEntry.fire = NoFire
      BY <2>1 DEF NoEntry, Entries
    <2>. QED
      BY <2>1, <2>2
  <1>2. ASSUME NEW entry \in Entries
        PROVE  Cleared(entry) \in Entries /\ Cleared(entry).fire = NoFire /\ Cleared(entry).next = entry.next
    <2>1. 0 \in Int /\ entry \in [next : Int, since : Int, fire : FireRecords]
      BY DEF Entries
    <2>2. /\ [entry EXCEPT !.since = 0, !.fire = NoFire] \in [next : Int, since : Int, fire : FireRecords]
          /\ [entry EXCEPT !.since = 0, !.fire = NoFire].fire = NoFire
          /\ [entry EXCEPT !.since = 0, !.fire = NoFire].next = entry.next
      BY <1>1, <2>1, EntryEdits
    <2>. QED
      BY <2>2 DEF Entries, Cleared
  <1>3. ASSUME NEW d \in Definitions, NEW t \in Nat PROVE FirstSlot(d, t) \in Int
    <2>1. d.every \in Nat /\ d.first \in Nat
      BY DEF Definitions
    <2>2. CASE d.every = 0
      BY <2>1, <2>2 DEF FirstSlot, Once
    <2>3. CASE d.every # 0 /\ d.first = 0
      BY <2>1, <2>3 DEF FirstSlot, Once
    <2>4. CASE d.every # 0 /\ d.first # 0
      <3>1. Advance(d.first, d.every, t) \in Int
        <4>1. d.first \in Int /\ t \in Int /\ d.every # 0
          BY <2>1, <2>4
        <4>. QED
          BY <2>1, <4>1, AdvancePasses
      <3>. QED
        BY <2>1, <2>4, <3>1 DEF FirstSlot, Once
    <2>. QED
      BY <2>1, <2>2, <2>3, <2>4
  <1>4. ASSUME NEW d \in Definitions, NEW t \in Nat
        PROVE  InitialEntry(d, t) \in Entries /\ InitialEntry(d, t).fire = NoFire
    BY <1>1, <1>3 DEF InitialEntry, Entries
  <1>. QED
    BY <1>1, <1>2, <1>3, <1>4

\* An entry that replaces another: its fire is the other's, or none; or it is
\* of a slot that was due, and the next one is not.
SameSlot(old, new) == new.next = old.next /\ (new.fire = old.fire \/ new.fire = NoFire)

FiresOnce(old, new, now) ==
    new.fire.trigger = "schedule" /\ new.fire # old.fire =>
        /\ old.next <= new.fire.at /\ new.fire.at <= now
        /\ new.next = 0 \/ new.next > now

\* The call that holds the lock: its copy of state.json against the file.
Callers == {Person, Watcher} \cup {Me(t) : t \in Tasks} \cup {Fire(j) : j \in JobIds}

Kinds == {"none", "tick", "read", "run", "delete", "create", "update", "disable"}
Places == {"idle", "returned", "raised", "harvest", "sweep", "jobs", "state", "consider", "run", "launch", "undo"}

Ops == [kind : Kinds, at : Places, who : Callers, job : JobIds \cup {0}, def : JobRecords, now : Nat,
        doc : Docs \cup {<<>>}, left : SUBSET JobIds, changed : BOOLEAN]

Busy == op.at \notin {"idle", "returned", "raised"}

CopyInv ==
    /\ op.doc \in Docs
    /\ \A j \in JobIds : FiresOnce(state[j], op.doc[j], op.now)
    /\ op.at \in {"harvest", "sweep", "run"} => \A j \in JobIds : SameSlot(state[j], op.doc[j])
    /\ op.at = "jobs" /\ op.kind = "disable" => \A j \in JobIds : SameSlot(state[j], op.doc[j])
    /\ op.at \in {"consider", "launch"} /\ op.kind = "tick" => \A j \in op.left : SameSlot(state[j], op.doc[j]) /\ Exists(j)
    /\ op.at \in {"launch", "undo"} => op.doc = state
    /\ op.at = "consider" => op.kind = "tick"
    /\ op.at = "run" => op.kind = "run"
    /\ op.at \in {"jobs", "state"} => op.kind # "run"
    /\ op.at = "launch" => op.kind \in {"run", "tick"}
    /\ op.kind = "run" => op.job \in JobIds /\ Exists(op.job)

OpInv == op \in Ops /\ (Busy => CopyInv)

FilesInv == clock \in Nat /\ jobs \in [JobIds -> JobRecords] /\ state \in Docs

\* What the coroutines save and register.
Steps == {"none", "list", "listing", "turn", "turning", "save", "saving", "recheck", "register", "create", "refuse", "settle"}
TaskKind == [at : Steps, chat : Chats \cup {NoChat}, job : JobIds \cup {0}, def : Definitions \cup {NoJob},
             left : SUBSET JobIds, rewritten : BOOLEAN, item : Items \cup {NoItem}]

TaskInv ==
    /\ task \in [Tasks -> TaskKind]
    /\ task["save"].at = "save" => task["save"].def \in Definitions /\ task["save"].job \in JobIds
    /\ \A t \in Tasks : task[t].at \in {"register", "create"} => task[t].item \in Items

SlotInv == FilesInv /\ TaskInv /\ OpInv

\* A write of state.json, by the call that holds the lock.
SlotsFire == \A j \in JobIds : FiresOnce(state[j], state'[j], op.now)

\* A copy that is as the file is.
LEMMA SameFires ==
    ASSUME NEW old, NEW new, NEW now, SameSlot(old, new)
    PROVE  FiresOnce(old, new, now)
  BY EntryType DEF SameSlot, FiresOnce

LEMMA AsItIs ==
    ASSUME NEW old, NEW now
    PROVE  SameSlot(old, old) /\ FiresOnce(old, old, now)
  BY DEF SameSlot, FiresOnce

\* A call takes the lock.
LEMMA BeginKeeps ==
    ASSUME FilesInv, NEW kind \in Kinds, NEW at \in {"harvest", "jobs"}, NEW who \in Callers, NEW j \in JobIds \cup {0},
           NEW d \in JobRecords, NEW doc \in Docs, Begin(kind, at, who, j, d, doc),
           \A i \in JobIds : FiresOnce(state[i], doc[i], clock),
           at = "harvest" \/ kind = "disable" => \A i \in JobIds : SameSlot(state[i], doc[i]),
           kind = "run" => at = "harvest" /\ j \in JobIds /\ Exists(j),
           UNCHANGED <<clock, jobs, state>>
    PROVE  FilesInv' /\ OpInv'
  <1>. DEFINE tracking == {i \in JobIds : Tracked(i)}
  <1>1. op' = [kind |-> kind, at |-> at, who |-> who, job |-> j, def |-> d, now |-> clock,
               doc |-> doc, left |-> tracking, changed |-> FALSE]
    BY DEF Begin
  <1>2. tracking \in SUBSET JobIds
    OBVIOUS
  <1>. HIDE DEF tracking
  <1>3. op' \in Ops
    <2>1. at \in Places /\ clock \in Nat /\ doc \in Docs \cup {<<>>} /\ FALSE \in BOOLEAN
      BY DEF Places, FilesInv
    <2>. QED
      BY <1>1, <1>2, <2>1 DEF Ops
  <1>4. /\ op'.kind = kind /\ op'.at = at /\ op'.job = j /\ op'.now = clock /\ op'.doc = doc
    BY <1>1
  <1>5. CopyInv'
    BY <1>4 DEF CopyInv, Exists, FilesInv
  <1>6. FilesInv'
    BY DEF FilesInv
  <1>. QED
    BY <1>3, <1>5, <1>6 DEF OpInv

\* A call that is over.
LEMMA IdleType == Idle \in Ops /\ Idle.at = "idle"
  <1>1. Person \in Callers /\ NoJob \in JobRecords /\ {} \in SUBSET JobIds
    BY DEF Callers, JobRecords
  <1>2. Idle \in Ops
    BY <1>1 DEF Idle, Ops, Kinds, Places
  <1>. QED
    BY <1>2 DEF Idle

LEMMA LeaveKeeps ==
    ASSUME op \in Ops, NEW answer \in {"returned", "raised"}, Leave(answer)
    PROVE  op' \in Ops /\ ~Busy' /\ OpInv'
  <1>1. op.who \in Callers
    BY DEF Ops
  <1>2. op' \in Ops /\ op'.at \in {"idle", "returned", "raised"}
    <2>1. CASE op.who \in {Person, Watcher}
      BY <2>1, IdleType DEF Leave
    <2>2. CASE op.who \notin {Person, Watcher}
      <3>1. op' = [Idle EXCEPT !.at = answer, !.who = op.who]
        BY <2>2 DEF Leave
      <3>. QED
        BY <1>1, <3>1, IdleType DEF Ops, Places
    <2>. QED
      BY <2>1, <2>2
  <1>. QED
    BY <1>2 DEF OpInv, Busy

\* The tick goes on to the jobs it has left.
LEMMA ConsiderKeeps ==
    ASSUME op \in Ops, NEW left \in SUBSET JobIds, NEW doc \in Docs, NEW changed \in BOOLEAN, op.kind = "tick",
           \A j \in JobIds : FiresOnce(state'[j], doc[j], op.now),
           \A j \in left : SameSlot(state'[j], doc[j]) /\ Exists(j),
           UNCHANGED jobs, Consider(left, doc, changed)
    PROVE  OpInv'
  <1>1. CASE left = {} /\ ~changed
    BY <1>1, LeaveKeeps DEF Consider, Return
  <1>2. CASE ~(left = {} /\ ~changed)
    <2>1. op' = [op EXCEPT !.at = "consider", !.job = 0, !.left = left, !.doc = doc, !.changed = changed]
      BY <1>2 DEF Consider
    <2>2. /\ op' \in Ops /\ op'.at = "consider" /\ op'.left = left /\ op'.doc = doc /\ op'.kind = "tick" /\ op'.now = op.now
      BY <2>1 DEF Ops, Places
    <2>3. CopyInv'
      BY <2>2 DEF CopyInv, Exists
    <2>. QED
      BY <2>2, <2>3 DEF OpInv
  <1>. QED
    BY <1>1, <1>2

\* The call goes on at another place.
LEMMA GotoKeeps ==
    ASSUME op \in Ops, NEW at \in Places, Goto(at)
    PROVE  /\ op' \in Ops /\ op'.at = at
           /\ op'.kind = op.kind /\ op'.job = op.job /\ op'.doc = op.doc /\ op'.now = op.now /\ op'.left = op.left
           /\ op'.def = op.def /\ op'.changed = op.changed
  BY DEF Goto, Ops

\* What a step of the call may do.
StepKeeps == FilesInv' /\ OpInv' /\ SlotsFire

\* A step that leaves the files.
LEMMA LeavesFiles ==
    ASSUME FilesInv, UNCHANGED <<clock, jobs, state>>
    PROVE  FilesInv' /\ SlotsFire
  BY AsItIs DEF FilesInv, SlotsFire

\* A step that writes a copy.
LEMMA WritesState ==
    ASSUME FilesInv, NEW doc \in Docs, WriteState(doc), UNCHANGED <<clock, jobs>>,
           \A j \in JobIds : FiresOnce(state[j], doc[j], op.now)
    PROVE  FilesInv' /\ SlotsFire
  BY DEF FilesInv, SlotsFire, WriteState

\* The harvest.
LEMMA HarvestKeeps ==
    ASSUME SlotInv, Harvest
    PROVE  StepKeeps
  <1>1. op \in Ops /\ op.at = "harvest" /\ CopyInv /\ FilesInv /\ clock' = clock
    BY DEF SlotInv, OpInv, Harvest, Busy
  <1>2. \A i \in JobIds : SameSlot(state[i], op.doc[i])
    BY <1>1 DEF CopyInv
  <1>3. PICK j \in op.left : Ended(j) /\ (DropCancelled(j) \/ AppendRun(j) \/ ReleaseRun(j))
    BY DEF Harvest
  <1>4. j \in JobIds
    BY <1>1 DEF Ops
  <1>5. CASE DropCancelled(j)
    <2>1. UNCHANGED <<clock, jobs, state>> /\ op' = [op EXCEPT !.left = @ \ {j}]
      BY <1>1, <1>5 DEF DropCancelled, files
    <2>2. /\ op' \in Ops /\ op'.at = "harvest" /\ op'.kind = op.kind /\ op'.job = op.job /\ op'.doc = op.doc
          /\ op'.now = op.now
      BY <1>1, <2>1 DEF Ops
    <2>3. OpInv'
      BY <1>1, <2>1, <2>2 DEF OpInv, CopyInv, Exists
    <2>. QED
      BY <1>1, <2>1, <2>3, LeavesFiles DEF StepKeeps
  <1>6. CASE AppendRun(j)
    <2>1. UNCHANGED <<clock, jobs, state>> /\ (op' = op \/ Raise)
      BY <1>1, <1>6 DEF AppendRun, AppendLine
    <2>2. OpInv'
      <3>1. CASE op' = op
        BY <1>1, <2>1, <3>1 DEF OpInv, CopyInv, Exists, Busy
      <3>2. CASE Raise
        BY <1>1, <3>2, LeaveKeeps DEF Raise
      <3>. QED
        BY <2>1, <3>1, <3>2
    <2>. QED
      BY <1>1, <2>1, <2>2, LeavesFiles DEF StepKeeps
  <1>7. CASE ReleaseRun(j)
    <2>. DEFINE doc == IF op.doc[j] = NoEntry THEN op.doc ELSE [op.doc EXCEPT ![j] = Cleared(@)]
    <2>1. \/ /\ WriteState(doc) /\ op' = [op EXCEPT !.left = @ \ {j}, !.doc = doc, !.changed = TRUE]
          \/ WriteFails /\ Raise
      BY <1>7 DEF ReleaseRun
    <2>2. UNCHANGED <<clock, jobs>>
      BY <1>1, <1>7 DEF ReleaseRun
    <2>3. doc \in Docs /\ \A i \in JobIds : SameSlot(state[i], doc[i])
      <3>1. op.doc \in Docs /\ op.doc[j] \in Entries
        BY <1>1, <1>4 DEF CopyInv, Docs
      <3>2. Cleared(op.doc[j]) \in Entries /\ Cleared(op.doc[j]).fire = NoFire /\ Cleared(op.doc[j]).next = op.doc[j].next
        BY <3>1, EntryType
      <3>. QED
        BY <1>2, <1>4, <3>1, <3>2 DEF Docs, SameSlot
    <2>. HIDE DEF doc
    <2>4. CASE WriteState(doc) /\ op' = [op EXCEPT !.left = @ \ {j}, !.doc = doc, !.changed = TRUE]
      <3>1. /\ op' \in Ops /\ op'.at = "harvest" /\ op'.kind = op.kind /\ op'.job = op.job /\ op'.doc = doc
            /\ op'.now = op.now
        BY <1>1, <2>3, <2>4 DEF Ops
      <3>2. state' = doc
        BY <2>4 DEF WriteState
      <3>3. OpInv'
        BY <1>1, <2>2, <2>3, <3>1, <3>2, AsItIs DEF OpInv, CopyInv, Exists
      <3>4. \A i \in JobIds : FiresOnce(state[i], doc[i], op.now)
        BY <2>3, SameFires
      <3>. QED
        BY <1>1, <2>2, <2>3, <2>4, <3>3, <3>4, WritesState DEF StepKeeps
    <2>5. CASE WriteFails /\ Raise
      BY <1>1, <2>2, <2>5, LeaveKeeps, LeavesFiles DEF Raise, WriteFails, files, StepKeeps
    <2>. QED
      BY <2>1, <2>4, <2>5
  <1>. QED
    BY <1>3, <1>5, <1>6, <1>7

\* What follows the sweep, given the file as the step leaves it.
LEMMA AfterSweepKeeps ==
    ASSUME op \in Ops, op.at \in {"harvest", "sweep"}, CopyInv, UNCHANGED jobs, AfterSweep,
           \A j \in JobIds : SameSlot(state'[j], op.doc[j])
    PROVE  OpInv'
  <1>0. op.doc \in Docs /\ \A j \in JobIds : FiresOnce(state'[j], op.doc[j], op.now)
    BY SameFires DEF CopyInv
  <1>1. CASE op.kind = "tick"
    <2>1. Consider({j \in JobIds : Exists(j)}, op.doc, op.changed)
      BY <1>1 DEF AfterSweep
    <2>2. op.changed \in BOOLEAN
      BY DEF Ops
    <2>. DEFINE left == {j \in JobIds : Exists(j)}
    <2>3. left \in SUBSET JobIds /\ \A j \in left : SameSlot(state'[j], op.doc[j]) /\ Exists(j)
      OBVIOUS
    <2>. HIDE DEF left
    <2>. QED
      BY <1>0, <1>1, <2>1, <2>2, <2>3, ConsiderKeeps DEF left
  <1>2. CASE op.kind = "run"
    <2>1. Goto("run")
      BY <1>2 DEF AfterSweep
    <2>2. /\ op' \in Ops /\ op'.at = "run" /\ op'.kind = "run" /\ op'.job = op.job /\ op'.doc = op.doc /\ op'.now = op.now
      BY <1>2, <2>1, GotoKeeps DEF Places
    <2>3. CopyInv'
      BY <1>0, <1>2, <2>2 DEF CopyInv, Exists
    <2>. QED
      BY <2>2, <2>3 DEF OpInv
  <1>3. CASE op.kind = "delete"
    <2>1. op' = [op EXCEPT !.at = "jobs", !.doc[op.job] = NoEntry]
      BY <1>3 DEF AfterSweep
    <2>. DEFINE doc == [op.doc EXCEPT ![op.job] = NoEntry]
    <2>2. /\ op'.at = "jobs" /\ op'.kind = "delete" /\ op'.now = op.now /\ op'.doc = doc
      BY <1>3, <2>1 DEF Ops
    <2>3. doc \in Docs
      BY <1>0, EntryType DEF Docs
    <2>4. op' \in Ops
      BY <2>1, <2>3 DEF Ops, Places
    <2>5. \A j \in JobIds : FiresOnce(state'[j], doc[j], op.now)
      BY <1>0, EntryType DEF FiresOnce, Docs
    <2>. HIDE DEF doc
    <2>6. CopyInv'
      BY <2>2, <2>3, <2>5 DEF CopyInv
    <2>. QED
      BY <2>4, <2>6 DEF OpInv
  <1>4. CASE op.kind \notin {"tick", "run", "delete"}
    <2>1. Return
      BY <1>4 DEF AfterSweep
    <2>. QED
      BY <2>1, LeaveKeeps DEF Return
  <1>. QED
    BY <1>1, <1>2, <1>3, <1>4

\* The sweep.
LEMMA SweepKeeps ==
    ASSUME SlotInv, Sweep
    PROVE  StepKeeps
  <1>1. op \in Ops /\ op.at \in {"harvest", "sweep"} /\ CopyInv /\ FilesInv /\ UNCHANGED <<clock, jobs>>
    BY DEF SlotInv, OpInv, Sweep, Harvested, Busy
  <1>2. op.doc \in Docs /\ \A i \in JobIds : SameSlot(state[i], op.doc[i]) /\ FiresOnce(state[i], op.doc[i], op.now)
    BY <1>1 DEF CopyInv
  <1>3. ASSUME NEW j \in JobIds, op' = [op EXCEPT !.at = "sweep", !.doc[j].since = 0, !.changed = TRUE], state' = state
        PROVE  StepKeeps
    <2>. DEFINE entry == [op.doc[j] EXCEPT !.since = 0]
                doc == [op.doc EXCEPT ![j] = entry]
    <2>0. op.doc[j] \in Entries
      BY <1>2 DEF Docs
    <2>1. entry \in Entries /\ entry.next = op.doc[j].next /\ entry.fire = op.doc[j].fire
      BY <2>0 DEF Entries
    <2>2. op'.doc = doc /\ op'.at = "sweep" /\ op'.kind = op.kind /\ op'.job = op.job /\ op'.now = op.now
      BY <1>1, <1>3 DEF Ops
    <2>. HIDE DEF entry
    <2>3. doc \in Docs /\ \A i \in JobIds : SameSlot(state[i], doc[i])
      BY <1>2, <2>1 DEF Docs, SameSlot
    <2>4. op' \in Ops
      <3>1. op' = [op EXCEPT !.at = "sweep", !.doc = doc, !.changed = TRUE]
        BY <1>1, <1>3 DEF Ops, entry
      <3>. HIDE DEF doc
      <3>. QED
        BY <1>1, <2>3, <3>1 DEF Ops, Places
    <2>. HIDE DEF doc
    <2>5. \A i \in JobIds : FiresOnce(state[i], doc[i], op.now)
      BY <2>3, SameFires
    <2>6. OpInv'
      BY <1>1, <1>3, <2>2, <2>3, <2>4, <2>5 DEF OpInv, CopyInv, Exists
    <2>. QED
      BY <1>1, <1>3, <2>6, LeavesFiles DEF StepKeeps
  <1>4. CASE WriteFails /\ Raise
    BY <1>1, <1>4, LeaveKeeps, LeavesFiles DEF Raise, WriteFails, files, StepKeeps
  <1>5. CASE WriteState(op.doc) /\ AfterSweep
    <2>1. state' = op.doc /\ \A i \in JobIds : SameSlot(state'[i], op.doc[i])
      BY <1>5, AsItIs DEF WriteState
    <2>2. OpInv'
      BY <1>1, <1>5, <2>1, AfterSweepKeeps
    <2>. QED
      BY <1>1, <1>2, <1>5, <2>2, WritesState DEF StepKeeps
  <1>6. CASE AfterSweep /\ UNCHANGED state
    <2>1. \A i \in JobIds : SameSlot(state'[i], op.doc[i])
      BY <1>2, <1>6
    <2>2. OpInv'
      BY <1>1, <1>6, <2>1, AfterSweepKeeps
    <2>. QED
      BY <1>1, <1>6, <2>2, LeavesFiles DEF StepKeeps
  <1>7. \/ \E j \in JobIds : op' = [op EXCEPT !.at = "sweep", !.doc[j].since = 0, !.changed = TRUE] /\ state' = state
        \/ WriteFails /\ Raise
        \/ WriteState(op.doc) /\ AfterSweep
        \/ AfterSweep /\ UNCHANGED state
    BY DEF Sweep
  <1>. QED
    BY <1>3, <1>4, <1>5, <1>6, <1>7

\* The writes of the definitions and of the entries that go with them.
LEMMA SaveJobsKeeps ==
    ASSUME SlotInv, SaveJobs
    PROVE  StepKeeps
  <1>1. op \in Ops /\ op.at = "jobs" /\ CopyInv /\ FilesInv /\ clock' = clock /\ state' = state
    BY DEF SlotInv, OpInv, SaveJobs, Busy, WriteFails, files
  <1>2. CASE WriteFails /\ Raise
    BY <1>1, <1>2, LeaveKeeps, LeavesFiles DEF Raise, WriteFails, files, StepKeeps
  <1>3. CASE /\ jobs' = [jobs EXCEPT ![op.job] = op.def]
             /\ Goto(IF op.kind = "disable" THEN "harvest" ELSE "state")
    <2>. DEFINE at == IF op.kind = "disable" THEN "harvest" ELSE "state"
    <2>1. op.def \in JobRecords /\ at \in Places
      BY <1>1 DEF Ops, Places
    <2>2. jobs' \in [JobIds -> JobRecords]
      BY <1>1, <1>3, <2>1 DEF FilesInv
    <2>3. /\ op' \in Ops /\ op'.at = at
          /\ op'.kind = op.kind /\ op'.job = op.job /\ op'.doc = op.doc /\ op'.now = op.now
      BY <1>1, <1>3, <2>1, GotoKeeps
    <2>4. op.kind # "run"
      BY <1>1 DEF CopyInv
    <2>5. CopyInv'
      BY <1>1, <2>3, <2>4 DEF CopyInv
    <2>6. FilesInv' /\ SlotsFire
      BY <1>1, <2>2, AsItIs DEF FilesInv, SlotsFire
    <2>. QED
      BY <2>3, <2>5, <2>6 DEF OpInv, StepKeeps
  <1>. QED
    BY <1>2, <1>3 DEF SaveJobs

LEMMA SaveStateKeeps ==
    ASSUME SlotInv, SaveState
    PROVE  StepKeeps
  <1>1. op \in Ops /\ op.at = "state" /\ CopyInv /\ FilesInv /\ UNCHANGED <<clock, jobs>>
    BY DEF SlotInv, OpInv, SaveState, Busy, WriteFails, files
  <1>2. CASE WriteFails /\ Raise
    BY <1>1, <1>2, LeaveKeeps, LeavesFiles DEF Raise, WriteFails, files, StepKeeps
  <1>3. CASE WriteState(op.doc) /\ Return
    <2>1. op.doc \in Docs /\ \A j \in JobIds : FiresOnce(state[j], op.doc[j], op.now)
      BY <1>1 DEF CopyInv
    <2>. QED
      BY <1>1, <1>3, <2>1, LeaveKeeps, WritesState DEF Return, StepKeeps
  <1>. QED
    BY <1>2, <1>3 DEF SaveState

\* A copy written before its run is launched, or left in memory.
LEMMA WriteThenLaunchKeeps ==
    ASSUME FilesInv, op \in Ops, op.at = "consider", CopyInv, NEW j \in JobIds, j \in op.left, NEW doc \in Docs,
           FiresOnce(state[j], doc[j], op.now), \A i \in JobIds \ {j} : doc[i] = op.doc[i], WriteThenLaunch(j, doc)
    PROVE  StepKeeps
  <1>1. op.kind = "tick" /\ op.left \in SUBSET JobIds /\ op.changed \in BOOLEAN /\ UNCHANGED <<clock, jobs>>
    BY DEF CopyInv, Ops, WriteThenLaunch, WriteFails, files
  <1>2. \A i \in JobIds : FiresOnce(state[i], doc[i], op.now)
    BY DEF CopyInv
  <1>3. \A i \in op.left \ {j} : SameSlot(state[i], doc[i]) /\ Exists(i)
    BY <1>1 DEF CopyInv
  <1>4. \A i \in op.left : Exists(i)
    BY DEF CopyInv
  <1>5. CASE WriteFails /\ Considered(j, doc, op.changed)
    <2>1. UNCHANGED <<jobs, state>>
      BY <1>5 DEF WriteFails, files
    <2>2. Consider(op.left \ {j}, doc, op.changed) /\ op.left \ {j} \in SUBSET JobIds
      BY <1>1, <1>5 DEF Considered
    <2>3. OpInv'
      BY <1>1, <1>2, <1>3, <2>1, <2>2, ConsiderKeeps
    <2>. QED
      BY <1>1, <2>1, <2>3, LeavesFiles DEF StepKeeps
  <1>6. CASE WriteState(doc) /\ op' = [op EXCEPT !.at = "launch", !.job = j, !.doc = doc]
    <2>1. /\ op' \in Ops /\ op'.at = "launch" /\ op'.kind = "tick" /\ op'.left = op.left /\ op'.doc = doc /\ op'.now = op.now
      BY <1>1, <1>6 DEF Ops, Places
    <2>2. state' = doc
      BY <1>6 DEF WriteState
    <2>3. CopyInv'
      BY <1>1, <1>4, <2>1, <2>2, AsItIs DEF CopyInv, Exists
    <2>. QED
      BY <1>1, <1>2, <1>6, <2>1, <2>3, WritesState DEF OpInv, StepKeeps
  <1>. QED
    BY <1>5, <1>6 DEF WriteThenLaunch

\* The tick considers a job.
LEMMA ConsiderJobKeeps ==
    ASSUME SlotInv, NEW j \in JobIds, ConsiderJob(j)
    PROVE  StepKeeps
  <1>1. op \in Ops /\ op.at = "consider" /\ j \in op.left /\ CopyInv /\ FilesInv
    BY DEF SlotInv, OpInv, ConsiderJob, HandOverAgain, Adopt, PassOver, SkipSlot, FireSlot, Considering, Busy
  <1>2. /\ op.kind = "tick" /\ op.left \in SUBSET JobIds /\ op.changed \in BOOLEAN /\ op.now \in Nat /\ op.doc \in Docs
        /\ op.doc[j] \in Entries /\ SameSlot(state[j], op.doc[j]) /\ Exists(j) /\ jobs[j] \in Definitions
    BY <1>1 DEF CopyInv, Ops, Docs, FilesInv, JobRecords, Exists, NoJob, Deleted
  <1>3. \A i \in JobIds : FiresOnce(state[i], op.doc[i], op.now)
    BY <1>1 DEF CopyInv
  <1>4. ASSUME NEW doc \in Docs, NEW changed \in BOOLEAN, Considered(j, doc, changed), UNCHANGED <<clock, jobs, state>>,
               FiresOnce(state[j], doc[j], op.now), \A i \in JobIds \ {j} : doc[i] = op.doc[i]
        PROVE  StepKeeps
    <2>1. Consider(op.left \ {j}, doc, changed) /\ op.left \ {j} \in SUBSET JobIds
      BY <1>2, <1>4 DEF Considered
    <2>2. \A i \in JobIds : FiresOnce(state[i], doc[i], op.now)
      BY <1>3, <1>4
    <2>3. \A i \in op.left \ {j} : SameSlot(state[i], doc[i]) /\ Exists(i)
      BY <1>1, <1>2, <1>4 DEF CopyInv
    <2>4. OpInv'
      BY <1>1, <1>2, <1>4, <2>1, <2>2, <2>3, ConsiderKeeps
    <2>. QED
      BY <1>1, <1>4, <2>4, LeavesFiles DEF StepKeeps
  <1>5. CASE HandOverAgain(j)
    <2>1. CASE runner
      <3>1. WriteThenLaunch(j, op.doc)
        BY <1>5, <2>1 DEF HandOverAgain
      <3>. QED
        BY <1>1, <1>2, <1>3, <3>1, WriteThenLaunchKeeps
    <2>2. CASE ~runner
      BY <1>2, <1>3, <1>4, <1>5, <2>2 DEF HandOverAgain, Quiet, files
    <2>. QED
      BY <2>1, <2>2
  <1>6. CASE Adopt(j)
    <2>. DEFINE entry == InitialEntry(jobs[j], op.now)
                doc == [op.doc EXCEPT ![j] = entry]
    <2>1. entry \in Entries /\ entry.fire.trigger # "schedule"
      BY <1>2, EntryType
    <2>2. Considered(j, doc, TRUE) /\ UNCHANGED <<clock, jobs, state>>
      BY <1>6 DEF Adopt, Quiet, files
    <2>. HIDE DEF entry
    <2>3. doc \in Docs /\ doc[j] = entry /\ \A i \in JobIds \ {j} : doc[i] = op.doc[i]
      BY <1>2, <2>1 DEF Docs
    <2>4. FiresOnce(state[j], doc[j], op.now)
      BY <2>1, <2>3 DEF FiresOnce
    <2>. HIDE DEF doc
    <2>. QED
      BY <1>4, <2>2, <2>3, <2>4
  <1>7. CASE PassOver(j)
    BY <1>2, <1>3, <1>4, <1>7 DEF PassOver, Quiet, files
  <1>8. CASE SkipSlot(j)
    <2>. DEFINE next == Advance(op.doc[j].next, jobs[j].every, op.now)
                entry == [op.doc[j] EXCEPT !.next = next]
                doc == [op.doc EXCEPT ![j] = entry]
    <2>1. jobs[j].every \in Nat /\ jobs[j].every # 0 /\ op.doc[j].next \in Int /\ op.now \in Int
      BY <1>2, <1>8 DEF SkipSlot, Once, Definitions, Entries
    <2>2. next \in Int
      BY <2>1, AdvancePasses
    <2>3. Considered(j, doc, TRUE) \/ Considered(j, op.doc, op.changed)
      <3>1. [op.doc EXCEPT ![j].next = Advance(@, jobs[j].every, op.now)] = doc
        BY <1>2 DEF Docs
      <3>. QED
        BY <1>8, <3>1 DEF SkipSlot
    <2>4. UNCHANGED <<clock, jobs, state>>
      BY <1>8 DEF SkipSlot
    <2>. HIDE DEF next
    <2>5. entry \in Entries /\ entry.fire = op.doc[j].fire
      BY <1>2, <2>2 DEF Entries
    <2>. HIDE DEF entry
    <2>6. doc \in Docs /\ doc[j] = entry /\ \A i \in JobIds \ {j} : doc[i] = op.doc[i]
      BY <1>2, <2>5 DEF Docs
    <2>7. FiresOnce(state[j], doc[j], op.now)
      <3>1. doc[j].fire = state[j].fire \/ doc[j].fire.trigger # "schedule"
        BY <1>2, <2>5, <2>6, EntryType DEF SameSlot
      <3>. QED
        BY <3>1 DEF FiresOnce
    <2>. HIDE DEF doc
    <2>. QED
      BY <1>2, <1>3, <1>4, <2>3, <2>4, <2>6, <2>7
  <1>9. CASE FireSlot(j)
    <2>. DEFINE next == op.doc[j].next
                once == Once(jobs[j])
                following == IF once THEN 0 ELSE Advance(next, jobs[j].every, op.now)
                at == IF once THEN next ELSE following - jobs[j].every
                fire == IF IsAgent(j) THEN [at |-> at, trigger |-> "schedule"] ELSE op.doc[j].fire
                entry == [next |-> following, since |-> op.now, fire |-> fire]
                doc == [op.doc EXCEPT ![j] = entry]
    <2>1. jobs[j].every \in Nat /\ next \in Int /\ op.now \in Int /\ next <= op.now /\ op.doc[j].fire \in FireRecords
      BY <1>2, <1>9 DEF FireSlot, Due, Definitions, Entries
    <2>2. /\ following \in Int /\ at \in Int /\ next <= at /\ at <= op.now
          /\ following = 0 \/ following > op.now
      <3>1. CASE once
        BY <2>1, <3>1
      <3>2. CASE ~once
        <4>1. jobs[j].every # 0
          BY <3>2 DEF Once
        <4>2. /\ Advance(next, jobs[j].every, op.now) \in Int /\ Advance(next, jobs[j].every, op.now) > op.now
              /\ next <= Advance(next, jobs[j].every, op.now) - jobs[j].every
              /\ Advance(next, jobs[j].every, op.now) - jobs[j].every <= op.now
          BY <2>1, <4>1, AdvancePasses
        <4>. QED
          BY <2>1, <3>2, <4>2
      <3>. QED
        BY <3>1, <3>2
    <2>3. WriteThenLaunch(j, doc)
      <3>1. doc = [op.doc EXCEPT ![j] = [next |-> following, since |-> op.now,
                                         fire |-> IF IsAgent(j) THEN [at |-> at, trigger |-> "schedule"] ELSE @.fire]]
        BY <1>2 DEF Docs
      <3>2. WriteThenLaunch(j, [op.doc EXCEPT ![j] =
               [next |-> following, since |-> op.now,
                fire |-> IF IsAgent(j) THEN (IF IsAgent(j) THEN [at |-> at, trigger |-> "schedule"] ELSE NoFire) ELSE @.fire]])
        BY <1>9 DEF FireSlot
      <3>. QED
        BY <3>1, <3>2
    <2>. HIDE DEF following, at
    <2>4. fire \in FireRecords /\ (fire = op.doc[j].fire \/ (fire.at = at /\ fire.trigger = "schedule"))
      BY <2>1, <2>2 DEF FireRecords
    <2>. HIDE DEF fire
    <2>5. entry \in Entries /\ entry.fire = fire /\ entry.next = following
      BY <1>2, <2>2, <2>4 DEF Entries
    <2>. HIDE DEF entry
    <2>6. doc \in Docs /\ doc[j] = entry /\ \A i \in JobIds \ {j} : doc[i] = op.doc[i]
      BY <1>2, <2>5 DEF Docs
    <2>7. FiresOnce(state[j], entry, op.now)
      <3>1. CASE fire = op.doc[j].fire
        <4>1. entry.fire = state[j].fire \/ entry.fire.trigger # "schedule"
          BY <1>2, <2>5, <3>1, EntryType DEF SameSlot
        <4>. QED
          BY <4>1 DEF FiresOnce
      <3>2. CASE fire.at = at
        <4>1. state[j].next = next
          BY <1>2 DEF SameSlot
        <4>. QED
          BY <2>2, <2>5, <3>2, <4>1 DEF FiresOnce
      <3>. QED
        BY <2>4, <3>1, <3>2
    <2>. HIDE DEF doc
    <2>. QED
      BY <1>1, <2>3, <2>6, <2>7, WriteThenLaunchKeeps
  <1>. QED
    BY <1>5, <1>6, <1>7, <1>8, <1>9 DEF ConsiderJob

\* The tick ends.
LEMMA EndTickKeeps ==
    ASSUME SlotInv, EndTick
    PROVE  StepKeeps
  <1>1. op \in Ops /\ op.at = "consider" /\ CopyInv /\ FilesInv /\ UNCHANGED <<clock, jobs>>
    BY DEF SlotInv, OpInv, EndTick, Busy, WriteFails, files
  <1>2. OpInv'
    BY <1>1, LeaveKeeps DEF EndTick, Return
  <1>3. CASE WriteState(op.doc)
    <2>1. op.doc \in Docs /\ \A j \in JobIds : FiresOnce(state[j], op.doc[j], op.now)
      BY <1>1 DEF CopyInv
    <2>. QED
      BY <1>1, <1>2, <1>3, <2>1, WritesState DEF StepKeeps
  <1>4. CASE WriteFails
    BY <1>1, <1>2, <1>4, LeavesFiles DEF WriteFails, files, StepKeeps
  <1>. QED
    BY <1>3, <1>4 DEF EndTick

\* A run by hand is of no slot.
LEMMA RunKeeps ==
    ASSUME SlotInv, Run
    PROVE  StepKeeps
  <1>1. op \in Ops /\ op.at = "run" /\ CopyInv /\ FilesInv /\ UNCHANGED <<clock, jobs>>
    BY DEF SlotInv, OpInv, Run, Busy, WriteFails, files
  <1>2. CASE Raise /\ UNCHANGED files
    BY <1>1, <1>2, LeaveKeeps, LeavesFiles DEF Raise, files, StepKeeps
  <1>. DEFINE j == op.job
              entry == IF op.doc[j] = NoEntry THEN InitialEntry(jobs[j], op.now) ELSE op.doc[j]
              fire == IF IsAgent(j) THEN [at |-> op.now, trigger |-> "manual"] ELSE entry.fire
              new == [entry EXCEPT !.since = op.now, !.fire = fire]
              doc == [op.doc EXCEPT ![j] = new]
  <1>3. CASE WriteState(doc) /\ op' = [op EXCEPT !.at = "launch", !.doc = doc]
    <2>1. /\ j \in JobIds /\ jobs[j] \in Definitions /\ op.doc \in Docs /\ op.doc[j] \in Entries /\ op.now \in Nat
          /\ op.kind = "run" /\ Exists(j)
          /\ \A i \in JobIds : SameSlot(state[i], op.doc[i]) /\ FiresOnce(state[i], op.doc[i], op.now)
      BY <1>1 DEF CopyInv, Docs, Ops, FilesInv, JobRecords, Exists, NoJob, Deleted
    <2>2. entry \in Entries /\ (entry.fire = op.doc[j].fire \/ entry.fire = NoFire)
      BY <2>1, EntryType
    <2>3. fire \in FireRecords /\ (fire.trigger = "manual" \/ fire = entry.fire)
      BY <2>1, <2>2 DEF Entries, FireRecords
    <2>. HIDE DEF entry, fire
    <2>4. new \in Entries /\ new.fire = fire
      <3>1. entry \in [next : Int, since : Int, fire : FireRecords] /\ op.now \in Int
        BY <2>1, <2>2 DEF Entries
      <3>. QED
        BY <2>3, <3>1, EntryEdits DEF Entries
    <2>. HIDE DEF new
    <2>5. doc \in Docs /\ \A i \in JobIds : FiresOnce(state[i], doc[i], op.now)
      <3>1. new.fire = state[j].fire \/ new.fire.trigger # "schedule"
        BY <2>1, <2>2, <2>3, <2>4, EntryType DEF SameSlot
      <3>2. FiresOnce(state[j], new, op.now)
        BY <3>1 DEF FiresOnce
      <3>. QED
        BY <2>1, <2>4, <3>2 DEF Docs
    <2>. HIDE DEF doc
    <2>6. /\ op' \in Ops /\ op'.at = "launch" /\ op'.kind = "run" /\ op'.job = j /\ op'.doc = doc /\ op'.now = op.now
          /\ op'.left = op.left
      BY <1>1, <1>3, <2>1, <2>5 DEF Ops, Places
    <2>7. state' = doc
      BY <1>3 DEF WriteState
    <2>8. CopyInv'
      BY <1>1, <2>1, <2>5, <2>6, <2>7, AsItIs DEF CopyInv, Exists
    <2>9. FilesInv' /\ SlotsFire
      BY <1>1, <1>3, <2>5, WritesState
    <2>. QED
      BY <2>6, <2>8, <2>9 DEF OpInv, StepKeeps
  <1>. QED
    BY <1>2, <1>3 DEF Run, Raise, WriteFails, files

\* The run is launched, or is not.
LEMMA LaunchKeeps ==
    ASSUME SlotInv, Launch \/ LaunchFails \/ UndoRun
    PROVE  StepKeeps
  <1>1. op \in Ops /\ op.at \in {"launch", "undo"} /\ CopyInv /\ FilesInv /\ UNCHANGED <<clock, jobs>>
    BY DEF SlotInv, OpInv, Launch, LaunchFails, UndoRun, Busy, WriteFails, files
  <1>2. /\ op.doc = state /\ op.doc \in Docs /\ op.left \in SUBSET JobIds /\ op.changed \in BOOLEAN
        /\ op.at = "launch" => op.kind \in {"run", "tick"}
    BY <1>1 DEF CopyInv, Ops
  <1>3. CASE Launch
    <2>1. op.at = "launch" /\ UNCHANGED <<clock, jobs, state>>
      BY <1>3 DEF Launch, files
    <2>2. CASE op.kind = "run"
      BY <1>1, <1>3, <2>1, <2>2, LeaveKeeps, LeavesFiles DEF Launch, Return, StepKeeps
    <2>3. CASE op.kind = "tick"
      <3>1. Consider(op.left \ {op.job}, op.doc, FALSE)
        BY <1>3, <2>3 DEF Launch, Considered
      <3>2. OpInv'
        <4>1. /\ \A j \in JobIds : FiresOnce(state'[j], op.doc[j], op.now)
              /\ \A j \in op.left \ {op.job} : SameSlot(state'[j], op.doc[j]) /\ Exists(j)
          BY <1>1, <1>2, <2>1, <2>3, AsItIs DEF CopyInv
        <4>. QED
          BY <1>1, <1>2, <2>1, <2>3, <3>1, <4>1, ConsiderKeeps
      <3>. QED
        BY <1>1, <2>1, <3>2, LeavesFiles DEF StepKeeps
    <2>. QED
      BY <1>2, <2>1, <2>2, <2>3
  <1>4. CASE LaunchFails
    <2>1. op.at = "launch" /\ UNCHANGED <<clock, jobs, state>>
      BY <1>4 DEF LaunchFails, files
    <2>2. CASE op.kind = "run"
      <3>1. Goto("undo")
        BY <1>4, <2>2 DEF LaunchFails
      <3>2. /\ op' \in Ops /\ op'.at = "undo" /\ op'.kind = "run" /\ op'.job = op.job /\ op'.doc = op.doc /\ op'.now = op.now
        BY <1>1, <2>2, <3>1, GotoKeeps DEF Places
      <3>3. CopyInv'
        BY <1>1, <1>2, <2>1, <2>2, <3>2 DEF CopyInv, Exists
      <3>. QED
        BY <1>1, <2>1, <3>2, <3>3, LeavesFiles DEF OpInv, StepKeeps
    <2>3. CASE op.kind = "tick"
      <3>. DEFINE j == op.job
                  entry == [op.doc[j] EXCEPT !.since = 0]
                  doc == [op.doc EXCEPT ![j] = entry]
      <3>1. \/ Consider(op.left \ {j}, op.doc, op.changed)
            \/ Consider(op.left \ {j}, doc, TRUE)
        <4>1. CASE IsAgent(j)
          BY <1>4, <2>3, <4>1 DEF LaunchFails, Considered
        <4>2. CASE ~IsAgent(j)
          <5>1. Considered(j, [op.doc EXCEPT ![j].since = 0], TRUE)
            BY <1>4, <2>3, <4>2 DEF LaunchFails
          <5>2. [op.doc EXCEPT ![j].since = 0] = doc
            BY <1>2 DEF Docs
          <5>. QED
            BY <5>1, <5>2 DEF Considered
        <4>. QED
          BY <4>1, <4>2
      <3>2. doc \in Docs /\ \A i \in JobIds : SameSlot(state[i], doc[i])
        <4>1. j \in JobIds => entry \in Entries /\ entry.next = op.doc[j].next /\ entry.fire = op.doc[j].fire
          BY <1>2 DEF Docs, Entries
        <4>. HIDE DEF entry
        <4>. QED
          BY <1>2, <4>1 DEF Docs, SameSlot
      <3>. HIDE DEF doc
      <3>3. /\ \A i \in JobIds : FiresOnce(state'[i], op.doc[i], op.now) /\ FiresOnce(state'[i], doc[i], op.now)
            /\ \A i \in op.left \ {j} : SameSlot(state'[i], op.doc[i]) /\ SameSlot(state'[i], doc[i]) /\ Exists(i)
        BY <1>1, <1>2, <2>1, <2>3, <3>2, AsItIs, SameFires DEF CopyInv
      <3>4. OpInv'
        <4>1. CASE Consider(op.left \ {j}, op.doc, op.changed)
          BY <1>1, <1>2, <2>3, <3>3, <4>1, ConsiderKeeps
        <4>2. CASE Consider(op.left \ {j}, doc, TRUE)
          BY <1>1, <1>2, <2>3, <3>2, <3>3, <4>2, ConsiderKeeps
        <4>. QED
          BY <3>1, <4>1, <4>2
      <3>. QED
        BY <1>1, <2>1, <3>4, LeavesFiles DEF StepKeeps
    <2>. QED
      BY <1>2, <2>1, <2>2, <2>3
  <1>5. CASE UndoRun
    <2>1. OpInv'
      BY <1>1, <1>5, LeaveKeeps DEF UndoRun, Raise
    <2>. DEFINE doc == [op.doc EXCEPT ![op.job] = Cleared(@)]
    <2>2. doc \in Docs /\ \A i \in JobIds : SameSlot(state[i], doc[i])
      <3>1. op.job \in JobIds => /\ Cleared(op.doc[op.job]) \in Entries
                                 /\ Cleared(op.doc[op.job]).fire = NoFire
                                 /\ Cleared(op.doc[op.job]).next = op.doc[op.job].next
        BY <1>2, EntryType DEF Docs
      <3>. QED
        BY <1>2, <3>1 DEF Docs, SameSlot
    <2>3. WriteState(doc) \/ WriteFails
      BY <1>5 DEF UndoRun
    <2>. HIDE DEF doc
    <2>4. \A i \in JobIds : FiresOnce(state[i], doc[i], op.now)
      BY <2>2, SameFires
    <2>5. CASE WriteState(doc)
      BY <1>1, <2>1, <2>2, <2>4, <2>5, WritesState DEF StepKeeps
    <2>6. CASE WriteFails
      BY <1>1, <2>1, <2>6, LeavesFiles DEF WriteFails, files, StepKeeps
    <2>. QED
      BY <2>3, <2>5, <2>6
  <1>. QED
    BY <1>3, <1>4, <1>5

\* Whatever the call that holds the lock does.
LEMMA CallKeeps ==
    ASSUME SlotInv, CallStep
    PROVE  StepKeeps
  BY HarvestKeeps, SweepKeeps, SaveJobsKeeps, SaveStateKeeps, ConsiderJobKeeps, EndTickKeeps, RunKeeps, LaunchKeeps DEF CallStep

\* The calls, as they take the lock.
CallBegun == FilesInv' /\ OpInv' /\ UNCHANGED state

LEMMA ReadKeeps ==
    ASSUME FilesInv, NEW who \in Callers, Tick \/ Read(who)
    PROVE  CallBegun
  <1>1. /\ NoJob \in JobRecords /\ Watcher \in Callers /\ state \in Docs /\ 0 \in JobIds \cup {0}
        /\ \A i \in JobIds : SameSlot(state[i], state[i]) /\ FiresOnce(state[i], state[i], clock)
    BY AsItIs DEF JobRecords, Callers, FilesInv
  <1>2. UNCHANGED <<clock, jobs, state>>
    BY DEF Tick, Read, Quiet, files
  <1>3. CASE Tick
    BY <1>1, <1>2, <1>3, BeginKeeps DEF Tick, Kinds, CallBegun
  <1>4. CASE Read(who)
    BY <1>1, <1>2, <1>4, BeginKeeps DEF Read, Kinds, CallBegun
  <1>. QED
    BY <1>3, <1>4

LEMMA NewCallKeeps ==
    ASSUME FilesInv, NEW who \in Callers, NEW j \in JobIds, RunNow(j) \/ DeleteJob(j) \/ DisableJob(who, j)
    PROVE  CallBegun
  <1>. USE DEF CallBegun
  <1>1. /\ NoJob \in JobRecords /\ Deleted \in JobRecords /\ Watcher \in Callers /\ Person \in Callers /\ state \in Docs
        /\ j \in JobIds \cup {0} /\ 0 \in JobIds \cup {0}
    BY DEF JobRecords, Callers, FilesInv
  <1>2. \A i \in JobIds : SameSlot(state[i], state[i]) /\ FiresOnce(state[i], state[i], clock)
    BY AsItIs
  <1>3. UNCHANGED <<clock, jobs, state>>
    BY DEF RunNow, DeleteJob, DisableJob, Quiet, files
  <1>6. CASE RunNow(j)
    BY <1>1, <1>2, <1>3, <1>6, BeginKeeps DEF RunNow, Kinds
  <1>7. CASE DeleteJob(j)
    BY <1>1, <1>2, <1>3, <1>7, BeginKeeps DEF DeleteJob, Kinds
  <1>8. CASE DisableJob(who, j)
    <2>. DEFINE off == [jobs[j] EXCEPT !.enabled = FALSE]
                at == IF jobs[j].enabled THEN "jobs" ELSE "harvest"
    <2>1. jobs[j] \in Definitions
      BY <1>8 DEF DisableJob, FilesInv, JobRecords, Exists, NoJob, Deleted
    <2>2. off \in JobRecords
      BY <2>1 DEF JobRecords, Definitions
    <2>3. Begin("disable", at, who, j, off, state)
      BY <1>8 DEF DisableJob
    <2>4. at \in {"harvest", "jobs"} /\ "disable" \in Kinds
      BY DEF Kinds
    <2>. HIDE DEF off, at
    <2>. QED
      BY <1>1, <1>2, <1>3, <2>2, <2>3, <2>4, BeginKeeps
  <1>. QED
    BY <1>6, <1>7, <1>8

\* What is ready to be recorded of a job: a copy that differs in its entry.
LEMMA EntryKeeps ==
    ASSUME FilesInv, NEW j \in JobIds, NEW entry \in Entries, entry.fire = state[j].fire \/ entry.fire = NoFire
    PROVE  /\ [state EXCEPT ![j] = entry] \in Docs
           /\ \A i \in JobIds : FiresOnce(state[i], [state EXCEPT ![j] = entry][i], clock)
  <1>1. FiresOnce(state[j], entry, clock)
    BY EntryType DEF FiresOnce
  <1>. QED
    BY <1>1, AsItIs DEF FilesInv, Docs

LEMMA CreateKeeps ==
    ASSUME FilesInv, NEW who \in Callers, NEW j \in JobIds, NEW d \in Definitions, CreateJob(who, j, d)
    PROVE  CallBegun
  <1>. USE DEF CallBegun
  <1>1. UNCHANGED <<clock, jobs, state>>
    BY DEF CreateJob, Quiet, files
  <1>2. CASE MadeBy(d) # {}
    <2>1. op' = [Idle EXCEPT !.at = "returned", !.who = who]
      BY <1>2 DEF CreateJob
    <2>2. op' \in Ops /\ op'.at = "returned"
      BY <2>1, IdleType DEF Ops, Places
    <2>. QED
      BY <1>1, <2>2 DEF FilesInv, OpInv, Busy
  <1>3. CASE MadeBy(d) = {}
    <2>1. InitialEntry(d, clock) \in Entries /\ InitialEntry(d, clock).fire = NoFire
      BY EntryType DEF FilesInv
    <2>. DEFINE doc == [state EXCEPT ![j] = InitialEntry(d, clock)]
    <2>2. doc \in Docs /\ \A i \in JobIds : FiresOnce(state[i], doc[i], clock)
      BY <2>1, EntryKeeps
    <2>3. Begin("create", "jobs", who, j, d, doc)
      BY <1>3 DEF CreateJob
    <2>4. d \in JobRecords /\ "create" \in Kinds
      BY DEF JobRecords, Kinds
    <2>. HIDE DEF doc
    <2>. QED
      BY <1>1, <2>2, <2>3, <2>4, BeginKeeps
  <1>. QED
    BY <1>2, <1>3

LEMMA UpdateKeeps ==
    ASSUME FilesInv, NEW who \in Callers, NEW j \in JobIds, NEW d \in Definitions, NEW rewritten \in BOOLEAN,
           UpdateJob(who, j, d, rewritten)
    PROVE  CallBegun
  <1>. USE DEF CallBegun
  <1>1. UNCHANGED <<clock, jobs, state>>
    BY DEF UpdateJob, Quiet, files
  <1>2. jobs[j] \in Definitions /\ state[j] \in Entries /\ clock \in Nat
    BY DEF UpdateJob, FilesInv, Docs, JobRecords, Exists, NoJob, Deleted
  <1>3. Updated(jobs[j], d, rewritten) \in JobRecords
    BY <1>2 DEF Updated, JobRecords, Definitions
  <1>4. UpdatedEntry(j, d) \in Entries /\ (UpdatedEntry(j, d).fire = state[j].fire \/ UpdatedEntry(j, d).fire = NoFire)
    <2>. DEFINE entry == IF state[j] = NoEntry THEN InitialEntry(d, clock) ELSE state[j]
                kept == IF d.kind = "agent" THEN entry ELSE [entry EXCEPT !.fire = NoFire]
                moved == [kept EXCEPT !.next = FirstSlot(d, clock)]
    <2>1. entry \in Entries /\ (entry.fire = state[j].fire \/ entry.fire = NoFire)
      BY <1>2, EntryType
    <2>2. NoFire \in FireRecords /\ FirstSlot(d, clock) \in Int
      BY <1>2, EntryType DEF NoFire, FireRecords
    <2>. HIDE DEF entry
    <2>3. kept \in Entries /\ (kept.fire = entry.fire \/ kept.fire = NoFire)
      BY <2>1, <2>2 DEF Entries
    <2>. HIDE DEF kept
    <2>4. moved \in Entries /\ moved.fire = kept.fire
      BY <2>2, <2>3 DEF Entries
    <2>5. UpdatedEntry(j, d) = moved \/ UpdatedEntry(j, d) = kept
      BY DEF UpdatedEntry, moved, kept, entry
    <2>. HIDE DEF moved
    <2>. QED
      BY <2>1, <2>3, <2>4, <2>5
  <1>. DEFINE doc == [state EXCEPT ![j] = UpdatedEntry(j, d)]
  <1>5. doc \in Docs /\ \A i \in JobIds : FiresOnce(state[i], doc[i], clock)
    BY <1>4, EntryKeeps
  <1>6. Begin("update", "jobs", who, j, Updated(jobs[j], d, rewritten), doc) /\ "update" \in Kinds
    BY DEF UpdateJob, Kinds
  <1>. HIDE DEF doc
  <1>. QED
    BY <1>1, <1>3, <1>5, <1>6, BeginKeeps

\* Nobody has the lock; or nothing is done with it.
LEMMA NoCallKeeps ==
    ASSUME FilesInv, OpInv, op' = op \/ op' = Idle, clock' \in Nat, UNCHANGED <<jobs, state>>
    PROVE  CallBegun
  <1>. USE DEF CallBegun
  <1>1. FilesInv'
    BY DEF FilesInv
  <1>2. CASE op' = Idle
    BY <1>1, <1>2, IdleType DEF OpInv, Busy
  <1>3. CASE op' = op
    BY <1>1, <1>3 DEF OpInv, CopyInv, Busy, Exists
  <1>. QED
    BY <1>2, <1>3

\* A coroutine goes on.
LEMMA TaskGoesOn ==
    ASSUME TaskInv, NEW t \in Tasks, NEW record \in TaskKind, Become(t, record),
           record.at = "save" => t = "save" /\ record.def \in Definitions /\ record.job \in JobIds,
           record.at \in {"register", "create"} => record.item \in Items
    PROVE  TaskInv'
  BY DEF TaskInv, Become, Tasks

LEMMA TaskStays == TaskInv /\ UNCHANGED task => TaskInv'
  BY DEF TaskInv

\* At a step none of whose facts matter.
Plain == Steps \ {"save", "register", "create"}

LEMMA TaskRecords ==
    /\ NoTask \in TaskKind /\ NoTask.at = "none"
    /\ \A record \in TaskKind, at \in Steps :
          /\ [record EXCEPT !.at = at] \in TaskKind /\ [record EXCEPT !.at = at].at = at
          /\ [record EXCEPT !.at = at].item = record.item
    /\ \A record \in TaskKind, at \in Steps, left \in SUBSET JobIds :
          [record EXCEPT !.at = at, !.left = left] \in TaskKind /\ [record EXCEPT !.at = at, !.left = left].at = at
  <1>1. NoTask \in TaskKind /\ NoTask.at = "none"
    BY DEF NoTask, TaskKind, Steps
  <1>. QED
    BY <1>1 DEF TaskKind

\* What a step of the system may do.
SlotKept == SlotInv' /\ SlotsFire

\* A step that begins a call, or leaves the lock, and a coroutine that goes on.
LEMMA BegunKeeps ==
    ASSUME CallBegun, TaskInv'
    PROVE  SlotKept
  BY AsItIs DEF CallBegun, SlotKept, SlotInv, SlotsFire

LEMMA NamesType ==
    /\ Person \in Callers /\ Watcher \in Callers
    /\ \A t \in Tasks : Me(t) \in Callers
    /\ \A j \in JobIds : Fire(j) \in Callers
    /\ "save" \in Tasks /\ "decided" \in Tasks /\ "recover" \in Tasks /\ "retire" \in Tasks
  BY DEF Callers, Tasks

\* A step that leaves the files and the lock.
LEMMA StayKeeps ==
    ASSUME SlotInv, UNCHANGED <<op, jobs, state>>, clock' \in Nat
    PROVE  CallBegun
  BY NoCallKeeps DEF SlotInv

\* A coroutine that had the lock, and leaves it.
LEMMA DoneKeeps ==
    ASSUME SlotInv, op' = Idle, UNCHANGED <<clock, jobs, state>>
    PROVE  CallBegun
  <1>1. clock' \in Nat
    BY DEF SlotInv, FilesInv
  <1>. QED
    BY <1>1, NoCallKeeps DEF SlotInv

LEMMA CallsKeep ==
    ASSUME SlotInv, Ticks \/ Reads \/ PersonCalls \/ CallSteps \/ Passing
    PROVE  SlotKept
  <1>1. TaskInv'
    BY TaskStays DEF SlotInv, Ticks, Reads, PersonCalls, CallSteps, Passing, stormVars
  <1>2. CASE Ticks
    <2>1. CallBegun
      BY <1>2, NamesType, ReadKeeps DEF Ticks, SlotInv
    <2>. QED
      BY <1>1, <2>1, BegunKeeps
  <1>3. CASE Reads
    <2>1. CallBegun
      BY <1>3, NamesType, ReadKeeps DEF Reads, SlotInv
    <2>. QED
      BY <1>1, <2>1, BegunKeeps
  <1>4. CASE PersonCalls
    <2>1. PICK j \in JobIds :
             \/ RunNow(j) \/ DeleteJob(j) \/ DisableJob(Person, j)
             \/ \E d \in Offered : CreateJob(Person, j, d) \/ UpdateJob(Person, j, d, TRUE)
      BY <1>4 DEF PersonCalls
    <2>2. FilesInv
      BY DEF SlotInv
    <2>3. CASE RunNow(j) \/ DeleteJob(j) \/ DisableJob(Person, j)
      <3>1. CallBegun
        BY <2>2, <2>3, NamesType, NewCallKeeps
      <3>. QED
        BY <1>1, <3>1, BegunKeeps
    <2>4. ASSUME NEW d \in Offered, CreateJob(Person, j, d) \/ UpdateJob(Person, j, d, TRUE)
          PROVE  SlotKept
      <3>1. d \in Definitions
        BY AgentJobsAssumption
      <3>2. CASE CreateJob(Person, j, d)
        <4>1. CallBegun
          BY <2>2, <3>1, <3>2, NamesType, CreateKeeps
        <4>. QED
          BY <1>1, <4>1, BegunKeeps
      <3>3. CASE UpdateJob(Person, j, d, TRUE)
        <4>1. CallBegun
          BY <2>2, <3>1, <3>3, NamesType, UpdateKeeps
        <4>. QED
          BY <1>1, <4>1, BegunKeeps
      <3>. QED
        BY <2>4, <3>2, <3>3
    <2>. QED
      BY <2>1, <2>3, <2>4
  <1>5. CASE CallSteps
    BY <1>1, <1>5, CallKeeps DEF CallSteps, StepKeeps, SlotKept, SlotInv
  <1>6. CASE Passing
    <2>1. UNCHANGED <<op, jobs, state>> /\ clock' \in Nat
      BY <1>6 DEF Passing, Clock, CommandEnds, files, SlotInv, FilesInv
    <2>. QED
      BY <1>1, <2>1, StayKeeps, BegunKeeps
  <1>. QED
    BY <1>2, <1>3, <1>4, <1>5, <1>6

LEMMA OpensKeep ==
    ASSUME SlotInv, NEW j \in JobIds, Open(j)
    PROVE  SlotKept
  <1>1. TaskInv'
    BY TaskStays DEF SlotInv, Open, Look, Check, Commit, Opened, TurnOff, TurnedOff
  <1>2. ASSUME UNCHANGED schedulerVars \/ \E out : Outcome(j, out) /\ UNCHANGED op
        PROVE  SlotKept
    <2>1. UNCHANGED <<op, clock, jobs, state>> /\ clock \in Nat
      BY <1>2 DEF schedulerVars, Outcome, files, SlotInv, FilesInv
    <2>. QED
      BY <1>1, <2>1, StayKeeps, BegunKeeps
  <1>3. CASE Look(j)
    BY <1>2, <1>3 DEF Look, Stay
  <1>4. CASE Check(j)
    BY <1>2, <1>4 DEF Check, Stay
  <1>5. CASE Commit(j)
    <2>1. CASE Fired(j)
      BY <1>2, <1>5, <2>1 DEF Commit
    <2>2. CASE ~Fired(j) /\ chats[opening[j].chat] = "retired"
      BY <1>2, <1>5, <2>2 DEF Commit, Stay
    <2>3. CASE ~Fired(j) /\ chats[opening[j].chat] # "retired" /\ StillWorking(j)
      BY <1>2, <1>5, <2>3 DEF Commit
    <2>4. CASE ~Fired(j) /\ chats[opening[j].chat] # "retired" /\ ~StillWorking(j)
      BY <1>2, <1>5, <2>4 DEF Commit, Stay
    <2>. QED
      BY <2>1, <2>2, <2>3, <2>4
  <1>6. CASE Opened(j)
    BY <1>2, <1>6 DEF Opened
  <1>7. CASE TurnOff(j)
    <2>1. CASE DisableJob(Fire(j), j)
      <3>1. CallBegun
        BY <2>1, NamesType, NewCallKeeps DEF SlotInv
      <3>. QED
        BY <1>1, <3>1, BegunKeeps
    <2>2. CASE Outcome(j, "failed") /\ UNCHANGED op
      BY <1>2, <2>2
    <2>. QED
      BY <1>7, <2>1, <2>2 DEF TurnOff
  <1>8. CASE TurnedOff(j)
    <2>1. op' = Idle /\ UNCHANGED <<clock, jobs, state>>
      BY <1>8 DEF TurnedOff, Outcome, files
    <2>. QED
      BY <1>1, <2>1, DoneKeeps, BegunKeeps
  <1>. QED
    BY <1>3, <1>4, <1>5, <1>6, <1>7, <1>8 DEF Open

\* A coroutine that goes on to a record nothing is asked of, or that keeps its
\* item.
LEMMA PlainGoesOn ==
    ASSUME TaskInv, NEW t \in Tasks, NEW record \in TaskKind, Become(t, record),
           \/ record.at \in Plain
           \/ task[t].at = "register" /\ record.at = "create" /\ record.item = task[t].item
    PROVE  TaskInv'
  <1>1. record.at # "save"
    BY DEF Plain
  <1>2. record.at \in {"register", "create"} => record.item \in Items
    BY DEF Plain, TaskInv
  <1>. QED
    BY <1>1, <1>2, TaskGoesOn

\* Every record a coroutine goes on to.
LEMMA NextRecords ==
    ASSUME TaskInv, NEW t \in Tasks
    PROVE  /\ task[t] \in TaskKind
           /\ NoTask \in TaskKind /\ NoTask.at \in Plain
           /\ Then(t) \in TaskKind /\ Then(t).at \in Plain
           /\ \A at \in Plain : [task[t] EXCEPT !.at = at] \in TaskKind /\ [task[t] EXCEPT !.at = at].at \in Plain
  <1>1. task[t] \in TaskKind /\ "settle" \in Steps /\ "none" \in Steps
    BY DEF TaskInv, Steps
  <1>2. Plain \subseteq Steps /\ "settle" \in Plain /\ "none" \in Plain
    BY DEF Plain, Steps
  <1>3. \A at \in Plain : [task[t] EXCEPT !.at = at] \in TaskKind /\ [task[t] EXCEPT !.at = at].at \in Plain
    BY <1>1, <1>2, TaskRecords
  <1>4. NoTask \in TaskKind /\ NoTask.at \in Plain
    BY <1>2, TaskRecords
  <1>. QED
    BY <1>1, <1>2, <1>3, <1>4 DEF Then

\* The steps of the coroutines that leave the lock alone, or give it back.
LEMMA TasksWait ==
    ASSUME SlotInv, NEW t \in Tasks, Listed(t) \/ TurnedOffNext(t) \/ CheckChat(t) \/ Saved(t) \/ Recheck(t) \/ Settle(t)
    PROVE  SlotKept
  <1>1. TaskInv /\ FilesInv /\ clock \in Nat
    BY DEF SlotInv, FilesInv
  <1>2. {"turn", "recheck", "list", "refuse", "settle"} \subseteq Plain
    BY DEF Plain, Steps
  <1>3. CASE Listed(t) \/ TurnedOffNext(t) \/ Saved(t)
    <2>1. CallBegun
      BY <1>3, DoneKeeps DEF Listed, TurnedOffNext, Saved, files
    <2>2. PICK record \in {NoTask} \cup {[task[t] EXCEPT !.at = at] : at \in Plain} : Become(t, record)
      BY <1>2, <1>3 DEF Listed, TurnedOffNext, Saved, Step
    <2>3. record \in TaskKind /\ record.at \in Plain
      BY <1>1, <2>2, NextRecords
    <2>4. TaskInv'
      BY <1>1, <2>2, <2>3, PlainGoesOn
    <2>. QED
      BY <2>1, <2>4, BegunKeeps
  <1>4. CASE CheckChat(t)
    <2>1. UNCHANGED <<op, clock, jobs, state>>
      BY <1>4 DEF CheckChat, Stay, schedulerVars, files
    <2>2. CallBegun
      BY <1>1, <2>1, StayKeeps
    <2>3. task[t] \in TaskKind /\ "refuse" \in Steps /\ "create" \in Steps
      BY <1>1, NextRecords DEF Steps
    <2>4. PICK at \in {"refuse", "create"} : Become(t, [task[t] EXCEPT !.at = at])
      BY <1>4 DEF CheckChat, Step
    <2>5. at \in Steps
      BY <2>3, <2>4
    <2>6. \A record \in TaskKind : /\ [record EXCEPT !.at = at] \in TaskKind
                                  /\ [record EXCEPT !.at = at].at = at /\ [record EXCEPT !.at = at].item = record.item
      BY <2>5, TaskRecords
    <2>. DEFINE record == [task[t] EXCEPT !.at = at]
    <2>7. record \in TaskKind /\ record.at = at /\ record.item = task[t].item
      BY <2>3, <2>6
    <2>8. Become(t, record) /\ task[t].at = "register" /\ (at \in Plain \/ at = "create")
      BY <1>2, <1>4, <2>4 DEF CheckChat
    <2>. HIDE DEF record
    <2>9. TaskInv'
      BY <1>1, <2>7, <2>8, PlainGoesOn
    <2>. QED
      BY <2>2, <2>9, BegunKeeps
  <1>5. CASE Recheck(t) \/ Settle(t)
    <2>1. UNCHANGED <<op, clock, jobs, state>>
      BY <1>5 DEF Recheck, Settle, Stay, schedulerVars, files
    <2>2. CallBegun
      BY <1>1, <2>1, StayKeeps
    <2>3. PICK record \in {NoTask, Then(t), [task[t] EXCEPT !.at = "list"]} : Become(t, record)
      BY <1>5 DEF Recheck, Settle
    <2>4. record \in TaskKind /\ record.at \in Plain
      BY <1>1, <1>2, <2>3, NextRecords
    <2>5. TaskInv'
      BY <1>1, <2>3, <2>4, PlainGoesOn
    <2>. QED
      BY <2>2, <2>5, BegunKeeps
  <1>. QED
    BY <1>3, <1>4, <1>5

\* Their calls: they list the jobs of a chat, turn one off, make one.
LEMMA TasksCall ==
    ASSUME SlotInv, NEW t \in Tasks, ListJobs(t) \/ TurnOffNext(t) \/ RegisterJob(t)
    PROVE  SlotKept
  <1>1. TaskInv /\ FilesInv /\ clock \in Nat /\ task[t] \in TaskKind /\ Me(t) \in Callers
    BY NextRecords, NamesType DEF SlotInv, FilesInv
  <1>2. {"listing", "turning", "turn", "saving"} \subseteq Plain /\ Plain \subseteq Steps
    BY DEF Plain, Steps
  <1>3. \A at \in Plain, left \in SUBSET JobIds :
           /\ [task[t] EXCEPT !.at = at, !.left = left] \in TaskKind
           /\ [task[t] EXCEPT !.at = at, !.left = left].at \in Plain
    BY <1>1, <1>2, TaskRecords
  <1>4. CASE ListJobs(t)
    <2>1. PICK left \in SUBSET JobIds : Become(t, [task[t] EXCEPT !.at = "listing", !.left = left])
      BY <1>4 DEF ListJobs, JobsIn
    <2>2. TaskInv'
      BY <1>1, <1>2, <1>3, <2>1, PlainGoesOn
    <2>3. Read(Me(t))
      BY <1>4 DEF ListJobs
    <2>4. CallBegun
      BY <1>1, <2>3, ReadKeeps
    <2>. QED
      BY <2>2, <2>4, BegunKeeps
  <1>5. CASE TurnOffNext(t)
    <2>1. CASE Become(t, Then(t)) /\ Stay
      <3>1. UNCHANGED <<op, clock, jobs, state>>
        BY <2>1 DEF Stay, schedulerVars, files
      <3>2. CallBegun
        BY <1>1, <3>1, StayKeeps
      <3>3. TaskInv'
        BY <1>1, <2>1, NextRecords, PlainGoesOn
      <3>. QED
        BY <3>2, <3>3, BegunKeeps
    <2>2. ASSUME NEW j \in task[t].left,
                 task' = [task EXCEPT ![t].at = IF Exists(j) THEN "turning" ELSE "turn", ![t].left = @ \ {j}],
                 DisableJob(Me(t), j) \/ (~Exists(j) /\ op.at = "idle" /\ Stay)
          PROVE  SlotKept
      <3>1. task[t].left \in SUBSET JobIds /\ j \in JobIds
        BY <1>1 DEF TaskKind
      <3>2. PICK left \in SUBSET JobIds, at \in {"turning", "turn"} :
               left = task[t].left \ {j} /\ at = IF Exists(j) THEN "turning" ELSE "turn"
        BY <3>1
      <3>3. Become(t, [task[t] EXCEPT !.at = at, !.left = left])
        BY <1>1, <2>2, <3>2 DEF Become, TaskInv
      <3>4. TaskInv'
        BY <1>1, <1>2, <1>3, <3>2, <3>3, PlainGoesOn
      <3>5. CASE DisableJob(Me(t), j)
        <4>1. CallBegun
          BY <1>1, <3>1, <3>5, NewCallKeeps
        <4>. QED
          BY <3>4, <4>1, BegunKeeps
      <3>6. CASE Stay
        <4>1. UNCHANGED <<op, clock, jobs, state>>
          BY <3>6 DEF Stay, schedulerVars, files
        <4>2. CallBegun
          BY <1>1, <4>1, StayKeeps
        <4>. QED
          BY <3>4, <4>2, BegunKeeps
      <3>. QED
        BY <2>2, <3>5, <3>6
    <2>. QED
      BY <1>5, <2>1, <2>2 DEF TurnOffNext
  <1>6. CASE RegisterJob(t)
    <2>1. PICK j \in JobIds : CreateJob(Me(t), j, Asked[task[t].item])
      BY <1>6 DEF RegisterJob
    <2>2. Asked[task[t].item] \in Definitions
      BY <1>1, <1>6, AgentJobsAssumption DEF RegisterJob, TaskInv
    <2>3. CallBegun
      BY <1>1, <2>1, <2>2, CreateKeeps
    <2>4. Become(t, [task[t] EXCEPT !.at = "saving"])
      BY <1>6 DEF RegisterJob, Step
    <2>5. TaskInv'
      BY <1>1, <1>2, <2>4, NextRecords, PlainGoesOn
    <2>. QED
      BY <2>3, <2>5, BegunKeeps
  <1>. QED
    BY <1>4, <1>5, <1>6

\* An item's job is registered.
LEMMA RegisterKeeps ==
    ASSUME TaskInv, NEW t \in Tasks, NEW i \in Items, Become(t, Register(t, i))
    PROVE  TaskInv'
  <1>1. Asked[i].chat \in Chats \cup {NoChat}
    BY AgentJobsAssumption DEF Definitions
  <1>2. Register(t, i) \in TaskKind /\ Register(t, i).at = "register" /\ Register(t, i).item = i
    BY <1>1 DEF Register, NoTask, TaskKind, Steps
  <1>. QED
    BY <1>2, TaskGoesOn

\* The person's own job, and what they allow or remove.
LEMMA PersonKeeps ==
    ASSUME SlotInv,
           \/ \E j \in JobIds, d \in Offered, rewritten \in BOOLEAN : SaveJob(j, d, rewritten)
           \/ WriteSaved
           \/ \E i \in Items : Allow(i)
           \/ \E c \in Chats : Retire(c) \/ Unlink(c)
           \/ \E n \in DOMAIN threads : Finish(n) \/ WriteTo(n)
    PROVE  SlotKept
  <1>1. TaskInv /\ FilesInv /\ clock \in Nat /\ "save" \in Tasks /\ "decided" \in Tasks /\ "retire" \in Tasks
    BY NamesType DEF SlotInv, FilesInv
  <1>2. ASSUME UNCHANGED schedulerVars PROVE CallBegun
    <2>1. UNCHANGED <<op, clock, jobs, state>>
      BY <1>2 DEF schedulerVars, files
    <2>. QED
      BY <1>1, <2>1, StayKeeps
  <1>3. ASSUME NEW j \in JobIds, NEW d \in Offered, NEW rewritten \in BOOLEAN, SaveJob(j, d, rewritten)
        PROVE  SlotKept
    <2>. DEFINE record == [NoTask EXCEPT !.at = "save", !.chat = d.chat, !.job = j, !.def = d, !.rewritten = rewritten]
    <2>1. d \in Definitions /\ d.chat \in Chats \cup {NoChat}
      BY AgentJobsAssumption DEF Definitions
    <2>2. record \in TaskKind /\ record.at = "save" /\ record.def = d /\ record.job = j
      BY <2>1 DEF NoTask, TaskKind, Steps
    <2>3. Become("save", record) /\ CallBegun
      BY <1>2, <1>3 DEF SaveJob, Stay
    <2>. HIDE DEF record
    <2>4. TaskInv'
      BY <1>1, <2>1, <2>2, <2>3, TaskGoesOn
    <2>. QED
      BY <2>3, <2>4, BegunKeeps
  <1>4. CASE WriteSaved
    <2>. DEFINE t == task["save"]
    <2>1. t \in TaskKind /\ t.def \in Definitions /\ t.job \in JobIds /\ t.rewritten \in BOOLEAN /\ Me("save") \in Callers
      BY <1>1, <1>4, NamesType DEF WriteSaved, TaskInv, TaskKind
    <2>2. "saving" \in Plain
      BY DEF Plain, Steps
    <2>3. CASE (CreateJob(Me("save"), t.job, t.def) \/ UpdateJob(Me("save"), t.job, t.def, t.rewritten)) /\ Step("save", "saving")
      <3>1. CallBegun
        <4>1. CASE CreateJob(Me("save"), t.job, t.def)
          BY <1>1, <2>1, <4>1, CreateKeeps
        <4>2. CASE UpdateJob(Me("save"), t.job, t.def, t.rewritten)
          BY <1>1, <2>1, <4>2, UpdateKeeps
        <4>. QED
          BY <2>3, <4>1, <4>2
      <3>2. TaskInv'
        BY <1>1, <2>2, <2>3, NextRecords, PlainGoesOn DEF Step
      <3>. QED
        BY <3>1, <3>2, BegunKeeps
    <2>4. CASE Become("save", NoTask) /\ Stay
      <3>1. CallBegun
        BY <1>2, <2>4 DEF Stay
      <3>2. TaskInv'
        BY <1>1, <2>4, NextRecords, PlainGoesOn
      <3>. QED
        BY <3>1, <3>2, BegunKeeps
    <2>. QED
      BY <1>4, <2>3, <2>4 DEF WriteSaved
  <1>5. ASSUME NEW i \in Items, Allow(i) PROVE SlotKept
    <2>1. CallBegun
      BY <1>2, <1>5 DEF Allow, Stay
    <2>2. TaskInv'
      BY <1>1, <1>5, RegisterKeeps DEF Allow
    <2>. QED
      BY <2>1, <2>2, BegunKeeps
  <1>6. ASSUME NEW c \in Chats, Retire(c) PROVE SlotKept
    <2>1. CallBegun
      BY <1>2, <1>6 DEF Retire, Stay
    <2>. DEFINE record == [NoTask EXCEPT !.at = "list", !.chat = c]
    <2>2. record \in TaskKind /\ record.at = "list" /\ record.at \in Plain
      BY DEF NoTask, TaskKind, Steps, Plain
    <2>3. Become("retire", record)
      BY <1>6 DEF Retire
    <2>. HIDE DEF record
    <2>4. TaskInv'
      BY <1>1, <2>2, <2>3, PlainGoesOn
    <2>. QED
      BY <2>1, <2>4, BegunKeeps
  <1>7. ASSUME UNCHANGED schedulerVars, UNCHANGED task PROVE SlotKept
    BY <1>1, <1>2, <1>7, TaskStays, BegunKeeps
  <1>8. CASE (\E c \in Chats : Unlink(c)) \/ \E n \in DOMAIN threads : Finish(n) \/ WriteTo(n)
    BY <1>7, <1>8 DEF Unlink, Finish, WriteTo, Stay
  <1>. QED
    BY <1>3, <1>4, <1>5, <1>6, <1>8

\* The server starts, stops and crashes: the copy of a call is lost with it.
LEMMA RestartsKeep ==
    ASSUME SlotInv, Boot \/ Stop \/ Crash
    PROVE  SlotKept
  <1>1. TaskInv /\ FilesInv /\ clock \in Nat /\ "recover" \in Tasks
    BY NamesType DEF SlotInv, FilesInv
  <1>2. CASE Boot
    <2>1. UNCHANGED <<op, clock, jobs, state>>
      BY <1>2 DEF Boot, files
    <2>2. TaskInv'
      BY <1>1, <1>2, RegisterKeeps, TaskStays DEF Boot
    <2>. QED
      BY <1>1, <2>1, <2>2, StayKeeps, BegunKeeps
  <1>3. CASE Stop
    <2>1. UNCHANGED <<op, clock, jobs, state>>
      BY <1>3 DEF Stop, files
    <2>2. Become("recover", NoTask)
      BY <1>3 DEF Stop, Become
    <2>3. TaskInv'
      BY <1>1, <2>2, NextRecords, PlainGoesOn
    <2>. QED
      BY <1>1, <2>1, <2>3, StayKeeps, BegunKeeps
  <1>4. CASE Crash
    <2>1. op' = Idle /\ UNCHANGED <<clock, jobs, state>>
      BY <1>4 DEF Crash, Restart, files
    <2>2. task' = [t \in Tasks |-> NoTask] /\ "save" \in Tasks
      BY <1>4, NamesType DEF Crash
    <2>3. task' \in [Tasks -> TaskKind] /\ \A t \in Tasks : task'[t].at = "none"
      BY <2>2, TaskRecords
    <2>4. TaskInv'
      BY <2>2, <2>3 DEF TaskInv
    <2>. QED
      BY <2>1, <2>4, DoneKeeps, BegunKeeps
  <1>. QED
    BY <1>2, <1>3, <1>4

\* Every step keeps the invariant, and writes fires of slots that are due.
LEMMA StepsKeep ==
    ASSUME SlotInv, [Next]_vars
    PROVE  SlotKept
  <1>1. CASE Ticks \/ Reads \/ PersonCalls \/ CallSteps \/ Passing
    BY <1>1, CallsKeep
  <1>2. ASSUME NEW j \in JobIds, Open(j) PROVE SlotKept
    BY <1>2, OpensKeep
  <1>3. ASSUME NEW t \in Tasks, TaskStep(t) PROVE SlotKept
    BY <1>3, TasksWait, TasksCall DEF TaskStep
  <1>4. CASE Boot \/ Stop \/ Crash
    BY <1>4, RestartsKeep
  <1>5. CASE UNCHANGED vars
    <2>1. UNCHANGED <<op, jobs, state>> /\ clock' \in Nat /\ UNCHANGED task
      BY <1>5 DEF vars, schedulerVars, stormVars, files, SlotInv, FilesInv
    <2>. QED
      BY <2>1, StayKeeps, TaskStays, BegunKeeps DEF SlotInv
  <1>6. CASE \/ \E j \in JobIds, d \in Offered, rewritten \in BOOLEAN : SaveJob(j, d, rewritten)
             \/ WriteSaved
             \/ \E i \in Items : Allow(i)
             \/ \E c \in Chats : Retire(c) \/ Unlink(c)
             \/ \E n \in DOMAIN threads : Finish(n) \/ WriteTo(n)
    BY <1>6, PersonKeeps
  <1>. QED
    BY <1>1, <1>2, <1>3, <1>4, <1>5, <1>6 DEF Next

LEMMA SlotInvStarts == Init => SlotInv
  <1>. SUFFICES ASSUME Init PROVE SlotInv
    OBVIOUS
  <1>1. jobs \in [JobIds -> Definitions \cup {NoJob}]
    BY AgentJobsAssumption DEF Init
  <1>2. clock = 1 /\ op = Idle /\ state = [j \in JobIds |-> IF Exists(j) THEN InitialEntry(jobs[j], 1) ELSE NoEntry]
    BY DEF Init, SchedulerInit
  <1>3. \A j \in JobIds : Exists(j) => jobs[j] \in Definitions
    BY <1>1 DEF Exists, NoJob
  <1>4. state \in Docs
    BY <1>2, <1>3, EntryType DEF Docs
  <1>5. FilesInv
    BY <1>1, <1>2, <1>4 DEF FilesInv, JobRecords
  <1>6. OpInv
    BY <1>2, IdleType DEF OpInv, Busy
  <1>7. task = [t \in Tasks |-> NoTask]
    BY DEF Init
  <1>8. TaskInv
    BY <1>7, TaskRecords DEF TaskInv, Tasks
  <1>. QED
    BY <1>5, <1>6, <1>8 DEF SlotInv

\* Whatever the person, a tick, a restart or a failed write do between two of
\* the scheduler's writes, a scheduled fire that reaches state.json is of a
\* slot that was due, and the same write moves the job past it: no slot fires
\* twice, and none before its time.
THEOREM SlotsFireOnce == Spec => SlotFiresOnce
  <1>1. SlotInv /\ [Next]_vars => SlotInv' /\ SlotsFire
    BY StepsKeep DEF SlotKept
  <1>2. SlotsFire => \A j \in JobIds :
                        LET fire == state'[j].fire
                        IN  fire.trigger = "schedule" /\ fire # state[j].fire =>
                              /\ state[j].next <= fire.at /\ fire.at <= op.now
                              /\ state'[j].next = 0 \/ state'[j].next > op.now
    BY DEF SlotsFire, FiresOnce
  <1>. QED
    BY <1>1, <1>2, SlotInvStarts, PTL DEF Spec, SlotFiresOnce
=============================================================================
