----------------------------- MODULE ThreadInputs -----------------------------
(* The conversation's side of a thread's session: the Lifecycle listener (chats/lifecycle.py) that *)
(* judges each input once it has ended and sends the reply gate, the thread's state on the page    *)
(* (chats/cards.py, chats/conversation.py, chats/views.py), the person's messages and resumes      *)
(* (chats/delivery.py), and the loop breaker that pauses it (review/loops.py). The engine is what   *)
(* the listener sees of it: turns that start and finish, the wakes they take, SessionIdle, a        *)
(* process that ends, boot recovery.                                                                *)
(*                                                                                                 *)
(* The listener acts in tasks, one session's in the order of the commits that spawned them; a      *)
(* judgement reads the log in one transaction and writes in a later one, while the engine goes on. *)
EXTENDS Naturals, Sequences, FiniteSets, FiniteSetsExt

CONSTANTS MaxTurns,     \* turns the session runs
          MaxMessages,  \* messages the person posts in the thread
          MaxRelays,    \* messages the coordinator sends it
          Actions,      \* what its agent is denied, each a kind of its own in a budget
          StreakToPause, SuggestEvery,
          Asks,         \* blocking review items its agent raises
          Budgets       \* how often each of Kinds happens: functions on Kinds, one chosen at the start

Kinds == {"restart", "fail", "stop", "bad", "own", "aside", "close", "resolve", "ask", "relay"} \cup Actions

Turns == 1 .. MaxTurns
NoTurn == 0
Messages == {<<"msg", n>> : n \in 1 .. MaxMessages}
Relays == {<<"relay", n>> : n \in 1 .. MaxRelays}
Gates == {<<"gate", t>> : t \in Turns}
Wakes == Messages \cup Relays \cup Gates

ASSUME BoundsAreNaturals ==
    /\ StreakToPause \in Nat \ {0} /\ SuggestEvery \in Nat \ {0}
    /\ MaxTurns \in Nat /\ MaxMessages \in Nat /\ MaxRelays \in Nat
    /\ Budgets \subseteq [Kinds -> Nat]

VARIABLES log,        \* the session's events in commit order; an event's seq is its position
          proc,       \* its process: "cold", "warm" (no input), "turn", "gap" (an input between turns)
          turn,       \* the last turn begun
          stopping,   \* the person stopped the running turn
          wakes,      \* Wakes -> state and the turn that took it
          state,      \* the thread's state, as the page shows it
          asks,       \* open blocking review items of the thread
          paused,     \* sessions.paused
          breaker,    \* the loop_breaker row: the last denied action, its streak, all denials
          suggested,  \* the breaker's suggestion to pause is open
          pausing,    \* pauses decided whose own write is to come
          denied,     \* every denial, and whether it decided a pause (history)
          tasks,      \* the listener's tasks for the session, in the order its lock serves them
          found,      \* what the running judgement has read, or Nothing
          posts,      \* each POST of the person: its place in _to_thread
          resuming,   \* a PATCH {paused: false} is saved, its engine.resume to come
          unheard,    \* boot's pass has not yet looked for inputs that ended unheard
          missed,     \* a task of this server's life failed
          followed,   \* every pause and resume so far was followed by its task
          budget

engine == <<proc, turn, stopping>>
page == <<state, asks>>
loop == <<breaker, suggested, pausing, denied>>
person == <<posts, resuming>>
listener == <<tasks, found, unheard, missed, followed>>
vars == <<log, engine, wakes, page, paused, loop, person, listener, budget>>

Nothing == [turns |-> {}]
States == {"working", "needs_reply", "needs_approval", "done", "failed", "resolved", "paused"}
TaskKinds == {"judge", "unheard", "paused", "resumed"}

Fresh == [state |-> "none", turn |-> NoTurn]

(* A judgement that has read is at the head of the tasks. *)
TypeOK ==
    /\ proc \in {"cold", "warm", "turn", "gap"} /\ turn \in 0 .. MaxTurns /\ stopping \in BOOLEAN
    /\ wakes \in [Wakes -> [state : {"none", "queued", "taken", "done"}, turn : 0 .. MaxTurns]]
    /\ state \in States /\ asks \subseteq Asks /\ paused \in BOOLEAN
    /\ breaker \in [action : Actions \cup {"none"}, streak : 0 .. StreakToPause - 1, denials : Nat]
    /\ suggested \in BOOLEAN /\ pausing \in Nat /\ denied \in Seq([action : Actions, pauses : BOOLEAN])
    /\ tasks \in Seq(TaskKinds)
    /\ found # Nothing => tasks # <<>> /\ Head(tasks) \in {"judge", "unheard"}
    /\ posts \in [Messages -> {"none", "stored", "cut", "done"}] /\ resuming \in BOOLEAN
    /\ unheard \in BOOLEAN /\ missed \in BOOLEAN /\ followed \in BOOLEAN
    /\ budget \in [Kinds -> Nat]

Init ==
    /\ log = <<>> /\ proc = "cold" /\ turn = NoTurn /\ stopping = FALSE
    /\ wakes = [w \in Wakes |-> Fresh]
    /\ state = "working" /\ asks = {} /\ paused = FALSE
    /\ breaker = [action |-> "none", streak |-> 0, denials |-> 0] /\ suggested = FALSE /\ pausing = 0 /\ denied = <<>>
    /\ tasks = <<>> /\ found = Nothing
    /\ posts = [m \in Messages |-> "none"] /\ resuming = FALSE
    /\ unheard = FALSE /\ missed = FALSE /\ followed = TRUE
    /\ budget \in Budgets

Spend(kind) == budget[kind] > 0 /\ budget' = [budget EXCEPT ![kind] = @ - 1]
Free == UNCHANGED budget

Queued == {w \in Wakes : wakes[w].state = "queued"}
TakenBy(t) == {w \in Wakes : wakes[w].turn = t}

(* A wake with this id that was already delivered stays as it is. *)
Wake(w) == wakes' = IF wakes[w].state = "none" THEN [wakes EXCEPT ![w].state = "queued"] ELSE wakes

SpawnUnordered(kind) == tasks' = <<kind>> \o tasks
Spawn(kind) == tasks' = Append(tasks, kind)

-----------------------------------------------------------------------------
(* The engine, as the listener sees it. *)

Begin(took) ==
    /\ turn < MaxTurns
    /\ turn' = turn + 1 /\ proc' = "turn" /\ stopping' = FALSE
    /\ log' = Append(log, [k |-> "started", t |-> turn + 1, took |-> took])

(* Admission: one input of all the session's queued wakes. *)
StartTurn ==
    /\ proc \in {"cold", "warm"} /\ ~paused /\ Queued # {}
    /\ Begin(TRUE)
    /\ wakes' = [w \in Wakes |-> IF w \in Queued THEN [state |-> "taken", turn |-> turn + 1] ELSE wakes[w]]
    /\ UNCHANGED <<page, paused, loop, person, listener, budget>>

(* A turn the CLI starts on its own, within an input or between two. *)
OwnTurn ==
    /\ proc \in {"gap", "warm"} /\ Spend("own")
    /\ Begin(FALSE)
    /\ UNCHANGED <<wakes, page, paused, loop, person, listener>>

(* A comms call of the running turn: a reply in the thread, no_reply_needed, or a question to its *)
(* coordinator (a routing call).                                                                  *)
Say ==
    /\ proc = "turn"
    /\ \A i \in DOMAIN log : ~(log[i].k = "said" /\ log[i].t = turn)
    /\ \E how \in {"reply", "quiet", "handoff"} :
          /\ log' = Append(log, [k |-> "said", t |-> turn, how |-> how])
          /\ IF how = "reply" THEN Free ELSE Spend("aside")
    /\ UNCHANGED <<engine, wakes, page, paused, loop, person, listener>>

(* The turn's end and its wakes', in one transaction: a turn that failed so that it runs again     *)
(* hands its wakes back and says so.                                                              *)
Finish(status, back) ==
    LET given == back /\ TakenBy(turn) # {}
    IN  /\ log' = Append(log, [k |-> "finished", t |-> turn, status |-> status, back |-> given])
        /\ wakes' = [w \in Wakes |-> IF w \notin TakenBy(turn) THEN wakes[w]
                                     ELSE IF given THEN [state |-> "queued", turn |-> NoTurn]
                                     ELSE [wakes[w] EXCEPT !.state = "done"]]

FinishTurn ==
    /\ proc = "turn"
    /\ \/ Finish("finished", FALSE) /\ Free
       \/ stopping /\ Finish("stopped", FALSE) /\ Free
       \/ \E back \in BOOLEAN : Finish("failed", back) /\ Spend("bad")
       \/ ~stopping /\ Finish("interrupted", FALSE) /\ Spend("bad")
    /\ proc' = "gap" /\ stopping' = FALSE
    /\ UNCHANGED <<turn, page, paused, loop, person, listener>>

(* SessionIdle: the CLI has nothing left to do; the input ends and the listener hears it. *)
Idle ==
    /\ proc = "gap" /\ proc' = "warm"
    /\ Spawn("judge")
    /\ UNCHANGED <<log, turn, stopping, wakes, page, paused, loop, person, found, unheard, missed, followed, budget>>

(* The process is gone: released, or ended without an idle. *)
CloseUnheard ==
    /\ proc \in {"gap", "warm"} /\ proc' = "cold" /\ Spend("close")
    /\ UNCHANGED <<log, turn, stopping, wakes, page, paused, loop, person, listener>>
Close ==
    /\ proc \in {"gap", "warm"} /\ proc' = "cold" /\ Spend("close")
    /\ Spawn("judge")
    /\ UNCHANGED <<log, turn, stopping, wakes, page, paused, loop, person, found, unheard, missed, followed>>

(* The person's Stop, of a turn or between an input's turns. *)
Stop ==
    /\ proc \in {"turn", "gap"} /\ Spend("stop")
    /\ log' = Append(log, [k |-> "stop"])
    /\ stopping' = (proc = "turn")
    /\ UNCHANGED <<proc, turn, wakes, page, paused, loop, person, listener>>

(* A restart of the server. Boot recovery ends the running turn and hands its wakes back; its      *)
(* turn.finished names none of them. Tasks and requests end unfinished; boot's pass is to come.    *)
InterruptedEvent == [k |-> "finished", t |-> turn, status |-> "interrupted", back |-> FALSE]

Restart ==
    /\ Spend("restart")
    /\ log' = IF proc = "turn" THEN Append(log, InterruptedEvent) ELSE log
    /\ wakes' = [w \in Wakes |-> IF wakes[w].state = "taken" THEN [state |-> "queued", turn |-> NoTurn] ELSE wakes[w]]
    /\ proc' = "cold" /\ stopping' = FALSE
    /\ tasks' = <<>> /\ found' = Nothing /\ unheard' = TRUE /\ missed' = FALSE
    /\ followed' = (followed /\ \A i \in DOMAIN tasks : tasks[i] \notin {"paused", "resumed"})
    /\ posts' = [m \in Messages |-> IF posts[m] = "stored" THEN "cut" ELSE posts[m]]
    /\ resuming' = FALSE /\ pausing' = 0
    /\ UNCHANGED <<turn, page, paused, breaker, suggested, denied>>

-----------------------------------------------------------------------------
(* Messages, pauses, resolving: the person, the coordinator, the loop breaker. *)

Reopened(kept) == IF state \in kept THEN "working" ELSE state

(* A POST in the thread: the message, the reopened thread and the wake in one transaction. *)
Post(m) ==
    /\ posts[m] = "none" /\ posts' = [posts EXCEPT ![m] = "stored"]
    /\ Wake(m)
    /\ state' = Reopened({"resolved", "paused"})
    /\ UNCHANGED <<log, engine, asks, paused, loop, resuming, listener, budget>>

Resume == paused' = FALSE /\ Spawn("resumed")

(* Then, in a step of its own, the session is resumed if it is paused. *)
ResumeIfPaused ==
    IF paused THEN Resume ELSE UNCHANGED <<paused, tasks>>

PostResume(m) ==
    /\ posts[m] = "stored" /\ posts' = [posts EXCEPT ![m] = "done"]
    /\ ResumeIfPaused
    /\ UNCHANGED <<log, engine, wakes, page, loop, resuming, found, unheard, missed, followed, budget>>

(* The client retries a POST a restart cut: only the resume may be missing. *)
Retry(m) ==
    /\ posts[m] = "cut" /\ posts' = [posts EXCEPT ![m] = "done"]
    /\ IF wakes[m].state = "queued" THEN ResumeIfPaused ELSE UNCHANGED <<paused, tasks>>
    /\ UNCHANGED <<log, engine, wakes, page, loop, resuming, found, unheard, missed, followed, budget>>

(* message_thread: the coordinator's message reopens a resolved thread and resumes nothing. *)
Relay(r) ==
    /\ wakes[r].state = "none" /\ Wake(r) /\ Spend("relay")
    /\ state' = Reopened({"resolved"})
    /\ UNCHANGED <<log, engine, asks, paused, loop, person, listener>>

(* A denial, the policy's or the person's, counted in the transaction that records it. *)
CountOn(a) ==
    LET same == breaker.streak + 1
    IN  [action |-> a, streak |-> IF same >= StreakToPause THEN 0 ELSE same, denials |-> breaker.denials + 1]
Count(a) ==
    LET same == IF breaker.action = a THEN breaker.streak + 1 ELSE 1
    IN  [action |-> a, streak |-> IF same >= StreakToPause THEN 0 ELSE same, denials |-> breaker.denials + 1]

Deny(a) ==
    /\ Spend(a)
    /\ breaker' = Count(a)
    /\ denied' = Append(denied, [action |-> a, pauses |-> breaker'.streak = 0])
    /\ pausing' = pausing + (IF breaker'.streak = 0 THEN 1 ELSE 0)
    /\ suggested' = (suggested \/ breaker'.denials % SuggestEvery = 0)
    /\ UNCHANGED <<log, engine, wakes, page, paused, person, listener>>

(* The person's answer to the suggestion: dismissed, or confirmed and the session to be paused. *)
Suggestion(confirmed) ==
    /\ suggested /\ suggested' = FALSE
    /\ pausing' = pausing + (IF confirmed THEN 1 ELSE 0)
    /\ UNCHANGED <<log, engine, wakes, page, paused, breaker, denied, person, listener, budget>>

(* The pause is a write of its own; the thread's state is the listener's to follow. *)
Pause ==
    /\ pausing > 0 /\ pausing' = pausing - 1
    /\ paused' = TRUE /\ Spawn("paused")
    /\ UNCHANGED <<log, engine, wakes, page, breaker, suggested, denied, person, found, unheard, missed, followed, budget>>

(* PATCH {paused: false}: the thread first, then the session. *)
Unpause ==
    /\ ~resuming /\ resuming' = TRUE
    /\ paused \/ state = "paused"
    /\ state' = Reopened({"paused"})
    /\ UNCHANGED <<log, engine, wakes, asks, paused, loop, posts, listener, budget>>

UnpauseResume ==
    /\ resuming /\ resuming' = FALSE
    /\ Resume
    /\ UNCHANGED <<log, engine, wakes, page, loop, posts, found, unheard, missed, followed, budget>>

SetResolved ==
    /\ Spend("resolve")
    /\ state' = IF state = "resolved" THEN "working" ELSE "resolved"
    /\ UNCHANGED <<log, engine, wakes, asks, paused, loop, person, listener>>

(* The running agent raises a blocking item; the person decides it, or it is withdrawn. *)
OpenAsk(a) ==
    /\ proc = "turn" /\ a \notin asks /\ asks' = asks \cup {a} /\ Spend("ask")
    /\ state' = IF state \in {"resolved", "paused"} THEN state ELSE "needs_approval"
    /\ UNCHANGED <<log, engine, wakes, paused, loop, person, listener>>

CloseAskCountsItself(a) ==
    /\ a \in asks /\ asks' = asks \ {a}
    /\ state' = IF state = "needs_approval" /\ asks = {} THEN "working" ELSE state
    /\ UNCHANGED <<log, engine, wakes, paused, loop, person, listener, budget>>
CloseAsk(a) ==
    /\ a \in asks /\ asks' = asks \ {a}
    /\ state' = IF state = "needs_approval" /\ asks = {a} THEN "working" ELSE state
    /\ UNCHANGED <<log, engine, wakes, paused, loop, person, listener, budget>>

-----------------------------------------------------------------------------
(* The listener's tasks. *)

(* How far the last judgement reached. *)
Judgements == {i \in DOMAIN log : log[i].k = "ended"}
Through == IF Judgements = {} THEN 0 ELSE log[Max(Judgements)].through

FinishedAfter(since) == {i \in since + 1 .. Len(log) : log[i].k = "finished"}
(* A turn whose wakes went back to the queue doesn't end its input: it runs again. *)
Since == Max({Through} \cup {i \in FinishedAfter(Through) : log[i].back})

Unjudged == FinishedAfter(Since) # {}

(* What a judgement reads, in one transaction. Its turns are a set: they ran in the order of their  *)
(* numbers.                                                                                        *)
Input ==
    LET ends == FinishedAfter(Since)
        turns == {log[i].t : i \in ends}
        mine == {i \in DOMAIN log : log[i].k = "said" /\ log[i].t \in turns}
        statuses == {log[i].status : i \in ends}
        began == Min({i \in DOMAIN log : log[i].k = "started" /\ log[i].t \in turns})
        stopped == \E i \in began + 1 .. Len(log) : log[i].k = "stop"
    IN  [turns |-> turns, through |-> Len(log),
         answered |-> mine # {},
         waiting |-> \E i \in mine : log[i].how = "handoff",
         replied |-> \E i \in Since + 1 .. Len(log) : log[i].k = "said" /\ log[i].how = "reply",
         failed |-> "failed" \in statuses,
         stopped |-> stopped \/ statuses \cap {"stopped", "interrupted"} # {},
         stoppedLast |-> stopped \/ log[Max(ends)].status \in {"stopped", "interrupted"},
         gated |-> \E t \in turns : TakenBy(t) \cap Gates # {}]

Working == proc \in {"turn", "gap"}

Judging == tasks # <<>> /\ Head(tasks) \in {"judge", "unheard"}

JudgeRead ==
    /\ Judging /\ found = Nothing
    /\ IF Unjudged /\ ~(Head(tasks) = "unheard" /\ Working)
       THEN found' = Input /\ UNCHANGED tasks
       ELSE tasks' = Tail(tasks) /\ UNCHANGED found
    /\ UNCHANGED <<log, engine, wakes, page, paused, loop, person, unheard, missed, followed, budget>>

EndedAtWrite == Append(log, [k |-> "ended", turns |-> found.turns, through |-> Len(log)])
Ended == Append(log, [k |-> "ended", turns |-> found.turns, through |-> found.through])

Silent == ~found.answered /\ ~found.failed /\ ~found.stopped

JudgeGate ==
    /\ found # Nothing /\ Silent /\ ~found.gated
    /\ log' = Ended
    /\ Wake(<<"gate", Max(found.turns)>>)
    /\ tasks' = Tail(tasks) /\ found' = Nothing
    /\ UNCHANGED <<engine, page, paused, loop, person, unheard, missed, followed, budget>>

(* The card of the input; a reply that leaves items on its checklist is "needs_reply", not "done". *)
Card ==
    IF found.failed \/ Silent THEN "failed"
    ELSE IF found.stoppedLast THEN "needs_reply"
    ELSE IF found.waiting \/ ~found.replied THEN "working"
    ELSE "done"

ThreadState(card) ==
    IF state \in {"resolved", "paused"} THEN state
    ELSE IF asks # {} THEN "needs_approval" ELSE card

JudgeCard ==
    /\ found # Nothing /\ ~(Silent /\ ~found.gated)
    /\ log' = Ended
    /\ state' = ThreadState(Card)
    /\ tasks' = Tail(tasks) /\ found' = Nothing
    /\ UNCHANGED <<engine, wakes, asks, paused, loop, person, unheard, missed, followed, budget>>

(* The thread's state follows its session's pause. *)
FollowPause ==
    /\ tasks # <<>> /\ Head(tasks) \in {"paused", "resumed"}
    /\ state' = IF Head(tasks) = "paused"
                THEN IF state = "resolved" THEN state ELSE "paused"
                ELSE Reopened({"paused"})
    /\ tasks' = Tail(tasks)
    /\ UNCHANGED <<log, engine, wakes, asks, paused, loop, person, found, unheard, missed, followed, budget>>

(* A write the store refuses ends its task; the log says so, nothing else. *)
TaskFails ==
    /\ tasks # <<>> /\ (found # Nothing \/ ~Judging) /\ Spend("fail")
    /\ followed' = (followed /\ Judging)
    /\ missed' = TRUE
    /\ tasks' = Tail(tasks) /\ found' = Nothing
    /\ UNCHANGED <<log, engine, wakes, page, paused, loop, person, unheard>>

(* Boot's pass: inputs that ended while nothing listened, of a session with no wake to run. *)
Recover ==
    /\ unheard /\ unheard' = FALSE
    /\ tasks' = IF FinishedAfter(Through) # {} /\ \A w \in Wakes : wakes[w].state \notin {"queued", "taken"}
                THEN Append(tasks, "unheard") ELSE tasks
    /\ UNCHANGED <<log, engine, wakes, page, paused, loop, person, found, missed, followed, budget>>

-----------------------------------------------------------------------------

Engine == StartTurn \/ OwnTurn \/ Say \/ FinishTurn \/ Idle \/ Close \/ Stop \/ Restart

Person ==
    \/ \E m \in Messages : Post(m) \/ PostResume(m) \/ Retry(m)
    \/ \E r \in Relays : Relay(r)
    \/ (\E a \in Actions : Deny(a)) \/ (\E c \in BOOLEAN : Suggestion(c)) \/ Pause
    \/ Unpause \/ UnpauseResume \/ SetResolved
    \/ \E a \in Asks : OpenAsk(a) \/ CloseAsk(a)

Listener == JudgeRead \/ JudgeGate \/ JudgeCard \/ FollowPause \/ TaskFails \/ Recover

Next == Engine \/ Person \/ Listener

Spec == Init /\ [][Next]_vars

(* The engine ends what it starts and admits what may run (StormSession); the listener's tasks and *)
(* the requests in hand go on. The person need do nothing.                                         *)
Fairness ==
    /\ WF_vars(StartTurn \/ FinishTurn \/ Idle)
    /\ WF_vars(JudgeRead \/ JudgeGate \/ JudgeCard \/ FollowPause \/ Recover)
    /\ WF_vars(Pause \/ UnpauseResume \/ \E m \in Messages : PostResume(m))

LiveSpec == Spec /\ Fairness

-----------------------------------------------------------------------------

Judged(i) == log[i].turns

(* The judgements partition the finished turns: each turn is judged once, in the order the turns    *)
(* ran, and none up to the last judgement is left out, except in an input that goes back to the queue *)
(* whole. Whatever ends an input (an idle, its process's end, boot's pass, several of them) and       *)
(* whatever the engine does while a judgement is between its read and its write.                      *)
TurnsAreJudgedOnce ==
    /\ \A i, j \in Judgements : i < j => \A t \in Judged(i), u \in Judged(j) : t < u
    /\ \A i \in 1 .. Through : log[i].k = "finished" =>
          \/ \E j \in Judgements : log[i].t \in Judged(j)
          \/ \E b \in i .. Len(log) : log[b].k = "finished" /\ log[b].back

(* A thread shows paused only for a session that is: once the listener has followed every pause and *)
(* resume, whatever messages, resumes and resolves crossed them.                                    *)
PauseShownIsReal ==
    followed /\ (\A i \in DOMAIN tasks : tasks[i] \notin {"paused", "resumed"}) =>
        (state = "paused" => paused)

(* A denial pauses exactly when it makes StreakToPause of one action in a row, none of them counted   *)
(* toward an earlier pause: another action starts the streak again, and so does a pause.              *)
PausesOnAStreak ==
    \A n \in DOMAIN denied :
        LET run == n - StreakToPause + 1 .. n
        IN  denied[n].pauses <=>
               /\ run \subseteq DOMAIN denied
               /\ \A i \in run : denied[i].action = denied[n].action /\ (i # n => ~denied[i].pauses)

(* A thread that says it needs approval has an open blocking item to approve. *)
ApprovalShownIsOpen == state = "needs_approval" => asks # {}

(* Every finished turn is judged in the end, across restarts; unless a wake that waits to run leaves *)
(* it to that run's own end, or the store failed the judgement in this life of the server.           *)
EveryTurnIsJudged == Unjudged ~> (~Unjudged \/ (Queued # {} /\ (paused \/ turn = MaxTurns)) \/ missed)

(* "Turns whose wakes went back to the queue are dropped from it (the input runs again)": a judged  *)
(* turn that took wakes still has them.                                                              *)
JudgedTurnsDidNotGoBack ==
    \A i \in Judgements, j \in DOMAIN log :
        log[j].k = "started" /\ log[j].took /\ log[j].t \in Judged(i) => TakenBy(log[j].t) # {}
=============================================================================
