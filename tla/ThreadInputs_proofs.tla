------------------------- MODULE ThreadInputs_proofs -------------------------
(***************************************************************************)
(* What is proved of a thread's page, of the loop breaker and of the       *)
(* judgements, for any turns, messages, asks, denials and budgets: their   *)
(* types; that a thread says it needs approval only with something to      *)
(* approve; that it shows paused only for a session that is; that a denial *)
(* pauses exactly when it completes a streak; that each finished turn is   *)
(* judged once, in order.                                                  *)
(***************************************************************************)
EXTENDS ThreadInputs, TLAPS

-----------------------------------------------------------------------------
(***************************************************************************)
(* The listener's queue.                                                   *)
(***************************************************************************)

\* A pause or a resume the listener has still to follow.
Follows(kind) == kind \in {"paused", "resumed"}

\* What the tasks are, and that a judgement which has read is the first.
QueueInv ==
    /\ tasks \in Seq(TaskKinds) /\ paused \in BOOLEAN /\ state \in States
    /\ found # Nothing => tasks # <<>> /\ Head(tasks) \in {"judge", "unheard"}

\* At first there are none.
LEMMA QueueStarts == Init => QueueInv
  <1>. SUFFICES ASSUME Init PROVE QueueInv
    OBVIOUS
  <1>1. tasks = <<>> /\ found = Nothing /\ state = "working" /\ paused = FALSE
    BY DEF Init
  <1>2. tasks \in Seq(TaskKinds)
    BY <1>1
  <1>3. state \in States /\ paused \in BOOLEAN
    BY <1>1 DEF States
  <1>. QED
    BY <1>1, <1>2, <1>3, Zenon DEF QueueInv

\* What a step does to the tasks.
Grows(kind) == kind \in TaskKinds /\ Spawn(kind) /\ UNCHANGED found
Shrinks == tasks # <<>> /\ tasks' = Tail(tasks) /\ found' = Nothing

\* A task more goes to the end, and leaves the first where it is.
LEMMA GrowsKeeps ==
    ASSUME tasks \in Seq(TaskKinds), NEW kind, Grows(kind)
    PROVE  /\ tasks' \in Seq(TaskKinds) /\ Len(tasks') = Len(tasks) + 1 /\ tasks'[Len(tasks) + 1] = kind
           /\ \A i \in 1 .. Len(tasks) : tasks'[i] = tasks[i]
           /\ tasks # <<>> => tasks' # <<>> /\ Head(tasks') = Head(tasks)
  BY DEF Grows, Spawn

\* The first goes, and the others move up.
LEMMA ShrinksKeeps ==
    ASSUME tasks \in Seq(TaskKinds), Shrinks
    PROVE  /\ tasks' \in Seq(TaskKinds) /\ Len(tasks') = Len(tasks) - 1
           /\ \A i \in 1 .. Len(tasks) - 1 : tasks'[i] = tasks[i + 1]
           /\ Len(tasks) > 0 /\ Head(tasks) = tasks[1] /\ tasks[1] \in TaskKinds
  BY DEF Shrinks

-----------------------------------------------------------------------------
(***************************************************************************)
(* Types.                                                                  *)
(***************************************************************************)

\* Whatever wakes are taken, handed back or done, they stay wakes.
WakesType == wakes \in [Wakes -> [state : {"none", "queued", "taken", "done"}, turn : 0 .. MaxTurns]]

LEMMA WakeEdits ==
    ASSUME WakesType
    PROVE  /\ \A w : Wake(w) => WakesType'
           /\ \A status, back : Finish(status, back) => WakesType'
           /\ Restart => WakesType'
           /\ \A W \in SUBSET Wakes, t \in 0 .. MaxTurns :
                 wakes' = [w \in Wakes |-> IF w \in W THEN [state |-> "taken", turn |-> t] ELSE wakes[w]] => WakesType'
  <1>. USE BoundsAreNaturals DEF WakesType
  <1>1. \A w : Wake(w) => WakesType'
    <2>. SUFFICES ASSUME NEW w, Wake(w) PROVE wakes' \in [Wakes -> [state : {"none", "queued", "taken", "done"}, turn : 0 .. MaxTurns]]
      OBVIOUS
    <2>1. wakes' = wakes \/ wakes' = [wakes EXCEPT ![w] = [wakes[w] EXCEPT !.state = "queued"]]
      BY DEF Wake
    <2>2. w \in Wakes => [wakes[w] EXCEPT !.state = "queued"] \in [state : {"none", "queued", "taken", "done"}, turn : 0 .. MaxTurns]
      OBVIOUS
    <2>. QED
      BY <2>1, <2>2
  <1>2. \A status, back : Finish(status, back) => WakesType'
    BY SMTT(30) DEF Finish, NoTurn
  <1>3. Restart => WakesType'
    BY DEF Restart, NoTurn
  <1>. QED
    BY <1>1, <1>2, <1>3

\* A budget that is spent from stays one.
LEMMA SpendType ==
    ASSUME budget \in [Kinds -> Nat], NEW kind \in Kinds, Spend(kind)
    PROVE  budget' \in [Kinds -> Nat]
  BY DEF Spend

\* The types, in parts that one step seldom touches together.
EngineType == proc \in {"cold", "warm", "turn", "gap"} /\ turn \in 0 .. MaxTurns /\ stopping \in BOOLEAN
PageType == state \in States /\ asks \subseteq Asks
LoopType ==
    /\ breaker \in [action : Actions \cup {"none"}, streak : 0 .. StreakToPause - 1, denials : Nat]
    /\ suggested \in BOOLEAN /\ pausing \in Nat /\ denied \in Seq([action : Actions, pauses : BOOLEAN])
PersonType == posts \in [Messages -> {"none", "stored", "cut", "done"}] /\ resuming \in BOOLEAN
RestType == unheard \in BOOLEAN /\ missed \in BOOLEAN /\ followed \in BOOLEAN

LEMMA TypeParts ==
    TypeOK <=> EngineType /\ WakesType /\ PageType /\ LoopType /\ PersonType /\ RestType /\ QueueInv
               /\ budget \in [Kinds -> Nat]
  BY DEF TypeOK, EngineType, WakesType, PageType, LoopType, PersonType, RestType, QueueInv

-----------------------------------------------------------------------------
(***************************************************************************)
(* A denial pauses when it completes a streak.                             *)
(***************************************************************************)

\* The streak is the run of denials of one action since the last pause, or
\* since the last denial of another.
StreakInv ==
    /\ breaker.streak \in 0 .. StreakToPause - 1 /\ breaker.streak <= Len(denied)
    /\ denied \in Seq([action : Actions, pauses : BOOLEAN])
    /\ \A i \in Len(denied) - breaker.streak + 1 .. Len(denied) :
          denied[i].action = breaker.action /\ ~denied[i].pauses
    /\ Len(denied) > breaker.streak =>
          \/ denied[Len(denied) - breaker.streak].pauses
          \/ breaker.streak > 0 /\ denied[Len(denied) - breaker.streak].action # breaker.action

\* What a denial records.
LEMMA DenyRecords ==
    ASSUME StreakInv, NEW a \in Actions, Deny(a)
    PROVE  LET same == IF breaker.action = a THEN breaker.streak + 1 ELSE 1
               n == Len(denied) + 1
           IN  /\ breaker'.action = a /\ breaker'.streak = IF same >= StreakToPause THEN 0 ELSE same
               /\ denied' \in Seq([action : Actions, pauses : BOOLEAN]) /\ Len(denied') = n
               /\ denied'[n].action = a /\ (denied'[n].pauses <=> breaker'.streak = 0)
               /\ \A i \in 1 .. Len(denied) : denied'[i] = denied[i]
  <1>. DEFINE same == IF breaker.action = a THEN breaker.streak + 1 ELSE 1
  <1>1. breaker'.action = a /\ breaker'.streak = IF same >= StreakToPause THEN 0 ELSE same
    BY DEF Deny, Count
  <1>2. /\ denied \in Seq([action : Actions, pauses : BOOLEAN]) /\ denied' = Append(denied, [action |-> a, pauses |-> breaker'.streak = 0])
        /\ [action |-> a, pauses |-> breaker'.streak = 0] \in [action : Actions, pauses : BOOLEAN]
    BY DEF Deny, StreakInv
  <1>3. /\ denied' \in Seq([action : Actions, pauses : BOOLEAN]) /\ Len(denied') = Len(denied) + 1
        /\ denied'[Len(denied) + 1] = [action |-> a, pauses |-> breaker'.streak = 0]
        /\ \A i \in 1 .. Len(denied) : denied'[i] = denied[i]
    BY <1>2
  <1>. HIDE DEF same
  <1>. QED
    BY <1>1, <1>3 DEF same

\* The streak goes on, starts again, or ends in a pause.
LEMMA DenyStreak ==
    ASSUME StreakInv, NEW a \in Actions, Deny(a)
    PROVE  StreakInv'
  <1>. USE BoundsAreNaturals
  <1>. DEFINE same == IF breaker.action = a THEN breaker.streak + 1 ELSE 1
              n == Len(denied) + 1
  <1>1. /\ breaker'.action = a /\ breaker'.streak = IF same >= StreakToPause THEN 0 ELSE same
        /\ denied' \in Seq([action : Actions, pauses : BOOLEAN]) /\ Len(denied') = n
        /\ denied'[n].action = a /\ (denied'[n].pauses <=> breaker'.streak = 0)
        /\ \A i \in 1 .. Len(denied) : denied'[i] = denied[i]
    BY DenyRecords
  <1>2. /\ breaker.streak \in Nat /\ Len(denied) \in Nat /\ breaker.streak <= Len(denied)
        /\ same \in Nat /\ same >= 1 /\ (breaker.action = a => same = breaker.streak + 1) /\ (breaker.action # a => same = 1)
    BY DEF StreakInv
  <1>3. CASE same >= StreakToPause
    <2>1. breaker'.streak = 0 /\ denied'[n].pauses
      BY <1>1, <1>3
    <2>. QED
      BY <1>1, <1>2, <2>1 DEF StreakInv
  <1>4. CASE same < StreakToPause
    <2>1. breaker'.streak = same /\ ~denied'[n].pauses /\ same \in 0 .. StreakToPause - 1 /\ same <= n
      BY <1>1, <1>2, <1>4
    <2>2. CASE breaker.action = a
      <3>1. ASSUME NEW i \in n - same + 1 .. n PROVE denied'[i].action = a /\ ~denied'[i].pauses
        <4>1. i = n \/ i \in Len(denied) - breaker.streak + 1 .. Len(denied)
          BY <1>2, <2>2
        <4>2. i \in 1 .. Len(denied) \/ i = n
          BY <1>2, <4>1
        <4>. QED
          BY <1>1, <2>1, <2>2, <4>1, <4>2 DEF StreakInv
      <3>2. n > same => denied'[n - same] = denied[Len(denied) - breaker.streak] /\ Len(denied) > breaker.streak /\ same > 0
        <4>1. n - same = Len(denied) - breaker.streak /\ same > 0
          BY <1>2, <2>2
        <4>2. n > same => Len(denied) - breaker.streak \in 1 .. Len(denied)
          BY <1>2, <4>1
        <4>. QED
          BY <1>1, <1>2, <4>1, <4>2
      <3>3. n > same => denied'[n - same].pauses \/ denied'[n - same].action # a
        BY <2>2, <3>2 DEF StreakInv
      <3>. QED
        BY <1>1, <1>2, <2>1, <3>1, <3>3 DEF StreakInv
    <2>3. CASE breaker.action # a
      <3>1. \A i \in n - same + 1 .. n : i = n
        BY <1>2, <2>3
      <3>2. n > same => denied'[n - same] = denied[Len(denied)] /\ Len(denied) > 0
        BY <1>1, <1>2, <2>3
      <3>3. Len(denied) > 0 => denied[Len(denied)].pauses \/ denied[Len(denied)].action # a
        <4>1. CASE breaker.streak = 0
          BY <1>2, <4>1 DEF StreakInv
        <4>2. CASE breaker.streak > 0
          BY <1>2, <2>3, <4>2 DEF StreakInv
        <4>. QED
          BY <1>2, <4>1, <4>2
      <3>. QED
        BY <1>1, <1>2, <2>1, <3>1, <3>2, <3>3 DEF StreakInv
    <2>. QED
      BY <2>2, <2>3
  <1>. HIDE DEF same
  <1>. QED
    BY <1>1, <1>2, <1>3, <1>4, BoundsAreNaturals

\* The denial that completes a streak pauses, and no other.
LEMMA DenyPauses ==
    ASSUME StreakInv, PausesOnAStreak, NEW a \in Actions, Deny(a)
    PROVE  PausesOnAStreak'
  <1>. USE BoundsAreNaturals
  <1>. DEFINE same == IF breaker.action = a THEN breaker.streak + 1 ELSE 1
              n == Len(denied) + 1
              s == breaker.streak
              Run(k) == k - StreakToPause + 1 .. k
  <1>1. /\ breaker'.streak = IF same >= StreakToPause THEN 0 ELSE same
        /\ denied' \in Seq([action : Actions, pauses : BOOLEAN]) /\ Len(denied') = n
        /\ denied'[n].action = a /\ (denied'[n].pauses <=> breaker'.streak = 0)
        /\ \A i \in 1 .. Len(denied) : denied'[i] = denied[i]
    BY DenyRecords
  <1>2. s \in Nat /\ Len(denied) \in Nat /\ s <= Len(denied) /\ same \in Nat /\ same >= 1 /\ s < StreakToPause
    BY DEF StreakInv
  <1>3. ASSUME NEW k \in 1 .. Len(denied)
        PROVE  denied'[k].pauses <=> /\ Run(k) \subseteq DOMAIN denied'
                                     /\ \A i \in Run(k) : denied'[i].action = denied'[k].action /\ (i # k => ~denied'[i].pauses)
    <2>1. denied[k].pauses <=> /\ Run(k) \subseteq DOMAIN denied
                               /\ \A i \in Run(k) : denied[i].action = denied[k].action /\ (i # k => ~denied[i].pauses)
      <3>1. k \in DOMAIN denied
        BY DEF StreakInv
      <3>. HIDE BoundsAreNaturals
      <3>. QED
        BY <3>1, Zenon DEF PausesOnAStreak
    <2>2. DOMAIN denied = 1 .. Len(denied) /\ DOMAIN denied' = 1 .. n
      BY <1>1 DEF StreakInv
    <2>3. Run(k) \subseteq DOMAIN denied <=> Run(k) \subseteq DOMAIN denied'
      BY <1>2, <2>2
    <2>4. Run(k) \subseteq DOMAIN denied => \A i \in Run(k) : denied'[i] = denied[i]
      BY <1>1, <2>2
    <2>5. denied'[k] = denied[k]
      BY <1>1
    <2>. QED
      BY <2>1, <2>3, <2>4, <2>5
  <1>4. denied'[n].pauses <=> /\ Run(n) \subseteq DOMAIN denied'
                              /\ \A i \in Run(n) : denied'[i].action = denied'[n].action /\ (i # n => ~denied'[i].pauses)
    <2>1. CASE same >= StreakToPause
      <3>1. \A i \in Run(n) : i \in 1 .. n /\ (i # n => i \in Len(denied) - s + 1 .. Len(denied) /\ breaker.action = a)
        BY <1>2, <2>1
      <3>2. denied'[n].pauses
        BY <1>1, <2>1
      <3>3. \A i \in Run(n) : i # n => denied'[i] = denied[i] /\ denied[i].action = a /\ ~denied[i].pauses
        BY <1>1, <1>2, <3>1 DEF StreakInv
      <3>4. \A i \in Run(n) : denied'[i].action = denied'[n].action /\ (i # n => ~denied'[i].pauses)
        BY <1>1, <3>3
      <3>5. Run(n) \subseteq DOMAIN denied'
        BY <1>1, <3>1
      <3>. QED
        BY <3>2, <3>4, <3>5
    <2>2. CASE same < StreakToPause
      <3>1. ~denied'[n].pauses
        BY <1>1, <1>2, <2>2
      <3>2. CASE breaker.action = a
        <4>1. Len(denied) - s \in Run(n)
          BY <1>2, <2>2, <3>2
        <4>2. CASE Len(denied) = s
          BY <1>1, <1>2, <3>1, <4>1, <4>2
        <4>3. CASE Len(denied) > s
          <5>1. denied'[Len(denied) - s] = denied[Len(denied) - s] /\ Len(denied) - s # n
            BY <1>1, <1>2, <4>3
          <5>2. denied[Len(denied) - s].pauses \/ denied[Len(denied) - s].action # a
            BY <3>2, <4>3 DEF StreakInv
          <5>. QED
            BY <1>1, <3>1, <4>1, <5>1, <5>2
        <4>. QED
          BY <1>2, <4>2, <4>3
      <3>3. CASE breaker.action # a
        <4>1. Len(denied) \in Run(n) /\ Len(denied) # n
          BY <1>2, <2>2, <3>3
        <4>2. CASE Len(denied) = 0
          BY <1>1, <1>2, <3>1, <4>1, <4>2
        <4>3. CASE Len(denied) > 0
          <5>1. denied'[Len(denied)] = denied[Len(denied)]
            BY <1>1, <1>2, <4>3
          <5>2. denied[Len(denied)].pauses \/ denied[Len(denied)].action # a
            BY <1>2, <3>3, <4>3 DEF StreakInv
          <5>. QED
            BY <1>1, <3>1, <4>1, <5>1, <5>2
        <4>. QED
          BY <1>2, <4>2, <4>3
      <3>. QED
        BY <3>2, <3>3
    <2>. QED
      BY <1>2, <2>1, <2>2
  <1>5. DOMAIN denied' = 1 .. n /\ \A k \in 1 .. n : k \in 1 .. Len(denied) \/ k = n
    BY <1>1, <1>2
  <1>6. \A k \in DOMAIN denied' :
           denied'[k].pauses <=> /\ Run(k) \subseteq DOMAIN denied'
                                 /\ \A i \in Run(k) : denied'[i].action = denied'[k].action /\ (i # k => ~denied'[i].pauses)
    BY <1>3, <1>4, <1>5
  <1>. QED
    BY <1>6 DEF PausesOnAStreak

\* Only denials are counted.
LEMMA OnlyDenials == [Next]_vars => UNCHANGED <<breaker, denied>> \/ \E a \in Actions : Deny(a)
  <1>. SUFFICES ASSUME [Next]_vars, \A a \in Actions : ~Deny(a) PROVE UNCHANGED <<breaker, denied>>
    OBVIOUS
  <1>. USE DEF loop
  <1>1. CASE Engine
    BY <1>1 DEF Engine, StartTurn, OwnTurn, Say, FinishTurn, Idle, Close, Stop, Restart
  <1>2. CASE Person
    BY <1>2 DEF Person, Post, PostResume, Retry, Relay, Suggestion, Pause, Unpause, UnpauseResume, SetResolved,
                OpenAsk, CloseAsk
  <1>3. CASE Listener
    BY <1>3 DEF Listener, JudgeRead, JudgeGate, JudgeCard, FollowPause, TaskFails, Recover
  <1>. QED
    BY <1>1, <1>2, <1>3 DEF Next, vars

\* Ten of one action in a row pause, whatever came before.
THEOREM PausesAreStreaks == Spec => []PausesOnAStreak
  <1>1. Init => StreakInv /\ PausesOnAStreak
    BY BoundsAreNaturals DEF Init, StreakInv, PausesOnAStreak
  <1>2. StreakInv /\ PausesOnAStreak /\ [Next]_vars => (StreakInv /\ PausesOnAStreak)'
    <2>1. StreakInv /\ PausesOnAStreak /\ UNCHANGED <<breaker, denied>> => (StreakInv /\ PausesOnAStreak)'
      BY DEF StreakInv, PausesOnAStreak
    <2>. QED
      BY <2>1, OnlyDenials, DenyStreak, DenyPauses
  <1>. QED
    BY <1>1, <1>2, PTL DEF Spec

-----------------------------------------------------------------------------
(***************************************************************************)
(* The page's state.                                                       *)
(***************************************************************************)

\* What a card, a hold or a reopening make of the state.
LEMMA PageStates ==
    /\ \A card : ThreadState(card) \in {state, "needs_approval", card}
    /\ \A card : ThreadState(card) = "needs_approval" => asks # {} \/ card = "needs_approval"
    /\ Card \in {"failed", "needs_reply", "working", "done"}
    /\ \A kept : Reopened(kept) \in {state, "working"}
  BY DEF ThreadState, Card, Reopened

\* A blocking item is open while the thread says that it needs approval.
THEOREM ApprovalIsOfSomething == Spec => []ApprovalShownIsOpen
  <1>. USE DEF ApprovalShownIsOpen
  <1>1. Init => ApprovalShownIsOpen
    BY DEF Init
  <1>2. ApprovalShownIsOpen /\ [Next]_vars => ApprovalShownIsOpen'
    <2>. SUFFICES ASSUME ApprovalShownIsOpen, [Next]_vars PROVE ApprovalShownIsOpen'
      OBVIOUS
    <2>. USE DEF page
    <2>1. CASE Engine \/ UNCHANGED vars
      BY <2>1 DEF Engine, StartTurn, OwnTurn, Say, FinishTurn, Idle, Close, Stop, Restart, vars
    <2>2. CASE Person
      BY <2>2, PageStates DEF Person, Post, PostResume, Retry, Relay, Deny, Suggestion, Pause, Unpause, UnpauseResume,
                  SetResolved, OpenAsk, CloseAsk
    <2>3. CASE JudgeRead \/ JudgeGate \/ TaskFails \/ Recover
      BY <2>3 DEF JudgeRead, JudgeGate, TaskFails, Recover
    <2>4. CASE JudgeCard \/ FollowPause
      BY <2>4, PageStates DEF JudgeCard, FollowPause
    <2>. QED
      BY <2>1, <2>2, <2>3, <2>4 DEF Next, Listener
  <1>. QED
    BY <1>1, <1>2, PTL DEF Spec

-----------------------------------------------------------------------------
(***************************************************************************)
(* The pause the page shows.                                               *)
(***************************************************************************)

\* The last pause or resume to follow is what the session is; with none left,
\* a thread shows paused only for a session that is.
FollowInv ==
    /\ QueueInv
    /\ followed => \A i \in 1 .. Len(tasks) :
          Follows(tasks[i]) /\ (\A j \in i + 1 .. Len(tasks) : ~Follows(tasks[j])) => (tasks[i] = "paused" <=> paused)
    /\ PauseShownIsReal

\* How a step changes tasks, pause and state.
NoTaskStep == UNCHANGED <<tasks, paused, followed>> /\ (found' = found \/ Judging) /\ state' \in States /\ (state' = "paused" => state = "paused")
OtherTaskStep == UNCHANGED <<paused, followed, state>> /\ (Grows("judge") \/ Grows("unheard"))
PauseStep == UNCHANGED <<followed, state>> /\ Grows("paused") /\ paused' = TRUE
ResumeStep == UNCHANGED <<followed, state>> /\ Grows("resumed") /\ paused' = FALSE
JudgedStep ==
    /\ UNCHANGED <<paused, followed>> /\ Shrinks /\ Judging
    /\ state' \in States /\ (state' = "paused" => state = "paused")
FollowStep == FollowPause
FailStep == TaskFails
RestartStep ==
    /\ UNCHANGED <<paused, state>> /\ tasks' = <<>> /\ found' = Nothing
    /\ followed' = (followed /\ \A i \in DOMAIN tasks : tasks[i] \notin {"paused", "resumed"})

LEMMA Steps ==
    ASSUME QueueInv, [Next]_vars
    PROVE  NoTaskStep \/ OtherTaskStep \/ PauseStep \/ ResumeStep \/ JudgedStep \/ FollowStep \/ FailStep \/ RestartStep
  <1>. USE DEF page, listener
  <1>0. state \in States /\ {"working", "failed", "needs_reply", "needs_approval", "done", "resolved"} \subseteq States
    BY DEF QueueInv, States
  <1>1. CASE StartTurn \/ OwnTurn \/ Say \/ FinishTurn \/ Stop \/ UNCHANGED vars
    BY <1>0, <1>1 DEF StartTurn, OwnTurn, Say, FinishTurn, Stop, vars, NoTaskStep
  <1>2. CASE Idle \/ Close \/ Recover
    BY <1>0, <1>2 DEF Idle, Close, Recover, OtherTaskStep, NoTaskStep, Grows, Spawn, TaskKinds
  <1>3. CASE Restart
    BY <1>3 DEF Restart, RestartStep
  <1>4. CASE Pause
    BY <1>4 DEF Pause, PauseStep, Grows, TaskKinds
  <1>5. CASE UnpauseResume \/ (\E m \in Messages : PostResume(m) \/ Retry(m))
    BY <1>0, <1>5 DEF UnpauseResume, PostResume, Retry, ResumeIfPaused, Resume, ResumeStep, NoTaskStep, Grows, TaskKinds
  <1>6. CASE (\E m \in Messages : Post(m)) \/ (\E r \in Relays : Relay(r)) \/ Unpause
    BY <1>0, <1>6 DEF Post, Relay, Unpause, Reopened, NoTaskStep
  <1>7. CASE (\E a \in Actions : Deny(a)) \/ (\E c \in BOOLEAN : Suggestion(c)) \/ SetResolved
             \/ (\E a \in Asks : OpenAsk(a) \/ CloseAsk(a))
    BY <1>0, <1>7 DEF Deny, Suggestion, SetResolved, OpenAsk, CloseAsk, NoTaskStep
  <1>8. CASE JudgeRead
    <2>1. UNCHANGED <<paused, followed, state>> /\ Judging /\ found = Nothing
      BY <1>8 DEF JudgeRead
    <2>2. UNCHANGED tasks \/ (tasks' = Tail(tasks) /\ found' = Nothing)
      BY <1>8, <2>1 DEF JudgeRead
    <2>. QED
      BY <1>0, <2>1, <2>2 DEF Judging, NoTaskStep, JudgedStep, Shrinks
  <1>9. CASE JudgeGate \/ JudgeCard
    <2>1. found # Nothing /\ Judging /\ tasks # <<>>
      BY <1>9 DEF JudgeGate, JudgeCard, QueueInv, Judging
    <2>2. tasks' = Tail(tasks) /\ found' = Nothing /\ UNCHANGED <<paused, followed>>
      BY <1>9 DEF JudgeGate, JudgeCard
    <2>3. state' \in States /\ (state' = "paused" => state = "paused")
      BY <1>0, <1>9, PageStates DEF JudgeGate, JudgeCard
    <2>. QED
      BY <2>1, <2>2, <2>3 DEF JudgedStep, Shrinks
  <1>. QED
    BY <1>1, <1>2, <1>3, <1>4, <1>5, <1>6, <1>7, <1>8, <1>9 DEF Next, Engine, Person, Listener, FollowStep, FailStep

\* The listener's queue keeps its shape.
LEMMA QueueKeeps ==
    ASSUME QueueInv, [Next]_vars PROVE QueueInv'
  <1>1. CASE NoTaskStep
    BY <1>1 DEF NoTaskStep, QueueInv, Judging
  <1>2. ASSUME NEW kind, Grows(kind), paused' \in BOOLEAN, state' = state PROVE QueueInv'
    BY <1>2, GrowsKeeps DEF QueueInv, Grows
  <1>3. CASE JudgedStep
    BY <1>3, ShrinksKeeps DEF JudgedStep, Shrinks, QueueInv
  <1>4. CASE FollowPause
    <2>1. found' = Nothing
      BY <1>4 DEF FollowPause, QueueInv
    <2>2. Shrinks /\ paused' = paused /\ state' \in States
      BY <1>4, <2>1, PageStates DEF FollowPause, Shrinks, QueueInv, States
    <2>. QED
      BY <2>1, <2>2, ShrinksKeeps DEF QueueInv
  <1>5. CASE TaskFails
    <2>1. Shrinks /\ paused' = paused /\ state' = state
      BY <1>5 DEF TaskFails, Shrinks, page
    <2>. QED
      BY <2>1, ShrinksKeeps DEF QueueInv, Shrinks
  <1>6. CASE RestartStep
    BY <1>6 DEF RestartStep, QueueInv
  <1>. QED
    BY <1>1, <1>2, <1>3, <1>4, <1>5, <1>6, Steps DEF OtherTaskStep, PauseStep, ResumeStep, FollowStep, FailStep, QueueInv

\* A task that is no pause and no resume changes nothing of what is to follow;
\* a pause or a resume is the last of them.
LEMMA GrowsFollow ==
    ASSUME FollowInv, NEW kind, Grows(kind), followed' = followed, state' = state,
           IF Follows(kind) THEN paused' = (kind = "paused") ELSE paused' = paused
    PROVE  FollowInv' \/ ~QueueInv'
  <1>. SUFFICES ASSUME followed, QueueInv' PROVE FollowInv'
    BY DEF FollowInv, PauseShownIsReal
  <1>. DEFINE n == Len(tasks)
  <1>1. /\ n \in Nat /\ Len(tasks') = n + 1 /\ tasks'[n + 1] = kind
        /\ \A i \in 1 .. n : tasks'[i] = tasks[i]
        /\ DOMAIN tasks = 1 .. n /\ DOMAIN tasks' = 1 .. n + 1
    BY GrowsKeeps DEF FollowInv, QueueInv
  <1>. HIDE DEF n
  <1>2. CASE Follows(kind)
    <2>1. paused' = (kind = "paused") /\ Follows(tasks'[n + 1]) /\ n + 1 \in 1 .. n + 1
      BY <1>1, <1>2
    <2>2. ASSUME NEW i \in 1 .. n + 1, \A j \in i + 1 .. n + 1 : ~Follows(tasks'[j])
          PROVE  tasks'[i] = "paused" <=> paused'
      <3>1. i = n + 1 \/ n + 1 \in i + 1 .. n + 1
        BY <1>1
      <3>. QED
        BY <1>1, <2>1, <2>2, <3>1
    <2>3. PauseShownIsReal'
      BY <1>1, <2>1 DEF PauseShownIsReal, Follows
    <2>. QED
      BY <1>1, <2>2, <2>3 DEF FollowInv
  <1>3. CASE ~Follows(kind)
    <2>1. paused' = paused
      BY <1>3
    <2>2. ASSUME NEW i \in 1 .. n + 1, Follows(tasks'[i]), \A j \in i + 1 .. n + 1 : ~Follows(tasks'[j])
          PROVE  tasks'[i] = "paused" <=> paused'
      <3>1. i \in 1 .. n
        BY <1>1, <1>3, <2>2
      <3>2. Follows(tasks[i]) /\ \A j \in i + 1 .. n : ~Follows(tasks[j])
        BY <1>1, <2>2, <3>1
      <3>. QED
        BY <1>1, <2>1, <3>1, <3>2 DEF FollowInv, n
    <2>3. PauseShownIsReal'
      BY <1>1, <2>1 DEF FollowInv, PauseShownIsReal
    <2>. QED
      BY <1>1, <2>2, <2>3 DEF FollowInv
  <1>. QED
    BY <1>2, <1>3

\* Once the listener has followed every pause and resume, a thread that shows
\* paused is of a paused session.
THEOREM PauseShownIsOfTheSession == Spec => []PauseShownIsReal
  <1>1. Init => FollowInv
    <2>1. Init => QueueInv /\ Len(tasks) = 0
      BY QueueStarts DEF Init
    <2>2. Init => PauseShownIsReal
      BY DEF Init, PauseShownIsReal
    <2>. QED
      BY <2>1, <2>2 DEF FollowInv
  <1>2. FollowInv /\ [Next]_vars => FollowInv'
    <2>. SUFFICES ASSUME FollowInv, [Next]_vars PROVE FollowInv'
      OBVIOUS
    <2>0. QueueInv /\ QueueInv'
      BY QueueKeeps DEF FollowInv
    <2>1. CASE NoTaskStep
      BY <2>0, <2>1 DEF NoTaskStep, FollowInv, PauseShownIsReal
    <2>2. CASE OtherTaskStep \/ PauseStep \/ ResumeStep
      BY <2>0, <2>2, GrowsFollow DEF OtherTaskStep, PauseStep, ResumeStep, Follows
    <2>3. ASSUME Shrinks, followed' => followed,
                 paused' = paused,
                 \/ ~Follows(Head(tasks)) /\ (state' = "paused" => state = "paused")
                 \/ Follows(Head(tasks)) /\ (state' = "paused" => Head(tasks) = "paused")
                 \/ ~followed'
          PROVE FollowInv'
      <3>. SUFFICES ASSUME followed' PROVE FollowInv'
        BY <2>0 DEF FollowInv, PauseShownIsReal
      <3>. DEFINE n == Len(tasks)
      <3>1. /\ n \in Nat /\ n > 0 /\ Len(tasks') = n - 1 /\ Head(tasks) = tasks[1]
            /\ \A i \in 1 .. n - 1 : tasks'[i] = tasks[i + 1]
            /\ DOMAIN tasks = 1 .. n /\ DOMAIN tasks' = 1 .. n - 1
        BY <2>0, <2>3, ShrinksKeeps DEF QueueInv
      <3>. HIDE DEF n
      <3>2. ASSUME NEW i \in 1 .. n - 1, Follows(tasks'[i]), \A j \in i + 1 .. n - 1 : ~Follows(tasks'[j])
            PROVE  tasks'[i] = "paused" <=> paused'
        <4>1. i + 1 \in 1 .. n /\ Follows(tasks[i + 1])
          BY <3>1, <3>2
        <4>2. ASSUME NEW j \in i + 2 .. n PROVE ~Follows(tasks[j])
          <5>1. j - 1 \in i + 1 .. n - 1 /\ tasks'[j - 1] = tasks[(j - 1) + 1] /\ (j - 1) + 1 = j
            BY <3>1
          <5>. QED
            BY <3>2, <5>1
        <4>3. tasks[i + 1] = "paused" <=> paused
          BY <2>3, <3>1, <4>1, <4>2 DEF FollowInv, n
        <4>. QED
          BY <2>3, <3>1, <4>3
      <3>3. PauseShownIsReal'
        <4>. SUFFICES ASSUME \A i \in 1 .. n - 1 : ~Follows(tasks'[i]), state' = "paused" PROVE paused'
          BY <3>1 DEF PauseShownIsReal, Follows
        <4>1. ASSUME NEW j \in 2 .. n PROVE ~Follows(tasks[j])
          <5>1. j - 1 \in 1 .. n - 1 /\ tasks'[j - 1] = tasks[(j - 1) + 1] /\ (j - 1) + 1 = j
            BY <3>1
          <5>. QED
            BY <5>1
        <4>2. CASE ~Follows(tasks[1])
          <5>1. state = "paused"
            BY <2>3, <3>1, <4>2
          <5>2. \A j \in 1 .. n : j = 1 \/ j \in 2 .. n
            BY <3>1
          <5>. QED
            BY <2>3, <3>1, <4>1, <4>2, <5>1, <5>2 DEF FollowInv, PauseShownIsReal, Follows
        <4>3. CASE Follows(tasks[1])
          <5>1. tasks[1] = "paused"
            BY <2>3, <3>1, <4>3
          <5>2. 1 \in 1 .. n /\ \A j \in 1 + 1 .. n : ~Follows(tasks[j])
            BY <3>1, <4>1
          <5>. QED
            BY <2>3, <4>3, <5>1, <5>2 DEF FollowInv, n
        <4>. QED
          BY <4>2, <4>3
      <3>. QED
        BY <2>0, <3>1, <3>2, <3>3 DEF FollowInv
    <2>4. CASE JudgedStep
      BY <2>3, <2>4 DEF JudgedStep, Judging, Follows
    <2>5. CASE FollowPause
      <3>1. found' = Nothing
        BY <2>0, <2>5 DEF FollowPause, QueueInv
      <3>2. Shrinks /\ UNCHANGED <<paused, followed>> /\ Follows(Head(tasks))
        BY <2>5, <3>1 DEF FollowPause, Shrinks, Follows
      <3>3. state' = "paused" => Head(tasks) = "paused"
        BY <2>5 DEF FollowPause, Reopened
      <3>. QED
        BY <2>3, <3>2, <3>3
    <2>6. CASE TaskFails
      <3>1. Shrinks /\ UNCHANGED <<paused, state>> /\ followed' = (followed /\ Judging)
        BY <2>6 DEF TaskFails, Shrinks, page
      <3>2. Judging => ~Follows(Head(tasks))
        BY DEF Judging, Follows
      <3>. QED
        BY <2>3, <3>1, <3>2
    <2>7. CASE RestartStep
      <3>1. UNCHANGED <<paused, state>> /\ Len(tasks') = 0
        BY <2>7 DEF RestartStep
      <3>2. followed' => followed /\ \A i \in DOMAIN tasks : tasks[i] \notin {"paused", "resumed"}
        BY <2>7 DEF RestartStep
      <3>3. PauseShownIsReal'
        BY <3>1, <3>2 DEF FollowInv, PauseShownIsReal
      <3>. QED
        BY <2>0, <3>1, <3>3 DEF FollowInv
    <2>. QED
      BY <2>0, <2>1, <2>2, <2>4, <2>5, <2>6, <2>7, Steps DEF FollowStep, FailStep
  <1>3. FollowInv => PauseShownIsReal
    BY DEF FollowInv
  <1>. QED
    BY <1>1, <1>2, <1>3, PTL DEF Spec

-----------------------------------------------------------------------------
(***************************************************************************)
(* Type correctness.                                                       *)
(***************************************************************************)

\* What a denial counts is counted within the bounds.
LEMMA LoopKeeps == ASSUME LoopType, [Next]_vars PROVE LoopType'
  <1>. USE BoundsAreNaturals DEF LoopType, loop
  <1>1. ASSUME NEW a \in Actions, Deny(a) PROVE LoopType'
    <2>1. /\ breaker' = Count(a) /\ Count(a) \in [action : Actions \cup {"none"}, streak : 0 .. StreakToPause - 1, denials : Nat]
      BY <1>1 DEF Deny, Count
    <2>2. [action |-> a, pauses |-> breaker'.streak = 0] \in [action : Actions, pauses : BOOLEAN]
      OBVIOUS
    <2>3. denied' \in Seq([action : Actions, pauses : BOOLEAN])
      BY <1>1, <2>2 DEF Deny
    <2>4. pausing' \in Nat
      BY <1>1 DEF Deny
    <2>5. suggested' \in BOOLEAN
      BY <1>1 DEF Deny
    <2>. QED
      BY <2>1, <2>3, <2>4, <2>5
  <1>2. ASSUME NEW c \in BOOLEAN, Suggestion(c) PROVE LoopType'
    <2>1. pausing' \in Nat
      BY <1>2 DEF Suggestion
    <2>. QED
      BY <1>2, <2>1 DEF Suggestion
  <1>3. CASE Pause \/ Restart
    BY <1>3 DEF Pause, Restart
  <1>4. CASE UNCHANGED loop
    BY <1>4
  <1>5. ~Pause /\ ~Restart /\ (\A a \in Actions : ~Deny(a)) /\ (\A c \in BOOLEAN : ~Suggestion(c)) => UNCHANGED loop
    <2>1. CASE Engine /\ ~Restart
      BY <2>1 DEF Engine, StartTurn, OwnTurn, Say, FinishTurn, Idle, Close, Stop
    <2>2. CASE Person /\ ~Pause /\ (\A a \in Actions : ~Deny(a)) /\ (\A c \in BOOLEAN : ~Suggestion(c))
      BY <2>2 DEF Person, Post, PostResume, Retry, Relay, Unpause, UnpauseResume, SetResolved, OpenAsk, CloseAsk
    <2>3. CASE Listener
      BY <2>3 DEF Listener, JudgeRead, JudgeGate, JudgeCard, FollowPause, TaskFails, Recover
    <2>. QED
      BY <2>1, <2>2, <2>3 DEF Next, vars
  <1>. QED
    BY <1>1, <1>2, <1>3, <1>4, <1>5

\* Types of every variable but the log, whose entries the judgement reads as
\* they were written.
THEOREM TypeCorrect == Spec => []TypeOK
  <1>1. Init => TypeOK
    <2>1. Init => LoopType
      <3>1. Init => /\ breaker = [action |-> "none", streak |-> 0, denials |-> 0] /\ suggested = FALSE /\ pausing = 0
                    /\ denied = <<>>
        BY DEF Init
      <3>2. [action |-> "none", streak |-> 0, denials |-> 0]
               \in [action : Actions \cup {"none"}, streak : 0 .. StreakToPause - 1, denials : Nat]
        BY BoundsAreNaturals
      <3>3. <<>> \in Seq([action : Actions, pauses : BOOLEAN])
        OBVIOUS
      <3>. QED
        BY <3>1, <3>2, <3>3 DEF LoopType
    <2>2. Init => EngineType /\ WakesType /\ PageType /\ PersonType /\ RestType
      <3>1. Init => EngineType /\ PageType /\ RestType
        <4>1. Init => /\ proc = "cold" /\ turn = 0 /\ stopping = FALSE /\ state = "working" /\ asks = {}
                      /\ unheard = FALSE /\ missed = FALSE /\ followed = TRUE
          BY DEF Init, NoTurn
        <4>2. 0 \in 0 .. MaxTurns
          BY BoundsAreNaturals
        <4>. QED
          BY <4>1, <4>2 DEF EngineType, PageType, RestType, States
      <3>2. Init => WakesType
        BY BoundsAreNaturals DEF Init, WakesType, NoTurn, Fresh
      <3>3. Init => PersonType
        BY DEF Init, PersonType
      <3>. QED
        BY <3>1, <3>2, <3>3
    <2>3. Init => QueueInv
      BY QueueStarts
    <2>4. Init => budget \in [Kinds -> Nat]
      BY BoundsAreNaturals DEF Init
    <2>. QED
      BY <2>1, <2>2, <2>3, <2>4, TypeParts
  <1>2. TypeOK /\ [Next]_vars => TypeOK'
    <2>. SUFFICES ASSUME TypeOK, [Next]_vars PROVE TypeOK'
      OBVIOUS
    <2>0. /\ EngineType /\ WakesType /\ PageType /\ LoopType /\ PersonType /\ RestType /\ QueueInv
          /\ budget \in [Kinds -> Nat] /\ LoopType' /\ QueueInv'
      BY TypeParts, LoopKeeps, QueueKeeps
    <2>. USE DEF engine, page, person, listener
    <2>1. EngineType'
      <3>1. CASE Engine
        <4>1. CASE StartTurn \/ OwnTurn
          <5>1. turn < MaxTurns /\ turn' = turn + 1 /\ proc' = "turn" /\ stopping' = FALSE
            BY <4>1 DEF StartTurn, OwnTurn, Begin
          <5>2. turn \in 0 .. MaxTurns /\ MaxTurns \in Nat
            BY <2>0, BoundsAreNaturals DEF EngineType
          <5>3. turn' \in 0 .. MaxTurns
            BY <5>1, <5>2
          <5>. QED
            BY <5>1, <5>3 DEF EngineType
        <4>2. CASE Say \/ FinishTurn \/ Idle \/ Close \/ Restart
          BY <2>0, <4>2 DEF EngineType, Say, FinishTurn, Idle, Close, Restart
        <4>3. CASE Stop
          BY <2>0, <4>3 DEF EngineType, Stop
        <4>. QED
          BY <3>1, <4>1, <4>2, <4>3 DEF Engine
      <3>2. CASE Person \/ Listener \/ UNCHANGED vars
        <4>1. UNCHANGED engine
          BY <3>2 DEF Person, Post, PostResume, Retry, Relay, Deny, Suggestion, Pause, Unpause, UnpauseResume, SetResolved,
                      OpenAsk, CloseAsk, Listener, JudgeRead, JudgeGate, JudgeCard, FollowPause, TaskFails, Recover, vars
        <4>. QED
          BY <2>0, <4>1 DEF EngineType
      <3>. QED
        BY <3>1, <3>2 DEF Next
    <2>2. WakesType'
      <3>1. CASE StartTurn
        <4>1. Queued \in SUBSET Wakes /\ turn + 1 \in 0 .. MaxTurns
          BY <2>0, <3>1, BoundsAreNaturals DEF EngineType, Queued, StartTurn, Begin
        <4>2. wakes' = [w \in Wakes |-> IF w \in Queued THEN [state |-> "taken", turn |-> turn + 1] ELSE wakes[w]]
          BY <3>1 DEF StartTurn
        <4>. QED
          BY <2>0, <4>1, <4>2, WakeEdits
      <3>2. CASE FinishTurn \/ Restart \/ (\E m \in Messages : Post(m)) \/ (\E r \in Relays : Relay(r)) \/ JudgeGate
        BY <2>0, <3>2, WakeEdits DEF FinishTurn, Post, Relay, JudgeGate
      <3>3. CASE OwnTurn \/ Say \/ Idle \/ Close \/ Stop \/ UNCHANGED vars \/ (Listener /\ ~JudgeGate)
        BY <2>0, <3>3 DEF WakesType, OwnTurn, Say, Idle, Close, Stop, vars, Listener, JudgeRead, JudgeCard, FollowPause,
                          TaskFails, Recover
      <3>4. CASE Person /\ (\A m \in Messages : ~Post(m)) /\ (\A r \in Relays : ~Relay(r))
        BY <2>0, <3>4 DEF WakesType, Person, PostResume, Retry, Deny, Suggestion, Pause, Unpause, UnpauseResume,
                          SetResolved, OpenAsk, CloseAsk
      <3>. QED
        BY <3>1, <3>2, <3>3, <3>4 DEF Next, Engine
    <2>3. PageType'
      <3>1. state' \in States
        BY <2>0 DEF QueueInv
      <3>2. CASE \E a \in Asks : OpenAsk(a) \/ CloseAsk(a)
        BY <2>0, <3>1, <3>2 DEF PageType, OpenAsk, CloseAsk
      <3>3. CASE Person /\ ~(\E a \in Asks : OpenAsk(a) \/ CloseAsk(a))
        BY <2>0, <3>1, <3>3 DEF PageType, Person, Post, PostResume, Retry, Relay, Deny, Suggestion, Pause, Unpause,
                                UnpauseResume, SetResolved
      <3>4. CASE Engine \/ Listener \/ UNCHANGED vars
        BY <2>0, <3>1, <3>4 DEF PageType, Engine, StartTurn, OwnTurn, Say, FinishTurn, Idle, Close, Stop, Restart, Listener,
                                JudgeRead, JudgeGate, JudgeCard, FollowPause, TaskFails, Recover, vars
      <3>. QED
        BY <3>2, <3>3, <3>4 DEF Next
    <2>4. PersonType'
      <3>1. CASE Engine \/ Listener \/ UNCHANGED vars
        BY <2>0, <3>1 DEF PersonType, Engine, StartTurn, OwnTurn, Say, FinishTurn, Idle, Close, Stop, Restart, Listener,
                          JudgeRead, JudgeGate, JudgeCard, FollowPause, TaskFails, Recover, vars
      <3>2. CASE Person
        BY <2>0, <3>2 DEF PersonType, Person, Post, PostResume, Retry, Relay, Deny, Suggestion, Pause, Unpause,
                          UnpauseResume, SetResolved, OpenAsk, CloseAsk
      <3>. QED
        BY <3>1, <3>2 DEF Next
    <2>5. RestType'
      <3>1. CASE Engine \/ UNCHANGED vars
        BY <2>0, <3>1 DEF RestType, Engine, StartTurn, OwnTurn, Say, FinishTurn, Idle, Close, Stop, Restart, vars
      <3>2. CASE Listener
        BY <2>0, <3>2 DEF RestType, Listener, JudgeRead, JudgeGate, JudgeCard, FollowPause, TaskFails, Recover
      <3>3. CASE Person
        BY <2>0, <3>3 DEF RestType, Person, Post, PostResume, Retry, Relay, Deny, Suggestion, Pause, Unpause,
                          UnpauseResume, SetResolved, OpenAsk, CloseAsk
      <3>. QED
        BY <3>1, <3>2, <3>3 DEF Next
    <2>6. budget' \in [Kinds -> Nat]
      <3>1. budget' = budget \/ \E kind \in Kinds : Spend(kind)
        <4>. USE DEF Free, Kinds
        <4>1. CASE Engine
          BY <4>1 DEF Engine, StartTurn, OwnTurn, Say, FinishTurn, Idle, Close, Stop, Restart
        <4>2. CASE Listener \/ UNCHANGED vars
          BY <4>2 DEF Listener, JudgeRead, JudgeGate, JudgeCard, FollowPause, TaskFails, Recover, vars
        <4>3. CASE Person
          BY <4>3 DEF Person, Post, PostResume, Retry, Relay, Deny, Suggestion, Pause, Unpause, UnpauseResume, SetResolved,
                      OpenAsk, CloseAsk
        <4>. QED
          BY <4>1, <4>2, <4>3 DEF Next
      <3>. QED
        BY <2>0, <3>1, SpendType
    <2>. QED
      BY <2>0, <2>1, <2>2, <2>3, <2>4, <2>5, <2>6
         DEF TypeOK, EngineType, WakesType, PageType, LoopType, PersonType, RestType, QueueInv
  <1>. QED
    BY <1>1, <1>2, PTL DEF Spec

-----------------------------------------------------------------------------
(***************************************************************************)
(* Judgements.                                                             *)
(***************************************************************************)

\* What the log holds.
Entries ==
    [k : {"started"}, t : Turns, took : BOOLEAN]
      \cup [k : {"said"}, t : Turns, how : {"reply", "quiet", "handoff"}]
      \cup [k : {"finished"}, t : Turns, status : {"finished", "stopped", "failed", "interrupted"}, back : BOOLEAN]
      \cup [k : {"stop"}]
      \cup [k : {"ended"}, turns : SUBSET Turns, through : Nat]

Ends(i)   == log[i].k = "finished"
Backs     == {i \in 1 .. Len(log) : Ends(i) /\ log[i].back}
Tops(S)   == \E m \in S : \A j \in S : j <= m

\* Turns end in the order of their numbers, the running one after all of them.
LogInv ==
    /\ log \in Seq(Entries) /\ turn \in 0 .. MaxTurns /\ (proc = "turn" => turn > 0)
    /\ \A i \in 1 .. Len(log) : Ends(i) => log[i].t <= turn /\ (proc = "turn" => log[i].t < turn)
    /\ \A i, j \in 1 .. Len(log) : i < j /\ Ends(i) /\ Ends(j) => log[i].t < log[j].t
    /\ Judgements # {} => Tops(Judgements)
    /\ Backs # {} => Tops(Backs)

\* A finished turn is judged, or in an input that goes back to the queue.
Settled(i, turns) == log[i].t \in turns \/ \E b \in i .. Len(log) : Ends(b) /\ log[b].back

\* The last judgement reaches the furthest; a judgement names only turns that it
\* reaches.
JudgedInv ==
    /\ \A j \in Judgements : log[j].through \in 0 .. Through
    /\ \A j \in Judgements : \A t \in Judged(j) : \E i \in 1 .. log[j].through : i <= Len(log) /\ Ends(i) /\ log[i].t = t
    /\ Through \in 0 .. Len(log)
    /\ TurnsAreJudgedOnce

\* A judgement that has read goes on where the last one stopped: none is written
\* while it is in hand, and it has every turn up to its end but those going back.
FoundInv ==
    found # Nothing =>
      /\ found.turns \in SUBSET Turns /\ found.through \in Through .. Len(log)
      /\ \A t \in found.turns : \E i \in Through + 1 .. found.through : Ends(i) /\ log[i].t = t
      /\ \A i \in Through + 1 .. found.through : Ends(i) => Settled(i, found.turns)

\* The greatest of a set of numbers that has one.
LEMMA MaxIs ==
    ASSUME NEW S \in SUBSET Nat, NEW m \in S, \A j \in S : j <= m
    PROVE  Max(S) = m
  <1>1. \A j \in S : m >= j
    OBVIOUS
  <1>2. Max(S) \in S /\ \A j \in S : Max(S) >= j
    BY <1>1, Zenon DEF Max
  <1>3. Max(S) \in Nat /\ m \in Nat /\ Max(S) >= m /\ m >= Max(S)
    BY <1>2
  <1>. QED
    BY <1>3

\* How far the last judgement reached, and where the input then begins.
LEMMA ThroughIs ==
    ASSUME LogInv
    PROVE  /\ Judgements = {} => Through = 0
           /\ Judgements # {} => Max(Judgements) \in Judgements /\ \A j \in Judgements : j <= Max(Judgements)
           /\ Judgements # {} => Through = log[Max(Judgements)].through
  <1>1. Judgements \in SUBSET Nat
    BY DEF Judgements, LogInv
  <1>2. Judgements # {} => Max(Judgements) \in Judgements /\ \A j \in Judgements : j <= Max(Judgements)
    BY <1>1, MaxIs DEF LogInv, Tops
  <1>. QED
    BY <1>2 DEF Through

LEMMA SinceIs ==
    ASSUME LogInv, JudgedInv
    PROVE  Since \in Nat /\ Since >= Through /\ (Since = Through \/ Since \in Backs)
  <1>1. Through \in Nat /\ Len(log) \in Nat
    BY DEF JudgedInv, LogInv
  <1>2. {i \in FinishedAfter(Through) : log[i].back} = {i \in Backs : i > Through}
    BY <1>1 DEF FinishedAfter, Backs, Ends
  <1>. DEFINE S == {Through} \cup {i \in Backs : i > Through}
  <1>3. S \in SUBSET Nat
    BY <1>1 DEF Backs
  <1>4. Since = Max(S)
    BY <1>2 DEF Since
  <1>5. \E m \in S : \A j \in S : j <= m
    <2>1. CASE \A i \in Backs : ~(i > Through)
      BY <1>1, <2>1
    <2>2. CASE \E i \in Backs : i > Through
      <3>1. PICK m \in Backs : \A j \in Backs : j <= m
        BY <2>2 DEF LogInv, Tops
      <3>2. m > Through /\ m \in Nat
        BY <1>1, <2>2, <3>1 DEF Backs
      <3>. QED
        BY <1>1, <3>1, <3>2
    <2>. QED
      BY <2>1, <2>2
  <1>6. PICK m \in S : \A j \in S : j <= m
    BY <1>5
  <1>7. Max(S) = m
    BY <1>3, <1>6, MaxIs
  <1>. QED
    BY <1>1, <1>3, <1>4, <1>6, <1>7

\* A step of the log.
Stays(e) == e.k \in {"started", "said", "stop"}

LEMMA AppendIs ==
    ASSUME log \in Seq(Entries), NEW e \in Entries, log' = Append(log, e)
    PROVE  /\ log' \in Seq(Entries) /\ Len(log) \in Nat /\ Len(log') = Len(log) + 1 /\ log'[Len(log) + 1] = e
           /\ \A i \in 1 .. Len(log) : log'[i] = log[i]
           /\ DOMAIN log = 1 .. Len(log) /\ DOMAIN log' = 1 .. Len(log) + 1
  OBVIOUS

LEMMA LastJudgement ==
    ASSUME LogInv, NEW e \in Entries, log' = Append(log, e)
    PROVE  /\ e.k # "ended" => Judgements' = Judgements /\ Through' = Through
           /\ e.k = "ended" => Judgements' = Judgements \cup {Len(log) + 1} /\ Through' = e.through
  <1>0. PICK n \in Nat : n = Len(log)
    BY DEF LogInv
  <1>1. /\ log' \in Seq(Entries) /\ n \in Nat /\ log'[n + 1] = e
        /\ \A i \in 1 .. n : log'[i] = log[i]
        /\ DOMAIN log = 1 .. n /\ DOMAIN log' = 1 .. n + 1
    BY <1>0, AppendIs DEF LogInv
  <1>2. Judgements \subseteq 1 .. n /\ \A j \in Judgements : log'[j] = log[j]
    BY <1>1 DEF Judgements
  <1>3. CASE e.k # "ended"
    <2>1. Judgements' = Judgements
      BY <1>1, <1>3 DEF Judgements
    <2>2. Judgements # {} => log'[Max(Judgements)] = log[Max(Judgements)]
      BY <1>2, ThroughIs
    <2>. QED
      BY <1>3, <2>1, <2>2 DEF Through
  <1>4. CASE e.k = "ended"
    <2>1. Judgements' = Judgements \cup {n + 1}
      BY <1>1, <1>4 DEF Judgements
    <2>2. Max(Judgements') = n + 1
      <3>1. PICK J : J = Judgements'
        OBVIOUS
      <3>2. J \in SUBSET Nat /\ n + 1 \in J /\ \A j \in J : j <= n + 1
        BY <1>1, <1>2, <2>1, <3>1
      <3>3. Max(J) = n + 1
        BY <3>2, MaxIs
      <3>. QED
        BY <3>1, <3>3
    <2>. QED
      BY <1>0, <1>1, <1>4, <2>1, <2>2 DEF Through
  <1>. QED
    BY <1>3, <1>4

\* The log stays in order when an entry is added that is no turn's end.
LEMMA LogKeeps ==
    ASSUME LogInv, NEW e \in Entries, log' = Append(log, e),
           turn' \in turn .. MaxTurns, turn' = turn + 1 \/ (proc' = "turn" => proc = "turn"), proc' = "turn" => turn' > 0,
           \/ e.k # "finished"
           \/ e.k = "finished" /\ e.t = turn /\ proc = "turn" /\ proc' # "turn"
    PROVE  LogInv'
  <1>0. PICK n \in Nat : n = Len(log)
    BY DEF LogInv
  <1>1. /\ log' \in Seq(Entries) /\ n \in Nat /\ Len(log') = n + 1 /\ log'[n + 1] = e
        /\ \A i \in 1 .. n : log'[i] = log[i]
        /\ DOMAIN log = 1 .. n /\ DOMAIN log' = 1 .. n + 1
    BY <1>0, AppendIs DEF LogInv
  <1>2. \A i \in 1 .. n + 1 : i \in 1 .. n \/ i = n + 1
    BY <1>1
  <1>3. \A i \in 1 .. n : Ends(i)' = Ends(i) /\ log'[i].t = log[i].t
    BY <1>1 DEF Ends
  <1>4. \A i \in 1 .. n : Ends(i) => log[i].t \in Turns /\ log[i].back \in BOOLEAN
    BY <1>1 DEF Entries, Ends, LogInv
  <1>5. Ends(n + 1)' <=> e.k = "finished"
    BY <1>1 DEF Ends
  <1>6. turn \in Nat /\ turn' \in Nat /\ turn <= turn' /\ turn' \in 0 .. MaxTurns
        /\ (proc' = "turn" => turn' = turn + 1 \/ proc = "turn")
    BY BoundsAreNaturals DEF LogInv
  <1>7. ASSUME NEW i \in 1 .. n + 1, Ends(i)' PROVE log'[i].t <= turn' /\ (proc' = "turn" => log'[i].t < turn')
    <2>1. CASE i \in 1 .. n
      <3>1. log[i].t <= turn /\ (proc = "turn" => log[i].t < turn) /\ log[i].t \in Nat
        BY <1>0, <1>3, <1>4, <1>7, <2>1 DEF LogInv, Turns
      <3>2. PICK a \in Nat, b \in Nat, c \in Nat : a = log[i].t /\ b = turn /\ c = turn'
        BY <1>6, <3>1
      <3>3. a <= b /\ b <= c /\ (proc = "turn" => a < b) /\ (proc' = "turn" => c = b + 1 \/ proc = "turn")
        BY <1>6, <3>1, <3>2
      <3>4. a <= c /\ (proc' = "turn" => a < c)
        BY <3>3
      <3>. QED
        BY <1>3, <2>1, <3>2, <3>4
    <2>2. CASE i = n + 1
      BY <1>1, <1>5, <1>6, <1>7, <2>2
    <2>. QED
      BY <1>2, <2>1, <2>2
  <1>8. ASSUME NEW i \in 1 .. n + 1, NEW j \in 1 .. n + 1, i < j, Ends(i)', Ends(j)' PROVE log'[i].t < log'[j].t
    <2>1. i \in 1 .. n
      BY <1>1, <1>8
    <2>2. CASE j \in 1 .. n
      BY <1>0, <1>3, <1>8, <2>1, <2>2 DEF LogInv
    <2>3. CASE j = n + 1
      <3>1. log'[j].t = turn /\ proc = "turn"
        BY <1>1, <1>5, <1>8, <2>3
      <3>. QED
        BY <1>0, <1>3, <1>8, <2>1, <3>1 DEF LogInv
    <2>. QED
      BY <1>2, <2>2, <2>3
  <1>9. Judgements' # {} => Tops(Judgements')
    <2>1. CASE e.k = "ended"
      <3>1. Judgements' = Judgements \cup {n + 1}
        BY <1>0, <2>1, LastJudgement
      <3>2. n + 1 \in Judgements' /\ \A j \in Judgements' : j <= n + 1
        BY <1>1, <3>1 DEF Judgements
      <3>. QED
        BY <3>2, Zenon DEF Tops
    <2>2. CASE e.k # "ended"
      BY <2>2, LastJudgement DEF LogInv
    <2>. QED
      BY <2>1, <2>2
  <1>10. Backs' # {} => Tops(Backs')
    <2>1. Backs' \subseteq Backs \cup {n + 1} /\ Backs \subseteq Backs' /\ Backs \subseteq 1 .. n
      BY <1>0, <1>1, <1>2, <1>3 DEF Backs
    <2>2. CASE n + 1 \in Backs'
      BY <1>1, <2>1, <2>2 DEF Tops
    <2>3. CASE n + 1 \notin Backs'
      <3>1. Backs' = Backs
        BY <1>1, <2>1, <2>3
      <3>. QED
        BY <3>1 DEF LogInv
    <2>. QED
      BY <2>2, <2>3
  <1>. QED
    BY <1>1, <1>6, <1>7, <1>8, <1>9, <1>10, Zenon DEF LogInv

\* What was judged and what a judgement has read stay, whatever the engine adds.
LEMMA JudgedKeeps ==
    ASSUME LogInv, JudgedInv, NEW e \in Entries, log' = Append(log, e), e.k # "ended"
    PROVE  JudgedInv'
  <1>0. PICK n \in Nat : n = Len(log)
    BY DEF LogInv
  <1>1. /\ log' \in Seq(Entries) /\ n \in Nat /\ Len(log') = n + 1 /\ log'[n + 1] = e
        /\ \A i \in 1 .. n : log'[i] = log[i]
        /\ DOMAIN log = 1 .. n /\ DOMAIN log' = 1 .. n + 1
    BY <1>0, AppendIs DEF LogInv
  <1>2. Judgements' = Judgements /\ Through' = Through /\ \A j \in Judgements : log'[j] = log[j]
    BY <1>1, LastJudgement DEF Judgements
  <1>3. \A j \in Judgements : Judged(j)' = Judged(j)
    BY <1>2 DEF Judged
  <1>4. Through \in 0 .. n /\ \A j \in Judgements : log[j].through \in 0 .. Through
    BY <1>0 DEF JudgedInv
  <1>5. \A j \in Judgements : \A t \in Judged(j) : \E i \in 1 .. log[j].through : i <= n + 1 /\ Ends(i)' /\ log'[i].t = t
    <2>1. \A j \in Judgements : \A t \in Judged(j) : \E i \in 1 .. log[j].through : i <= n /\ Ends(i) /\ log[i].t = t
      BY <1>0 DEF JudgedInv
    <2>2. \A j \in Judgements : \A i \in 1 .. log[j].through : i \in 1 .. n /\ log'[i] = log[i]
      BY <1>1, <1>4
    <2>. QED
      BY <1>1, <2>1, <2>2 DEF Ends
  <1>6. \A i, j \in Judgements : i < j => \A t \in Judged(i), u \in Judged(j) : t < u
    BY DEF JudgedInv, TurnsAreJudgedOnce
  <1>7. ASSUME NEW i \in 1 .. Through, log'[i].k = "finished"
        PROVE  (\E j \in Judgements : log'[i].t \in Judged(j)) \/ \E b \in i .. n + 1 : log'[b].k = "finished" /\ log'[b].back
    <2>1. i \in 1 .. n /\ log'[i] = log[i]
      BY <1>1, <1>4
    <2>2. (\E j \in Judgements : log[i].t \in Judged(j)) \/ \E b \in i .. n : log[b].k = "finished" /\ log[b].back
      BY <1>0, <1>7, <2>1 DEF JudgedInv, TurnsAreJudgedOnce
    <2>3. \A b \in i .. n : log'[b] = log[b] /\ b \in i .. n + 1
      BY <1>1, <2>1
    <2>. QED
      BY <2>1, <2>2, <2>3
  <1>8. TurnsAreJudgedOnce'
    <2>1. \A i, j \in Judgements' : i < j => \A t \in Judged(i)', u \in Judged(j)' : t < u
      BY <1>2, <1>3, <1>6
    <2>2. \A i \in 1 .. Through' : log'[i].k = "finished" =>
             (\E j \in Judgements' : log'[i].t \in Judged(j)')
               \/ \E b \in i .. Len(log') : log'[b].k = "finished" /\ log'[b].back
      BY <1>1, <1>2, <1>3, <1>7
    <2>. QED
      BY <2>1, <2>2, Zenon DEF TurnsAreJudgedOnce
  <1>9. /\ \A j \in Judgements' : log'[j].through \in 0 .. Through'
        /\ \A j \in Judgements' : \A t \in Judged(j)' :
              \E i \in 1 .. log'[j].through : i <= Len(log') /\ Ends(i)' /\ log'[i].t = t
    <2>1. \A j \in Judgements' : log'[j].through \in 0 .. Through'
      BY <1>2, <1>4
    <2>2. ASSUME NEW j \in Judgements, NEW t \in Judged(j)
          PROVE  \E i \in 1 .. log'[j].through : i <= Len(log') /\ Ends(i)' /\ log'[i].t = t
      <3>1. PICK i \in 1 .. log[j].through : i <= n + 1 /\ Ends(i)' /\ log'[i].t = t
        BY <1>5
      <3>. QED
        BY <1>1, <1>2, <3>1
    <2>3. ASSUME NEW j \in Judgements', NEW t \in Judged(j)'
          PROVE  \E i \in 1 .. log'[j].through : i <= Len(log') /\ Ends(i)' /\ log'[i].t = t
      <3>1. j \in Judgements /\ t \in Judged(j)
        BY <1>2, <1>3
      <3>. QED
        BY <2>2, <3>1
    <2>. QED
      BY <2>1, <2>3
  <1>10. Through' \in 0 .. Len(log')
    BY <1>1, <1>2, <1>4
  <1>. QED
    BY <1>8, <1>9, <1>10, Zenon DEF JudgedInv

LEMMA FoundKeeps ==
    ASSUME LogInv, JudgedInv, FoundInv, NEW e \in Entries, log' = Append(log, e), e.k # "ended", found' \in {found, Nothing}
    PROVE  FoundInv'
  <1>. SUFFICES ASSUME found # Nothing, found' = found PROVE FoundInv'
    BY DEF FoundInv
  <1>0. PICK n \in Nat : n = Len(log)
    BY DEF LogInv
  <1>1. /\ log' \in Seq(Entries) /\ n \in Nat /\ Len(log') = n + 1
        /\ \A i \in 1 .. n : log'[i] = log[i]
    BY <1>0, AppendIs DEF LogInv
  <1>2. Through' = Through /\ Through \in 0 .. n
    BY <1>0, LastJudgement DEF JudgedInv
  <1>3. found.turns \in SUBSET Turns /\ found.through \in Through .. n
    BY <1>0 DEF FoundInv
  <1>4. \A i \in Through + 1 .. found.through : i \in 1 .. n /\ log'[i] = log[i]
    BY <1>1, <1>2, <1>3
  <1>5. \A t \in found.turns : \E i \in Through + 1 .. found.through : Ends(i)' /\ log'[i].t = t
    BY <1>4 DEF FoundInv, Ends
  <1>6. ASSUME NEW i \in Through + 1 .. found.through, Ends(i)' PROVE Settled(i, found.turns)'
    <2>1. Settled(i, found.turns)
      BY <1>4, <1>6 DEF FoundInv, Ends
    <2>2. \A b \in i .. n : log'[b] = log[b] /\ b \in i .. n + 1
      BY <1>1, <1>4
    <2>. QED
      BY <1>0, <1>1, <1>4, <2>1, <2>2 DEF Settled, Ends
  <1>7. found.through \in Through .. n + 1
    BY <1>1, <1>2, <1>3
  <1>. QED
    BY <1>1, <1>2, <1>3, <1>5, <1>6, <1>7 DEF FoundInv

\* The step of the listener that reads: it has every turn that ended since the last
\* judgement, but those in an input that runs again.
LEMMA ReadKeeps ==
    ASSUME LogInv, JudgedInv, FoundInv, JudgeRead
    PROVE  FoundInv'
  <1>0. PICK n \in Nat : n = Len(log)
    BY DEF LogInv
  <1>1. log' = log /\ Through' = Through /\ Through \in 0 .. n
    BY <1>0 DEF JudgeRead, Through, Judgements, JudgedInv
  <1>2. CASE found' = Nothing \/ found' = found
    BY <1>1, <1>2 DEF FoundInv, Settled, Ends
  <1>3. CASE found' = Input
    <2>1. PICK s \in Nat : s = Since
      BY SinceIs
    <2>2. s >= Through /\ (s = Through \/ s \in Backs)
      BY <2>1, SinceIs
    <2>3. found'.through = n /\ found'.turns = {log[i].t : i \in FinishedAfter(s)}
      BY <1>0, <1>3, <2>1 DEF Input
    <2>4. FinishedAfter(s) = {i \in s + 1 .. n : Ends(i)}
      BY <1>0 DEF FinishedAfter, Ends
    <2>5. \A i \in s + 1 .. n : i \in Through + 1 .. n /\ i \in 1 .. n
      BY <1>1, <2>2
    <2>6. \A i \in 1 .. n : Ends(i) => log[i].t \in Turns
      BY <1>0 DEF LogInv, Entries, Ends
    <2>7. found'.turns \in SUBSET Turns /\ \A t \in found'.turns : \E i \in Through + 1 .. n : Ends(i) /\ log[i].t = t
      BY <2>3, <2>4, <2>5, <2>6
    <2>8. ASSUME NEW i \in Through + 1 .. n, Ends(i) PROVE Settled(i, found'.turns)
      <3>1. CASE i \in s + 1 .. n
        BY <2>3, <2>4, <2>8, <3>1 DEF Settled
      <3>2. CASE i \notin s + 1 .. n
        <4>1. s \in Backs /\ s \in i .. n
          BY <1>0, <1>1, <2>2, <3>2 DEF Backs
        <4>. QED
          BY <1>0, <4>1 DEF Settled, Backs
      <3>. QED
        BY <3>1, <3>2
    <2>9. \A i : Ends(i)' = Ends(i)
      BY <1>1 DEF Ends
    <2>10. /\ found'.through \in Through' .. Len(log')
           /\ \A t \in found'.turns : \E i \in Through' + 1 .. found'.through : Ends(i)' /\ log'[i].t = t
      <3>1. found'.through \in Through' .. Len(log')
        BY <1>0, <1>1, <2>3
      <3>2. ASSUME NEW t \in found'.turns PROVE \E i \in Through' + 1 .. found'.through : Ends(i)' /\ log'[i].t = t
        <4>1. PICK i \in Through + 1 .. n : Ends(i) /\ log[i].t = t
          BY <2>7
        <4>. QED
          BY <1>1, <2>3, <2>9, <4>1
      <3>. QED
        BY <3>1, <3>2
    <2>11. ASSUME NEW i \in Through' + 1 .. found'.through, Ends(i)' PROVE Settled(i, found.turns)'
      <3>1. Settled(i, found'.turns)
        BY <1>1, <2>3, <2>8, <2>9, <2>11
      <3>. QED
        BY <1>1, <3>1 DEF Settled, Ends
    <2>. QED
      BY <2>7, <2>10, <2>11, Zenon DEF FoundInv
  <1>. QED
    BY <1>2, <1>3 DEF JudgeRead

\* The step that writes: the new judgement is of turns after all judged before.
LEMMA WriteKeeps ==
    ASSUME LogInv, JudgedInv, FoundInv, found # Nothing, log' = Ended, found' = Nothing, UNCHANGED <<proc, turn>>
    PROVE  LogInv' /\ JudgedInv' /\ FoundInv'
  <1>0. PICK n \in Nat, e \in Entries : n = Len(log) /\ e = [k |-> "ended", turns |-> found.turns, through |-> found.through]
    <2>1. found.turns \in SUBSET Turns /\ found.through \in Nat /\ Len(log) \in Nat
      BY DEF FoundInv, JudgedInv, LogInv
    <2>2. [k |-> "ended", turns |-> found.turns, through |-> found.through] \in Entries
      BY <2>1 DEF Entries
    <2>. QED
      BY <2>1, <2>2
  <1>1. /\ log' = Append(log, e) /\ e.k = "ended" /\ e.turns = found.turns /\ e.through = found.through
    BY <1>0 DEF Ended
  <1>2. /\ Len(log') = n + 1 /\ log'[n + 1] = e
        /\ \A i \in 1 .. n : log'[i] = log[i]
        /\ DOMAIN log = 1 .. n
    BY <1>0, <1>1, AppendIs DEF LogInv
  <1>3. Judgements' = Judgements \cup {n + 1} /\ Through' = found.through /\ Judgements \subseteq 1 .. n
    BY <1>0, <1>1, <1>2, LastJudgement DEF Judgements
  <1>4. Through \in 0 .. n /\ found.through \in Through .. n
    BY <1>0 DEF JudgedInv, FoundInv
  <1>5. LogInv'
    BY <1>1, LogKeeps DEF LogInv
  <1>6. Judged(n + 1)' = found.turns /\ \A j \in Judgements : Judged(j)' = Judged(j) /\ log'[j] = log[j]
    BY <1>1, <1>2, <1>3 DEF Judged
  <1>7. \A i \in 1 .. n : Ends(i)' = Ends(i) /\ log'[i].t = log[i].t
    BY <1>2 DEF Ends
  <1>8. ASSUME NEW j \in Judgements, NEW t \in Judged(j)
        PROVE  \E i \in 1 .. log[j].through : i \in 1 .. Through /\ Ends(i) /\ log[i].t = t
    <2>1. log[j].through \in 0 .. Through
      BY DEF JudgedInv
    <2>2. PICK i \in 1 .. log[j].through : Ends(i) /\ log[i].t = t
      BY DEF JudgedInv
    <2>. QED
      BY <1>4, <2>1, <2>2
  <1>9. \A t \in found.turns : \E i \in Through + 1 .. found.through : Ends(i) /\ log[i].t = t
    BY DEF FoundInv
  <1>10. ASSUME NEW j \in Judgements, NEW t \in Judged(j), NEW u \in found.turns PROVE t < u
    <2>1. PICK i \in 1 .. Through : Ends(i) /\ log[i].t = t
      BY <1>8
    <2>2. PICK l \in Through + 1 .. found.through : Ends(l) /\ log[l].t = u
      BY <1>9
    <2>3. i \in 1 .. n /\ l \in 1 .. n /\ i < l
      BY <1>4
    <2>. QED
      BY <1>0, <2>1, <2>2, <2>3 DEF LogInv
  <1>11. \A i, j \in Judgements' : i < j => \A t \in Judged(i)', u \in Judged(j)' : t < u
    <2>. SUFFICES ASSUME NEW i \in Judgements', NEW j \in Judgements', i < j, NEW t \in Judged(i)', NEW u \in Judged(j)'
                  PROVE  t < u
      OBVIOUS
    <2>1. i \in Judgements
      BY <1>3
    <2>2. CASE j \in Judgements
      BY <1>6, <2>1, <2>2 DEF JudgedInv, TurnsAreJudgedOnce
    <2>3. CASE j = n + 1
      BY <1>6, <1>10, <2>1, <2>3
    <2>. QED
      BY <1>3, <2>2, <2>3
  <1>12. ASSUME NEW i \in 1 .. found.through, log'[i].k = "finished"
         PROVE  \/ \E j \in Judgements' : log'[i].t \in Judged(j)'
                \/ \E b \in i .. Len(log') : log'[b].k = "finished" /\ log'[b].back
    <2>1. i \in 1 .. n /\ log'[i] = log[i]
      BY <1>2, <1>4
    <2>2. \A b \in i .. n : log'[b] = log[b] /\ b \in i .. n + 1
      BY <1>2, <2>1
    <2>3. CASE i \in 1 .. Through
      <3>1. (\E j \in Judgements : log[i].t \in Judged(j)) \/ \E b \in i .. n : log[b].k = "finished" /\ log[b].back
        BY <1>0, <1>12, <2>1, <2>3 DEF JudgedInv, TurnsAreJudgedOnce
      <3>. QED
        BY <1>2, <1>3, <1>6, <2>1, <2>2, <3>1
    <2>4. CASE i \in Through + 1 .. found.through
      <3>1. Settled(i, found.turns)
        BY <1>12, <2>1, <2>4 DEF FoundInv, Ends
      <3>2. log[i].t \in found.turns \/ \E b \in i .. n : log[b].k = "finished" /\ log[b].back
        BY <1>0, <3>1 DEF Settled, Ends
      <3>. QED
        BY <1>2, <1>3, <1>6, <2>1, <2>2, <3>2
    <2>. QED
      BY <1>4, <2>3, <2>4
  <1>13. TurnsAreJudgedOnce'
    <2>1. \A i \in 1 .. Through' : log'[i].k = "finished" =>
             (\E j \in Judgements' : log'[i].t \in Judged(j)')
               \/ \E b \in i .. Len(log') : log'[b].k = "finished" /\ log'[b].back
      BY <1>3, <1>12
    <2>. QED
      BY <1>11, <2>1, Zenon DEF TurnsAreJudgedOnce
  <1>14. \A j \in Judgements' : log'[j].through \in 0 .. Through'
    <2>1. \A j \in Judgements : log'[j].through \in 0 .. Through
      BY <1>6 DEF JudgedInv
    <2>. QED
      BY <1>1, <1>2, <1>3, <1>4, <2>1
  <1>15. \A j \in Judgements' : \A t \in Judged(j)' : \E i \in 1 .. log'[j].through : i <= Len(log') /\ Ends(i)' /\ log'[i].t = t
    <2>1. ASSUME NEW j \in Judgements, NEW t \in Judged(j)
          PROVE  \E i \in 1 .. log'[j].through : i <= Len(log') /\ Ends(i)' /\ log'[i].t = t
      <3>1. PICK i \in 1 .. log[j].through : i \in 1 .. n /\ Ends(i) /\ log[i].t = t
        BY <1>4, <1>8
      <3>. QED
        BY <1>2, <1>6, <1>7, <3>1
    <2>2. ASSUME NEW t \in found.turns
          PROVE  \E i \in 1 .. log'[n + 1].through : i <= Len(log') /\ Ends(i)' /\ log'[i].t = t
      <3>1. PICK i \in Through + 1 .. found.through : Ends(i) /\ log[i].t = t
        BY <1>9
      <3>2. i \in 1 .. n /\ i \in 1 .. found.through
        BY <1>4
      <3>. QED
        BY <1>1, <1>2, <1>7, <3>1, <3>2
    <2>. QED
      BY <1>3, <1>6, <2>1, <2>2
  <1>16. Through' \in 0 .. Len(log')
    BY <1>2, <1>3, <1>4
  <1>17. JudgedInv'
    BY <1>13, <1>14, <1>15, <1>16, Zenon DEF JudgedInv
  <1>. QED
    BY <1>5, <1>17 DEF FoundInv

\* What a step does to the log: nothing, an entry of the engine's, or a judgement.
EngineAdds(e) ==
    /\ e \in Entries /\ log' = Append(log, e) /\ found' \in {found, Nothing}
    /\ \/ e.k = "started" /\ turn < MaxTurns /\ turn' = turn + 1
       \/ e.k \in {"said", "stop"} /\ UNCHANGED <<turn, proc>>
       \/ e.k = "finished" /\ e.t = turn /\ proc = "turn" /\ proc' # "turn" /\ turn' = turn

LEMMA LogSteps ==
    ASSUME LogInv, [Next]_vars
    PROVE  \/ UNCHANGED <<log, turn>> /\ found' \in {found, Nothing} /\ (proc' = "turn" => proc = "turn")
           \/ JudgeRead
           \/ \E e \in Entries : EngineAdds(e)
           \/ found # Nothing /\ log' = Ended /\ found' = Nothing /\ UNCHANGED <<proc, turn>>
  <1>. USE DEF engine, page, person, listener
  <1>1. turn \in 0 .. MaxTurns /\ MaxTurns \in Nat /\ (proc = "turn" => turn \in Turns) /\ (turn < MaxTurns => turn + 1 \in Turns)
    BY BoundsAreNaturals DEF LogInv, Turns
  <1>2. CASE StartTurn \/ OwnTurn
    <2>1. PICK took \in BOOLEAN : Begin(took) /\ found' = found
      BY <1>2 DEF StartTurn, OwnTurn
    <2>2. [k |-> "started", t |-> turn + 1, took |-> took] \in Entries
      BY <1>1, <2>1 DEF Begin, Entries
    <2>. QED
      BY <2>1, <2>2 DEF Begin, EngineAdds
  <1>3. CASE Say
    <2>1. PICK how \in {"reply", "quiet", "handoff"} : log' = Append(log, [k |-> "said", t |-> turn, how |-> how])
      BY <1>3 DEF Say
    <2>2. proc = "turn" /\ UNCHANGED <<proc, turn, found>>
      BY <1>3 DEF Say
    <2>3. [k |-> "said", t |-> turn, how |-> how] \in Entries
      BY <1>1, <2>2 DEF Entries
    <2>. QED
      BY <2>1, <2>2, <2>3 DEF EngineAdds
  <1>4. CASE FinishTurn
    <2>1. PICK st \in {"finished", "stopped", "failed", "interrupted"}, back \in BOOLEAN : Finish(st, back)
      BY <1>4 DEF FinishTurn
    <2>2. proc = "turn" /\ proc' # "turn" /\ UNCHANGED <<turn, found>>
      BY <1>4 DEF FinishTurn
    <2>3. PICK given \in BOOLEAN : log' = Append(log, [k |-> "finished", t |-> turn, status |-> st, back |-> given])
      BY <2>1 DEF Finish
    <2>4. [k |-> "finished", t |-> turn, status |-> st, back |-> given] \in Entries
      BY <1>1, <2>2 DEF Entries
    <2>. QED
      BY <2>2, <2>3, <2>4 DEF EngineAdds
  <1>5. CASE Stop
    <2>1. log' = Append(log, [k |-> "stop"]) /\ UNCHANGED <<proc, turn, found>>
      BY <1>5 DEF Stop
    <2>2. [k |-> "stop"] \in Entries
      BY DEF Entries
    <2>. QED
      BY <2>1, <2>2 DEF EngineAdds
  <1>6. CASE Restart
    <2>1. found' = Nothing /\ turn' = turn /\ proc' # "turn"
      BY <1>6 DEF Restart
    <2>2. CASE proc = "turn"
      <3>1. log' = Append(log, InterruptedEvent)
        BY <1>6, <2>2 DEF Restart
      <3>2. InterruptedEvent \in Entries /\ InterruptedEvent.k = "finished" /\ InterruptedEvent.t = turn
        BY <1>1, <2>2 DEF InterruptedEvent, Entries
      <3>. QED
        BY <2>1, <2>2, <3>1, <3>2 DEF EngineAdds
    <2>3. CASE proc # "turn"
      BY <1>6, <2>1, <2>3 DEF Restart
    <2>. QED
      BY <2>2, <2>3
  <1>7. CASE Idle \/ Close \/ UNCHANGED vars
    BY <1>7 DEF Idle, Close, vars
  <1>8. CASE Person
    BY <1>8 DEF Person, Post, PostResume, Retry, Relay, Deny, Suggestion, Pause, Unpause, UnpauseResume, SetResolved,
                OpenAsk, CloseAsk
  <1>9. CASE JudgeGate \/ JudgeCard
    BY <1>9 DEF JudgeGate, JudgeCard
  <1>10. CASE FollowPause \/ TaskFails \/ Recover
    BY <1>10 DEF FollowPause, TaskFails, Recover
  <1>. QED
    BY <1>2, <1>3, <1>4, <1>5, <1>6, <1>7, <1>8, <1>9, <1>10 DEF Next, Engine, Listener

\* Each finished turn is judged once, in the order the turns ran, and none that a
\* judgement reaches is left out but those in an input that goes back to the queue
\* (lifecycle.py, _input and _ended: a read and a write with the engine in between).
THEOREM TurnsAreJudgedInOrder == Spec => []TurnsAreJudgedOnce
  <1>1. Init => LogInv /\ JudgedInv /\ FoundInv
    <2>. SUFFICES ASSUME Init PROVE LogInv /\ JudgedInv /\ FoundInv
      OBVIOUS
    <2>1. log = <<>> /\ log \in Seq(Entries) /\ Len(log) = 0 /\ DOMAIN log = {} /\ turn = 0 /\ proc = "cold" /\ found = Nothing
      BY DEF Init, NoTurn
    <2>2. Judgements = {} /\ Through = 0 /\ Backs = {}
      BY <2>1 DEF Judgements, Through, Backs
    <2>. QED
      BY <2>1, <2>2, BoundsAreNaturals DEF LogInv, JudgedInv, FoundInv, TurnsAreJudgedOnce
  <1>2. LogInv /\ JudgedInv /\ FoundInv /\ [Next]_vars => (LogInv /\ JudgedInv /\ FoundInv)'
    <2>. SUFFICES ASSUME LogInv, JudgedInv, FoundInv, [Next]_vars PROVE (LogInv /\ JudgedInv /\ FoundInv)'
      OBVIOUS
    <2>1. ASSUME UNCHANGED <<log, turn>>, proc' = "turn" => proc = "turn" PROVE LogInv' /\ JudgedInv'
      <3>1. Judgements' = Judgements /\ Through' = Through /\ Backs' = Backs
        BY <2>1 DEF Judgements, Through, Backs, Ends
      <3>2. LogInv'
        BY <2>1, <3>1 DEF LogInv, Ends, Tops
      <3>3. TurnsAreJudgedOnce'
        BY <2>1, <3>1 DEF JudgedInv, TurnsAreJudgedOnce, Judged
      <3>4. JudgedInv'
        BY <2>1, <3>1, <3>3 DEF JudgedInv, Judged, Ends
      <3>. QED
        BY <3>2, <3>4
    <2>2. CASE UNCHANGED <<log, turn>> /\ found' \in {found, Nothing} /\ (proc' = "turn" => proc = "turn")
      <3>1. Judgements' = Judgements /\ Through' = Through
        BY <2>2 DEF Judgements, Through
      <3>2. ASSUME found' = Nothing PROVE FoundInv'
        BY <3>2 DEF FoundInv
      <3>3. ASSUME found' = found PROVE FoundInv'
        BY <2>2, <3>1, <3>3 DEF FoundInv, Settled, Ends
      <3>. QED
        BY <2>1, <2>2, <3>2, <3>3
    <2>3. CASE JudgeRead
      BY <2>1, <2>3, ReadKeeps DEF JudgeRead, engine
    <2>4. ASSUME NEW e \in Entries, EngineAdds(e) PROVE LogInv' /\ JudgedInv' /\ FoundInv'
      <3>1. log' = Append(log, e) /\ found' \in {found, Nothing} /\ e.k # "ended"
        BY <2>4 DEF EngineAdds
      <3>2. /\ turn' \in turn .. MaxTurns /\ (proc' = "turn" => turn' > 0)
            /\ turn' = turn + 1 \/ (proc' = "turn" => proc = "turn")
            /\ e.k # "finished" \/ (e.k = "finished" /\ e.t = turn /\ proc = "turn" /\ proc' # "turn")
        BY <2>4, BoundsAreNaturals DEF EngineAdds, LogInv
      <3>. QED
        BY <3>1, <3>2, LogKeeps, JudgedKeeps, FoundKeeps
    <2>5. CASE found # Nothing /\ log' = Ended /\ found' = Nothing /\ UNCHANGED <<proc, turn>>
      BY <2>5, WriteKeeps
    <2>. QED
      BY <2>2, <2>3, <2>4, <2>5, LogSteps
  <1>3. JudgedInv => TurnsAreJudgedOnce
    BY DEF JudgedInv
  <1>. QED
    BY <1>1, <1>2, <1>3, PTL DEF Spec

=============================================================================
