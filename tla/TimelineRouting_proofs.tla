----------------------- MODULE TimelineRouting_proofs -----------------------
(***************************************************************************)
(* What is proved of the timeline's messages, for any messages, targets,   *)
(* modes and budgets: their types; that each is handed over once and       *)
(* either routed or the coordinator's; that what is left to the            *)
(* coordinator reaches it or is told; that what waits, waits for a         *)
(* coordinator not retired, for a paused one only if the pause found it.   *)
(***************************************************************************)
EXTENDS TimelineRouting, TLAPS

-----------------------------------------------------------------------------
(***************************************************************************)
(* Types.                                                                  *)
(***************************************************************************)

\* What a carrier goes through keeps it a task.
LEMMA TaskEdits ==
    ASSUME NEW k \in Task
    PROVE  /\ \A place \in Places : [k EXCEPT !.at = place] \in Task
           /\ \A place \in Places, session \in Nat : [k EXCEPT !.at = place, !.session = session] \in Task
           /\ \A place \in Places, again \in BOOLEAN : [k EXCEPT !.at = place, !.again = again] \in Task
           /\ \A place \in Places, then \in {"deliver", "call", "ack"}, left \in SUBSET Targets :
                  /\ [k EXCEPT !.at = place, !.then = then, !.left = left] \in Task
                  /\ [k EXCEPT !.at = place, !.then = then, !.session = 0, !.left = left] \in Task
           /\ \A place \in Places, how \in {"off", "agent", "decision"} : [k EXCEPT !.mode = how, !.at = place] \in Task
           /\ \A how \in {"off", "agent", "decision"} : [k EXCEPT !.mode = how] \in Task
  BY DEF Task

\* So is one that is idle, that is done, that has ended.
LEMMA TaskEnds ==
    /\ Idle \in Task /\ Done \in Task
    /\ \A c \in Carriers : task[c] \in Task => Ended(c) \in Task
  <1>1. Idle \in Task
    BY RoutingBounds DEF Idle, Task, Places
  <1>2. Done \in Task
    BY <1>1, TaskEdits DEF Done, Places
  <1>3. \A k \in Task : k.mode \in {"off", "agent", "decision"}
    BY DEF Task
  <1>. QED
    BY <1>1, <1>2, <1>3, TaskEdits DEF Ended

\* A message has its carriers, and a carrier its message.
LEMMA CarriersOf ==
    /\ \A c \in Carriers : c[2] \in Messages /\ c[1] \in Posts \cup {"route", "boot"} /\ c = <<c[1], c[2]>>
    /\ \A m \in Messages, k \in Posts \cup {"route", "boot"} : <<k, m>> \in Carriers
  BY DEF Carriers

\* A budget that is spent from stays one.
LEMMA SpendType ==
    ASSUME budget \in [Kinds -> Nat], NEW kind \in Kinds, Spend(kind)
    PROVE  budget' \in [Kinds -> Nat]
  BY DEF Spend

\* Counting once more keeps counts.
LEMMA CountType ==
    ASSUME NEW D, NEW counts \in [D -> Nat], NEW d \in D
    PROVE  [counts EXCEPT ![d] = @ + 1] \in [D -> Nat]
  OBVIOUS

\* A request.
LEMMA PostType == ASSUME TypeOK, NEW c \in Carriers, Post(c) PROVE TypeOK'
  <1>. USE RoutingBounds
  <1>1. task' \in [Carriers -> Task]
    <2>1. [Idle EXCEPT !.at = "resume", !.session = wake[c[2]].session] \in Task
      <3>1. wake[c[2]].session \in Nat /\ Idle \in Task /\ "resume" \in Places
        BY TaskEnds, CarriersOf DEF TypeOK, Places
      <3>. QED
        BY <3>1, TaskEdits
    <2>2. mode \in {"off", "agent", "decision"} /\ (IF mode = "decision" THEN "store" ELSE "find") \in Places
      BY DEF TypeOK, Places
    <2>3. [Idle EXCEPT !.mode = mode, !.at = IF mode = "decision" THEN "store" ELSE "find"] \in Task
      BY <2>2, TaskEnds, TaskEdits
    <2>. QED
      BY <2>1, <2>3, TaskEnds DEF Post, TypeOK
  <1>2. budget' \in [Kinds -> Nat]
    BY SpendType DEF Post, Free, TypeOK, Kinds
  <1>. QED
    BY <1>1, <1>2 DEF Post, TypeOK, chat, sessions, rows, history

\* What a step of a carrier does besides moving it.
StepRows(c) ==
    /\ UNCHANGED <<mode, removed, recycling, late, missed>>
    /\ \/ UNCHANGED <<started, coordinator>>
       \/ started' = started + 1 /\ coordinator' = started + 1
    /\ handoffs' = handoffs \/ \E to \in Targets : handoffs' = [handoffs EXCEPT ![<<c[2], to>>] = @ + 1]
    /\ wake' = wake \/ wake' = [wake EXCEPT ![c[2]] = [state |-> "queued", session |-> task[c].session]]
    /\ decision' = decision \/ \E d \in {"pending", "escalated", "routed"} : decision' = [decision EXCEPT ![c[2]] = d]
    /\ stored' = stored \/ stored' = stored \cup {c[2]}
    /\ told' = told \/ told' = told \cup {c[2]}
    /\ paused' \in BOOLEAN
    /\ budget' = budget \/ \E kind \in Kinds : Spend(kind)

LEMMA RowsOfStep ==
    ASSUME NEW c \in Carriers, Step(c), TypeOK
    PROVE  StepRows(c)
  <1>. USE DEF StepRows, chat, sessions, rows, history, Free
  <1>1. CASE Store(c)
    BY <1>1 DEF Store, TypeOK
  <1>2. CASE Find(c) \/ FindRefused(c) \/ Look(c)
    BY <1>2 DEF Find, FindRefused, Look, TypeOK
  <1>3. CASE Start(c)
    BY <1>3 DEF Start, TypeOK
  <1>4. CASE StartRefused(c) \/ CallRefused(c)
    BY <1>4 DEF StartRefused, CallRefused, TypeOK, Kinds
  <1>5. CASE Deliver(c)
    BY <1>5 DEF Deliver, TypeOK
  <1>6. CASE DeliverRetired(c) \/ Classify(c) \/ Acknowledge(c) \/ Recover(c)
    BY <1>6 DEF DeliverRetired, Classify, Acknowledge, Recover, TypeOK
  <1>7. CASE Resume(c)
    BY <1>7 DEF Resume, TypeOK
  <1>8. CASE Say(c)
    BY <1>8 DEF Say, TypeOK
  <1>9. ASSUME NEW to \in Targets, HandOff(c, to)
        PROVE  /\ UNCHANGED <<mode, removed, started, coordinator, paused, recycling, stored, decision, wake, told, late, missed, budget>>
               /\ handoffs' = [handoffs EXCEPT ![<<c[2], to>>] = @ + 1]
    BY <1>9 DEF HandOff
  <1>10. CASE Settle(c)
    BY <1>10 DEF Settle, TypeOK
  <1>. QED
    BY <1>1, <1>2, <1>3, <1>4, <1>5, <1>6, <1>7, <1>8, <1>9, <1>10 DEF Step, TypeOK

\* What is refused fails, or leaves the rest to the coordinator.
LEMMA RefusedType ==
    ASSUME task \in [Carriers -> Task], NEW c \in Carriers, Refused(c) \/ Fails(c)
    PROVE  task' \in [Carriers -> Task]
  <1>1. task[c] \in Task
    OBVIOUS
  <1>2. Ended(c) \in Task /\ [task[c] EXCEPT !.at = "say"] \in Task
    BY <1>1, TaskEnds, TaskEdits DEF Places
  <1>3. [task[c] EXCEPT !.at = "find", !.then = "deliver", !.left = {}] \in Task
    BY <1>1, TaskEdits DEF Places
  <1>4. \/ task' = [task EXCEPT ![c] = Ended(c)]
        \/ task' = [task EXCEPT ![c] = [task[c] EXCEPT !.at = "say"]]
        \/ task' = [task EXCEPT ![c] = [task[c] EXCEPT !.at = "find", !.then = "deliver", !.left = {}]]
    <2>1. CASE Fails(c)
      BY <2>1 DEF Fails, End, Go
    <2>2. CASE task[c].then # "deliver" /\ Refused(c)
      BY <2>2 DEF Refused
    <2>. QED
      BY <2>1, <2>2 DEF Refused
  <1>. QED
    BY <1>2, <1>3, <1>4

\* A choice, and a hand-off, send the routing back to its search.
LEMMA ClassifyMoves ==
    ASSUME task \in [Carriers -> Task], NEW c \in Carriers, Classify(c)
    PROVE  \E chosen \in SUBSET Targets, then \in {"deliver", "call"} :
               task' = [task EXCEPT ![c] = [task[c] EXCEPT !.at = "find", !.then = then, !.left = chosen]]
  <1>1. PICK chosen \in SUBSET Targets :
           task' = [task EXCEPT ![c].at = "find", ![c].then = IF chosen = {} THEN "deliver" ELSE "call", ![c].left = chosen]
    BY RoutingBounds DEF Classify
  <1>. DEFINE then == IF chosen = {} THEN "deliver" ELSE "call"
  <1>2. task' = [task EXCEPT ![c] = [task[c] EXCEPT !.at = "find", !.then = then, !.left = chosen]] /\ then \in {"deliver", "call"}
    BY <1>1
  <1>. HIDE DEF then
  <1>. QED
    BY <1>2

LEMMA HandOffMoves ==
    ASSUME task \in [Carriers -> Task], NEW c \in Carriers, NEW to \in Targets, HandOff(c, to)
    PROVE  \E then \in {"ack", "call"} :
               task' = [task EXCEPT ![c] = [task[c] EXCEPT !.at = "find", !.then = then, !.session = 0,
                                                           !.left = task[c].left \ {to}]]
  <1>. DEFINE then == IF task[c].left = {to} THEN "ack" ELSE "call"
  <1>1. /\ then \in {"ack", "call"}
        /\ task' = [task EXCEPT ![c] = [task[c] EXCEPT !.at = "find", !.then = then, !.session = 0, !.left = task[c].left \ {to}]]
    BY DEF HandOff
  <1>. HIDE DEF then
  <1>. QED
    BY <1>1

\* A step of a carrier.
LEMMA StepType == ASSUME TypeOK, NEW c \in Carriers, Step(c) PROVE TypeOK'
  <1>. USE CarriersOf DEF chat, sessions, rows, history, Free
  <1>0. task[c] \in Task /\ \A place \in Places : [task EXCEPT ![c].at = place] \in [Carriers -> Task]
    <2>1. \A place \in Places : [task[c] EXCEPT !.at = place] \in Task
      BY TaskEdits DEF TypeOK
    <2>. QED
      BY <2>1 DEF TypeOK
  <1>t. task[c].then \in {"deliver", "call", "ack"} /\ task[c].then \in Places /\ task[c].left \subseteq Targets
    BY <1>0 DEF Task, Places
  <1>1. task' \in [Carriers -> Task]
    <2>1. [task EXCEPT ![c] = Ended(c)] \in [Carriers -> Task]
      BY <1>0, TaskEnds DEF TypeOK
    <2>2. CASE Store(c)
      <3>1. [Idle EXCEPT !.at = "classify"] \in Task
        BY TaskEnds, TaskEdits DEF Places
      <3>2. [task EXCEPT ![c] = Ended(c), ![<<"route", c[2]>>] = [Idle EXCEPT !.at = "classify"]] \in [Carriers -> Task]
        BY <2>1, <3>1
      <3>. QED
        BY <2>1, <2>2, <3>2 DEF Store, End
    <2>3. CASE FindRefused(c) \/ StartRefused(c) \/ CallRefused(c)
      BY <2>3, RefusedType DEF FindRefused, StartRefused, CallRefused, TypeOK
    <2>4. CASE Look(c) \/ Start(c)
      <3>1. PICK place \in Places, session \in Nat :
               task' = [task EXCEPT ![c] = [task[c] EXCEPT !.at = place, !.session = session]]
        <4>1. CASE Look(c)
          <5>1. (IF coordinator = 0 THEN "start" ELSE task[c].then) \in Places /\ coordinator \in Nat
            BY <1>t DEF Places, TypeOK
          <5>. QED
            BY <4>1, <5>1 DEF Look, TypeOK
        <4>2. CASE Start(c)
          <5>1. task[c].then \in Places /\ started + 1 \in Nat
            BY <1>t DEF TypeOK
          <5>. QED
            BY <4>2, <5>1 DEF Start, TypeOK
        <4>. QED
          BY <2>4, <4>1, <4>2
      <3>2. [task[c] EXCEPT !.at = place, !.session = session] \in Task
        BY <1>0, TaskEdits
      <3>. QED
        BY <3>1, <3>2 DEF TypeOK
    <2>5. CASE DeliverRetired(c)
      <3>1. [task[c] EXCEPT !.at = "find", !.again = TRUE] \in Task
        BY <1>0, TaskEdits DEF Places
      <3>2. Fails(c) \/ task' = [task EXCEPT ![c] = [task[c] EXCEPT !.at = "find", !.again = TRUE]]
        BY <2>5 DEF DeliverRetired, TypeOK
      <3>. QED
        BY <3>1, <3>2, RefusedType DEF TypeOK
    <2>6. CASE Classify(c)
      <3>1. PICK chosen \in SUBSET Targets, then \in {"deliver", "call"} :
               task' = [task EXCEPT ![c] = [task[c] EXCEPT !.at = "find", !.then = then, !.left = chosen]]
        BY <2>6, ClassifyMoves DEF TypeOK
      <3>2. [task[c] EXCEPT !.at = "find", !.then = then, !.left = chosen] \in Task
        BY <1>0, TaskEdits DEF Places
      <3>. QED
        BY <3>1, <3>2 DEF TypeOK
    <2>7. ASSUME NEW to \in Targets, HandOff(c, to) PROVE task' \in [Carriers -> Task]
      <3>. DEFINE left == task[c].left \ {to}
      <3>1. PICK then \in {"ack", "call"} :
               task' = [task EXCEPT ![c] = [task[c] EXCEPT !.at = "find", !.then = then, !.session = 0, !.left = left]]
        BY <2>7, HandOffMoves DEF TypeOK
      <3>2. left \in SUBSET Targets /\ "find" \in Places /\ then \in {"deliver", "call", "ack"}
        BY <1>t DEF Places
      <3>. HIDE DEF left
      <3>3. [task[c] EXCEPT !.at = "find", !.then = then, !.session = 0, !.left = left] \in Task
        BY <1>0, <3>2, TaskEdits
      <3>. QED
        BY <3>1, <3>3 DEF TypeOK
    <2>8. CASE Find(c) \/ Deliver(c) \/ Acknowledge(c) \/ Recover(c)
      <3>1. PICK place \in Places : Go(c, place)
        BY <2>8 DEF Find, Deliver, Acknowledge, Recover, Places
      <3>. QED
        BY <1>0, <3>1 DEF Go
    <2>9. CASE Resume(c) \/ Say(c) \/ Settle(c)
      BY <2>1, <2>9 DEF Resume, Say, Settle, End
    <2>. QED
      BY <2>2, <2>3, <2>4, <2>5, <2>6, <2>7, <2>8, <2>9 DEF Step
  <1>2. task[c].session \in Nat /\ c[2] \in Messages
    BY <1>0, CarriersOf DEF Task
  <1>r. StepRows(c)
    BY RowsOfStep
  <1>3. wake' \in [Messages -> [state : {"none", "queued", "consumed", "dropped"}, session : Nat]]
    BY <1>2, <1>r DEF StepRows, TypeOK
  <1>4. started' \in Nat /\ coordinator' \in Nat
    BY <1>r DEF StepRows, TypeOK
  <1>5. handoffs' \in [Messages \X Targets -> Nat]
    <2>1. \A h \in Messages \X Targets : [handoffs EXCEPT ![h] = @ + 1] \in [Messages \X Targets -> Nat]
      BY CountType DEF TypeOK
    <2>2. \A to \in Targets : <<c[2], to>> \in Messages \X Targets
      BY <1>2
    <2>3. handoffs' = handoffs \/ \E h \in Messages \X Targets : handoffs' = [handoffs EXCEPT ![h] = @ + 1]
      <3>1. CASE handoffs' = handoffs
        BY <3>1
      <3>2. ASSUME NEW to \in Targets, handoffs' = [handoffs EXCEPT ![<<c[2], to>>] = @ + 1]
            PROVE  \E h \in Messages \X Targets : handoffs' = [handoffs EXCEPT ![h] = @ + 1]
        BY <2>2, <3>2, Zenon
      <3>. QED
        BY <1>r, <3>1, <3>2 DEF StepRows
    <2>. QED
      BY <2>1, <2>3 DEF TypeOK
  <1>6. budget' \in [Kinds -> Nat]
    BY <1>r, SpendType DEF StepRows, TypeOK
  <1>7. decision' \in [Messages -> {"none", "pending", "routed", "escalated"}]
    BY <1>r DEF StepRows, TypeOK
  <1>8. /\ UNCHANGED <<mode, removed, recycling, late, missed>> /\ paused' \in BOOLEAN
        /\ stored' \subseteq Messages /\ told' \subseteq Messages
    BY <1>2, <1>r DEF StepRows, TypeOK
  <1>. QED
    BY <1>1, <1>3, <1>4, <1>5, <1>6, <1>7, <1>8 DEF TypeOK

\* What happens around the carriers.
Around ==
    \/ Take \/ RecycleLook \/ Recycle \/ RecycleBusy \/ Pause \/ Remove \/ Restart
    \/ \E to \in Modes : SetMode(to)

LEMMA AroundType == ASSUME TypeOK, (\E c \in Carriers : StoreFails(c)) \/ Around PROVE TypeOK'
  <1>. USE CarriersOf DEF chat, sessions, rows, history, Free
  <1>1. CASE \E c \in Carriers : StoreFails(c)
    <2>1. PICK c \in Carriers : StoreFails(c)
      BY <1>1
    <2>2. task' \in [Carriers -> Task]
      <3>1. Ended(c) \in Task
        BY TaskEnds DEF TypeOK
      <3>2. Refused(c) \/ task' = [task EXCEPT ![c] = Ended(c)]
        BY <2>1 DEF StoreFails, End
      <3>. QED
        BY <3>1, <3>2, RefusedType DEF TypeOK
    <2>3. budget' \in [Kinds -> Nat]
      BY <2>1, SpendType DEF StoreFails, TypeOK, Kinds
    <2>. QED
      BY <2>1, <2>2, <2>3 DEF StoreFails, TypeOK
  <1>2. CASE Take
    BY <1>2 DEF Take, Over, TypeOK
  <1>3. CASE Recycle
    <2>1. wake' \in [Messages -> [state : {"none", "queued", "consumed", "dropped"}, session : Nat]]
      <3>1. ASSUME NEW m \in Messages
            PROVE  [wake[m] EXCEPT !.session = started + 1] \in [state : {"none", "queued", "consumed", "dropped"}, session : Nat]
        <4>1. wake[m] \in [state : {"none", "queued", "consumed", "dropped"}, session : Nat] /\ started + 1 \in Nat
          BY DEF TypeOK
        <4>. QED
          BY <4>1
      <3>. QED
        BY <1>3, <3>1 DEF Recycle, TypeOK
    <2>2. /\ UNCHANGED <<mode, removed, stored, decision, handoffs, told, task, late, missed, budget>>
          /\ started' \in Nat /\ coordinator' \in Nat /\ paused' \in BOOLEAN /\ recycling' \in BOOLEAN
      <3>1. started + 1 \in Nat
        BY DEF TypeOK
      <3>. QED
        BY <1>3, <3>1 DEF Recycle
    <2>. QED
      BY <2>1, <2>2 DEF TypeOK
  <1>4. CASE RecycleLook \/ RecycleBusy \/ Pause \/ (\E to \in Modes : SetMode(to))
    BY <1>4, SpendType DEF RecycleLook, RecycleBusy, Pause, SetMode, TypeOK, Kinds
  <1>5. CASE Remove
    <2>1. budget' \in [Kinds -> Nat]
      BY <1>5, SpendType DEF Remove, TypeOK, Kinds
    <2>2. wake' \in [Messages -> [state : {"none", "queued", "consumed", "dropped"}, session : Nat]]
      BY <1>5 DEF Remove, Over, TypeOK
    <2>. QED
      BY <1>5, <2>1, <2>2 DEF Remove, TypeOK
  <1>6. CASE Restart
    <2>1. task' \in [Carriers -> Task]
      <3>1. ASSUME NEW c \in Carriers PROVE task'[c] \in Task
        <4>1. Ended(c) \in Task /\ Idle \in Task /\ [Idle EXCEPT !.at = "waiting"] \in Task
          BY TaskEnds, TaskEdits DEF TypeOK, Places
        <4>. QED
          BY <1>6, <4>1 DEF Restart
      <3>. QED
        BY <1>6, <3>1 DEF Restart
    <2>2. budget' \in [Kinds -> Nat]
      BY <1>6, SpendType DEF Restart, TypeOK, Kinds
    <2>3. late' \subseteq Messages
      BY <1>6 DEF Restart, TypeOK
    <2>. QED
      BY <1>6, <2>1, <2>2, <2>3 DEF Restart, TypeOK
  <1>. QED
    BY <1>1, <1>2, <1>3, <1>4, <1>5, <1>6 DEF Around

\* Every state is of the declared types.
THEOREM TypeCorrect == Spec => []TypeOK
  <1>1. Init => TypeOK
    <2>. SUFFICES ASSUME Init PROVE TypeOK
      OBVIOUS
    <2>1. wake \in [Messages -> [state : {"none", "queued", "consumed", "dropped"}, session : Nat]]
      BY DEF Init, NoWake
    <2>2. task \in [Carriers -> Task]
      BY TaskEnds DEF Init
    <2>3. /\ decision \in [Messages -> {"none", "pending", "routed", "escalated"}]
          /\ handoffs \in [Messages \X Targets -> Nat] /\ budget \in [Kinds -> Nat]
      BY RoutingBounds DEF Init
    <2>. QED
      <3>1. started \in Nat /\ coordinator \in Nat
        BY DEF Init
      <3>2. mode \in Modes /\ removed \in BOOLEAN /\ paused \in BOOLEAN /\ recycling \in BOOLEAN /\ missed \in BOOLEAN
        BY DEF Init
      <3>3. stored \subseteq Messages /\ told \subseteq Messages /\ late \subseteq Messages
        BY DEF Init
      <3>. QED
        BY <2>1, <2>2, <2>3, <3>1, <3>2, <3>3 DEF TypeOK
  <1>2. TypeOK /\ [Next]_vars => TypeOK'
    <2>1. TypeOK /\ UNCHANGED vars => TypeOK'
      BY DEF TypeOK, vars, chat, sessions, rows, history
    <2>. QED
      BY <2>1, PostType, StepType, AroundType DEF Next, Around
  <1>. QED
    BY <1>1, <1>2, PTL DEF Spec

-----------------------------------------------------------------------------
(***************************************************************************)
(* What a carrier's step makes of it.                                      *)
(***************************************************************************)

\* A carrier that moves, that ends, that fails; the others stay.
OthersStay(c) == \A d \in Carriers \ {c} : task'[d] = task[d]

LEMMA Fields ==
    /\ Idle.at = "idle" /\ Idle.mode = "off" /\ Idle.then = "deliver"
    /\ Done.at = "done" /\ Done.mode = "off" /\ Done.then = "deliver"
    /\ \A place : LET moved == [Idle EXCEPT !.at = place]
                  IN  moved.at = place /\ moved.mode = "off" /\ moved.then = "deliver"
  BY TaskEnds DEF Idle, Done, Task

LEMMA GoFields ==
    ASSUME TypeOK, NEW c \in Carriers, NEW place, Go(c, place)
    PROVE  /\ OthersStay(c) /\ task'[c].at = place /\ task'[c].mode = task[c].mode
           /\ UNCHANGED <<task[c].then, task[c].session, task[c].left>>
  BY DEF TypeOK, Go, Task, OthersStay

LEMMA EndFields ==
    ASSUME TypeOK, NEW c \in Carriers
    PROVE  /\ Ended(c).at = "done" /\ Ended(c).mode = task[c].mode /\ Ended(c).then = "deliver"
           /\ End(c) => OthersStay(c) /\ task'[c] = Ended(c)
  <1>1. Ended(c).at = "done" /\ Ended(c).mode = task[c].mode /\ Ended(c).then = "deliver"
    BY TaskEnds, Fields DEF Ended, Task
  <1>. QED
    BY <1>1 DEF TypeOK, End, OthersStay

LEMMA FailsFields ==
    ASSUME TypeOK, NEW c \in Carriers, Fails(c)
    PROVE  /\ OthersStay(c) /\ task'[c].mode = task[c].mode
           /\ task'[c].at = IF c[1] \in Posts THEN "done" ELSE "say"
           /\ task'[c].then \in {"deliver", task[c].then}
  BY GoFields, EndFields DEF Fails

LEMMA RefusedFields ==
    ASSUME TypeOK, NEW c \in Carriers, Refused(c)
    PROVE  /\ OthersStay(c) /\ task'[c].mode = task[c].mode /\ task'[c].then = "deliver"
           /\ task'[c].at = IF task[c].then # "deliver" THEN "find" ELSE IF c[1] \in Posts THEN "done" ELSE "say"
  <1>1. CASE task[c].then = "deliver"
    BY <1>1, FailsFields DEF Refused
  <1>2. CASE task[c].then # "deliver"
    BY <1>2 DEF Refused, TypeOK, Task, OthersStay
  <1>. QED
    BY <1>1, <1>2

LEMMA SearchFields ==
    ASSUME TypeOK, NEW c \in Carriers, Look(c) \/ Start(c)
    PROVE  /\ OthersStay(c) /\ task'[c].at \in {"start", task[c].then} /\ UNCHANGED <<task[c].mode, task[c].then, task[c].left>>
           /\ Start(c) => task'[c].at = task[c].then
           /\ At(c, "start")' => Look(c) /\ coordinator = 0
  <1>1. CASE Look(c)
    <2>1. task' = [task EXCEPT ![c] = [task[c] EXCEPT !.at = IF coordinator = 0 THEN "start" ELSE task[c].then,
                                                      !.session = coordinator]]
      BY <1>1 DEF Look, TypeOK
    <2>2. task[c].then # "start" /\ ~Start(c)
      BY <1>1 DEF Look, Start, At, TypeOK, Task
    <2>. QED
      BY <1>1, <2>1, <2>2 DEF TypeOK, Task, OthersStay, At
  <1>2. CASE Start(c)
    <2>1. task' = [task EXCEPT ![c] = [task[c] EXCEPT !.at = task[c].then, !.session = started + 1]]
      BY <1>2 DEF Start, TypeOK
    <2>2. task[c].then # "start"
      BY DEF TypeOK, Task
    <2>. QED
      BY <2>1, <2>2 DEF TypeOK, Task, OthersStay, At
  <1>. QED
    BY <1>1, <1>2

LEMMA RoutingFields ==
    ASSUME TypeOK, NEW c \in Carriers, Classify(c) \/ (\E to \in Targets : HandOff(c, to))
    PROVE  OthersStay(c) /\ task'[c].at = "find" /\ task'[c].mode = task[c].mode
  <1>1. CASE Classify(c)
    <2>1. PICK chosen \in SUBSET Targets, then \in {"deliver", "call"} :
             task' = [task EXCEPT ![c] = [task[c] EXCEPT !.at = "find", !.then = then, !.left = chosen]]
      BY <1>1, ClassifyMoves DEF TypeOK
    <2>. QED
      BY <2>1 DEF TypeOK, Task, OthersStay
  <1>2. ASSUME NEW to \in Targets, HandOff(c, to)
        PROVE  OthersStay(c) /\ task'[c].at = "find" /\ task'[c].mode = task[c].mode
    <2>. DEFINE left == task[c].left \ {to}
    <2>1. PICK then \in {"ack", "call"} :
             task' = [task EXCEPT ![c] = [task[c] EXCEPT !.at = "find", !.then = then, !.session = 0, !.left = left]]
      BY <1>2, HandOffMoves DEF TypeOK
    <2>. HIDE DEF left
    <2>. QED
      BY <2>1 DEF TypeOK, Task, OthersStay
  <1>. QED
    BY <1>1, <1>2

\* A carrier takes the chat's lock at find, while no one holds it, and goes on
\* to a start only from its look.
LEMMA LockTaken ==
    ASSUME TypeOK, NEW c \in Carriers, Step(c) \/ Post(c) \/ StoreFails(c)
    PROVE  /\ Locked(c)' => Locked(c) \/ Unlocked
           /\ At(c, "start")' => Look(c) /\ coordinator = 0
           /\ \A d \in Carriers \ {c} : task'[d] = task[d] \/ task'[d].at = "classify"
  <1>. USE DEF At, OthersStay
  <1>0. \A k \in Task : k.then \notin {"look", "start"}
    BY DEF Task
  <1>1. CASE Post(c)
    <2>1. task'[c].at \in {"resume", "done", "store", "find"}
      BY <1>1, Fields, TaskEnds DEF Post, TypeOK, Task
    <2>. QED
      BY <1>1, <2>1 DEF Post, TypeOK, Locked
  <1>2. CASE StoreFails(c)
    <2>1. OthersStay(c) /\ task'[c].at \in {"find", "done", "say"}
      BY <1>2, RefusedFields, EndFields DEF StoreFails
    <2>. QED
      BY <2>1 DEF Locked
  <1>3. CASE Store(c)
    <2>1. CASE c[2] \in stored
      BY <1>3, <2>1, EndFields DEF Store, Locked
    <2>2. CASE c[2] \notin stored
      <3>1. task' = [task EXCEPT ![c] = Ended(c), ![<<"route", c[2]>>] = [Idle EXCEPT !.at = "classify"]]
        BY <1>3, <2>2 DEF Store
      <3>2. \A d \in Carriers : task'[d] = (IF d = <<"route", c[2]>> THEN [Idle EXCEPT !.at = "classify"]
                                            ELSE IF d = c THEN Ended(c) ELSE task[d])
        BY <3>1 DEF TypeOK
      <3>3. \A d \in Carriers : task'[d].at = "classify" \/ (d = c /\ task'[d].at = "done") \/ (d # c /\ task'[d] = task[d])
        <4>1. [Idle EXCEPT !.at = "classify"].at = "classify"
          BY Fields
        <4>2. Ended(c).at = "done"
          BY EndFields
        <4>. QED
          BY <3>2, <4>1, <4>2
      <3>. QED
        BY <3>3 DEF Locked
    <2>. QED
      BY <2>1, <2>2
  <1>4. CASE FindRefused(c) \/ StartRefused(c) \/ CallRefused(c)
    <2>1. OthersStay(c) /\ task'[c].at \in {"find", "done", "say"}
      BY <1>4, RefusedFields DEF FindRefused, StartRefused, CallRefused
    <2>. QED
      BY <2>1 DEF Locked
  <1>5. CASE DeliverRetired(c)
    <2>1. OthersStay(c) /\ task'[c].at \in {"find", "done", "say"}
      BY <1>5, FailsFields DEF DeliverRetired, TypeOK, Task
    <2>. QED
      BY <2>1 DEF Locked
  <1>6. CASE Find(c)
    BY <1>6, GoFields DEF Find
  <1>7. CASE Look(c) \/ Start(c)
    <2>1. Locked(c)
      BY <1>7 DEF Look, Start, Locked
    <2>. QED
      BY <1>7, <2>1, SearchFields
  <1>8. CASE Deliver(c) \/ Acknowledge(c) \/ Recover(c)
    <2>1. OthersStay(c) /\ task'[c].at \in {"resume", "settle", "find"}
      BY <1>8, GoFields DEF Deliver, Acknowledge, Recover
    <2>. QED
      BY <2>1 DEF Locked
  <1>9. CASE Resume(c) \/ Say(c) \/ Settle(c)
    <2>1. OthersStay(c) /\ task'[c].at = "done"
      BY <1>9, EndFields DEF Resume, Say, Settle
    <2>. QED
      BY <2>1 DEF Locked
  <1>10. CASE Classify(c) \/ (\E to \in Targets : HandOff(c, to))
    BY <1>10, RoutingFields DEF Locked
  <1>. QED
    BY <1>1, <1>2, <1>3, <1>4, <1>5, <1>6, <1>7, <1>8, <1>9, <1>10 DEF Step

-----------------------------------------------------------------------------
(***************************************************************************)
(* What waits for the coordinator.                                         *)
(***************************************************************************)

\* One coordinator starts at a time, under the chat's lock, and only when there
\* is none; only one there is is paused; and what waits, waits for the one
\* there is.
LiveInv ==
    /\ QueuedIsLive
    /\ paused => coordinator # 0
    /\ \A c, d \in Carriers : Locked(c) /\ Locked(d) => c = d
    /\ recycling => \A c \in Carriers : ~Locked(c)
    /\ \A c \in Carriers : At(c, "start") => coordinator = 0

\* What a carrier does to the coordinator, its pause and the wakes: one at start
\* starts a coordinator, a resume lifts the pause, a delivery queues its message's.
LEMMA WakesOfStep ==
    ASSUME TypeOK, NEW c \in Carriers, Step(c) \/ Post(c) \/ StoreFails(c)
    PROVE  /\ stored \subseteq stored' /\ (~StoreFails(c) => late' = late) /\ late \subseteq late'
           /\ (paused' => paused) /\ recycling' = recycling
           /\ coordinator' = coordinator \/ (At(c, "start") /\ coordinator' = started + 1 /\ wake' = wake)
           /\ \A m \in Messages : wake'[m] = wake[m]
                                  \/ (Deliver(c) /\ m = c[2] /\ wake'[m] = [state |-> "queued", session |-> task[c].session])
  <1>. USE DEF chat, sessions, rows, history, Free
  <1>1. CASE Step(c)
    <2>1. CASE Deliver(c)
      BY <2>1 DEF Deliver, TypeOK
    <2>2. CASE Resume(c)
      BY <2>2 DEF Resume
    <2>3. CASE Start(c)
      BY <2>3 DEF Start
    <2>4. CASE ~Deliver(c) /\ ~Resume(c) /\ ~Start(c)
      <3>1. UNCHANGED <<wake, late, sessions>>
        BY <1>1, <2>4 DEF Step, Store, Find, FindRefused, Look, StartRefused, DeliverRetired, Say, Classify, HandOff,
                          Acknowledge, CallRefused, Settle, Recover
      <3>2. stored \subseteq stored'
        BY <1>1, <2>4 DEF Step, Store, Find, FindRefused, Look, StartRefused, DeliverRetired, Say, Classify, HandOff,
                          Acknowledge, CallRefused, Settle, Recover
      <3>. QED
        BY <3>1, <3>2
    <2>. QED
      BY <2>1, <2>2, <2>3, <2>4
  <1>2. CASE Post(c) \/ StoreFails(c)
    BY <1>2 DEF Post, StoreFails
  <1>. QED
    BY <1>1, <1>2

\* What waits goes on waiting for the live coordinator, whatever a carrier does.
LEMMA StepLive ==
    ASSUME TypeOK, LiveInv, NEW c \in Carriers, Step(c) \/ Post(c) \/ StoreFails(c)
    PROVE  LiveInv'
  <1>1. At(c, "start") => coordinator = 0 /\ ~paused /\ \A m \in Messages : wake[m].state # "queued"
    BY DEF LiveInv, QueuedIsLive, Live
  <1>2. QueuedIsLive'
    <2>. SUFFICES ASSUME NEW m \in Messages, wake'[m].state = "queued" PROVE Live(wake[m].session)'
      BY DEF QueuedIsLive
    <2>1. CASE wake'[m] = wake[m]
      <3>1. Live(wake[m].session) /\ ~At(c, "start")
        BY <1>1, <2>1 DEF LiveInv, QueuedIsLive
      <3>2. coordinator' = coordinator
        BY <3>1, WakesOfStep
      <3>. QED
        BY <2>1, <3>1, <3>2 DEF Live
    <2>2. CASE Deliver(c) /\ wake'[m] = [state |-> "queued", session |-> task[c].session]
      <3>1. Live(task[c].session) /\ coordinator' = coordinator
        BY <2>2 DEF Deliver, chat, sessions
      <3>. QED
        BY <2>2, <3>1 DEF Live
    <2>. QED
      BY <2>1, <2>2, WakesOfStep
  <1>3. paused' => coordinator' # 0
    BY <1>1, WakesOfStep DEF LiveInv
  <1>4. \A d \in Carriers : d # c /\ Locked(d)' => Locked(d)
    BY LockTaken DEF Locked
  <1>5. \A d, e \in Carriers : Locked(d)' /\ Locked(e)' => d = e
    BY <1>4, LockTaken DEF LiveInv, Unlocked
  <1>6. recycling' => \A d \in Carriers : ~Locked(d)'
    BY <1>4, LockTaken, WakesOfStep DEF LiveInv, Unlocked
  <1>7. ASSUME NEW d \in Carriers, At(d, "start")' PROVE coordinator' = 0
    <2>1. CASE d = c
      <3>1. Look(c) /\ coordinator = 0
        BY <1>7, <2>1, LockTaken
      <3>. QED
        BY <3>1 DEF Look, chat, sessions
    <2>2. CASE d # c
      <3>1. task'[d] = task[d]
        BY <1>7, <2>2, LockTaken DEF At
      <3>2. At(d, "start") /\ Locked(d) /\ ~Locked(c)
        BY <1>7, <2>2, <3>1 DEF At, Locked, LiveInv
      <3>. QED
        BY <3>2, WakesOfStep DEF LiveInv, Locked, At
    <2>. QED
      BY <2>1, <2>2
  <1>. QED
    BY <1>2, <1>3, <1>5, <1>6, <1>7 DEF LiveInv

\* One coordinator starts at a time, under the chat's lock and only when there
\* is none; what waits, waits for the one there is, and only that one is paused.
THEOREM WaitsForTheLiveOne == Spec => []LiveInv
  <1>. USE DEF LiveInv, QueuedIsLive, Live
  <1>1. Init => LiveInv
    BY DEF Init, NoWake, At, Locked, Idle
  <1>2. TypeOK /\ LiveInv /\ [Next]_vars => LiveInv'
    <2>. SUFFICES ASSUME TypeOK, LiveInv, [Next]_vars PROVE LiveInv'
      OBVIOUS
    <2>. USE DEF chat, sessions, rows, history, Free, At, Locked
    <2>1. CASE UNCHANGED vars
      BY <2>1 DEF vars
    <2>2. CASE Take
      BY <2>2 DEF Take, Over, TypeOK
    <2>3. CASE RecycleLook
      BY <2>3 DEF RecycleLook, Unlocked
    <2>4. CASE Recycle
      <3>1. UNCHANGED task /\ coordinator' = started + 1 /\ started + 1 # 0 /\ ~paused' /\ ~recycling'
        BY <2>4 DEF Recycle, TypeOK
      <3>2. \A d \in Carriers : ~Locked(d)'
        BY <2>4, <3>1 DEF Recycle
      <3>3. ASSUME NEW m \in Messages, wake'[m].state = "queued" PROVE wake'[m].session = started + 1
        <4>1. wake[m].state = "queued" => Live(wake[m].session)
          OBVIOUS
        <4>2. wake[m] \in [state : {"none", "queued", "consumed", "dropped"}, session : Nat]
          BY DEF TypeOK
        <4>. QED
          BY <2>4, <3>3, <4>1, <4>2 DEF Recycle
      <3>. QED
        BY <3>1, <3>2, <3>3
    <2>5. CASE RecycleBusy
      BY <2>5 DEF RecycleBusy
    <2>6. CASE Pause
      BY <2>6 DEF Pause
    <2>7. CASE Remove
      <3>1. UNCHANGED <<task, recycling>> /\ coordinator' = 0 /\ ~paused'
        BY <2>7 DEF Remove
      <3>2. \A m \in Messages : wake'[m].state # "queued"
        BY <2>7 DEF Remove, Over, TypeOK
      <3>. QED
        BY <3>1, <3>2
    <2>8. CASE Restart
      <3>1. \A d \in Carriers : task'[d].at \notin {"look", "start"}
        <4>1. \A d \in Carriers : task'[d] \in {Idle, Ended(d), [Idle EXCEPT !.at = "waiting"]}
          BY <2>8 DEF Restart
        <4>2. Idle.at = "idle" /\ [Idle EXCEPT !.at = "waiting"].at = "waiting"
          BY Fields
        <4>3. \A d \in Carriers : Ended(d).at = "done"
          BY EndFields
        <4>. QED
          BY <4>1, <4>2, <4>3
      <3>. QED
        BY <2>8, <3>1 DEF Restart
    <2>9. CASE \E to \in Modes : SetMode(to)
      BY <2>9 DEF SetMode
    <2>. QED
      BY <2>1, <2>2, <2>3, <2>4, <2>5, <2>6, <2>7, <2>8, <2>9, StepLive DEF Next
  <1>. QED
    BY <1>1, <1>2, TypeCorrect, PTL DEF Spec

\* What waits, waits for a coordinator that is not retired, wherever a removal
\* or a recycle came between the look, the start and the delivery.
THEOREM QueuedWaitsForLive == Spec => []QueuedIsLive
  BY WaitsForTheLiveOne, PTL DEF LiveInv

-----------------------------------------------------------------------------
(***************************************************************************)
(* A message that finds its coordinator paused resumes it.                 *)
(***************************************************************************)

\* The carrier that will resume the live coordinator for a message.
Resumes(c, m) == c[2] = m /\ At(c, "resume") /\ task[c].session = coordinator

LiftInv ==
    /\ \A m \in Messages : wake[m].state # "none" => m \in stored
    /\ \A m \in Messages : paused /\ wake[m].state = "queued" /\ m \notin late => \E c \in Carriers : Resumes(c, m)

\* A step of a carrier leaves the others where they are, but for the routing
\* that the storing of a message starts.
LEMMA OthersGoOn ==
    ASSUME TypeOK, NEW c \in Carriers, Step(c) \/ Post(c) \/ StoreFails(c), NEW d \in Carriers, d # c
    PROVE  \/ task'[d] = task[d]
           \/ Store(c) /\ c[2] \notin stored /\ d[2] = c[2]
  <1>. USE DEF OthersStay
  <1>1. CASE Post(c)
    BY <1>1 DEF Post, TypeOK
  <1>2. CASE StoreFails(c)
    BY <1>2, RefusedFields, EndFields DEF StoreFails
  <1>3. CASE Store(c)
    BY <1>3, EndFields DEF Store, TypeOK
  <1>4. CASE FindRefused(c) \/ StartRefused(c) \/ CallRefused(c)
    BY <1>4, RefusedFields DEF FindRefused, StartRefused, CallRefused
  <1>5. CASE DeliverRetired(c)
    BY <1>5, FailsFields DEF DeliverRetired, TypeOK
  <1>6. CASE Find(c) \/ Deliver(c) \/ Acknowledge(c) \/ Recover(c)
    BY <1>6, GoFields DEF Find, Deliver, Acknowledge, Recover
  <1>7. CASE Look(c) \/ Start(c)
    BY <1>7, SearchFields
  <1>8. CASE Resume(c) \/ Say(c) \/ Settle(c)
    BY <1>8, EndFields DEF Resume, Say, Settle
  <1>9. CASE Classify(c) \/ (\E to \in Targets : HandOff(c, to))
    BY <1>9, RoutingFields
  <1>. QED
    BY <1>1, <1>2, <1>3, <1>4, <1>5, <1>6, <1>7, <1>8, <1>9 DEF Step

\* A carrier keeps the resume to come, or makes it.
LEMMA StepLifts ==
    ASSUME TypeOK, LiveInv, LiftInv, NEW c \in Carriers, Step(c) \/ Post(c) \/ StoreFails(c)
    PROVE  LiftInv'
  <1>1. ASSUME NEW m \in Messages, wake'[m].state # "none" PROVE m \in stored'
    <2>1. CASE Deliver(c) /\ m = c[2]
      BY <2>1 DEF Deliver
    <2>2. CASE wake'[m] = wake[m]
      <3>1. m \in stored
        BY <1>1, <2>2 DEF LiftInv
      <3>. QED
        BY <3>1, WakesOfStep
    <2>. QED
      BY <2>1, <2>2, WakesOfStep
  <1>2. ASSUME NEW m \in Messages, paused', wake'[m].state = "queued", m \notin late'
        PROVE  \E d \in Carriers : Resumes(d, m)'
    <2>1. paused /\ m \notin late
      BY <1>2, WakesOfStep
    <2>2. coordinator' = coordinator
      BY <2>1, WakesOfStep DEF LiveInv
    <2>3. CASE Deliver(c) /\ m = c[2]
      <3>1. task'[c].at = "resume" /\ task'[c].session = task[c].session /\ task[c].session = coordinator
        BY <2>3, GoFields DEF Deliver, Live
      <3>. QED
        BY <2>2, <2>3, <3>1 DEF Resumes, At
    <2>4. CASE ~(Deliver(c) /\ m = c[2])
      <3>1. wake[m].state = "queued"
        BY <1>2, <2>4, WakesOfStep
      <3>2. PICK d \in Carriers : Resumes(d, m)
        BY <2>1, <3>1 DEF LiftInv
      <3>3. d # c
        <4>1. ~Resume(c) \/ ~Resumes(c, m)
          BY <1>2 DEF Resume, Resumes
        <4>2. ~StoreFails(c) \/ ~Resumes(c, m)
          BY <1>2 DEF StoreFails, Resumes
        <4>3. Resumes(c, m) => Resume(c) \/ StoreFails(c)
          BY DEF Resumes, At, Step, Store, Find, FindRefused, Look, Start, StartRefused, Deliver, DeliverRetired, Say, Classify,
                 HandOff, Acknowledge, CallRefused, Settle, Recover, Post
        <4>. QED
          BY <3>2, <4>1, <4>2, <4>3
      <3>4. m \in stored
        BY <3>1 DEF LiftInv
      <3>5. task'[d] = task[d]
        BY <3>2, <3>3, <3>4, OthersGoOn DEF Resumes
      <3>. QED
        BY <2>2, <3>2, <3>5 DEF Resumes, At
    <2>. QED
      BY <2>3, <2>4
  <1>. QED
    BY <1>1, <1>2 DEF LiftInv

\* None waits for a paused coordinator but what the pause found waiting, or
\* whose resume was lost with its task.
THEOREM PauseIsLifted == Spec => []MessageLiftsPause
  <1>1. Init => LiftInv
    BY DEF Init, NoWake, LiftInv
  <1>2. TypeOK /\ LiveInv /\ LiftInv /\ [Next]_vars => LiftInv'
    <2>. SUFFICES ASSUME TypeOK, LiveInv, LiftInv, [Next]_vars PROVE LiftInv'
      OBVIOUS
    <2>. USE DEF chat, sessions, rows, history, Free
    <2>1. CASE UNCHANGED vars
      BY <2>1 DEF vars, LiftInv, Resumes, At
    <2>2. CASE Take \/ Remove
      BY <2>2 DEF Take, Remove, Over, LiftInv, TypeOK
    <2>3. CASE Recycle
      <3>1. \A m \in Messages : wake'[m].state = wake[m].state
        <4>1. \A m \in Messages : wake[m] \in [state : {"none", "queued", "consumed", "dropped"}, session : Nat]
          BY DEF TypeOK
        <4>. QED
          BY <2>3, <4>1 DEF Recycle
      <3>2. UNCHANGED stored /\ ~paused'
        BY <2>3 DEF Recycle
      <3>. QED
        BY <3>1, <3>2 DEF LiftInv
    <2>4. CASE Pause
      BY <2>4 DEF Pause, LiftInv, Resumes, At
    <2>5. CASE Restart
      BY <2>5 DEF Restart, LiftInv, Resumes
    <2>6. CASE RecycleLook \/ RecycleBusy \/ (\E to \in Modes : SetMode(to))
      BY <2>6 DEF RecycleLook, RecycleBusy, SetMode, LiftInv, Resumes, At
    <2>. QED
      BY <2>1, <2>2, <2>3, <2>4, <2>5, <2>6, StepLifts DEF Next
  <1>3. LiftInv => MessageLiftsPause
    BY DEF LiftInv, MessageLiftsPause, Resumes
  <1>. QED
    BY <1>1, <1>2, <1>3, TypeCorrect, WaitsForTheLiveOne, PTL DEF Spec

-----------------------------------------------------------------------------
(***************************************************************************)
(* Whom a message reaches.                                                 *)
(***************************************************************************)

\* A decision that left a message to the coordinator put it there, or the
\* timeline says it is no one's.
THEOREM EscalatedReachesSomeone == Spec => []EscalatedIsSomeones
  <1>. USE DEF EscalatedIsSomeones
  <1>1. Init => EscalatedIsSomeones
    BY DEF Init
  <1>2. TypeOK /\ EscalatedIsSomeones /\ [Next]_vars => EscalatedIsSomeones'
    <2>. SUFFICES ASSUME TypeOK, EscalatedIsSomeones, [Next]_vars PROVE EscalatedIsSomeones'
      OBVIOUS
    <2>. USE DEF chat, rows, history, Free
    <2>1. ASSUME NEW c \in Carriers, Store(c) \/ Settle(c) PROVE EscalatedIsSomeones'
      BY <2>1 DEF Store, Settle, TypeOK
    <2>2. ASSUME NEW c \in Carriers, Deliver(c) PROVE EscalatedIsSomeones'
      BY <2>2 DEF Deliver, TypeOK
    <2>3. ASSUME NEW c \in Carriers, Say(c) PROVE EscalatedIsSomeones'
      BY <2>3 DEF Say, TypeOK
    <2>4. CASE Take \/ Recycle \/ Remove
      BY <2>4 DEF Take, Recycle, Remove, Over, TypeOK
    <2>5. ASSUME UNCHANGED <<decision, wake, told>> PROVE EscalatedIsSomeones'
      BY <2>5
    <2>6. ASSUME NEW c \in Carriers, Step(c), ~Store(c), ~Settle(c), ~Deliver(c), ~Say(c) PROVE UNCHANGED <<decision, wake, told>>
      BY <2>6 DEF Step, Find, FindRefused, Look, Start, StartRefused, DeliverRetired, Resume, Classify, HandOff, Acknowledge,
                  CallRefused, Recover
    <2>7. CASE RecycleLook \/ RecycleBusy \/ Pause \/ Restart \/ (\E to \in Modes : SetMode(to))
      BY <2>5, <2>7 DEF RecycleLook, RecycleBusy, Pause, Restart, SetMode
    <2>8. CASE (\E c \in Carriers : Post(c) \/ StoreFails(c)) \/ UNCHANGED vars
      BY <2>5, <2>8 DEF Post, StoreFails, vars
    <2>. QED
      BY <2>1, <2>2, <2>3, <2>4, <2>5, <2>6, <2>7, <2>8 DEF Next
  <1>. QED
    BY <1>1, <1>2, TypeCorrect, PTL DEF Spec

-----------------------------------------------------------------------------
(***************************************************************************)
(* Each message is routed, or handed over, once.                           *)
(***************************************************************************)

Route(m) == <<"route", m>>
Boot(m) == <<"boot", m>>

\* A request keeps the mode it found: the agent's goes to the coordinator, the
\* decision's is stored under a decision.
RequestTask(k) ==
    /\ k.at \in {"idle", "store", "find", "look", "start", "deliver", "resume", "done"} /\ k.then = "deliver"
    /\ k.at = "idle" => k.mode = "off"
    /\ k.at \in {"find", "look", "start", "deliver"} => k.mode = "agent"
    /\ k.at = "store" => k.mode = "decision"

PostsKeepMode(m) == \A p \in Posts : RequestTask(task[<<p, m>>])

\* The routing runs once, and calls only what it looked its coordinator up for;
\* boot's pass takes its place after a restart.
RoutingTask(k) ==
    /\ k.at \in {"idle", "classify", "find", "look", "start", "call", "ack", "settle", "deliver", "resume", "say", "done"}
    /\ k.then # "deliver" => k.at \in {"find", "look", "start", "call", "ack", "settle"}
    /\ k.at = "call" => k.then = "call"

BootTask(k) ==
    k.at \in {"idle", "waiting", "find", "look", "start", "deliver", "resume", "say", "done"} /\ k.then = "deliver"

OneRouting(m) ==
    /\ RoutingTask(task[Route(m)]) /\ BootTask(task[Boot(m)])
    /\ At(Route(m), "idle") \/ At(Boot(m), "idle")

\* Nothing was done with a message that is not stored.
NotYet(m) ==
    m \notin stored =>
        /\ At(Route(m), "idle") /\ At(Boot(m), "idle") /\ decision[m] = "none" /\ wake[m].state = "none"
        /\ \A to \in Targets : handoffs[<<m, to>>] = 0

\* What carries a message under its decision finds it pending, until it hands
\* it over.
PendingWhileCarried(m) ==
    \A c \in {Route(m), Boot(m)} :
        /\ task[c].at \notin {"idle", "resume", "say", "done"} => decision[m] = "pending"
        /\ At(c, "resume") => decision[m] = "escalated"
        /\ At(c, "say") => decision[m] \in {"pending", "escalated"}

\* There is a decision only for a request that found the decision mode.
DecisionWasAsked(m) == decision[m] # "none" => \E p \in Posts : task[<<p, m>>].mode = "decision"

\* The routing hands over what it has left, which was not handed over before.
LeftIsNotHanded(m) ==
    \A to \in Targets :
        /\ handoffs[<<m, to>>] <= 1
        /\ At(Route(m), "classify") => handoffs[<<m, to>>] = 0
        /\ task[Route(m)].then = "call" /\ to \in task[Route(m)].left => handoffs[<<m, to>>] = 0

\* A decision still pending, or that routed the message, woke no coordinator.
PendingWokeNone(m) == OneMode(m) /\ wake[m].state # "none" => decision[m] \in {"none", "escalated"}

RouteInv(m) ==
    /\ PostsKeepMode(m) /\ OneRouting(m) /\ NotYet(m) /\ PendingWhileCarried(m)
    /\ DecisionWasAsked(m) /\ LeftIsNotHanded(m) /\ PendingWokeNone(m)

\* The four carriers of a message.
LEMMA FourCarriers ==
    ASSUME NEW m \in Messages, NEW c \in Carriers, c[2] = m
    PROVE  \/ c = Route(m) \/ c = Boot(m) \/ (c[1] \in Posts /\ c = <<c[1], m>>)
  BY CarriersOf DEF Route, Boot, Posts

\* They are different, and carriers.
LEMMA CarriersDiffer ==
    ASSUME NEW m \in Messages
    PROVE  /\ Route(m) \in Carriers /\ Boot(m) \in Carriers /\ Route(m) # Boot(m)
           /\ Route(m)[1] = "route" /\ Boot(m)[1] = "boot" /\ Route(m)[2] = m /\ Boot(m)[2] = m
           /\ "route" \notin Posts /\ "boot" \notin Posts
           /\ \A p \in Posts : /\ <<p, m>> \in Carriers /\ <<p, m>> # Route(m) /\ <<p, m>> # Boot(m)
                               /\ <<p, m>>[1] = p /\ <<p, m>>[2] = m
  BY CarriersOf DEF Route, Boot, Posts

\* A message none of whose carriers steps keeps its facts.
LEMMA OtherMessage ==
    ASSUME TypeOK, NEW m \in Messages, RouteInv(m),
           \A d \in Carriers : d[2] = m => task'[d] = task[d],
           decision'[m] = decision[m], wake'[m].state = wake[m].state, m \in stored' <=> m \in stored,
           \A to \in Targets : handoffs'[<<m, to>>] = handoffs[<<m, to>>]
    PROVE  RouteInv(m)'
  <1>1. /\ task'[Route(m)] = task[Route(m)] /\ task'[Boot(m)] = task[Boot(m)]
        /\ \A p \in Posts : task'[<<p, m>>] = task[<<p, m>>]
    BY CarriersDiffer
  <1>. QED
    BY <1>1 DEF RouteInv, PostsKeepMode, OneRouting, NotYet, PendingWhileCarried, DecisionWasAsked, LeftIsNotHanded,
                PendingWokeNone, OneMode, At

\* A request that moves, with what it may change.
LEMMA PostMoves ==
    ASSUME TypeOK, NEW m \in Messages, RouteInv(m), NEW p \in Posts,
           \A d \in Carriers : d[2] = m /\ d # <<p, m>> => task'[d] = task[d],
           RequestTask(task'[<<p, m>>]),
           task[<<p, m>>].mode # "off" => task'[<<p, m>>].mode = task[<<p, m>>].mode,
           decision'[m] = decision[m], \A to \in Targets : handoffs'[<<m, to>>] = handoffs[<<m, to>>],
           m \in stored => m \in stored',
           wake'[m].state = wake[m].state \/ (At(<<p, m>>, "deliver") /\ m \in stored')
    PROVE  RouteInv(m)'
  <1>1. /\ task'[Route(m)] = task[Route(m)] /\ task'[Boot(m)] = task[Boot(m)]
        /\ \A q \in Posts \ {p} : task'[<<q, m>>] = task[<<q, m>>]
    BY CarriersDiffer
  <1>2. \A q \in Posts : task[<<q, m>>].mode # "off" => task'[<<q, m>>].mode = task[<<q, m>>].mode
    BY <1>1
  <1>3. PostsKeepMode(m)'
    BY <1>1 DEF RouteInv, PostsKeepMode, At
  <1>4. OneRouting(m)' /\ NotYet(m)' /\ PendingWhileCarried(m)' /\ LeftIsNotHanded(m)'
    BY <1>1 DEF RouteInv, OneRouting, NotYet, PendingWhileCarried, LeftIsNotHanded, At
  <1>5. DecisionWasAsked(m)'
    BY <1>2 DEF RouteInv, DecisionWasAsked
  <1>6. OneMode(m)' => OneMode(m)
    BY <1>2 DEF OneMode
  <1>7. PendingWokeNone(m)'
    <2>1. CASE wake'[m].state = wake[m].state
      BY <1>6, <2>1 DEF RouteInv, PendingWokeNone
    <2>2. CASE At(<<p, m>>, "deliver")
      <3>1. task'[<<p, m>>].mode = "agent"
        BY <1>2, <2>2 DEF RouteInv, PostsKeepMode, RequestTask, At
      <3>. QED
        BY <1>5, <3>1 DEF PendingWokeNone, DecisionWasAsked, OneMode
    <2>. QED
      BY <2>1, <2>2
  <1>. QED
    BY <1>3, <1>4, <1>5, <1>7 DEF RouteInv

\* The routing, or boot's pass, that moves.
LEMMA CarriedMoves ==
    ASSUME TypeOK, NEW m \in Messages, RouteInv(m), NEW c \in {Route(m), Boot(m)}, ~At(c, "idle"),
           \A d \in Carriers : d[2] = m /\ d # c => task'[d] = task[d],
           c = Route(m) => RoutingTask(task'[c]),
           c = Boot(m) => BootTask(task'[c]),
           task'[c].at \notin {"resume", "say", "done"} => decision'[m] = "pending",
           task'[c].at = "resume" => decision'[m] = "escalated",
           task'[c].at = "say" => decision'[m] \in {"pending", "escalated"},
           decision'[m] # "none" => decision[m] # "none",
           m \in stored => m \in stored',
           LeftIsNotHanded(m)',
           \/ wake'[m].state = wake[m].state /\ (decision'[m] = decision[m] \/ decision[m] = "pending")
           \/ decision'[m] = "escalated"
    PROVE  RouteInv(m)'
  <1>1. /\ \A q \in Posts : task'[<<q, m>>] = task[<<q, m>>]
        /\ \A d \in {Route(m), Boot(m)} : d # c => task'[d] = task[d]
    BY CarriersDiffer
  <1>2. m \in stored'
    BY DEF RouteInv, NotYet
  <1>3. PostsKeepMode(m)' /\ DecisionWasAsked(m)' /\ (OneMode(m)' => OneMode(m))
    BY <1>1 DEF RouteInv, PostsKeepMode, DecisionWasAsked, OneMode, At
  <1>4. OneRouting(m)' /\ NotYet(m)'
    BY <1>1, <1>2, CarriersDiffer DEF RouteInv, OneRouting, NotYet, At
  <1>5. PendingWhileCarried(m)'
    BY <1>1, CarriersDiffer DEF RouteInv, OneRouting, PendingWhileCarried, At
  <1>6. PendingWokeNone(m)'
    BY <1>3 DEF RouteInv, PendingWokeNone
  <1>. QED
    BY <1>3, <1>4, <1>5, <1>6 DEF RouteInv

\* A step of a request of the message.
LEMMA PostStep ==
    ASSUME TypeOK, NEW m \in Messages, RouteInv(m), NEW p \in Posts,
           Step(<<p, m>>) \/ Post(<<p, m>>) \/ StoreFails(<<p, m>>)
    PROVE  RouteInv(m)'
  <1>. DEFINE c == <<p, m>>
  <1>. USE DEF chat, rows, history, Free
  <1>0. c \in Carriers /\ c[1] = p /\ c[2] = m
    BY CarriersDiffer
  <1>1. RequestTask(task[c])
    BY DEF RouteInv, PostsKeepMode
  <1>. HIDE DEF c
  <1>2. CASE Store(c) /\ m \notin stored
    <2>1. /\ stored' = stored \cup {m} /\ decision' = [decision EXCEPT ![m] = "pending"] /\ UNCHANGED <<wake, handoffs>>
          /\ task' = [task EXCEPT ![c] = Ended(c), ![Route(m)] = [Idle EXCEPT !.at = "classify"]]
      BY <1>0, <1>2 DEF Store, Route
    <2>2. c # Route(m) /\ c # Boot(m)
      BY CarriersDiffer DEF c
    <2>3. /\ task'[c] = Ended(c) /\ task'[Route(m)] = [Idle EXCEPT !.at = "classify"] /\ task'[Boot(m)] = task[Boot(m)]
          /\ \A q \in Posts : <<q, m>> # c => task'[<<q, m>>] = task[<<q, m>>]
      BY <1>0, <2>1, <2>2, CarriersDiffer DEF TypeOK
    <2>4. /\ RequestTask(task'[c]) /\ task'[c].mode = "decision"
          /\ RoutingTask(task'[Route(m)]) /\ task'[Route(m)].at = "classify" /\ task'[Route(m)].then = "deliver"
      <3>1. task[c].mode = "decision"
        BY <1>1, <1>2 DEF Store, RequestTask, At
      <3>. QED
        BY <1>0, <2>3, <3>1, EndFields, Fields DEF RequestTask, RoutingTask
    <2>5. PostsKeepMode(m)' /\ DecisionWasAsked(m)'
      BY <2>3, <2>4 DEF RouteInv, PostsKeepMode, DecisionWasAsked, c
    <2>6. At(Boot(m), "idle") /\ BootTask(task[Boot(m)]) /\ wake[m].state = "none" /\ \A to \in Targets : handoffs[<<m, to>>] = 0
      BY <1>2 DEF RouteInv, NotYet, OneRouting
    <2>7. m \in stored' /\ decision'[m] = "pending" /\ wake'[m] = wake[m]
          /\ \A to \in Targets : handoffs'[<<m, to>>] = 0
      BY <2>1, <2>6 DEF TypeOK
    <2>8. OneRouting(m)' /\ NotYet(m)'
      BY <2>3, <2>4, <2>6, <2>7 DEF OneRouting, NotYet, At
    <2>9. PendingWhileCarried(m)'
      BY <2>3, <2>4, <2>6, <2>7 DEF PendingWhileCarried, At
    <2>10. LeftIsNotHanded(m)'
      BY <2>4, <2>7 DEF LeftIsNotHanded
    <2>11. PendingWokeNone(m)'
      BY <2>6, <2>7 DEF PendingWokeNone
    <2>. QED
      BY <2>5, <2>8, <2>9, <2>10, <2>11 DEF RouteInv
  <1>3. CASE Post(c)
    <2>1. OthersStay(c) /\ UNCHANGED <<stored, decision, wake, handoffs>> /\ task[c].at = "idle"
      BY <1>0, <1>3 DEF Post, OthersStay, TypeOK, At
    <2>2. \/ task'[c] = [Idle EXCEPT !.at = "resume", !.session = wake[m].session] \/ task'[c] = Done
          \/ mode # "off" /\ task'[c] = [Idle EXCEPT !.mode = mode, !.at = IF mode = "decision" THEN "store" ELSE "find"]
      BY <1>0, <1>3 DEF Post, TypeOK
    <2>3. mode \in {"off", "agent", "decision"}
      BY RoutingBounds DEF TypeOK
    <2>4. RequestTask(task'[c])
      <3>1. CASE task'[c] = Done
        BY <3>1, Fields DEF RequestTask
      <3>2. CASE task'[c] = [Idle EXCEPT !.at = "resume", !.session = wake[m].session]
        BY <3>2, Fields, TaskEnds DEF Task, RequestTask
      <3>3. CASE mode # "off" /\ task'[c] = [Idle EXCEPT !.mode = mode, !.at = IF mode = "decision" THEN "store" ELSE "find"]
        <4>1. /\ task'[c].mode = mode /\ task'[c].then = Idle.then
              /\ task'[c].at = IF mode = "decision" THEN "store" ELSE "find"
          BY <3>3, TaskEnds DEF Task
        <4>. QED
          BY <2>3, <3>3, <4>1, Fields DEF RequestTask
      <3>. QED
        BY <2>2, <3>1, <3>2, <3>3
    <2>5. task[c].mode = "off"
      BY <1>1, <2>1 DEF RequestTask
    <2>. QED
      BY <1>0, <2>1, <2>4, <2>5, PostMoves DEF c, OthersStay
  <1>4. CASE (Store(c) /\ m \in stored) \/ Resume(c)
    <2>1. End(c) /\ UNCHANGED <<stored, decision, wake, handoffs>>
      BY <1>0, <1>4 DEF Store, Resume
    <2>2. OthersStay(c) /\ RequestTask(task'[c]) /\ task'[c].mode = task[c].mode
      BY <1>0, <2>1, EndFields DEF RequestTask
    <2>. QED
      BY <1>0, <2>1, <2>2, PostMoves DEF c, OthersStay
  <1>5. CASE FindRefused(c) \/ StartRefused(c) \/ StoreFails(c)
    <2>1. UNCHANGED <<stored, decision, wake, handoffs>>
      BY <1>5 DEF FindRefused, StartRefused, StoreFails
    <2>2. OthersStay(c) /\ RequestTask(task'[c]) /\ task'[c].mode = task[c].mode
      <3>1. CASE Refused(c)
        BY <1>0, <1>1, <3>1, RefusedFields DEF RequestTask
      <3>2. CASE End(c)
        BY <1>0, <3>2, EndFields DEF RequestTask
      <3>. QED
        BY <1>5, <3>1, <3>2 DEF FindRefused, StartRefused, StoreFails
    <2>. QED
      BY <1>0, <2>1, <2>2, PostMoves DEF c, OthersStay
  <1>6. CASE Find(c) \/ Look(c) \/ Start(c)
    <2>1. task[c].at \in {"find", "look", "start"} /\ UNCHANGED <<stored, decision, wake, handoffs>>
      BY <1>6 DEF Find, Look, Start, At
    <2>2. OthersStay(c) /\ task'[c].at \in {"look", "start", task[c].then} /\ UNCHANGED <<task[c].mode, task[c].then>>
      BY <1>0, <1>6, GoFields, SearchFields DEF Find
    <2>3. RequestTask(task'[c])
      BY <1>1, <2>1, <2>2 DEF RequestTask
    <2>. QED
      BY <1>0, <2>1, <2>2, <2>3, PostMoves DEF c, OthersStay
  <1>7. CASE DeliverRetired(c)
    <2>1. /\ OthersStay(c) /\ task'[c].mode = task[c].mode /\ task'[c].at \in {"done", "find"} /\ task[c].at = "deliver"
          /\ task'[c].then \in {"deliver", task[c].then}
      BY <1>0, <1>7, FailsFields DEF DeliverRetired, OthersStay, TypeOK, Task, At
    <2>2. UNCHANGED <<stored, decision, wake, handoffs>>
      BY <1>7 DEF DeliverRetired
    <2>3. RequestTask(task'[c])
      BY <1>1, <2>1 DEF RequestTask
    <2>. QED
      BY <1>0, <2>1, <2>2, <2>3, PostMoves DEF c, OthersStay
  <1>8. CASE Deliver(c)
    <2>1. OthersStay(c) /\ UNCHANGED <<task[c].mode, task[c].then>> /\ task'[c].at = "resume" /\ At(c, "deliver")
      BY <1>0, <1>8, GoFields DEF Deliver
    <2>2. m \in stored' /\ UNCHANGED <<decision, handoffs>>
      BY <1>0, <1>8 DEF Deliver
    <2>3. RequestTask(task'[c])
      BY <1>1, <2>1 DEF RequestTask
    <2>. QED
      BY <1>0, <2>1, <2>2, <2>3, PostMoves DEF c, OthersStay
  <1>9. ~Say(c) /\ ~Classify(c) /\ (\A to \in Targets : ~HandOff(c, to)) /\ ~Acknowledge(c) /\ ~CallRefused(c) /\ ~Settle(c) /\ ~Recover(c)
    BY <1>1 DEF RequestTask, Say, Classify, HandOff, Acknowledge, CallRefused, Settle, Recover, At
  <1>10. Step(c) \/ Post(c) \/ StoreFails(c)
    BY DEF c
  <1>. QED
    BY <1>2, <1>3, <1>4, <1>5, <1>6, <1>7, <1>8, <1>9, <1>10 DEF Step

\* What was handed over stays so, when a carrier neither chooses nor hands off.
LEMMA LeftStays ==
    ASSUME TypeOK, NEW m \in Messages, RouteInv(m), NEW c \in {Route(m), Boot(m)}, OthersStay(c), UNCHANGED handoffs,
           c = Route(m) => /\ task'[c].at # "classify"
                           /\ task'[c].then = "call" => task[c].then = "call" /\ task'[c].left = task[c].left
    PROVE  LeftIsNotHanded(m)'
  <1>1. c = Boot(m) => task'[Route(m)] = task[Route(m)]
    BY CarriersDiffer DEF OthersStay
  <1>. QED
    BY <1>1, CarriersDiffer DEF RouteInv, LeftIsNotHanded, At

\* What the routing chose was not handed over; what it hands over, it has not
\* left any more.
LEMMA RoutingStep ==
    ASSUME TypeOK, NEW m \in Messages, RouteInv(m), NEW c \in {Route(m), Boot(m)},
           Classify(c) \/ (\E to \in Targets : HandOff(c, to))
    PROVE  RouteInv(m)'
  <1>. USE DEF chat, rows, history
  <1>0. c \in Carriers /\ c[2] = m /\ c = Route(m) /\ task[c].at \in {"classify", "call"} /\ decision[m] = "pending"
    <2>1. task[c].at \in {"classify", "call"}
      BY DEF Classify, HandOff, At
    <2>. QED
      BY <2>1, CarriersDiffer DEF RouteInv, OneRouting, BootTask, PendingWhileCarried
  <1>1. UNCHANGED <<stored, decision, wake>> /\ OthersStay(c) /\ task'[c].at = "find"
    BY <1>0, RoutingFields DEF Classify, HandOff
  <1>2. RoutingTask(task'[c])
    BY <1>1 DEF RoutingTask
  <1>3. LeftIsNotHanded(m)'
    <2>1. CASE Classify(c)
      <3>1. UNCHANGED handoffs /\ \A to \in Targets : handoffs[<<m, to>>] = 0
        BY <1>0, <2>1 DEF RouteInv, LeftIsNotHanded, Classify
      <3>. QED
        BY <1>0, <3>1 DEF LeftIsNotHanded
    <2>2. ASSUME NEW to \in Targets, HandOff(c, to) PROVE LeftIsNotHanded(m)'
      <3>1. to \in task[c].left /\ task[c].then = "call"
        BY <1>0, <2>2 DEF HandOff, RouteInv, OneRouting, RoutingTask, At
      <3>2. task'[c].left = task[c].left \ {to}
        <4>. DEFINE left == task[c].left \ {to}
        <4>1. PICK then \in {"ack", "call"} :
                 task' = [task EXCEPT ![c] = [task[c] EXCEPT !.at = "find", !.then = then, !.session = 0, !.left = left]]
          BY <1>0, <2>2, HandOffMoves DEF TypeOK
        <4>. HIDE DEF left
        <4>2. task'[c].left = left
          BY <1>0, <4>1 DEF TypeOK, Task
        <4>. QED
          BY <4>2 DEF left
      <3>3. handoffs'[<<m, to>>] = handoffs[<<m, to>>] + 1 /\ \A o \in Targets \ {to} : handoffs'[<<m, o>>] = handoffs[<<m, o>>]
        BY <1>0, <2>2 DEF HandOff, TypeOK
      <3>4. handoffs[<<m, to>>] = 0
        BY <1>0, <3>1 DEF RouteInv, LeftIsNotHanded
      <3>5. \A o \in Targets : handoffs'[<<m, o>>] <= 1 /\ (o \in task'[c].left => handoffs'[<<m, o>>] = 0)
        BY <1>0, <3>1, <3>2, <3>3, <3>4 DEF RouteInv, LeftIsNotHanded
      <3>. QED
        BY <1>0, <1>1, <3>5 DEF LeftIsNotHanded, At
    <2>. QED
      BY <2>1, <2>2
  <1>. QED
    BY <1>0, <1>1, <1>2, <1>3, CarriedMoves, CarriersDiffer DEF OthersStay, At

\* A step of what carries the message under its decision.
LEMMA CarriedStep ==
    ASSUME TypeOK, NEW m \in Messages, RouteInv(m), NEW c \in {Route(m), Boot(m)}, Step(c) \/ StoreFails(c)
    PROVE  RouteInv(m)'
  <1>. USE DEF chat, rows, history, Free
  <1>0. c \in Carriers /\ c[2] = m /\ c[1] \notin Posts
    BY CarriersDiffer
  <1>1. (c = Route(m) => RoutingTask(task[c])) /\ (c = Boot(m) => BootTask(task[c])) /\ (c = Route(m) \/ c = Boot(m))
    BY DEF RouteInv, OneRouting
  <1>2. /\ task[c].at \notin {"idle", "resume", "say", "done"} => decision[m] = "pending"
        /\ At(c, "resume") => decision[m] = "escalated"
        /\ At(c, "say") => decision[m] \in {"pending", "escalated"}
    BY DEF RouteInv, PendingWhileCarried
  <1>3. CASE Classify(c) \/ (\E to \in Targets : HandOff(c, to))
    BY <1>3, RoutingStep
  <1>4. CASE Find(c) \/ Look(c) \/ Start(c) \/ Acknowledge(c) \/ Recover(c)
    <2>1. task[c].at \in {"find", "look", "start", "ack", "waiting"} /\ UNCHANGED <<stored, decision, wake, handoffs>>
      BY <1>4 DEF Find, Look, Start, Acknowledge, Recover, At
    <2>2. OthersStay(c) /\ UNCHANGED <<task[c].then, task[c].left>>
      BY <1>0, <1>4, GoFields, SearchFields DEF Find, Acknowledge, Recover
    <2>3. /\ task[c].at = "ack" => task'[c].at = "settle"
          /\ task[c].at # "ack" => task'[c].at \in {"find", "look", "start", task[c].then}
      BY <1>0, <1>4, GoFields, SearchFields DEF Find, Look, Start, Acknowledge, Recover, At
    <2>4. (c = Route(m) => RoutingTask(task'[c])) /\ (c = Boot(m) => BootTask(task'[c]))
      <3>1. task[c].then \in {"deliver", "call", "ack"}
        BY <1>0 DEF TypeOK, Task
      <3>. QED
        BY <1>1, <2>1, <2>2, <2>3, <3>1 DEF RoutingTask, BootTask
    <2>5. task'[c].at \notin {"classify", "idle", "resume", "say", "done"}
      BY <1>0, <2>3 DEF TypeOK, Task
    <2>6. LeftIsNotHanded(m)'
      BY <2>1, <2>2, <2>5, LeftStays
    <2>7. decision[m] = "pending"
      BY <1>2, <2>1
    <2>. QED
      BY <1>0, <2>1, <2>2, <2>4, <2>5, <2>6, <2>7, CarriedMoves DEF OthersStay, At
  <1>5. CASE FindRefused(c) \/ StartRefused(c) \/ CallRefused(c) \/ DeliverRetired(c)
    <2>1. /\ UNCHANGED <<stored, decision, wake, handoffs>>
          /\ task[c].at \in {"find", "start", "call", "ack", "deliver"}
      BY <1>5 DEF FindRefused, StartRefused, CallRefused, DeliverRetired, At
    <2>2. OthersStay(c) /\ task'[c].at \in {"find", "say"} /\ task'[c].then = "deliver"
      <3>1. CASE DeliverRetired(c)
        <4>1. task[c].then = "deliver"
          BY <1>1, <3>1 DEF DeliverRetired, At, RoutingTask, BootTask
        <4>. QED
          BY <1>0, <3>1, <4>1, FailsFields DEF DeliverRetired, OthersStay, TypeOK, Task
      <3>2. CASE Refused(c)
        BY <1>0, <3>2, RefusedFields
      <3>. QED
        BY <1>5, <3>1, <3>2 DEF FindRefused, StartRefused, CallRefused
    <2>3. LeftIsNotHanded(m)' /\ RoutingTask(task'[c]) /\ BootTask(task'[c])
      BY <2>1, <2>2, LeftStays DEF RoutingTask, BootTask
    <2>4. decision[m] = "pending"
      BY <1>2, <2>1
    <2>. QED
      BY <1>0, <2>1, <2>2, <2>3, <2>4, CarriedMoves DEF OthersStay, At
  <1>6. CASE Deliver(c)
    <2>1. /\ OthersStay(c) /\ task'[c].at = "resume" /\ task'[c].then = task[c].then /\ At(c, "deliver") /\ UNCHANGED handoffs
          /\ decision'[m] = "escalated" /\ m \in stored'
      BY <1>0, <1>6, GoFields DEF Deliver, TypeOK
    <2>2. RoutingTask(task'[c]) /\ BootTask(task'[c]) /\ task'[c].then = "deliver"
      BY <1>1, <2>1 DEF RoutingTask, BootTask, At
    <2>3. LeftIsNotHanded(m)'
      BY <2>1, <2>2, LeftStays
    <2>4. decision[m] = "pending"
      BY <1>2, <2>1 DEF At
    <2>. QED
      BY <1>0, <2>1, <2>2, <2>3, <2>4, CarriedMoves DEF OthersStay, At
  <1>7. CASE Resume(c) \/ Say(c) \/ Settle(c)
    <2>1. OthersStay(c) /\ task'[c] = Ended(c) /\ UNCHANGED <<stored, wake, handoffs>> /\ task[c].at \in {"resume", "say", "settle"}
      BY <1>0, <1>7, EndFields DEF Resume, Say, Settle, At
    <2>2. RoutingTask(task'[c]) /\ BootTask(task'[c]) /\ task'[c].then = "deliver" /\ task'[c].at = "done"
      BY <1>0, <2>1, EndFields DEF RoutingTask, BootTask
    <2>3. LeftIsNotHanded(m)'
      BY <2>1, <2>2, LeftStays
    <2>4. decision[m] # "none"
      BY <1>2, <2>1 DEF At
    <2>5. decision'[m] = decision[m] \/ decision[m] = "pending" \/ decision'[m] = "escalated"
      BY <1>0, <1>2, <1>7 DEF Resume, Say, Settle, At, TypeOK
    <2>. QED
      BY <1>0, <2>1, <2>2, <2>3, <2>4, <2>5, CarriedMoves DEF OthersStay, At
  <1>8. CASE StoreFails(c)
    <2>1. UNCHANGED <<stored, decision, wake, handoffs>> /\ task[c].at \in {"look", "start", "deliver", "resume", "settle", "say"}
      BY <1>1, <1>8 DEF StoreFails, RoutingTask, BootTask
    <2>2. /\ OthersStay(c) /\ task'[c].at \in {"find", "say", "done"} /\ task'[c].then = "deliver"
          /\ task'[c].at = "find" => task[c].at \notin {"resume", "say"}
          /\ task'[c].at = "say" => task[c].at # "idle"
      <3>1. CASE Refused(c)
        BY <1>0, <1>1, <2>1, <3>1, RefusedFields DEF RoutingTask, BootTask, StoreFails, Refused, End
      <3>2. CASE End(c)
        BY <1>0, <3>2, EndFields
      <3>. QED
        BY <1>8, <3>1, <3>2 DEF StoreFails
    <2>3. LeftIsNotHanded(m)' /\ RoutingTask(task'[c]) /\ BootTask(task'[c])
      BY <2>1, <2>2, LeftStays DEF RoutingTask, BootTask
    <2>4. decision[m] \in {"pending", "escalated"} /\ (task'[c].at = "find" => decision[m] = "pending")
      BY <1>2, <2>1, <2>2 DEF At
    <2>. QED
      BY <1>0, <2>1, <2>2, <2>3, <2>4, CarriedMoves DEF OthersStay, At
  <1>9. ~Store(c)
    BY <1>1 DEF Store, At, RoutingTask, BootTask
  <1>. QED
    BY <1>3, <1>4, <1>5, <1>6, <1>7, <1>8, <1>9 DEF Step

\* A step of any carrier.
LEMMA AnyStep ==
    ASSUME TypeOK, NEW m \in Messages, RouteInv(m), NEW c \in Carriers, Step(c) \/ Post(c) \/ StoreFails(c)
    PROVE  RouteInv(m)'
  <1>1. CASE c[2] = m
    <2>1. Post(c) => c[1] \in Posts
      BY DEF Post
    <2>2. CASE c \in {Route(m), Boot(m)}
      BY <2>1, <2>2, CarriedStep, CarriersDiffer
    <2>3. CASE c[1] \in Posts /\ c = <<c[1], m>>
      <3>1. Step(<<c[1], m>>) \/ Post(<<c[1], m>>) \/ StoreFails(<<c[1], m>>)
        BY <2>3
      <3>. QED
        BY <2>3, <3>1, PostStep
    <2>. QED
      BY <1>1, <2>2, <2>3, FourCarriers
  <1>2. CASE c[2] # m
    <2>1. \A d \in Carriers : d[2] = m => task'[d] = task[d]
      <3>. SUFFICES ASSUME NEW d \in Carriers, d[2] = m PROVE task'[d] = task[d]
        OBVIOUS
      <3>. QED
        BY <1>2, OthersGoOn
    <2>2. wake'[m] = wake[m]
      BY <1>2, WakesOfStep
    <2>3. /\ decision'[m] = decision[m] /\ (m \in stored' <=> m \in stored)
          /\ \A to \in Targets : handoffs'[<<m, to>>] = handoffs[<<m, to>>]
      <3>1. CASE Step(c)
        <4>1. StepRows(c) /\ c[2] \in Messages
          BY <3>1, RowsOfStep, CarriersOf
        <4>. QED
          BY <1>2, <4>1 DEF StepRows, TypeOK
      <3>2. CASE Post(c) \/ StoreFails(c)
        BY <3>2 DEF Post, StoreFails, rows
      <3>. QED
        BY <3>1, <3>2
    <2>. QED
      BY <2>1, <2>2, <2>3, OtherMessage
  <1>. QED
    BY <1>1, <1>2

\* A restart, which leaves to boot's pass what is still pending.
LEMMA RestartKeeps == ASSUME TypeOK, NEW m \in Messages, RouteInv(m), Restart PROVE RouteInv(m)'
  <1>. USE DEF rows
  <1>1. UNCHANGED <<stored, decision, wake, handoffs>>
    BY DEF Restart
  <1>2. task'[Route(m)] = Idle
    BY CarriersDiffer DEF Restart
  <1>3. task'[Boot(m)] = IF decision[m] = "pending" THEN [Idle EXCEPT !.at = "waiting"] ELSE Idle
    BY CarriersDiffer DEF Restart
  <1>4. \A p \in Posts : task'[<<p, m>>] = IF At(<<p, m>>, "idle") THEN Idle ELSE Ended(<<p, m>>)
    BY CarriersDiffer DEF Restart
  <1>5. /\ task'[Route(m)].at = "idle" /\ task'[Boot(m)].at = (IF decision[m] = "pending" THEN "waiting" ELSE "idle")
        /\ task'[Route(m)].then = "deliver" /\ task'[Boot(m)].then = "deliver"
    BY <1>2, <1>3, Fields
  <1>6. \A p \in Posts : RequestTask(task'[<<p, m>>]) /\ task'[<<p, m>>].mode = task[<<p, m>>].mode
    <2>. SUFFICES ASSUME NEW p \in Posts
                  PROVE  RequestTask(task'[<<p, m>>]) /\ task'[<<p, m>>].mode = task[<<p, m>>].mode
      OBVIOUS
    <2>1. <<p, m>> \in Carriers
      BY CarriersDiffer
    <2>2. RequestTask(Ended(<<p, m>>)) /\ Ended(<<p, m>>).mode = task[<<p, m>>].mode
      BY <2>1, EndFields DEF RequestTask
    <2>3. At(<<p, m>>, "idle") => task[<<p, m>>].mode = "off"
      BY DEF RouteInv, PostsKeepMode, RequestTask, At
    <2>4. RequestTask(Idle) /\ Idle.mode = "off"
      BY Fields DEF RequestTask
    <2>. QED
      BY <1>4, <2>2, <2>3, <2>4
  <1>7. PostsKeepMode(m)' /\ DecisionWasAsked(m)' /\ (OneMode(m)' => OneMode(m))
    BY SMTT(30), <1>1, <1>6 DEF RouteInv, PostsKeepMode, DecisionWasAsked, OneMode, At
  <1>8. OneRouting(m)' /\ NotYet(m)' /\ PendingWhileCarried(m)' /\ LeftIsNotHanded(m)'
    BY <1>1, <1>5 DEF RouteInv, OneRouting, RoutingTask, BootTask, NotYet, PendingWhileCarried, LeftIsNotHanded, At
  <1>9. PendingWokeNone(m)'
    BY <1>1, <1>7 DEF RouteInv, PendingWokeNone
  <1>. QED
    BY <1>7, <1>8, <1>9 DEF RouteInv

\* A message is handed to each target once, and the decision model routes it or
\* the coordinator is woken, as long as its requests found the router in one
\* mode.
THEOREM RoutedOnceEach == Spec => []RoutedOnce
  <1>. DEFINE Inv == \A m \in Messages : RouteInv(m)
  <1>1. Init => Inv
    <2>. SUFFICES ASSUME Init, NEW m \in Messages PROVE RouteInv(m)
      OBVIOUS
    <2>1. \A d \in Carriers : task[d].at = "idle" /\ task[d].mode = "off" /\ task[d].then = "deliver"
      BY Fields DEF Init
    <2>2. /\ At(Route(m), "idle") /\ RoutingTask(task[Route(m)]) /\ At(Boot(m), "idle") /\ BootTask(task[Boot(m)])
          /\ \A p \in Posts : RequestTask(task[<<p, m>>])
      BY <2>1, CarriersDiffer DEF At, RoutingTask, BootTask, RequestTask
    <2>3. m \notin stored /\ decision[m] = "none" /\ wake[m].state = "none" /\ \A to \in Targets : handoffs[<<m, to>>] = 0
      BY DEF Init, NoWake
    <2>. QED
      BY <2>2, <2>3 DEF RouteInv, PostsKeepMode, OneRouting, NotYet, PendingWhileCarried, DecisionWasAsked,
                        LeftIsNotHanded, PendingWokeNone, At
  <1>2. TypeOK /\ Inv /\ [Next]_vars => Inv'
    <2>. SUFFICES ASSUME TypeOK, NEW m \in Messages, RouteInv(m), [Next]_vars PROVE RouteInv(m)'
      OBVIOUS
    <2>. USE DEF chat, rows, history, Free
    <2>1. ASSUME NEW c \in Carriers, Step(c) \/ Post(c) \/ StoreFails(c) PROVE RouteInv(m)'
      BY <2>1, AnyStep
    <2>2. CASE Restart
      BY <2>2, RestartKeeps
    <2>3. CASE Take \/ RecycleLook \/ Recycle \/ RecycleBusy \/ Remove \/ Pause \/ (\E to \in Modes : SetMode(to)) \/ UNCHANGED vars
      <3>1. UNCHANGED <<task, stored, decision, handoffs>>
        BY <2>3 DEF Take, RecycleLook, Recycle, RecycleBusy, Remove, Pause, SetMode, vars
      <3>2. wake'[m].state = wake[m].state \/ (wake[m].state = "queued" /\ wake'[m].state # "none")
        <4>1. wake[m] \in [state : {"none", "queued", "consumed", "dropped"}, session : Nat]
          BY DEF TypeOK
        <4>2. CASE Take \/ Remove
          BY <4>2 DEF Take, Remove, Over
        <4>3. CASE Recycle
          BY <4>1, <4>3 DEF Recycle
        <4>4. CASE RecycleLook \/ RecycleBusy \/ Pause \/ (\E to \in Modes : SetMode(to)) \/ UNCHANGED vars
          BY <4>4 DEF RecycleLook, RecycleBusy, Pause, SetMode, vars
        <4>. QED
          BY <2>3, <4>2, <4>3, <4>4
      <3>. QED
        BY <3>1, <3>2 DEF RouteInv, PostsKeepMode, OneRouting, NotYet, PendingWhileCarried, DecisionWasAsked,
                          LeftIsNotHanded, PendingWokeNone, OneMode, At
    <2>. QED
      BY <2>1, <2>2, <2>3 DEF Next
  <1>3. Inv => RoutedOnce
    BY DEF RouteInv, LeftIsNotHanded, PendingWokeNone, RoutedOnce
  <1>. QED
    BY <1>1, <1>2, <1>3, TypeCorrect, PTL DEF Spec
=============================================================================
