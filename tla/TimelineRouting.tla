---------------------------- MODULE TimelineRouting ----------------------------
(* The person's messages on a chat's timeline (chats/delivery.py), until each is somebody's: the     *)
(* coordinator's, by its wake; a project's or thread's, by the decision model's hand-offs; or no     *)
(* one's, which the timeline then says. A POST, the routing it starts and boot's pass over the       *)
(* routings a restart cut are carriers of the message, each a task between whose awaits another      *)
(* starts the coordinator, it is recycled or paused, the project removed, the router's mode changed. *)
EXTENDS Naturals

CONSTANTS Messages,  \* the messages the person posts, each with its client_id
          Targets,   \* whom a decision model may hand one to: projects, or a thread
          Choices,   \* sets of them a decision model may choose
          Modes,     \* the router's modes the person uses
          Budgets    \* how often each of Kinds happens: functions on Kinds, one chosen at the start

Kinds == {"retry", "restart", "refuse", "storefail", "switch", "recycle", "pause", "remove"}

ASSUME RoutingBounds == Budgets \subseteq [Kinds -> Nat] /\ Choices \subseteq SUBSET Targets
                        /\ Modes \subseteq {"off", "agent", "decision"}

Posts == {"post", "retry"}
Carriers == (Posts \cup {"route", "boot"}) \X Messages

VARIABLES mode,         \* the router's mode
          removed,      \* the chat's project was removed
          started,      \* coordinators started so far
          coordinator,  \* the one of them that is not retired; 0 when there is none
          paused,       \* it is paused
          recycling,    \* the chat's lock is held to recycle it
          stored,       \* messages stored, at most one for a client_id
          decision,     \* each message's router_decisions row
          wake,         \* each message's wake: its state and the coordinator it is for
          handoffs,     \* how often each message was handed to each target
          told,         \* messages the timeline says reached no one
          task,         \* each carrier: where it is, and what it has read
          late,         \* messages whose resume was over when the pause came, or was lost (history)
          missed,       \* a task of this server's life failed for good
          budget

sessions == <<started, coordinator, paused, recycling>>
chat == <<mode, removed, sessions>>
rows == <<stored, decision, wake, handoffs, told>>
history == <<late, missed>>
vars == <<chat, rows, task, history, budget>>

Idle == [at |-> "idle", then |-> "deliver", mode |-> "off", session |-> 0, again |-> FALSE, left |-> {}]
Done == [Idle EXCEPT !.at = "done"]
NoWake == [state |-> "none", session |-> 0]
Over(state) == [state |-> state, session |-> 0]

Places == {"idle", "store", "find", "look", "start", "deliver", "resume", "classify", "call", "ack", "settle", "say",
           "waiting", "done"}
Task == [at : Places, then : {"deliver", "call", "ack"}, mode : {"off", "agent", "decision"}, session : Nat,
         again : BOOLEAN, left : SUBSET Targets]

TypeOK ==
    /\ mode \in Modes /\ removed \in BOOLEAN /\ paused \in BOOLEAN /\ recycling \in BOOLEAN
    /\ started \in Nat /\ coordinator \in Nat
    /\ stored \subseteq Messages /\ told \subseteq Messages /\ late \subseteq Messages
    /\ decision \in [Messages -> {"none", "pending", "routed", "escalated"}]
    /\ wake \in [Messages -> [state : {"none", "queued", "consumed", "dropped"}, session : Nat]]
    /\ handoffs \in [Messages \X Targets -> Nat]
    /\ task \in [Carriers -> Task]
    /\ missed \in BOOLEAN /\ budget \in [Kinds -> Nat]

Init ==
    /\ mode \in Modes /\ removed = FALSE /\ started = 0 /\ coordinator = 0 /\ paused = FALSE /\ recycling = FALSE
    /\ stored = {} /\ told = {} /\ late = {} /\ missed = FALSE
    /\ decision = [m \in Messages |-> "none"] /\ wake = [m \in Messages |-> NoWake]
    /\ handoffs = [h \in Messages \X Targets |-> 0]
    /\ task = [c \in Carriers |-> Idle]
    /\ budget \in Budgets

Spend(kind) == budget[kind] > 0 /\ budget' = [budget EXCEPT ![kind] = @ - 1]
Free == UNCHANGED budget

At(c, place) == task[c].at = place
Go(c, place) == task' = [task EXCEPT ![c].at = place]
Ended(c) == [Done EXCEPT !.mode = task[c].mode]
End(c) == task' = [task EXCEPT ![c] = Ended(c)]

-----------------------------------------------------------------------------
(* A POST, first sent or sent again. *)

(* It reads the mode, and whether its client_id is known: of a stored message only the resume may be *)
(* missing.                                                                                          *)
Post(c) ==
    LET m == c[2]
    IN  /\ c[1] \in Posts /\ At(c, "idle") /\ ~removed
        /\ IF c[1] = "post" THEN Free ELSE ~At(<<"post", m>>, "idle") /\ Spend("retry")
        /\ task' = [task EXCEPT ![c] =
               IF m \in stored
               THEN IF wake[m].state = "queued"
                    THEN [Idle EXCEPT !.at = "resume", !.session = wake[m].session] ELSE Done
               ELSE IF mode = "off" THEN Done
               ELSE [Idle EXCEPT !.mode = mode, !.at = IF mode = "decision" THEN "store" ELSE "find"]]
        /\ UNCHANGED <<chat, rows, history>>

(* With a decision model: the message and its pending decision, unless an overlapping retry stored *)
(* it first; then its routing.                                                                     *)
StoreOverlapped(c) ==
    LET m == c[2]
    IN  /\ At(c, "store")
        /\ stored' = stored \cup {m}
        /\ decision' = [decision EXCEPT ![m] = "pending"]
        /\ task' = [task EXCEPT ![c] = Ended(c), ![<<"route", m>>] = [Idle EXCEPT !.at = "classify"]]
        /\ UNCHANGED <<chat, wake, handoffs, told, history, budget>>
Store(c) ==
    LET m == c[2]
    IN  /\ At(c, "store")
        /\ IF m \in stored
           THEN End(c) /\ UNCHANGED <<stored, decision>>
           ELSE /\ stored' = stored \cup {m}
                /\ decision' = [decision EXCEPT ![m] = "pending"]
                /\ task' = [task EXCEPT ![c] = Ended(c), ![<<"route", m>>] = [Idle EXCEPT !.at = "classify"]]
        /\ UNCHANGED <<chat, wake, handoffs, told, history, budget>>

-----------------------------------------------------------------------------
(* with_coordinator, for whichever carrier: under the chat's lock its coordinator is looked up, or   *)
(* started; then, out of it, it is given the message, or a call is made on its behalf.              *)

Locked(c) == task[c].at \in {"look", "start"}
Unlocked == ~recycling /\ \A c \in Carriers : ~Locked(c)

(* What to_coordinator raises ends a POST with an error; hand_over tells the person instead. What a  *)
(* call raises leaves the rest to the coordinator.                                                  *)
Fails(c) == IF c[1] \in Posts THEN End(c) ELSE Go(c, "say")
Refused(c) ==
    IF task[c].then = "deliver" THEN Fails(c)
    ELSE task' = [task EXCEPT ![c].at = "find", ![c].then = "deliver", ![c].left = {}]

(* The lock is taken, and the chat read again. *)
Find(c) ==
    /\ At(c, "find") /\ Unlocked /\ ~removed
    /\ Go(c, "look")
    /\ UNCHANGED <<chat, rows, history, budget>>

FindRefused(c) ==
    /\ At(c, "find") /\ Unlocked /\ removed
    /\ Refused(c)
    /\ UNCHANGED <<chat, rows, history, budget>>

(* The coordinator, in a read of its own. *)
Look(c) ==
    /\ At(c, "look")
    /\ task' = [task EXCEPT ![c].at = IF coordinator = 0 THEN "start" ELSE task[c].then, ![c].session = coordinator]
    /\ UNCHANGED <<chat, rows, history, budget>>

(* There is none: one starts, whatever became of the chat while its runtime was asked. *)
Start(c) ==
    /\ At(c, "start")
    /\ started' = started + 1 /\ coordinator' = started + 1
    /\ task' = [task EXCEPT ![c].at = task[c].then, ![c].session = started + 1]
    /\ UNCHANGED <<mode, removed, paused, recycling, rows, history, budget>>

StartRefused(c) ==
    /\ At(c, "start") /\ Spend("refuse")
    /\ Refused(c)
    /\ UNCHANGED <<chat, rows, history>>

(* A session is delivered to until it is retired itself: nothing asks after its chat. *)
Live(session) == session # 0 /\ session = coordinator

DeliverUnchecked(c) ==
    LET m == c[2]
    IN  /\ At(c, "deliver")
        /\ stored' = stored \cup {m}
        /\ decision' = IF c[1] \in Posts THEN decision ELSE [decision EXCEPT ![m] = "escalated"]
        /\ wake' = IF wake[m].state = "none"
                   THEN [wake EXCEPT ![m] = [state |-> "queued", session |-> task[c].session]] ELSE wake
        /\ Go(c, "resume")
        /\ UNCHANGED <<chat, handoffs, told, history, budget>>
Deliver(c) ==
    LET m == c[2]
    IN  /\ At(c, "deliver") /\ Live(task[c].session)
        /\ stored' = stored \cup {m}
        /\ decision' = IF c[1] \in Posts THEN decision ELSE [decision EXCEPT ![m] = "escalated"]
        /\ wake' = IF wake[m].state = "none"
                   THEN [wake EXCEPT ![m] = [state |-> "queued", session |-> task[c].session]] ELSE wake
        /\ Go(c, "resume")
        /\ UNCHANGED <<chat, handoffs, told, history, budget>>

(* Retired meanwhile: once more, with its successor. *)
DeliverRetired(c) ==
    /\ At(c, "deliver") /\ ~Live(task[c].session)
    /\ IF task[c].again THEN Fails(c) ELSE task' = [task EXCEPT ![c].at = "find", ![c].again = TRUE]
    /\ UNCHANGED <<chat, rows, history, budget>>

ResumeOfRetry(c) ==
    /\ At(c, "resume")
    /\ paused' = (paused /\ ~(c[1] = "retry" /\ task[c].session = coordinator))
    /\ End(c)
    /\ UNCHANGED <<mode, removed, started, coordinator, recycling, rows, history, budget>>
Resume(c) ==
    /\ At(c, "resume")
    /\ paused' = (paused /\ task[c].session # coordinator)
    /\ End(c)
    /\ UNCHANGED <<mode, removed, started, coordinator, recycling, rows, history, budget>>

(* hand_over, when the coordinator could not take it. *)
Say(c) ==
    LET m == c[2]
    IN  /\ At(c, "say")
        /\ decision' = [decision EXCEPT ![m] = "escalated"]
        /\ told' = told \cup {m}
        /\ End(c)
        /\ UNCHANGED <<chat, stored, wake, handoffs, history, budget>>

(* A write the store refuses: of to_coordinator and of a call it is raised there, of a task of its  *)
(* own it ends it.                                                                                  *)
StoreFails(c) ==
    /\ task[c].at \in {"store", "look", "start", "deliver", "resume", "settle", "say"} /\ Spend("storefail")
    /\ At(c, "resume") => paused /\ task[c].session = coordinator
    /\ IF task[c].at \in {"look", "start", "deliver", "resume"}
       THEN Refused(c) /\ UNCHANGED missed
       ELSE End(c) /\ missed' = (missed \/ ~At(c, "store"))
    /\ late' = IF At(c, "resume") THEN late \cup {c[2]} ELSE late
    /\ UNCHANGED <<chat, rows>>

-----------------------------------------------------------------------------
(* The routing by a decision model, under its pending decision. *)

(* What it chose; nothing when it abstained or failed. *)
Classify(c) ==
    /\ At(c, "classify")
    /\ \E chosen \in Choices :
          task' = [task EXCEPT ![c].at = "find", ![c].then = IF chosen = {} THEN "deliver" ELSE "call",
                               ![c].left = chosen]
    /\ UNCHANGED <<chat, rows, history, budget>>

(* One call on the coordinator's behalf, recycled or retired meanwhile or not; for the next one it is *)
(* looked up again.                                                                                  *)
HandOff(c, to) ==
    /\ At(c, "call") /\ to \in task[c].left
    /\ handoffs' = [handoffs EXCEPT ![<<c[2], to>>] = @ + 1]
    /\ task' = [task EXCEPT ![c].at = "find", ![c].then = IF task[c].left = {to} THEN "ack" ELSE "call",
                            ![c].session = 0, ![c].left = @ \ {to}]
    /\ UNCHANGED <<chat, stored, decision, wake, told, history, budget>>

(* Then the timeline says where the message went (a thread that starts says it in its own call). *)
Acknowledge(c) ==
    /\ At(c, "ack")
    /\ Go(c, "settle")
    /\ UNCHANGED <<chat, rows, history, budget>>

CallRefused(c) ==
    /\ At(c, "call") \/ At(c, "ack")
    /\ Spend("refuse")
    /\ Refused(c)
    /\ UNCHANGED <<chat, rows, history>>

Settle(c) ==
    /\ At(c, "settle")
    /\ decision' = [decision EXCEPT ![c[2]] = "routed"]
    /\ End(c)
    /\ UNCHANGED <<chat, stored, wake, handoffs, told, history, budget>>

-----------------------------------------------------------------------------
(* A restart ends every task; boot hands what was pending to the coordinator, one after the other.  *)
(* Its read comes first: the store serves one call at a time, in order.                             *)

Restart ==
    /\ Spend("restart")
    /\ task' = [c \in Carriers |->
          IF c[1] = "boot" /\ decision[c[2]] = "pending" THEN [Idle EXCEPT !.at = "waiting"]
          ELSE IF c[1] \in Posts /\ ~At(c, "idle") THEN Ended(c) ELSE Idle]
    /\ missed' = FALSE
    /\ late' = late \cup {c[2] : c \in {d \in Carriers : At(d, "resume")}}
    /\ recycling' = FALSE
    /\ UNCHANGED <<mode, removed, started, coordinator, paused, rows>>

RecoverFirst(c) ==
    /\ At(c, "waiting")
    /\ \A m \in Messages : task[<<"boot", m>>].at \in {"idle", "waiting"}
    /\ Go(c, "find")
    /\ UNCHANGED <<chat, rows, history, budget>>
Recover(c) ==
    /\ At(c, "waiting")
    /\ \A m \in Messages : task[<<"boot", m>>].at \in {"idle", "waiting", "done"}
    /\ Go(c, "find")
    /\ UNCHANGED <<chat, rows, history, budget>>

-----------------------------------------------------------------------------
(* The coordinator, the chat and the person. *)

(* It takes what waits for it in an input. *)
Take ==
    /\ ~paused
    /\ \E m \in Messages : wake[m].state = "queued" /\ Live(wake[m].session)
    /\ wake' = [m \in Messages |-> IF wake[m].state = "queued" /\ Live(wake[m].session)
                                   THEN Over("consumed") ELSE wake[m]]
    /\ UNCHANGED <<chat, stored, decision, handoffs, told, task, history, budget>>

(* Due, between two inputs and not paused: its successor is built under the chat's lock ... *)
RecycleLook ==
    /\ Unlocked /\ coordinator # 0 /\ ~paused /\ Spend("recycle")
    /\ recycling' = TRUE
    /\ UNCHANGED <<mode, removed, started, coordinator, paused, rows, task, history>>

(* ... and takes its place and what waits for it, unless it was retired. Its pause is not looked at *)
(* again.                                                                                           *)
Recycle ==
    /\ recycling /\ coordinator # 0
    /\ recycling' = FALSE
    /\ started' = started + 1 /\ coordinator' = started + 1 /\ paused' = FALSE
    /\ wake' = [m \in Messages |->
          IF wake[m].state = "queued" /\ Live(wake[m].session) THEN [wake[m] EXCEPT !.session = started + 1] ELSE wake[m]]
    /\ UNCHANGED <<mode, removed, stored, decision, handoffs, told, task, history, budget>>

(* The successor can't start, or the coordinator took an input or was retired. *)
RecycleBusy ==
    /\ recycling
    /\ recycling' = FALSE
    /\ UNCHANGED <<mode, removed, started, coordinator, paused, rows, task, history, budget>>

(* The loop breaker pauses it. *)
Pause ==
    /\ coordinator # 0 /\ ~paused /\ Spend("pause")
    /\ paused' = TRUE
    /\ late' = {m \in Messages : wake[m].state = "queued" /\
                   \A c \in Carriers : ~(c[2] = m /\ At(c, "resume") /\ task[c].session = coordinator)}
    /\ UNCHANGED <<mode, removed, started, coordinator, recycling, rows, task, missed>>

(* The project is removed, without the lock: its chat is retired, and the coordinator there is, with *)
(* what waits for it dropped.                                                                        *)
Remove ==
    /\ ~removed /\ Spend("remove")
    /\ removed' = TRUE /\ coordinator' = 0 /\ paused' = FALSE
    /\ wake' = [m \in Messages |->
          IF wake[m].state = "queued" /\ Live(wake[m].session) THEN Over("dropped") ELSE wake[m]]
    /\ UNCHANGED <<mode, started, recycling, stored, decision, handoffs, told, task, history>>

SetMode(to) ==
    /\ to \in Modes /\ to # mode /\ Spend("switch")
    /\ mode' = to
    /\ UNCHANGED <<removed, sessions, rows, task, history>>

-----------------------------------------------------------------------------

Step(c) ==
    \/ Store(c) \/ Find(c) \/ FindRefused(c) \/ Look(c) \/ Start(c) \/ StartRefused(c)
    \/ Deliver(c) \/ DeliverRetired(c) \/ Resume(c) \/ Say(c)
    \/ Classify(c) \/ (\E to \in Targets : HandOff(c, to)) \/ Acknowledge(c) \/ CallRefused(c) \/ Settle(c)
    \/ Recover(c)

Next ==
    \/ \E c \in Carriers : Post(c) \/ Step(c) \/ StoreFails(c)
    \/ Take \/ RecycleLook \/ Recycle \/ RecycleBusy \/ Pause \/ Remove \/ Restart
    \/ \E to \in Modes : SetMode(to)

Spec == Init /\ [][Next]_vars

(* While a task can go on some task does, and each ends; a successor starts or fails to; a           *)
(* coordinator that is not paused takes what waits (StormSession).                                   *)
Fairness ==
    WF_vars(Take) /\ WF_vars(Recycle \/ RecycleBusy) /\ WF_vars(\E c \in Carriers : Step(c))

LiveSpec == Spec /\ Fairness

-----------------------------------------------------------------------------

(* A message is handed to each target once, and either routed by the decision model or handed over *)
(* to the coordinator, whatever a retry, a restart or a recycle comes between; as long as all its   *)
(* requests found the router in one mode.                                                           *)
OneMode(m) == \A p, q \in Posts : ~(task[<<p, m>>].mode = "agent" /\ task[<<q, m>>].mode = "decision")

RoutedOnce ==
    \A m \in Messages : OneMode(m) =>
        /\ \A to \in Targets : handoffs[<<m, to>>] <= 1
        /\ wake[m].state # "none" => decision[m] \in {"none", "escalated"}

(* A decision that left the message to the coordinator put it there, or the timeline says it is no *)
(* one's: settled and woken are one transaction.                                                   *)
EscalatedIsSomeones ==
    \A m \in Messages : decision[m] = "escalated" => wake[m].state # "none" \/ m \in told

(* What waits, waits for a coordinator that is not retired: a recycle takes every wake along, a       *)
(* removal drops them, and a delivery that looked before either does not land behind it. (One that   *)
(* was starting when its project was removed is not retired: what it is given, it runs.)             *)
QueuedIsLive == \A m \in Messages : wake[m].state = "queued" => Live(wake[m].session)

(* A message lifts the pause of its coordinator: none waits for a paused one, but those the pause    *)
(* found waiting, unless the resume is still to come or was lost with its task (a retry resumes).    *)
MessageLiftsPause ==
    \A m \in Messages : paused /\ wake[m].state = "queued" =>
        \/ m \in late
        \/ \E c \in Carriers : c[2] = m /\ At(c, "resume")

(* Every stored message is somebody's in the end, across restarts: consumed by a coordinator, routed, *)
(* said to have reached no one, or dropped with its project; unless it waits for a paused coordinator, *)
(* or the store failed its task in this life of the server.                                           *)
EveryMessageIsSomeones ==
    \A m \in Messages :
        m \in stored ~> \/ wake[m].state \in {"consumed", "dropped"} \/ decision[m] = "routed" \/ m \in told
                        \/ paused \/ missed
=============================================================================
