---------------------------- MODULE MCAgentJobs ------------------------------
(* AgentJobs on small instances, and what its runs check.                   *)
EXTENDS AgentJobs

Agent(every, first, chat) == [kind |-> "agent", every |-> every, first |-> first, chat |-> chat,
                              enabled |-> TRUE, item |-> NoItem]
Command(every, first) == [Agent(every, first, NoChat) EXCEPT !.kind = "command"]


TwoChats == {"home", "away"}

OneItem == {"item"}

Hourly  == Agent(2, 0, "home")
Early   == Agent(2, 1, "home")
Moved   == Agent(2, 0, "away")
AtOnce  == Agent(0, 1, "home")

Only(d) == [j \in JobIds |-> IF j = 1 THEN d ELSE NoJob]
Two(d, e) == [j \in JobIds |-> IF j = 1 THEN d ELSE e]

Setting(table, callKinds, nCalls, faultKinds, nFaults) ==
    [jobs |-> table, calls |-> [may |-> callKinds, left |-> nCalls],
     faults |-> [may |-> faultKinds, left |-> nFaults]]

\* What each behaviour starts with, and what may happen in it.
JobSettings ==
    { \* Two jobs share one command slot.
      Setting(Two(Hourly, Command(2, 1)), {}, 0, {"crash"}, 1),
      \* A job's fires, with a manual run or the job turned off among them.
      Setting(Only(Early), {"run", "disable"}, 1, {"crash", "disk", "refuse", "stop"}, 1),
      Setting(Only(Early), {"write", "unlink"}, 1, {"agent"}, 1),
      \* Its definition changes under a fire: moved, made a command, deleted.
      Setting(Only(AtOnce), {"save"}, 1, {"crash"}, 1),
      Setting(Only(Hourly), {"run", "command", "delete"}, 1, {"crash", "disk", "launch"}, 1),
      \* Its project is removed while it, or another, is saved.
      Setting(Only(Hourly), {"save", "retire"}, 2, {}, 0),
      \* An item asks for one.
      Setting(Only(NoJob), {"allow", "retire"}, 2, {"crash", "stop"}, 1),
      Setting(Only(NoJob), {"allow"}, 1, {"crash", "disk", "store"}, 2) }

Saves == {Moved, Command(2, 1)}

HourlyAsked == [i \in Items |-> [Hourly EXCEPT !.item = i]]

-----------------------------------------------------------------------------

\* At most one thread per fire: the tick, a manual run in the same second, and
\* hand-overs repeated after a crash, a shutdown or a failed write find it.
OneThreadPerFire ==
    \A m, n \in DOMAIN threads :
        threads[m].job = threads[n].job /\ threads[m].at = threads[n].at => m = n

\* The scheduled fire is a slot that is due and no later fire can be of: the
\* next slot moves past it in the write that records it.
SlotFiresOnce ==
    [][\A j \in JobIds :
         LET fire == state'[j].fire
         IN  fire.trigger = "schedule" /\ fire # state[j].fire =>
               /\ state[j].next <= fire.at /\ fire.at <= op.now
               /\ state'[j].next = 0 \/ state'[j].next > op.now]_vars

-----------------------------------------------------------------------------
Fairness ==
    /\ WF_vars(Ticks) /\ WF_vars(CallSteps) /\ WF_vars(stopped /\ Crash)
    /\ SF_vars(Boot \/ (\E j \in JobIds : Open(j)) \/ (\E t \in Tasks : TaskStep(t)))

LiveSpec == Spec /\ Fairness

FireIsAnswered ==
    \A j \in JobIds : (state[j].fire # NoFire) ~> (state[j].fire = NoFire \/ ~IsAgent(j))

AllowedIsSettled ==
    \A i \in Items : item[i] = "allowed" /\ faults.may \cap {"disk", "store"} = {} ~> item[i] # "allowed"
=============================================================================
