------------------------ MODULE StormSession_proofs -------------------------
(***************************************************************************)
(* What is proved of StormSession, for every set of wakes, every bound and *)
(* every set of faults: its types, that nothing a session does leaves a    *)
(* wake behind or brings one back, and that it implements WakeQueue.       *)
(***************************************************************************)
EXTENDS StormSession, TLAPS

-----------------------------------------------------------------------------
(***************************************************************************)
(* The transactions of the store.                                          *)
(***************************************************************************)

\* A turn's number is one a wake, a process or the engine can name.
LEMMA TurnIsId == Turns \subseteq TurnIds
  BY StoreAssumption DEF Turns, TurnIds

\* So is the name of no turn.
LEMMA NoTurnIsId == NoTurn \in TurnIds
  BY StoreAssumption DEF NoTurn, TurnIds

\* What hand_back returns is again a wakes table: the redelivery count stays
\* within its bound.
LEMMA HandBackType ==
    ASSUME NEW wk \in [Wakes -> WakeRow], NEW t \in Turns, NEW counts \in BOOLEAN, NEW ret \in BOOLEAN
    PROVE  HandBack(wk, t, counts, ret) \in [Wakes -> WakeRow]
  BY StoreAssumption DEF HandBack, TakenBy, Requeue, WakeRow, WakeStates, TurnIds, NoTurn

\* The same of handing back the wakes of several turns.
LEMMA HandBackAllType ==
    ASSUME NEW wk \in [Wakes -> WakeRow], NEW ts \in SUBSET Turns, NEW ret \in BOOLEAN
    PROVE  HandBackAll(wk, ts, ret) \in [Wakes -> WakeRow]
  <1>1. ASSUME NEW w \in Wakes, wk[w].turn \in ts PROVE HandBack(wk, wk[w].turn, FALSE, ret)[w] \in WakeRow
    BY <1>1, HandBackType
  <1>. QED
    BY <1>1 DEF HandBackAll

\* The same of what the end of a turn does with its wakes.
LEMMA SettleType ==
    ASSUME NEW wk \in [Wakes -> WakeRow], NEW t \in Turns, NEW fate \in Fates, NEW ret \in BOOLEAN
    PROVE  Settle(wk, t, fate, ret) \in [Wakes -> WakeRow]
  <1>1. Consume(wk, t) \in [Wakes -> WakeRow]
    BY DEF Consume, WakeRow, WakeStates
  <1>. QED
    BY <1>1, HandBackType DEF Settle

\* The same of take_wakes, whether the turn still runs or is over.
LEMMA TakeWakesType ==
    ASSUME NEW wk \in [Wakes -> WakeRow], NEW ws \in SUBSET Wakes, NEW t \in Turns, NEW st \in TurnStates,
           NEW last \in [turn : TurnIds, fate : Fates], NEW ret \in BOOLEAN
    PROVE  TakeWakes(wk, ws, t, st, last, ret) \in [Wakes -> WakeRow]
  <1>1. ASSUME NEW s \in WakeStates PROVE Hand(wk, ws, t, s) \in [Wakes -> WakeRow]
    <2>1. \A w \in Wakes : [wk[w] EXCEPT !.state = s, !.turn = t] \in WakeRow
      BY TurnIsId DEF WakeRow
    <2>. QED
      BY <2>1 DEF Hand
  <1>. QED
    BY <1>1, HandBackType DEF TakeWakes, WakeStates

\* Dropping, moving and queueing wakes keep the table's type.
LEMMA WakeEditsType ==
    ASSUME NEW wk \in [Wakes -> WakeRow], NEW ws \in SUBSET Wakes
    PROVE  /\ Drop(wk, ws) \in [Wakes -> WakeRow]
           /\ MoveQueued(wk) \in [Wakes -> WakeRow]
           /\ \A w \in Wakes : [wk EXCEPT ![w] = Enqueue(@)] \in [Wakes -> WakeRow]
  BY DEF Drop, MoveQueued, Enqueue, WakeRow, WakeStates

\* The turns table keeps its type: a turn that is recorded, ended, interrupted.
LEMMA TurnEditsType ==
    ASSUME NEW tn \in [Turns -> TurnRow], NEW t \in Turns, NEW e \in Nat, NEW st \in TurnStates
    PROVE  /\ EnsureTurn(tn, t, e) \in [Turns -> TurnRow]
           /\ EndTurn(tn, t, st) \in [Turns -> TurnRow]
           /\ InterruptRunning(tn) \in [Turns -> TurnRow]
  BY DEF EnsureTurn, EndTurn, InterruptRunning, Running, TurnRow, TurnStates

\* What the end of a turn may do with its wakes and record of it.
LEMMA OutcomeType ==
    ASSUME NEW end \in Ends \cup {"none"}, NEW reason \in BOOLEAN
    PROVE  Outcome(end, reason) \in [status : TurnStates, fate : Fates]
  BY DEF Outcome, Ends, TurnStates, Fates

-----------------------------------------------------------------------------
(***************************************************************************)
(* The engine's object for a process, and the process.                     *)
(***************************************************************************)

\* Every change of a LiveSession that the engine makes yields a LiveSession.
LEMMA LiveEdits ==
    ASSUME NEW l \in LiveType
    PROVE  /\ EndInput(l) \in LiveType /\ Abandoned(l) \in LiveType /\ Closed(l) \in LiveType
           /\ \A t \in TurnIds : BeginTurn(l, t) \in LiveType
           /\ [l EXCEPT !.reason = TRUE] \in LiveType
           /\ [l EXCEPT !.reg = FALSE] \in LiveType
           /\ [l EXCEPT !.reg = FALSE, !.closed = TRUE] \in LiveType
           /\ [l EXCEPT !.closed = TRUE] \in LiveType
           /\ [l EXCEPT !.starting = FALSE] \in LiveType
           /\ [l EXCEPT !.took = TRUE] \in LiveType
           /\ [l EXCEPT !.input = "open"] \in LiveType
           /\ \A b \in BOOLEAN : [l EXCEPT !.dying = b] \in LiveType
  BY NoTurnIsId DEF LiveType, EndInput, Abandoned, Closed, BeginTurn, Inputs

\* A turn that has ended is remembered with what it did to its wakes.
LEMMA LiveTurnEnded ==
    ASSUME NEW l \in LiveType, NEW t \in TurnIds, NEW f \in Fates, NEW b \in BOOLEAN
    PROVE  [l EXCEPT !.turn = NoTurn, !.input = "resulted", !.last = [turn |-> t, fate |-> f],
                     !.backed = @ \/ b] \in LiveType
  BY NoTurnIsId DEF LiveType, Inputs

\* The objects a session starts with.
LEMMA LiveStarts == NoLive \in LiveType /\ \A e \in Nat : Opening(e) \in LiveType
  BY NoTurnIsId DEF NoLive, Opening, LiveType, NoEnd, Fates, Inputs

\* The status shown is always one of the schema's.
LEMMA StatusOfType == \A l : StatusOf(l) \in Statuses
  BY DEF StatusOf, Statuses

\* Every change of a process yields a process.
LEMMA CliEdits ==
    ASSUME NEW c \in CliType
    PROVE  /\ NoCli \in CliType /\ CloseAsked(c) \in CliType
           /\ \A s \in CliStates : [c EXCEPT !.state = s] \in CliType
           /\ \A q \in Seq(Events) : [c EXCEPT !.q = q] \in CliType
           /\ \A i \in BOOLEAN : [c EXCEPT !.idle = i] \in CliType
           /\ \A i \in BOOLEAN, q \in Seq(Events) : [c EXCEPT !.idle = i, !.q = q] \in CliType
           /\ \A t \in TurnIds, i \in BOOLEAN, q \in Seq(Events) :
                 [c EXCEPT !.turn = t, !.idle = i, !.q = q] \in CliType
           /\ \A s \in CliStates, t \in TurnIds, q \in Seq(Events) :
                 [c EXCEPT !.state = s, !.turn = t, !.q = q] \in CliType
           /\ \A s \in CliStates, e \in Nat : [c EXCEPT !.state = s, !.epoch = e] \in CliType
  <1>1. NoCli \in CliType
    BY NoTurnIsId DEF CliType, CliStates, NoCli
  <1>2. CloseAsked(c) \in CliType
    BY DEF CliType, CliStates, CloseAsked
  <1>. QED
    BY <1>1, <1>2 DEF CliType

\* What the pump reads next: an event, and for one of a turn that turn.
LEMMA HeadType ==
    ASSUME cli \in CliType, cli.q # <<>>
    PROVE  /\ Popped \in CliType
           /\ Head(cli.q).kind \in {"started", "finished"} => Head(cli.q).turn \in Turns
  <1>1. Head(cli.q) \in Events /\ Tail(cli.q) \in Seq(Events)
    BY DEF CliType
  <1>2. Popped \in CliType
    BY <1>1, CliEdits DEF Popped
  <1>3. Head(cli.q).kind \in {"started", "finished"} => Head(cli.q).turn \in Turns
    BY <1>1 DEF Events
  <1>. QED
    BY <1>2, <1>3

\* What a CLI says is an event.
LEMMA EmitType ==
    ASSUME cli \in CliType
    PROVE  /\ \A t \in Turns : /\ Emit([kind |-> "started", turn |-> t]) \in Seq(Events)
                               /\ Emit([kind |-> "finished", turn |-> t]) \in Seq(Events)
           /\ Emit([kind |-> "idle", turn |-> NoTurn]) \in Seq(Events)
           /\ LastEvents \in Seq(Events)
  <1>1. cli.q \in Seq(Events)
    BY DEF CliType
  <1>2. \A e \in Events : Emit(e) \in Seq(Events)
    BY <1>1 DEF Emit
  <1>3. \A t \in Turns, k \in {"started", "finished"} : [kind |-> k, turn |-> t] \in Events
    BY DEF Events
  <1>4. \A k \in {"idle", "closed"} : [kind |-> k, turn |-> NoTurn] \in Events
    BY DEF Events
  <1>5. cli.turn # NoTurn => cli.turn \in Turns
    BY StoreAssumption DEF CliType, TurnIds, Turns, NoTurn
  <1>. DEFINE open == IF cli.turn # NoTurn THEN Append(cli.q, [kind |-> "finished", turn |-> cli.turn]) ELSE cli.q
              end  == [kind |-> "closed", turn |-> NoTurn]
  <1>6. open \in Seq(Events) /\ end \in Events
    <2>1. cli.turn # NoTurn => [kind |-> "finished", turn |-> cli.turn] \in Events
      BY <1>3, <1>5
    <2>2. \A q \in Seq(Events), e \in Events : Append(q, e) \in Seq(Events)
      OBVIOUS
    <2>. QED
      BY <1>1, <1>4, <2>1, <2>2
  <1>7. \A q \in Seq(Events), e \in Events : q \o <<e>> \in Seq(Events)
    OBVIOUS
  <1>8. LastEvents \in Seq(Events)
    BY <1>6, <1>7 DEF LastEvents
  <1>. QED
    BY <1>2, <1>3, <1>4, <1>8

-----------------------------------------------------------------------------
(***************************************************************************)
(* Types.                                                                  *)
(***************************************************************************)

\* A bounded number of faults stays a bounded number.
LEMMA SpendType ==
    ASSUME budget \in 0 .. MaxFaults, NEW kind, Spend(kind) \/ Free
    PROVE  budget' \in 0 .. MaxFaults
  BY SessionAssumption DEF Spend, Free

\* The initial state is well typed.
LEMMA InitType == ASSUME Init PROVE TypeOK
  <1>1. NoWake \in WakeRow /\ NoRow \in TurnRow
    BY StoreAssumption, NoTurnIsId DEF NoWake, NoRow, WakeRow, TurnRow, WakeStates, TurnStates
  <1>2. NoLive \in LiveType
    BY LiveStarts
  <1>3. NoAdm \in AdmType /\ NoAdm.pc = "none"
    BY NoTurnIsId DEF NoAdm, AdmType, AdmStates
  <1>4. NoCli \in CliType
    BY NoTurnIsId DEF NoCli, CliType, CliStates
  <1>5. nextTurn \in 1 .. MaxTurns + 1 /\ budget \in 0 .. MaxFaults
    BY StoreAssumption, SessionAssumption DEF Init
  <1>. QED
    BY <1>1, <1>2, <1>3, <1>4, <1>5 DEF Init, TypeOK, Statuses

\* The calls of the API keep the types.
LEMMA ApiType == ASSUME TypeOK, Api PROVE TypeOK'
  <1>1. ASSUME NEW w \in Wakes, Deliver(w) PROVE TypeOK'
    <2>1. wake' \in [Wakes -> WakeRow]
      BY <1>1, WakeEditsType DEF Deliver, TypeOK
    <2>. QED
      BY <1>1, <2>1 DEF Deliver, TypeOK, rows, gates, world
  <1>2. CASE Pause
    BY <1>2, SpendType DEF Pause, TypeOK, gates, world
  <1>3. CASE Resume
    BY <1>3 DEF Resume, TypeOK, gates, world
  <1>4. CASE Retire
    <2>1. wake' \in [Wakes -> WakeRow]
      BY <1>4, WakeEditsType DEF Retire, TypeOK
    <2>. QED
      BY <1>4, <2>1, SpendType DEF Retire, TypeOK, gates, world
  <1>. QED
    BY <1>1, <1>2, <1>3, <1>4 DEF Api

\* The facts every step of the admission task, the process or the pump uses.
LEMMA Parts ==
    ASSUME TypeOK
    PROVE  /\ live \in LiveType /\ live.epoch \in Nat /\ live.turn \in TurnIds /\ live.reason \in BOOLEAN
           /\ live.last \in [turn : TurnIds, fate : Fates]
           /\ epoch \in Nat /\ status \in Statuses
           /\ adm \in AdmType /\ adm.ws \in SUBSET Wakes /\ adm.turn \in TurnIds
           /\ cli \in CliType /\ cli.epoch \in Nat /\ cli.turn \in TurnIds
           /\ cli.turn # NoTurn => cli.turn \in Turns
  <1>1. live \in LiveType /\ adm \in AdmType /\ cli \in CliType /\ epoch \in Nat /\ status \in Statuses
    BY DEF TypeOK
  <1>2. cli.turn \in TurnIds
    BY <1>1 DEF CliType
  <1>3. cli.turn # NoTurn => cli.turn \in Turns
    BY <1>2, StoreAssumption DEF TurnIds, Turns, NoTurn
  <1>. QED
    BY <1>1, <1>2, <1>3 DEF LiveType, AdmType, CliType

\* The admission task's own record.
LEMMA AdmEdits ==
    ASSUME TypeOK
    PROVE  /\ \A pc \in AdmStates : Go(pc) => adm' \in AdmType /\ adm'.pc = pc /\ adm'.turn = adm.turn
           /\ \A pc \in AdmStates, ws \in SUBSET Wakes :
                 adm' = [adm EXCEPT !.pc = pc, !.ws = ws] => adm' \in AdmType /\ adm'.pc = pc
           /\ Admitted => adm' \in AdmType /\ adm'.pc = "none" /\ kicked' \in BOOLEAN
  <1>1. adm \in AdmType
    BY DEF TypeOK
  <1>2. \A pc \in AdmStates : Go(pc) => adm' \in AdmType /\ adm'.pc = pc /\ adm'.turn = adm.turn
    BY <1>1 DEF AdmType, Go
  <1>3. \A pc \in AdmStates, ws \in SUBSET Wakes :
           adm' = [adm EXCEPT !.pc = pc, !.ws = ws] => adm' \in AdmType /\ adm'.pc = pc
    BY <1>1 DEF AdmType
  <1>4. Admitted => adm' \in AdmType /\ adm'.pc = "none"
    BY NoTurnIsId DEF AdmType, AdmStates, Admitted, NoAdm
  <1>5. Admitted => kicked' \in BOOLEAN
    BY DEF Admitted
  <1>. QED
    BY <1>2, <1>3, <1>4, <1>5

\* A write that was not made leaves an abandoned process and one that is told
\* to end.
LEMMA UnrecordedType ==
    ASSUME TypeOK, NEW l \in LiveType, NEW c \in CliType, Unrecorded(l, c)
    PROVE  live' \in LiveType /\ cli' \in CliType /\ storeFailed' \in BOOLEAN /\ budget' \in 0 .. MaxFaults
  <1>1. live' \in LiveType /\ cli' \in CliType
    BY LiveEdits, CliEdits DEF Unrecorded
  <1>2. storeFailed' \in BOOLEAN /\ budget' \in 0 .. MaxFaults
    BY SpendType DEF Unrecorded, TypeOK
  <1>. QED
    BY <1>1, <1>2

\* Backing off, counting a failed start and holding for the person keep the
\* gate's types.
LEMMA GateType ==
    ASSUME TypeOK,
           RetryLater \/ StartFailed \/ HoldForPerson \/ FailedAlone(live) \/ UNCHANGED <<backoff, starts>>
    PROVE  backoff' \in {"none", "wait", "hold"} /\ starts' \in Nat
  BY DEF TypeOK, RetryLater, StartFailed, HoldForPerson, FailedAlone

\* The admission pass and the attach keep the types.
LEMMA AttachType ==
    ASSUME TypeOK,
           \/ PassRead \/ PassAct \/ AttachBump \/ Open \/ AttachWrite \/ AttachWriteFails \/ AttachClosed
           \/ \E retryable, recorded \in BOOLEAN : OpenFails(retryable, recorded)
    PROVE  TypeOK'
  <1>1. CASE PassRead
    BY <1>1 DEF PassRead, Wanted, TypeOK, rows, gates, world
  <1>2. CASE PassAct
    <2>1. live' \in LiveType /\ cli' \in CliType
      BY <1>2, Parts, LiveEdits, CliEdits DEF PassAct, ClosesIdle, CliStates
    <2>2. adm' \in AdmType /\ (adm'.pc \in {"accepted", "take"} => adm'.turn \in Turns)
      BY <1>2, AdmEdits DEF PassAct, AdmStates, TypeOK
    <2>3. status' \in Statuses
      BY <1>2, Parts DEF PassAct, TypeOK, Statuses
    <2>. QED
      BY <1>2, <2>1, <2>2, <2>3 DEF PassAct, TypeOK, gates
  <1>3. CASE AttachBump
    <2>1. live' \in LiveType /\ epoch' \in Nat /\ status' \in Statuses
      <3>1. CASE retired
        BY <1>3, <3>1, Parts DEF AttachBump
      <3>2. CASE ~retired
        <4>1. epoch' = epoch + 1 /\ status' = "starting" /\ live' = Opening(epoch + 1)
          BY <1>3, <3>2 DEF AttachBump
        <4>. QED
          BY <4>1, Parts, LiveStarts DEF Statuses
      <3>. QED
        BY <3>1, <3>2
    <2>2. adm' \in AdmType /\ adm'.pc \in {"none", "opening"} /\ kicked' \in BOOLEAN
      BY <1>3, AdmEdits DEF AttachBump, AdmStates, TypeOK
    <2>3. UNCHANGED <<wake, turn, paused, retired, pool, up, gates, look, world, budget>>
      BY <1>3 DEF AttachBump
    <2>. QED
      BY <2>1, <2>2, <2>3 DEF TypeOK, gates, world
  <1>4. CASE Open
    <2>1. cli' \in CliType
      BY <1>4, Parts, CliEdits DEF Open, CliStates
    <2>2. adm' \in AdmType /\ adm'.pc = "opened"
      BY <1>4, AdmEdits DEF Open, AdmStates
    <2>3. orphans' \in SUBSET Nat
      BY <1>4, Parts DEF Open, TypeOK
    <2>4. UNCHANGED <<rows, up, live, gates, kicked, look, nextTurn, got, how, budget>>
      BY <1>4 DEF Open
    <2>. QED
      BY <2>1, <2>2, <2>3, <2>4 DEF TypeOK, rows, gates
  <1>5. CASE AttachWrite
    <2>1. live' \in LiveType /\ status' \in Statuses
      BY <1>5, Parts, LiveEdits, StatusOfType DEF AttachWrite
    <2>2. adm' \in AdmType /\ adm'.pc = "look"
      BY <1>5, AdmEdits DEF AttachWrite, AdmStates
    <2>. QED
      BY <1>5, <2>1, <2>2 DEF AttachWrite, TypeOK, gates, world
  <1>6. CASE AttachWriteFails
    <2>1. live' \in LiveType /\ cli' \in CliType
      BY <1>6, Parts, LiveEdits, CliEdits DEF AttachWriteFails, CliStates
    <2>2. adm' \in AdmType /\ adm'.pc = "closing"
      BY <1>6, AdmEdits DEF AttachWriteFails, AdmStates
    <2>3. budget' \in 0 .. MaxFaults
      BY <1>6, SpendType DEF AttachWriteFails, TypeOK
    <2>. QED
      BY <1>6, <2>1, <2>2, <2>3 DEF AttachWriteFails, TypeOK, rows, gates
  <1>7. CASE AttachClosed
    <2>1. live' \in LiveType /\ status' \in Statuses
      BY <1>7, Parts, LiveEdits DEF AttachClosed, TypeOK, Statuses
    <2>2. backoff' \in {"none", "wait", "hold"} /\ starts' \in Nat
      BY <1>7, GateType DEF AttachClosed
    <2>3. adm' \in AdmType /\ adm'.pc = "none" /\ kicked' \in BOOLEAN
      BY <1>7, AdmEdits DEF AttachClosed
    <2>4. UNCHANGED <<wake, turn, epoch, paused, retired, pool, up, storeFailed, survivor, recheck, look, world, budget>>
      BY <1>7 DEF AttachClosed
    <2>. QED
      BY <2>1, <2>2, <2>3, <2>4 DEF TypeOK, world
  <1>8. ASSUME NEW retryable \in BOOLEAN, NEW recorded \in BOOLEAN, OpenFails(retryable, recorded) PROVE TypeOK'
    <2>1. live' \in LiveType /\ status' \in Statuses
      BY <1>8, Parts, LiveEdits DEF OpenFails, TypeOK, Statuses
    <2>2. backoff' \in {"none", "wait", "hold"} /\ starts' \in Nat
      BY <1>8, GateType DEF OpenFails
    <2>3. budget' \in 0 .. MaxFaults
      BY <1>8, SpendType DEF OpenFails, TypeOK
    <2>4. adm' \in AdmType /\ adm'.pc = "none" /\ kicked' \in BOOLEAN
      BY <1>8, AdmEdits DEF OpenFails
    <2>5. UNCHANGED <<wake, turn, epoch, paused, retired, pool, up, storeFailed, survivor, recheck, look, world>>
      BY <1>8 DEF OpenFails
    <2>. QED
      BY <2>1, <2>2, <2>3, <2>4, <2>5 DEF TypeOK, world
  <1>. QED
    BY <1>1, <1>2, <1>3, <1>4, <1>5, <1>6, <1>7, <1>8


\* What a look at the queue may send.
LEMMA QueuedType == Queued(wake) \in SUBSET Wakes
  BY DEF Queued

\* The take keeps the tables' types, whether its turn still runs or is over.
LEMMA TookType ==
    ASSUME TypeOK, adm.pc = "take", Took
    PROVE  wake' \in [Wakes -> WakeRow] /\ turn' \in [Turns -> TurnRow] /\ status' \in Statuses
  <1>1. adm.turn \in Turns /\ wake \in [Wakes -> WakeRow] /\ turn \in [Turns -> TurnRow] /\ retired \in BOOLEAN
    BY DEF TypeOK
  <1>2. turn' \in [Turns -> TurnRow]
    BY <1>1, Parts, TurnEditsType DEF Took, TurnStates
  <1>3. turn'[adm.turn].status \in TurnStates
    BY <1>1, <1>2 DEF TurnRow
  <1>4. wake' \in [Wakes -> WakeRow]
    BY <1>1, <1>3, Parts, TakeWakesType DEF Took
  <1>. QED
    BY <1>2, <1>4, StatusOfType DEF Took

\* A send that reached nobody ends the input.
LEMMA UnopenedType ==
    ASSUME TypeOK, Unopened
    PROVE  live' \in LiveType /\ status' \in Statuses
  <1>1. live' \in LiveType
    BY Parts, LiveEdits DEF Unopened
  <1>. QED
    BY <1>1, Parts, StatusOfType DEF Unopened

\* What each failure of a send does to the gates, the wakes and the pool.
LEMMA GaveUpType ==
    ASSUME TypeOK, NEW code, GaveUp(code)
    PROVE  /\ wake' \in [Wakes -> WakeRow] /\ pool' \in {"open", "closed"} /\ adm' \in AdmType /\ adm'.pc = "none"
           /\ kicked' \in BOOLEAN /\ backoff' \in {"none", "wait", "hold"} /\ starts' \in Nat
           /\ UNCHANGED <<turn, epoch, paused, retired, up, survivor, recheck, look, orphans, nextTurn, got, how>>
  <1>1. wake' \in [Wakes -> WakeRow]
    BY Parts, WakeEditsType DEF GaveUp, TypeOK
  <1>2. backoff' \in {"none", "wait", "hold"} /\ starts' \in Nat
    <2>1. RetryLater \/ HoldForPerson \/ UNCHANGED <<backoff, starts>>
      BY DEF GaveUp
    <2>. QED
      BY <2>1, GateType
  <1>3. pool' \in {"open", "closed"}
    BY DEF GaveUp, TypeOK
  <1>4. adm' \in AdmType /\ adm'.pc = "none" /\ kicked' \in BOOLEAN
    BY AdmEdits DEF GaveUp
  <1>5. UNCHANGED <<turn, epoch, paused, retired, up, survivor, recheck, look, orphans, nextTurn, got, how>>
    BY DEF GaveUp
  <1>. QED
    BY <1>1, <1>2, <1>3, <1>4, <1>5

\* Looking, sending and taking keep the types.
LEMMA SendType ==
    ASSUME TypeOK,
           \/ Look \/ Send \/ SendReturn \/ Take \/ TakeStale \/ TakeFails \/ SendFindsDead
           \/ \E code \in SendErrors : SendFails(code)
           \/ \E code \in SendErrors \cup {"process_died"} : SendFailsUnrecorded(code)
    PROVE  TypeOK'
  <1>1. CASE Look
    <2>1. adm' \in AdmType /\ adm'.pc \in {"none", "ready"}
      BY <1>1, AdmEdits, QueuedType DEF Look, AdmStates
    <2>2. kicked' \in BOOLEAN
      BY <1>1, AdmEdits DEF Look, TypeOK
    <2>3. UNCHANGED <<rows, up, live, gates, look, world, budget>>
      BY <1>1 DEF Look
    <2>. QED
      BY <2>1, <2>2, <2>3 DEF TypeOK, rows, gates, world
  <1>2. CASE Send
    <2>1. live' \in LiveType
      BY <1>2, Parts, LiveEdits DEF Send
    <2>2. adm' \in AdmType /\ adm'.pc \in {"none", "sending"}
      BY <1>2, AdmEdits DEF Send, AdmStates
    <2>3. kicked' \in BOOLEAN
      BY <1>2, AdmEdits DEF Send, TypeOK
    <2>4. UNCHANGED <<rows, up, gates, look, world, budget>>
      BY <1>2 DEF Send
    <2>. QED
      BY <2>1, <2>2, <2>3, <2>4 DEF TypeOK, rows, gates, world
  <1>3. CASE SendReturn
    <2>1. live' \in LiveType
      BY <1>3, Parts, LiveEdits DEF SendReturn
    <2>2. adm' \in AdmType /\ adm'.turn \in Turns
      BY <1>3, AdmEdits DEF SendReturn, AdmStates, TypeOK
    <2>3. UNCHANGED <<rows, up, gates, kicked, look, world, budget>>
      BY <1>3 DEF SendReturn
    <2>. QED
      BY <2>1, <2>2, <2>3 DEF TypeOK, rows, gates, world
  <1>4. CASE Take
    <2>1. wake' \in [Wakes -> WakeRow] /\ turn' \in [Turns -> TurnRow] /\ status' \in Statuses
      BY <1>4, TookType DEF Take, TypeOK
    <2>2. adm' \in AdmType /\ adm'.pc \in {"none"} /\ kicked' \in BOOLEAN
      BY <1>4, AdmEdits DEF Take
    <2>3. UNCHANGED <<epoch, paused, retired, pool, up, live, gates, look, world, budget>>
      BY <1>4 DEF Take
    <2>. QED
      BY <2>1, <2>2, <2>3 DEF TypeOK, gates, world
  <1>5. CASE TakeStale
    <2>1. live' \in LiveType /\ cli' \in CliType
      BY <1>5, Parts, LiveEdits, CliEdits DEF TakeStale
    <2>2. adm' \in AdmType /\ adm'.pc \in {"none"} /\ kicked' \in BOOLEAN
      BY <1>5, AdmEdits DEF TakeStale
    <2>3. UNCHANGED <<rows, up, gates, look, orphans, nextTurn, got, how, budget>>
      BY <1>5 DEF TakeStale
    <2>. QED
      BY <2>1, <2>2, <2>3 DEF TypeOK, rows, gates
  <1>6. CASE TakeFails
    <2>1. adm' \in AdmType /\ adm'.pc \in {"none"} /\ kicked' \in BOOLEAN
      BY <1>6, AdmEdits DEF TakeFails
    <2>2. budget' \in 0 .. MaxFaults
      BY <1>6, SpendType DEF TakeFails, TypeOK
    <2>3. UNCHANGED <<rows, up, live, gates, look, world>>
      BY <1>6 DEF TakeFails
    <2>. QED
      BY <2>1, <2>2, <2>3 DEF TypeOK, rows, gates, world
  <1>7. CASE SendFindsDead
    <2>1. live' \in LiveType /\ status' \in Statuses
      BY <1>7, UnopenedType DEF SendFindsDead
    <2>2. UNCHANGED <<storeFailed, cli, budget>>
      BY <1>7 DEF SendFindsDead
    <2>8. GaveUp("process_died")
      BY <1>7 DEF SendFindsDead
    <2>9. /\ wake' \in [Wakes -> WakeRow] /\ pool' \in {"open", "closed"} /\ adm' \in AdmType /\ adm'.pc = "none"
          /\ kicked' \in BOOLEAN /\ backoff' \in {"none", "wait", "hold"} /\ starts' \in Nat
          /\ UNCHANGED <<turn, epoch, paused, retired, up, survivor, recheck, look, orphans, nextTurn, got, how>>
      BY <2>8, GaveUpType
    <2>. QED
      BY <2>1, <2>2, <2>9 DEF TypeOK
  <1>8. ASSUME NEW code \in SendErrors, SendFails(code) PROVE TypeOK'
    <2>1. live' \in LiveType /\ status' \in Statuses
      BY <1>8, UnopenedType DEF SendFails
    <2>2. budget' \in 0 .. MaxFaults
      BY <1>8, SpendType DEF SendFails, TypeOK
    <2>3. UNCHANGED <<storeFailed, cli>>
      BY <1>8 DEF SendFails
    <2>8. GaveUp(code)
      BY <1>8 DEF SendFails
    <2>9. /\ wake' \in [Wakes -> WakeRow] /\ pool' \in {"open", "closed"} /\ adm' \in AdmType /\ adm'.pc = "none"
          /\ kicked' \in BOOLEAN /\ backoff' \in {"none", "wait", "hold"} /\ starts' \in Nat
          /\ UNCHANGED <<turn, epoch, paused, retired, up, survivor, recheck, look, orphans, nextTurn, got, how>>
      BY <2>8, GaveUpType
    <2>. QED
      BY <2>1, <2>2, <2>3, <2>9 DEF TypeOK
  <1>9. ASSUME NEW code \in SendErrors \cup {"process_died"}, SendFailsUnrecorded(code) PROVE TypeOK'
    <2>1. live' \in LiveType /\ cli' \in CliType /\ storeFailed' \in BOOLEAN /\ budget' \in 0 .. MaxFaults
      BY <1>9, Parts, LiveEdits, UnrecordedType DEF SendFailsUnrecorded
    <2>2. UNCHANGED <<status>>
      BY <1>9 DEF SendFailsUnrecorded
    <2>8. GaveUp(code)
      BY <1>9 DEF SendFailsUnrecorded
    <2>9. /\ wake' \in [Wakes -> WakeRow] /\ pool' \in {"open", "closed"} /\ adm' \in AdmType /\ adm'.pc = "none"
          /\ kicked' \in BOOLEAN /\ backoff' \in {"none", "wait", "hold"} /\ starts' \in Nat
          /\ UNCHANGED <<turn, epoch, paused, retired, up, survivor, recheck, look, orphans, nextTurn, got, how>>
      BY <2>8, GaveUpType
    <2>. QED
      BY <2>1, <2>2, <2>9 DEF TypeOK
  <1>. QED
    BY <1>1, <1>2, <1>3, <1>4, <1>5, <1>6, <1>7, <1>8, <1>9


\* How a turn ended is one of the ends a runtime reports.
LEMMA EndType ==
    ASSUME TypeOK, NEW end \in Ends, EndWith(end)
    PROVE  how' \in [Turns -> Ends \cup {"none"}]
  BY Parts DEF EndWith, TypeOK

\* What the CLI does keeps the types.
LEMMA CliStepType == ASSUME TypeOK, Cli PROVE TypeOK'
  <1>1. CASE CliAccept
    <2>1. cli' \in CliType /\ cli'.turn \in Turns /\ nextTurn' \in 1 .. MaxTurns + 1
      <3>1. CASE UNCHANGED <<cli, nextTurn>> /\ cli.turn # NoTurn
        BY <3>1, Parts DEF TypeOK
      <3>2. CASE /\ nextTurn \in Turns /\ nextTurn' = nextTurn + 1
                 /\ cli' = [cli EXCEPT !.turn = nextTurn, !.idle = FALSE,
                                       !.q = Append(@, [kind |-> "started", turn |-> nextTurn])]
        <4>1. nextTurn' \in 1 .. MaxTurns + 1
          BY <3>2, StoreAssumption DEF Turns
        <4>2. cli' = [cli EXCEPT !.turn = nextTurn, !.idle = FALSE,
                                 !.q = Emit([kind |-> "started", turn |-> nextTurn])]
          BY <3>2 DEF Emit
        <4>3. Emit([kind |-> "started", turn |-> nextTurn]) \in Seq(Events) /\ nextTurn \in TurnIds
          BY <3>2, Parts, EmitType, TurnIsId
        <4>4. cli' \in CliType
          BY <4>2, <4>3, Parts, CliEdits
        <4>5. cli'.turn = nextTurn
          BY <4>2, Parts DEF CliType
        <4>. QED
          BY <3>2, <4>1, <4>4, <4>5
      <3>. QED
        BY <1>1, <3>1, <3>2 DEF CliAccept
    <2>2. adm' \in AdmType /\ adm'.turn \in Turns
      <3>1. adm' = [adm EXCEPT !.pc = "accepted", !.turn = cli'.turn] /\ cli'.turn \in TurnIds
        BY <1>1, <2>1, TurnIsId DEF CliAccept
      <3>. QED
        BY <2>1, <3>1, Parts DEF AdmType, AdmStates
    <2>3. got' \in [Turns -> SUBSET Wakes]
      BY <1>1, <2>1, Parts DEF CliAccept, TypeOK
    <2>4. UNCHANGED <<rows, up, live, gates, kicked, look, orphans, how, budget>>
      BY <1>1 DEF CliAccept
    <2>. QED
      BY <2>1, <2>2, <2>3, <2>4 DEF TypeOK, rows, gates
  <1>2. CASE CliIdle
    <2>1. cli' \in CliType
      BY <1>2, Parts, CliEdits, EmitType DEF CliIdle
    <2>2. UNCHANGED <<rows, up, live, adm, gates, kicked, look, orphans, nextTurn, got, how, budget>>
      BY <1>2 DEF CliIdle
    <2>. QED
      BY <2>1, <2>2 DEF TypeOK, rows, gates
  <1>3. CASE CliMissesIdle
    <2>1. cli' \in CliType
      BY <1>3, Parts, CliEdits DEF CliMissesIdle
    <2>2. budget' \in 0 .. MaxFaults
      BY <1>3, SpendType DEF CliMissesIdle, TypeOK
    <2>3. UNCHANGED <<rows, up, live, adm, gates, kicked, look, orphans, nextTurn, got, how>>
      BY <1>3 DEF CliMissesIdle
    <2>. QED
      BY <2>1, <2>2, <2>3 DEF TypeOK, rows, gates
  <1>4. CASE CliLateIdle
    <2>1. cli' \in CliType
      BY <1>4, Parts, CliEdits, EmitType DEF CliLateIdle
    <2>2. budget' \in 0 .. MaxFaults
      BY <1>4, SpendType DEF CliLateIdle, TypeOK
    <2>3. UNCHANGED <<rows, up, live, adm, gates, kicked, look, orphans, nextTurn, got, how>>
      BY <1>4 DEF CliLateIdle
    <2>. QED
      BY <2>1, <2>2, <2>3 DEF TypeOK, rows, gates
  <1>5. CASE CliOwnTurn
    <2>1. cli' \in CliType
      BY <1>5, Parts, CliEdits, EmitType, TurnIsId DEF CliOwnTurn
    <2>2. nextTurn' \in 1 .. MaxTurns + 1
      BY <1>5, StoreAssumption DEF CliOwnTurn, Turns
    <2>3. budget' \in 0 .. MaxFaults
      BY <1>5, SpendType DEF CliOwnTurn, TypeOK
    <2>4. UNCHANGED <<rows, up, live, adm, gates, kicked, look, orphans, got, how>>
      BY <1>5 DEF CliOwnTurn
    <2>. QED
      BY <2>1, <2>2, <2>3, <2>4 DEF TypeOK, rows, gates
  <1>6. CASE CliDies
    <2>1. cli' \in CliType
      BY <1>6, Parts, CliEdits DEF CliDies, CliStates
    <2>2. budget' \in 0 .. MaxFaults
      BY <1>6, SpendType DEF CliDies, TypeOK
    <2>3. UNCHANGED <<rows, up, live, adm, gates, kicked, look, orphans, nextTurn, got, how>>
      BY <1>6 DEF CliDies
    <2>. QED
      BY <2>1, <2>2, <2>3 DEF TypeOK, rows, gates
  <1>7. CASE CliDeathReported
    <2>1. cli' \in CliType
      BY <1>7, Parts, CliEdits, EmitType, NoTurnIsId DEF CliDeathReported, CliStates
    <2>2. how' \in [Turns -> Ends \cup {"none"}]
      BY <1>7, EndType DEF CliDeathReported, Ends
    <2>3. UNCHANGED <<rows, up, live, adm, gates, kicked, look, orphans, nextTurn, got, budget>>
      BY <1>7 DEF CliDeathReported
    <2>. QED
      BY <2>1, <2>2, <2>3 DEF TypeOK, rows, gates
  <1>8. CASE CliCloseCalled
    <2>1. cli' \in CliType
      BY <1>8, Parts, CliEdits DEF CliCloseCalled, CliStates
    <2>2. UNCHANGED <<rows, up, live, adm, gates, kicked, look, orphans, nextTurn, got, how, budget>>
      BY <1>8 DEF CliCloseCalled
    <2>. QED
      BY <2>1, <2>2 DEF TypeOK, rows, gates
  <1>9. CASE CliExit
    <2>1. cli' \in CliType
      BY <1>9, Parts, CliEdits, EmitType, NoTurnIsId DEF CliExit, CliStates
    <2>2. how' \in [Turns -> Ends \cup {"none"}]
      BY <1>9, EndType DEF CliExit, Ends
    <2>3. UNCHANGED <<rows, up, live, adm, gates, kicked, look, orphans, nextTurn, got, budget>>
      BY <1>9 DEF CliExit
    <2>. QED
      BY <2>1, <2>2, <2>3 DEF TypeOK, rows, gates
  <1>10. CASE OrphanExits
    <2>1. orphans' \in SUBSET Nat
      BY <1>10 DEF OrphanExits, TypeOK
    <2>2. UNCHANGED <<rows, up, live, adm, gates, kicked, look, cli, nextTurn, got, how, budget>>
      BY <1>10 DEF OrphanExits
    <2>. QED
      BY <2>1, <2>2 DEF TypeOK, rows, gates
  <1>11. ASSUME NEW end \in {"completed", "failed", "retry"}, CliFinish(end) PROVE TypeOK'
    <2>1. cli' \in CliType
      BY <1>11, Parts, CliEdits, EmitType, NoTurnIsId DEF CliFinish
    <2>2. how' \in [Turns -> Ends \cup {"none"}]
      BY <1>11, EndType DEF CliFinish, Ends
    <2>3. budget' \in 0 .. MaxFaults
      BY <1>11, SpendType DEF CliFinish, TypeOK
    <2>4. UNCHANGED <<rows, up, live, adm, gates, kicked, look, orphans, nextTurn, got>>
      BY <1>11 DEF CliFinish
    <2>. QED
      BY <2>1, <2>2, <2>3, <2>4 DEF TypeOK, rows, gates
  <1>. QED
    BY <1>1, <1>2, <1>3, <1>4, <1>5, <1>6, <1>7, <1>8, <1>9, <1>10, <1>11 DEF Cli


\* What the pump reads.
LEMMA HeardType ==
    ASSUME TypeOK, NEW kind, Heard(kind)
    PROVE  /\ Popped \in CliType
           /\ kind \in {"started", "finished"} => Head(cli.q).turn \in Turns
  BY Parts, HeadType DEF Heard

\* A process that ended by itself backs the session off.
LEMMA ClosedAloneType ==
    ASSUME TypeOK, ClosedAlone
    PROVE  backoff' \in {"none", "wait", "hold"} /\ starts' \in Nat
  <1>1. FailedAlone(live) \/ UNCHANGED <<backoff, starts>>
    BY DEF ClosedAlone
  <1>. QED
    BY <1>1, GateType

\* What the pump records keeps the types.
LEMMA PumpType == ASSUME TypeOK, Pump PROVE TypeOK'
  <1>1. CASE PumpStarted
    <2>1. live' \in LiveType /\ status' \in Statuses
      BY <1>1, HeardType, Parts, TurnIsId, LiveEdits, StatusOfType DEF PumpStarted, Record
    <2>2. cli' \in CliType
      BY <1>1, HeardType DEF PumpStarted, Record
    <2>3. turn' \in [Turns -> TurnRow]
      BY <1>1, HeardType, Parts, TurnEditsType DEF PumpStarted, Record, TypeOK, TurnStates
    <2>4. kicked' \in BOOLEAN
      BY <1>1 DEF PumpStarted, TypeOK
    <2>5. UNCHANGED <<wake, epoch, paused, retired, pool, up, adm, gates, look, orphans, nextTurn, got, how, budget>>
      BY <1>1 DEF PumpStarted
    <2>. QED
      BY <2>1, <2>2, <2>3, <2>4, <2>5 DEF TypeOK, gates
  <1>2. CASE PumpFinished
    <2>. DEFINE t   == Head(cli.q).turn
                out == Outcome(how[t], live.reason)
    <2>1. t \in Turns /\ t \in TurnIds /\ cli' \in CliType
      BY <1>2, HeardType, TurnIsId DEF PumpFinished, Record
    <2>2. out.status \in TurnStates /\ out.fate \in Fates
      <3>1. how[t] \in Ends \cup {"none"}
        BY <2>1 DEF TypeOK
      <3>2. out \in [status : TurnStates, fate : Fates]
        BY <3>1, Parts, OutcomeType
      <3>. QED
        BY <3>2
    <2>3. live' \in LiveType
      <3>1. live' = [live EXCEPT !.turn = NoTurn, !.input = "resulted", !.last = [turn |-> t, fate |-> out.fate],
                                 !.backed = @ \/ out.fate = "counted"]
        BY <1>2 DEF PumpFinished
      <3>2. (out.fate = "counted") \in BOOLEAN
        OBVIOUS
      <3>. QED
        BY <2>1, <2>2, <3>1, <3>2, Parts, LiveTurnEnded
    <2>4. turn' \in [Turns -> TurnRow]
      <3>1. turn' = EndTurn(EnsureTurn(turn, t, epoch), t, out.status)
        BY <1>2 DEF PumpFinished
      <3>2. EnsureTurn(turn, t, epoch) \in [Turns -> TurnRow]
        BY <2>1, <2>2, Parts, TurnEditsType DEF TypeOK
      <3>. QED
        BY <2>1, <2>2, <3>1, <3>2, Parts, TurnEditsType
    <2>5. wake' \in [Wakes -> WakeRow]
      <3>1. wake' = Settle(wake, t, out.fate, retired)
        BY <1>2 DEF PumpFinished
      <3>. QED
        BY <2>1, <2>2, <3>1, SettleType DEF TypeOK
    <2>6. backoff' \in {"none", "wait", "hold"} /\ starts' \in Nat
      <3>1. \/ backoff' = "none" /\ starts' = 0
            \/ FailedAlone(live)
            \/ UNCHANGED <<backoff, starts>>
        BY <1>2 DEF PumpFinished
      <3>. QED
        BY <3>1, GateType
    <2>7. status' \in Statuses /\ kicked' \in BOOLEAN
      BY <1>2, StatusOfType DEF PumpFinished
    <2>8. UNCHANGED <<epoch, paused, retired, pool, up, adm, storeFailed, survivor, recheck, look, orphans,
                      nextTurn, got, how, budget>>
      BY <1>2 DEF PumpFinished
    <2>. QED
      BY <2>1, <2>3, <2>4, <2>5, <2>6, <2>7, <2>8 DEF TypeOK
  <1>3. CASE PumpIdle
    <2>1. live' \in LiveType /\ status' \in Statuses
      BY <1>3, Parts, LiveEdits, StatusOfType DEF PumpIdle
    <2>2. cli' \in CliType
      BY <1>3, HeardType DEF PumpIdle, Record
    <2>3. kicked' \in BOOLEAN
      BY <1>3 DEF PumpIdle
    <2>4. UNCHANGED <<wake, turn, epoch, paused, retired, pool, up, adm, gates, look, orphans, nextTurn, got, how, budget>>
      BY <1>3 DEF PumpIdle
    <2>. QED
      BY <2>1, <2>2, <2>3, <2>4 DEF TypeOK, gates
  <1>4. CASE PumpLateIdle
    <2>1. cli' \in CliType
      BY <1>4, HeardType DEF PumpLateIdle
    <2>2. UNCHANGED <<rows, up, live, adm, gates, kicked, look, orphans, nextTurn, got, how, budget>>
      BY <1>4 DEF PumpLateIdle
    <2>. QED
      BY <2>1, <2>2 DEF TypeOK, rows, gates
  <1>5. CASE PumpClosed
    <2>1. live' \in LiveType /\ status' \in Statuses
      BY <1>5, Parts, LiveEdits, StatusOfType DEF PumpClosed
    <2>2. cli' \in CliType
      BY <1>5, HeardType DEF PumpClosed, Record
    <2>3. backoff' \in {"none", "wait", "hold"} /\ starts' \in Nat
      BY <1>5, ClosedAloneType DEF PumpClosed
    <2>4. kicked' \in BOOLEAN
      BY <1>5 DEF PumpClosed
    <2>5. UNCHANGED <<wake, turn, epoch, paused, retired, pool, up, adm, storeFailed, survivor, recheck, look, orphans,
                   nextTurn, got, how, budget>>
      BY <1>5 DEF PumpClosed
    <2>. QED
      BY <2>1, <2>2, <2>3, <2>4, <2>5 DEF TypeOK
  <1>6. CASE PumpUnrecorded
    <2>1. live' \in LiveType /\ cli' \in CliType /\ storeFailed' \in BOOLEAN /\ budget' \in 0 .. MaxFaults
      <3>1. CASE Heard("started") /\ Unrecorded(BeginTurn(live, Head(cli.q).turn), Popped)
        <4>1. BeginTurn(live, Head(cli.q).turn) \in LiveType /\ Popped \in CliType
          BY <3>1, HeardType, Parts, TurnIsId, LiveEdits
        <4>. QED
          BY <3>1, <4>1, UnrecordedType
      <3>2. CASE \E k \in {"finished", "idle"} : Heard(k) /\ Unrecorded(live, Popped)
        BY <3>2, HeardType, Parts, UnrecordedType
      <3>. QED
        BY <1>6, <3>1, <3>2 DEF PumpUnrecorded
    <2>2. UNCHANGED <<rows, up, adm, backoff, starts, survivor, recheck, kicked, look, orphans, nextTurn, got, how>>
      BY <1>6 DEF PumpUnrecorded
    <2>. QED
      BY <2>1, <2>2 DEF TypeOK, rows
  <1>7. CASE PumpClosedUnrecorded
    <2>1. live' \in LiveType /\ cli' \in CliType /\ storeFailed' \in BOOLEAN /\ budget' \in 0 .. MaxFaults
      <3>1. Closed(live) \in LiveType /\ Popped \in CliType
        BY <1>7, HeardType, Parts, LiveEdits DEF PumpClosedUnrecorded
      <3>. QED
        BY <1>7, <3>1, UnrecordedType DEF PumpClosedUnrecorded
    <2>2. backoff' \in {"none", "wait", "hold"} /\ starts' \in Nat
      BY <1>7, ClosedAloneType DEF PumpClosedUnrecorded
    <2>3. kicked' \in BOOLEAN
      BY <1>7 DEF PumpClosedUnrecorded
    <2>4. UNCHANGED <<rows, up, adm, survivor, recheck, look, orphans, nextTurn, got, how>>
      BY <1>7 DEF PumpClosedUnrecorded
    <2>. QED
      BY <2>1, <2>2, <2>3, <2>4 DEF TypeOK, rows
  <1>8. CASE PumpDrain
    <2>1. cli' \in CliType
      BY <1>8, Parts, HeadType DEF PumpDrain
    <2>2. live' \in LiveType /\ kicked' \in BOOLEAN
      BY <1>8, Parts, LiveEdits DEF PumpDrain, TypeOK
    <2>3. UNCHANGED <<rows, up, adm, gates, look, orphans, nextTurn, got, how, budget>>
      BY <1>8 DEF PumpDrain
    <2>. QED
      BY <2>1, <2>2, <2>3 DEF TypeOK, rows, gates
  <1>. QED
    BY <1>1, <1>2, <1>3, <1>4, <1>5, <1>6, <1>7, <1>8 DEF Pump


\* Interrupting the turns that ran and handing their wakes back keeps the
\* tables' types.
LEMMA InterruptType ==
    ASSUME TypeOK
    PROVE  /\ InterruptRunning(turn) \in [Turns -> TurnRow]
           /\ \A ts \in SUBSET Turns : HandBackAll(wake, ts, retired) \in [Wakes -> WakeRow]
  <1>1. InterruptRunning(turn) \in [Turns -> TurnRow]
    BY DEF TypeOK, InterruptRunning, Running, TurnRow, TurnStates
  <1>. QED
    BY <1>1, HandBackAllType DEF TypeOK

\* The turns that run are turns.
LEMMA RunningType == \A tn : Running(tn) \in SUBSET Turns
  BY DEF Running

\* The timers, the pools and the settling of a failed store keep the types.
LEMMA TimersType == ASSUME TypeOK, Timers PROVE TypeOK'
  <1>1. CASE BackoffOver
    <2>1. backoff' \in {"none", "wait", "hold"} /\ kicked' \in BOOLEAN
      BY <1>1 DEF BackoffOver
    <2>2. UNCHANGED <<rows, up, live, adm, starts, storeFailed, survivor, recheck, look, world, budget>>
      BY <1>1 DEF BackoffOver
    <2>. QED
      BY <2>1, <2>2 DEF TypeOK, rows, world
  <1>2. CASE IdleMissing
    <2>1. live' \in LiveType /\ status' \in Statuses
      BY <1>2, Parts, LiveEdits, StatusOfType DEF IdleMissing
    <2>2. kicked' \in BOOLEAN
      BY <1>2 DEF IdleMissing
    <2>3. UNCHANGED <<wake, turn, epoch, paused, retired, pool, up, adm, gates, look, world, budget>>
      BY <1>2 DEF IdleMissing
    <2>. QED
      BY <2>1, <2>2, <2>3 DEF TypeOK, gates, world
  <1>3. CASE IdleMissingUnrecorded
    <2>1. live' \in LiveType /\ cli' \in CliType /\ storeFailed' \in BOOLEAN /\ budget' \in 0 .. MaxFaults
      BY <1>3, Parts, UnrecordedType DEF IdleMissingUnrecorded
    <2>2. UNCHANGED <<rows, up, adm, backoff, starts, survivor, recheck, kicked, look, orphans, nextTurn, got, how>>
      BY <1>3 DEF IdleMissingUnrecorded
    <2>. QED
      BY <2>1, <2>2 DEF TypeOK, rows
  <1>4. CASE Release
    <2>1. live' \in LiveType /\ cli' \in CliType
      BY <1>4, Parts, LiveEdits, CliEdits DEF Release, ClosesIdle, CliStates
    <2>2. budget' \in 0 .. MaxFaults
      BY <1>4, SpendType DEF Release, TypeOK
    <2>3. UNCHANGED <<rows, up, adm, gates, kicked, look, orphans, nextTurn, got, how>>
      BY <1>4 DEF Release
    <2>. QED
      BY <2>1, <2>2, <2>3 DEF TypeOK, rows, gates
  <1>5. CASE PoolCloses
    <2>1. pool' \in {"open", "closed"}
      BY <1>5 DEF PoolCloses
    <2>2. budget' \in 0 .. MaxFaults
      BY <1>5, SpendType DEF PoolCloses, TypeOK
    <2>3. UNCHANGED <<wake, turn, epoch, status, paused, retired, up, live, adm, gates, kicked, look, world>>
      BY <1>5 DEF PoolCloses
    <2>. QED
      BY <2>1, <2>2, <2>3 DEF TypeOK, gates, world
  <1>6. CASE PoolReopens
    <2>1. pool' \in {"open", "closed"} /\ kicked' \in BOOLEAN
      BY <1>6 DEF PoolReopens
    <2>2. UNCHANGED <<wake, turn, epoch, status, paused, retired, up, live, adm, gates, look, world, budget>>
      BY <1>6 DEF PoolReopens
    <2>. QED
      BY <2>1, <2>2 DEF TypeOK, gates, world
  <1>7. CASE SettleStoreFailed
    <2>1. wake' \in [Wakes -> WakeRow] /\ turn' \in [Turns -> TurnRow]
      BY <1>7, InterruptType, RunningType DEF SettleStoreFailed, TypeOK
    <2>2. epoch' \in Nat /\ status' \in Statuses /\ storeFailed' \in BOOLEAN /\ kicked' \in BOOLEAN
      <3>1. epoch' = epoch + 1 /\ status' = "cold" /\ storeFailed' = FALSE /\ kicked' = TRUE
        BY <1>7 DEF SettleStoreFailed
      <3>2. epoch + 1 \in Nat /\ "cold" \in Statuses
        BY Parts DEF Statuses
      <3>. QED
        BY <3>1, <3>2
    <2>3. UNCHANGED <<paused, retired, pool, up, live, adm, backoff, starts, survivor, recheck, look, world, budget>>
      BY <1>7 DEF SettleStoreFailed
    <2>. QED
      BY <2>1, <2>2, <2>3 DEF TypeOK, world
  <1>. QED
    BY <1>1, <1>2, <1>3, <1>4, <1>5, <1>6, <1>7 DEF Timers


\* No admission task.
LEMMA NoAdmType == NoAdm \in AdmType /\ NoAdm.pc = "none"
  BY NoTurnIsId DEF AdmType, AdmStates, NoAdm

\* A server that is gone leaves a well-typed state.
LEMMA GoneType == ASSUME TypeOK, Gone, budget' \in 0 .. MaxFaults PROVE TypeOK'
  <1>1. live' \in LiveType /\ cli' \in CliType
    BY LiveStarts, Parts, CliEdits DEF Gone
  <1>2. adm' \in AdmType /\ adm'.pc = "none"
    BY NoAdmType DEF Gone
  <1>3. /\ up' \in {"up", "closing", "down"} /\ backoff' \in {"none", "wait", "hold"} /\ starts' \in Nat
        /\ storeFailed' \in BOOLEAN /\ survivor' \in BOOLEAN /\ recheck' \in BOOLEAN
        /\ kicked' \in BOOLEAN /\ look' \in BOOLEAN
    BY DEF Gone
  <1>4. orphans' \in SUBSET Nat
    BY Parts DEF Gone, TypeOK
  <1>5. how' \in [Turns -> Ends \cup {"none"}]
    BY Parts DEF Gone, TypeOK, Ends
  <1>6. UNCHANGED <<rows, nextTurn, got>>
    BY DEF Gone
  <1>. QED
    BY <1>1, <1>2, <1>3, <1>4, <1>5, <1>6 DEF TypeOK, rows

\* Shutdown, crash and boot keep the types.
LEMMA LifeType == ASSUME TypeOK, Life PROVE TypeOK'
  <1>1. CASE Shutdown
    <2>1. wake' \in [Wakes -> WakeRow] /\ turn' \in [Turns -> TurnRow] /\ status' \in Statuses
      <3>1. CASE UNCHANGED <<turn, wake, status>>
        BY <3>1 DEF TypeOK
      <3>2. CASE adm.pc = "take" /\ Took
        BY <3>2, TookType
      <3>. QED
        BY <1>1, <3>1, <3>2 DEF Shutdown
    <2>2. live' \in LiveType /\ cli' \in CliType
      BY <1>1, Parts, LiveEdits, CliEdits DEF Shutdown, CliStates
    <2>3. adm' \in AdmType /\ adm'.pc = "none"
      BY <1>1, NoAdmType DEF Shutdown
    <2>4. budget' \in 0 .. MaxFaults
      BY <1>1, SpendType DEF Shutdown, TypeOK
    <2>5. up' \in {"up", "closing", "down"} /\ look' \in BOOLEAN
      BY <1>1 DEF Shutdown
    <2>6. UNCHANGED <<epoch, paused, retired, pool, gates, kicked, orphans, nextTurn, got, how>>
      BY <1>1 DEF Shutdown
    <2>. QED
      BY <2>1, <2>2, <2>3, <2>4, <2>5, <2>6 DEF TypeOK, gates
  <1>2. CASE ShutdownDone
    <2>1. budget' \in 0 .. MaxFaults
      BY <1>2 DEF ShutdownDone, Free, TypeOK
    <2>. QED
      BY <1>2, <2>1, GoneType DEF ShutdownDone
  <1>3. CASE ServerCrash
    <2>1. budget' \in 0 .. MaxFaults
      BY <1>3, SpendType DEF ServerCrash, TypeOK
    <2>. QED
      BY <1>3, <2>1, GoneType DEF ServerCrash
  <1>4. CASE Boot
    <2>1. wake' \in [Wakes -> WakeRow]
      BY <1>4, InterruptType DEF Boot
    <2>2. turn' \in [Turns -> TurnRow]
      BY <1>4, InterruptType DEF Boot
    <2>3. epoch' \in Nat /\ status' \in Statuses
      BY <1>4, Parts DEF Boot, Statuses
    <2>4. orphans' \in SUBSET Nat /\ survivor' \in BOOLEAN
      BY <1>4 DEF Boot, TypeOK
    <2>5. up' \in {"up", "closing", "down"} /\ kicked' \in BOOLEAN
      BY <1>4 DEF Boot
    <2>6. UNCHANGED <<paused, retired, pool, live, adm, backoff, starts, storeFailed, recheck, look, cli, nextTurn,
                   got, how, budget>>
      BY <1>4 DEF Boot
    <2>. QED
      BY <2>1, <2>2, <2>3, <2>4, <2>5, <2>6 DEF TypeOK
  <1>5. CASE RecheckSurvivor
    <2>1. recheck' \in BOOLEAN /\ survivor' \in BOOLEAN /\ kicked' \in BOOLEAN
      BY <1>5 DEF RecheckSurvivor, TypeOK
    <2>2. orphans' \in SUBSET Nat
      BY <1>5 DEF RecheckSurvivor, TypeOK
    <2>3. UNCHANGED <<rows, up, live, adm, backoff, starts, storeFailed, look, cli, nextTurn, got, how, budget>>
      BY <1>5 DEF RecheckSurvivor
    <2>. QED
      BY <2>1, <2>2, <2>3 DEF TypeOK, rows
  <1>. QED
    BY <1>1, <1>2, <1>3, <1>4, <1>5 DEF Life


\* Every step keeps the types.
LEMMA StepType == ASSUME TypeOK, [Next]_vars PROVE TypeOK'
  <1>1. CASE UNCHANGED vars
    BY <1>1 DEF vars, rows, gates, world, TypeOK
  <1>2. CASE Admission
    BY <1>2, AttachType, SendType DEF Admission
  <1>. QED
    BY <1>1, <1>2, ApiType, CliStepType, PumpType, TimersType, LifeType DEF Next

\* The tables, the engine's facts and the process stay what their types say:
\* in particular no count of redeliveries passes its bound (hand_back).
THEOREM TypeCorrect == Spec => []TypeOK
  BY InitType, StepType, PTL DEF Spec

-----------------------------------------------------------------------------
(***************************************************************************)
(* What a step does to the rows.                                           *)
(***************************************************************************)

\* The transactions that change the wakes or the turns of a session.
Delivered(w)  == /\ ~retired /\ wake[w].state = "absent"
                 /\ wake' = [wake EXCEPT ![w] = Enqueue(@)]
                 /\ UNCHANGED <<turn, retired>>
Recycled      == /\ ~retired /\ retired' = TRUE
                 /\ \A w \in Wakes : wake[w].state # "taken"
                 /\ wake' = MoveQueued(wake)
                 /\ UNCHANGED turn
Refused(ws)   == wake' = Drop(wake, ws) /\ UNCHANGED <<turn, retired>>
Handed(ws, t) == /\ turn' = EnsureTurn(turn, t, live.epoch)
                 /\ wake' = TakeWakes(wake, ws, t, turn'[t].status, live.last, retired)
                 /\ UNCHANGED retired
Began(t)      == turn' = EnsureTurn(turn, t, epoch) /\ UNCHANGED <<wake, retired>>
Finished(t, out) == /\ turn' = EndTurn(EnsureTurn(turn, t, epoch), t, out.status)
                    /\ wake' = Settle(wake, t, out.fate, retired)
                    /\ UNCHANGED retired
Interrupted(ts)  == /\ ts \in {Running(turn), Turns}
                    /\ turn' = InterruptRunning(turn)
                    /\ wake' = HandBackAll(wake, ts, retired)
                    /\ UNCHANGED retired

Transaction ==
    \/ UNCHANGED <<wake, turn, retired>>
    \/ \E w \in Wakes : Delivered(w)
    \/ Recycled
    \/ \E ws \in SUBSET Wakes : Refused(ws)
    \/ \E ws \in SUBSET Wakes, t \in Turns : Handed(ws, t)
    \/ \E t \in Turns : Began(t)
    \/ \E t \in Turns, end \in Ends \cup {"none"}, reason \in BOOLEAN : Finished(t, Outcome(end, reason))
    \/ \E ts \in SUBSET Turns : Interrupted(ts)

\* Whatever the six actors do, the rows change by one of these transactions
\* alone.
LEMMA StepIsTransaction == ASSUME TypeOK, [Next]_vars PROVE Transaction
  <1>1. CASE UNCHANGED vars
    BY <1>1 DEF vars, rows, Transaction
  <1>2. CASE Api
    <2>1. ASSUME NEW w \in Wakes, Deliver(w) PROVE Transaction
      BY <2>1 DEF Deliver, Delivered, Transaction
    <2>2. CASE Pause \/ Resume
      BY <2>2 DEF Pause, Resume, Transaction
    <2>3. CASE Retire
      BY <2>3 DEF Retire, Recycled, Transaction
    <2>. QED
      BY <1>2, <2>1, <2>2, <2>3 DEF Api
  <1>3. CASE Admission
    <2>1. ASSUME NEW code, GaveUp(code) PROVE Transaction
      <3>1. CASE wake' = Drop(wake, adm.ws)
        BY <2>1, <3>1, Parts DEF GaveUp, Refused, Transaction
      <3>2. CASE wake' = wake
        BY <2>1, <3>2 DEF GaveUp, Transaction
      <3>. QED
        BY <2>1, <3>1, <3>2 DEF GaveUp
    <2>2. CASE Take
      <3>1. Handed(adm.ws, adm.turn) /\ adm.turn \in Turns
        BY <2>2 DEF Take, Took, Handed, TypeOK
      <3>. QED
        BY <3>1, Parts DEF Transaction
    <2>3. CASE PassRead \/ PassAct \/ AttachBump \/ Open \/ AttachWrite \/ AttachWriteFails \/ AttachClosed
      BY <2>3 DEF PassRead, PassAct, AttachBump, Open, AttachWrite, AttachWriteFails, AttachClosed, rows, Transaction
    <2>4. CASE Look \/ Send \/ SendReturn \/ TakeStale \/ TakeFails
      BY <2>4 DEF Look, Send, SendReturn, TakeStale, TakeFails, rows, Transaction
    <2>5. CASE \E retryable, recorded \in BOOLEAN : OpenFails(retryable, recorded)
      BY <2>5 DEF OpenFails, Transaction
    <2>. QED
      BY <1>3, <2>1, <2>2, <2>3, <2>4, <2>5 DEF Admission, SendFails, SendFindsDead, SendFailsUnrecorded
  <1>4. CASE Cli
    BY <1>4 DEF Cli, CliAccept, CliIdle, CliMissesIdle, CliLateIdle, CliOwnTurn, CliDies, CliDeathReported,
                CliCloseCalled, CliExit, OrphanExits, CliFinish, rows, Transaction
  <1>5. CASE Pump
    <2>1. CASE PumpStarted
      <3>1. Head(cli.q).turn \in Turns
        BY <2>1, HeardType DEF PumpStarted, Record
      <3>2. Began(Head(cli.q).turn)
        BY <2>1 DEF PumpStarted, Began
      <3>. QED
        BY <3>1, <3>2 DEF Transaction
    <2>2. CASE PumpFinished
      <3>. DEFINE t == Head(cli.q).turn
      <3>1. t \in Turns
        BY <2>2, HeardType DEF PumpFinished, Record
      <3>2. how[t] \in Ends \cup {"none"} /\ live.reason \in BOOLEAN
        BY <3>1, Parts DEF TypeOK
      <3>3. Finished(t, Outcome(how[t], live.reason))
        BY <2>2 DEF PumpFinished, Finished
      <3>. QED
        BY <3>1, <3>2, <3>3 DEF Transaction
    <2>3. CASE PumpIdle \/ PumpLateIdle \/ PumpClosed \/ PumpUnrecorded \/ PumpClosedUnrecorded \/ PumpDrain
      BY <2>3 DEF PumpIdle, PumpLateIdle, PumpClosed, PumpUnrecorded, PumpClosedUnrecorded, PumpDrain, rows, Transaction
    <2>. QED
      BY <1>5, <2>1, <2>2, <2>3 DEF Pump
  <1>6. CASE Timers
    <2>1. CASE SettleStoreFailed
      <3>1. Interrupted(Running(turn)) /\ Running(turn) \in SUBSET Turns
        BY <2>1, RunningType DEF SettleStoreFailed, Interrupted
      <3>. QED
        BY <3>1 DEF Transaction
    <2>2. CASE BackoffOver \/ IdleMissing \/ IdleMissingUnrecorded \/ Release \/ PoolCloses \/ PoolReopens
      BY <2>2 DEF BackoffOver, IdleMissing, IdleMissingUnrecorded, Release, PoolCloses, PoolReopens, rows, Transaction
    <2>. QED
      BY <1>6, <2>1, <2>2 DEF Timers
  <1>7. CASE Life
    <2>1. CASE Shutdown
      <3>1. CASE UNCHANGED <<turn, wake, status>>
        BY <2>1, <3>1 DEF Shutdown, Transaction
      <3>2. CASE adm.pc = "take" /\ Took
        <4>1. Handed(adm.ws, adm.turn) /\ adm.turn \in Turns
          BY <2>1, <3>2 DEF Shutdown, Took, Handed, TypeOK
        <4>. QED
          BY <4>1, Parts DEF Transaction
      <3>. QED
        BY <2>1, <3>1, <3>2 DEF Shutdown
    <2>2. CASE Boot
      <3>1. Interrupted(Turns)
        BY <2>2 DEF Boot, Interrupted
      <3>. QED
        BY <3>1 DEF Transaction
    <2>3. CASE ShutdownDone \/ ServerCrash \/ RecheckSurvivor
      BY <2>3 DEF ShutdownDone, ServerCrash, RecheckSurvivor, Gone, rows, Transaction
    <2>. QED
      BY <1>7, <2>1, <2>2, <2>3 DEF Life
  <1>. QED
    BY <1>1, <1>2, <1>3, <1>4, <1>5, <1>6, <1>7 DEF Next

-----------------------------------------------------------------------------
(***************************************************************************)
(* A wake that is done stays done.                                         *)
(***************************************************************************)

\* None of the store's transactions touches a wake that neither waits nor is
\* taken.
LEMMA OthersAreKept ==
    ASSUME NEW wk \in [Wakes -> WakeRow], NEW w \in Wakes, wk[w].state \notin {"queued", "taken"},
           NEW ws, NEW t, NEW ts, NEW st, NEW last, NEW fate, NEW counts, NEW ret
    PROVE  /\ Drop(wk, ws)[w] = wk[w] /\ MoveQueued(wk)[w] = wk[w]
           /\ Settle(wk, t, fate, ret)[w] = wk[w]
           /\ HandBackAll(wk, ts, ret)[w] = wk[w]
           /\ TakeWakes(wk, ws, t, st, last, ret)[w] = wk[w]
  <1>1. Drop(wk, ws)[w] = wk[w] /\ MoveQueued(wk)[w] = wk[w]
    BY DEF Drop, MoveQueued
  <1>2. \A f : Settle(wk, t, f, ret)[w] = wk[w]
    BY DEF Settle, Consume, HandBack, TakenBy
  <1>3. HandBackAll(wk, ts, ret)[w] = wk[w]
    BY DEF HandBackAll
  <1>4. TakeWakes(wk, ws, t, st, last, ret)[w] = wk[w]
    BY DEF TakeWakes, Hand, HandBack, TakenBy
  <1>. QED
    BY <1>1, <1>2, <1>3, <1>4

\* So only a delivery changes such a wake, and only one that is absent.
LEMMA StepKeeps ==
    ASSUME TypeOK, [Next]_vars, NEW w \in Wakes, wake[w].state \notin {"queued", "taken"},
           retired \/ wake[w].state # "absent"
    PROVE  wake'[w] = wake[w]
  <1>1. wake \in [Wakes -> WakeRow]
    BY DEF TypeOK
  <1>2. CASE \E v \in Wakes : Delivered(v)
    <2>1. PICK v \in Wakes : Delivered(v)
      BY <1>2
    <2>. QED
      BY <1>1, <2>1 DEF Delivered
  <1>3. CASE Recycled
    BY <1>1, <1>3, OthersAreKept DEF Recycled
  <1>4. ASSUME NEW ws, Refused(ws) PROVE wake'[w] = wake[w]
    BY <1>1, <1>4, OthersAreKept DEF Refused
  <1>5. ASSUME NEW ws, NEW t, Handed(ws, t) PROVE wake'[w] = wake[w]
    BY <1>1, <1>5, OthersAreKept DEF Handed
  <1>6. ASSUME NEW t, Began(t) PROVE wake'[w] = wake[w]
    BY <1>6 DEF Began
  <1>7. ASSUME NEW t, NEW out, Finished(t, out) PROVE wake'[w] = wake[w]
    BY <1>1, <1>7, OthersAreKept DEF Finished
  <1>8. ASSUME NEW ts, Interrupted(ts) PROVE wake'[w] = wake[w]
    BY <1>1, <1>8, OthersAreKept DEF Interrupted
  <1>. QED
    BY <1>2, <1>3, <1>4, <1>5, <1>6, <1>7, <1>8, StepIsTransaction DEF Transaction

\* No take that comes late, no hand-back, no settling and no restart touches a
\* wake that was consumed, dropped or moved.
THEOREM DoneIsDone == Spec => DoneStaysDone
  <1>1. TypeOK /\ [Next]_vars =>
          [\A w \in Wakes : wake[w].state \in {"consumed", "dropped", "moved"} => wake'[w] = wake[w]]_vars
    BY StepKeeps
  <1>. QED
    BY <1>1, TypeCorrect, PTL DEF Spec, DoneStaysDone

-----------------------------------------------------------------------------
(***************************************************************************)
(* A retired session holds no wake.                                        *)
(***************************************************************************)

\* One step.
LEMMA StepRetired == ASSUME TypeOK, RetiredHoldsNoWake, [Next]_vars PROVE RetiredHoldsNoWake'
  <1>1. wake \in [Wakes -> WakeRow]
    BY DEF TypeOK
  <1>2. CASE retired
    <2>1. \A w \in Wakes : wake[w].state \notin {"queued", "taken"}
      BY <1>2 DEF RetiredHoldsNoWake
    <2>2. \A w \in Wakes : wake'[w] = wake[w]
      BY <1>2, <2>1, StepKeeps
    <2>. QED
      BY <2>1, <2>2 DEF RetiredHoldsNoWake
  <1>3. CASE ~retired /\ Recycled
    <2>1. ASSUME NEW w \in Wakes PROVE MoveQueued(wake)[w].state \notin {"queued", "taken"}
      BY <1>1, <1>3 DEF Recycled, MoveQueued, WakeRow
    <2>. QED
      BY <1>3, <2>1 DEF RetiredHoldsNoWake, Recycled
  <1>4. CASE ~retired /\ ~Recycled
    BY <1>4, StepIsTransaction
    DEF RetiredHoldsNoWake, Transaction, Delivered, Refused, Handed, Began, Finished, Interrupted
  <1>. QED
    BY <1>2, <1>3, <1>4

\* Whatever was under way when the session was recycled (a look, a send, a take)
\* leaves it no wake: all of them are done or the successor's.
THEOREM RetiredIsEmpty == Spec => []RetiredHoldsNoWake
  <1>1. Init => RetiredHoldsNoWake
    BY DEF Init, RetiredHoldsNoWake
  <1>. QED
    BY <1>1, TypeCorrect, StepRetired, PTL DEF Spec

-----------------------------------------------------------------------------
(***************************************************************************)
(* A taken wake belongs to a turn that runs.                               *)
(***************************************************************************)

\* Recording a turn ends none.
LEMMA EnsureKeepsRunning ==
    ASSUME NEW tn \in [Turns -> TurnRow], NEW t \in Turns, NEW e
    PROVE  /\ Running(tn) \subseteq Running(EnsureTurn(tn, t, e))
           /\ EnsureTurn(tn, t, e)[t].status = "running" => t \in Running(EnsureTurn(tn, t, e))
  BY DEF Running, EnsureTurn, TurnRow

\* Ending a turn ends that turn alone.
LEMMA EndKeepsOthers ==
    ASSUME NEW tn \in [Turns -> TurnRow], NEW t \in Turns, NEW e \in Nat, NEW st
    PROVE  Running(tn) \ {t} \subseteq Running(EndTurn(EnsureTurn(tn, t, e), t, st))
  BY DEF Running, EnsureTurn, EndTurn, TurnRow

\* The end of a turn leaves no wake taken by it, and takes none.
LEMMA SettleLetsGo ==
    ASSUME NEW wk \in [Wakes -> WakeRow], NEW t, NEW fate, NEW ret, NEW w \in Wakes,
           Settle(wk, t, fate, ret)[w].state = "taken"
    PROVE  wk[w].state = "taken" /\ wk[w].turn # t /\ Settle(wk, t, fate, ret)[w].turn = wk[w].turn
  BY DEF Settle, Consume, HandBack, TakenBy, Requeue, WakeRow

\* A hand-back of every turn that runs leaves no wake with one of them.
LEMMA HandBackAllLetsGo ==
    ASSUME NEW wk \in [Wakes -> WakeRow], NEW ts, NEW ret, NEW w \in Wakes,
           HandBackAll(wk, ts, ret)[w].state = "taken"
    PROVE  wk[w].state = "taken" /\ wk[w].turn \notin ts
  BY DEF HandBackAll, HandBack, TakenBy, Requeue, WakeRow

\* A wake is handed over as taken only to a turn that runs.
LEMMA TakeTakesRunning ==
    ASSUME NEW wk \in [Wakes -> WakeRow], NEW ws, NEW t \in Turns, NEW st, NEW last, NEW ret, NEW w \in Wakes,
           TakeWakes(wk, ws, t, st, last, ret)[w].state = "taken"
    PROVE  \/ st = "running" /\ TakeWakes(wk, ws, t, st, last, ret)[w].turn = t
           \/ wk[w].state = "taken" /\ TakeWakes(wk, ws, t, st, last, ret)[w].turn = wk[w].turn
  <1>1. wk[w] \in WakeRow
    OBVIOUS
  <1>2. CASE st = "running"
    BY <1>1, <1>2 DEF TakeWakes, Hand, WakeRow
  <1>3. CASE st # "running" /\ FateOf(st, t, last) = "consumed"
    BY <1>1, <1>3 DEF TakeWakes, Hand, WakeRow
  <1>4. CASE st # "running" /\ FateOf(st, t, last) # "consumed"
    <2>. DEFINE hd == Hand(wk, ws, t, "taken")
    <2>1. hd[w] = IF w \in ws /\ wk[w].state = "queued" THEN [wk[w] EXCEPT !.state = "taken", !.turn = t] ELSE wk[w]
      BY DEF Hand
    <2>2. TakeWakes(wk, ws, t, st, last, ret)[w]
            = HandBack(hd, t, FateOf(st, t, last) = "counted", ret)[w]
      BY <1>4 DEF TakeWakes
    <2>3. hd[w].state = "taken" /\ hd[w].turn # t
          /\ TakeWakes(wk, ws, t, st, last, ret)[w] = hd[w]
      <3>. HIDE DEF hd
      <3>1. w \in TakenBy(hd, t) => HandBack(hd, t, FateOf(st, t, last) = "counted", ret)[w].state # "taken"
        <4>1. Requeue(hd[w], FateOf(st, t, last) = "counted").state = "queued"
          BY DEF Requeue
        <4>2. [hd[w] EXCEPT !.state = "dropped"].state # "taken"
          BY <1>1, <2>1 DEF WakeRow
        <4>. QED
          BY <4>1, <4>2 DEF HandBack
      <3>2. w \notin TakenBy(hd, t)
        BY <2>2, <3>1
      <3>3. TakeWakes(wk, ws, t, st, last, ret)[w] = hd[w]
        BY <2>2, <3>2 DEF HandBack
      <3>. QED
        BY <3>2, <3>3 DEF TakenBy
    <2>. QED
      BY <1>1, <2>1, <2>3 DEF WakeRow
  <1>. QED
    BY <1>2, <1>3, <1>4

\* One step.
LEMMA StepTaken == ASSUME TypeOK, TakenHasRunningTurn, [Next]_vars PROVE TakenHasRunningTurn'
  <1>1. wake \in [Wakes -> WakeRow] /\ turn \in [Turns -> TurnRow]
    BY DEF TypeOK
  <1>2. CASE UNCHANGED <<wake, turn, retired>>
    BY <1>2 DEF TakenHasRunningTurn, Running
  <1>3. CASE \E w \in Wakes : Delivered(w)
    BY <1>1, <1>3 DEF TakenHasRunningTurn, Delivered, Enqueue, Running, WakeRow
  <1>4. CASE Recycled
    BY <1>1, <1>4 DEF TakenHasRunningTurn, Recycled, MoveQueued, Running, WakeRow
  <1>5. CASE \E ws \in SUBSET Wakes : Refused(ws)
    BY <1>1, <1>5 DEF TakenHasRunningTurn, Refused, Drop, Running, WakeRow
  <1>6. ASSUME NEW ws \in SUBSET Wakes, NEW t \in Turns, Handed(ws, t) PROVE TakenHasRunningTurn'
    <2>1. Running(turn) \subseteq Running(turn') /\ (turn'[t].status = "running" => t \in Running(turn'))
      BY <1>1, <1>6, EnsureKeepsRunning DEF Handed
    <2>2. ASSUME NEW w \in Wakes, wake'[w].state = "taken"
          PROVE  \/ turn'[t].status = "running" /\ wake'[w].turn = t
                 \/ wake[w].state = "taken" /\ wake'[w].turn = wake[w].turn
      BY <1>1, <1>6, <2>2, TakeTakesRunning DEF Handed
    <2>. QED
      BY <2>1, <2>2 DEF TakenHasRunningTurn
  <1>7. ASSUME NEW t \in Turns, Began(t) PROVE TakenHasRunningTurn'
    <2>1. Running(turn) \subseteq Running(turn') /\ wake' = wake
      BY <1>1, <1>7, EnsureKeepsRunning DEF Began
    <2>. QED
      BY <2>1 DEF TakenHasRunningTurn
  <1>8. ASSUME NEW t \in Turns, NEW out, Finished(t, out) PROVE TakenHasRunningTurn'
    <2>1. Running(turn) \ {t} \subseteq Running(turn')
      BY <1>1, <1>8, Parts, EndKeepsOthers DEF Finished
    <2>2. ASSUME NEW w \in Wakes, wake'[w].state = "taken"
          PROVE  wake[w].state = "taken" /\ wake[w].turn # t /\ wake'[w].turn = wake[w].turn
      BY <1>1, <1>8, <2>2, SettleLetsGo DEF Finished
    <2>. QED
      BY <2>1, <2>2 DEF TakenHasRunningTurn
  <1>9. ASSUME NEW ts \in SUBSET Turns, Interrupted(ts) PROVE TakenHasRunningTurn'
    <2>1. Running(turn) \subseteq ts
      BY <1>9 DEF Interrupted, Running
    <2>2. ASSUME NEW w \in Wakes, wake'[w].state = "taken" PROVE FALSE
      BY <1>1, <1>9, <2>1, <2>2, HandBackAllLetsGo DEF Interrupted, TakenHasRunningTurn
    <2>. QED
      BY <2>2 DEF TakenHasRunningTurn
  <1>. QED
    BY <1>2, <1>3, <1>4, <1>5, <1>6, <1>7, <1>8, <1>9, StepIsTransaction DEF Transaction

\* Whatever ends a turn (its own end, a settled store, a restart) lets go of the
\* wakes it took in the same transaction, and a late take gives none to a turn
\* that is over.
THEOREM TakenIsRunning == Spec => []TakenHasRunningTurn
  <1>1. Init => TakenHasRunningTurn
    BY DEF Init, TakenHasRunningTurn, NoWake
  <1>. QED
    BY <1>1, TypeCorrect, StepTaken, PTL DEF Spec

-----------------------------------------------------------------------------
(***************************************************************************)
(* The queue its senders are promised: each of the eight transactions a    *)
(* step can be (StepIsTransaction) is a step of WakeQueue or changes       *)
(* nothing of it.                                                          *)
(***************************************************************************)

\* The batches taken, as the refinement reads them off the wakes' rows.
Hands(wk) == {TakenBy(wk, t) : t \in Turns} \ {{}}

\* What the transactions rely on: only a session that is retired has moved
\* wakes, and the invariants proved already.
MovedIsRetired == \A w \in Wakes : wake[w].state = "moved" => retired
SendersInv == TypeOK /\ RetiredHoldsNoWake /\ TakenHasRunningTurn /\ MovedIsRetired

-----------------------------------------------------------------------------
(***************************************************************************)
(* Batches.                                                                *)
(***************************************************************************)

\* Two turns' batches share no wake.
LEMMA BatchesAreApart ==
    ASSUME NEW wk, NEW s, NEW t, NEW w, w \in TakenBy(wk, s), w \in TakenBy(wk, t)
    PROVE  s = t
  BY DEF TakenBy

\* Wakes in a turn's hand are rows of the table.
LEMMA HandType ==
    ASSUME NEW wk \in [Wakes -> WakeRow], NEW ws, NEW t \in Turns
    PROVE  Hand(wk, ws, t, "taken") \in [Wakes -> WakeRow]
  <1>1. \A w \in Wakes : [wk[w] EXCEPT !.state = "taken", !.turn = t] \in WakeRow
    BY TurnIsId DEF WakeRow, WakeStates
  <1>. QED
    BY <1>1 DEF Hand

\* A turn that lets go of its batch leaves the others in hand.
LEMMA HandLeaves ==
    ASSUME NEW wk, NEW wk2, NEW t \in Turns, TakenBy(wk2, t) = {},
           \A s \in Turns \ {t} : TakenBy(wk2, s) = TakenBy(wk, s)
    PROVE  Hands(wk2) = Hands(wk) \ {TakenBy(wk, t)}
  <1>1. ASSUME NEW batch \in Hands(wk2) PROVE batch \in Hands(wk) \ {TakenBy(wk, t)}
    <2>1. PICK s \in Turns : batch = TakenBy(wk2, s) /\ batch # {}
      BY DEF Hands
    <2>2. s # t /\ batch = TakenBy(wk, s)
      BY <2>1
    <2>3. batch # TakenBy(wk, t)
      BY <2>1, <2>2, BatchesAreApart
    <2>. QED
      BY <2>1, <2>2, <2>3 DEF Hands
  <1>2. ASSUME NEW batch \in Hands(wk) \ {TakenBy(wk, t)} PROVE batch \in Hands(wk2)
    <2>1. PICK s \in Turns : batch = TakenBy(wk, s) /\ batch # {}
      BY DEF Hands
    <2>2. s # t /\ batch = TakenBy(wk2, s)
      BY <2>1
    <2>. QED
      BY <2>1, <2>2 DEF Hands
  <1>. QED
    BY <1>1, <1>2

\* One that takes more has one larger batch.
LEMMA HandGrows ==
    ASSUME NEW wk, NEW wk2, NEW t \in Turns, TakenBy(wk2, t) # {},
           \A s \in Turns \ {t} : TakenBy(wk2, s) = TakenBy(wk, s)
    PROVE  Hands(wk2) = (Hands(wk) \ {TakenBy(wk, t)}) \cup {TakenBy(wk2, t)}
  <1>1. ASSUME NEW batch \in Hands(wk2)
        PROVE  batch \in (Hands(wk) \ {TakenBy(wk, t)}) \cup {TakenBy(wk2, t)}
    <2>1. PICK s \in Turns : batch = TakenBy(wk2, s) /\ batch # {}
      BY DEF Hands
    <2>2. CASE s = t
      BY <2>1, <2>2
    <2>3. CASE s # t
      <3>1. batch = TakenBy(wk, s)
        BY <2>1, <2>3
      <3>2. batch # TakenBy(wk, t)
        BY <2>1, <2>3, <3>1, BatchesAreApart
      <3>. QED
        BY <2>1, <3>1, <3>2 DEF Hands
    <2>. QED
      BY <2>2, <2>3
  <1>2. ASSUME NEW batch \in Hands(wk) \ {TakenBy(wk, t)} PROVE batch \in Hands(wk2)
    <2>1. PICK s \in Turns : batch = TakenBy(wk, s) /\ batch # {}
      BY DEF Hands
    <2>2. s # t /\ batch = TakenBy(wk2, s)
      BY <2>1
    <2>. QED
      BY <2>1, <2>2 DEF Hands
  <1>3. TakenBy(wk2, t) \in Hands(wk2)
    BY DEF Hands
  <1>. QED
    BY <1>1, <1>2, <1>3

\* No change of what is taken changes the batches.
LEMMA SameHands ==
    ASSUME NEW wk, NEW wk2, \A s \in Turns : TakenBy(wk2, s) = TakenBy(wk, s)
    PROVE  Hands(wk2) = Hands(wk)
  BY DEF Hands

-----------------------------------------------------------------------------
(***************************************************************************)
(* The transactions, as steps of the queue.                                *)
(***************************************************************************)

\* What the queue is made of, changed by nothing.
LEMMA NothingOfQueue ==
    ASSUME wake' = wake, retired' = retired
    PROVE  UNCHANGED Queue!qvars
  BY DEF Queue!qvars, Queued, TakenBy

\* A delivery adds.
LEMMA DeliveredAdds ==
    ASSUME SendersInv, NEW w \in Wakes, Delivered(w)
    PROVE  Queue!Add(w)
  <1>1. wake \in [Wakes -> WakeRow] /\ wake' \in [Wakes -> WakeRow]
    BY DEF SendersInv, TypeOK, Delivered, Enqueue, WakeRow, WakeStates
  <1>2. /\ wake'[w].state = "queued" /\ wake'[w].redelivery = wake[w].redelivery
        /\ \A v \in Wakes \ {w} : wake'[v] = wake[v]
    BY <1>1 DEF Delivered, Enqueue, WakeRow
  <1>3. \A t \in Turns : TakenBy(wake', t) = TakenBy(wake, t)
    BY <1>2 DEF TakenBy, Delivered
  <1>4. Hands(wake') = Hands(wake)
    BY <1>3, SameHands
  <1>5. wake[w].state = "absent" /\ ~retired /\ retired' = retired
    BY DEF Delivered
  <1>6. w \notin UNION Hands(wake)
    BY <1>5 DEF Hands, TakenBy
  <1>7. Queued(wake') = Queued(wake) \cup {w}
    BY <1>2, <1>5 DEF Queued
  <1>8. \A st \in {"consumed", "dropped", "moved"} :
           {v \in Wakes : wake'[v].state = st} = {v \in Wakes : wake[v].state = st}
    BY <1>2, <1>5
  <1>9. [v \in Wakes |-> wake'[v].redelivery] = [v \in Wakes |-> wake[v].redelivery]
    BY <1>2
  <1>. QED
    BY <1>4, <1>5, <1>6, <1>7, <1>8, <1>9 DEF Queue!Add, Hands, Queued, TakenBy

\* A recycle closes: all that waits is the successor's.
LEMMA RecycledCloses ==
    ASSUME SendersInv, Recycled
    PROVE  Queue!Close
  <1>1. wake \in [Wakes -> WakeRow] /\ wake' = MoveQueued(wake) /\ ~retired /\ retired'
        /\ \A w \in Wakes : wake[w].state \notin {"taken", "moved"}
    BY DEF SendersInv, TypeOK, Recycled, MovedIsRetired
  <1>2. ASSUME NEW w \in Wakes
        PROVE  /\ wake'[w].redelivery = wake[w].redelivery
               /\ wake'[w].state = IF wake[w].state = "queued" THEN "moved" ELSE wake[w].state
    BY <1>1 DEF MoveQueued, WakeRow
  <1>3. \A t \in Turns : TakenBy(wake, t) = {} /\ TakenBy(wake', t) = {}
    BY <1>1, <1>2 DEF TakenBy
  <1>4. Hands(wake) = {} /\ Hands(wake') = {}
    BY <1>3 DEF Hands
  <1>5. Queued(wake') = {} /\ {w \in Wakes : wake'[w].state = "moved"} = Queued(wake)
    BY <1>1, <1>2 DEF Queued
  <1>6. \A st \in {"consumed", "dropped"} :
           {w \in Wakes : wake'[w].state = st} = {w \in Wakes : wake[w].state = st}
    BY <1>2
  <1>7. [w \in Wakes |-> wake'[w].redelivery] = [w \in Wakes |-> wake[w].redelivery]
    BY <1>2
  <1>. QED
    BY <1>1, <1>4, <1>5, <1>6, <1>7 DEF Queue!Close, Hands, Queued, TakenBy

\* A refusal gives up what it refuses, or refuses nothing.
LEMMA RefusedRefuses ==
    ASSUME SendersInv, NEW ws \in SUBSET Wakes, Refused(ws), NEW batch, batch = ws \cap Queued(wake)
    PROVE  [Queue!QNext]_(Queue!qvars)
  <1>1. wake \in [Wakes -> WakeRow] /\ wake' = Drop(wake, ws) /\ retired' = retired
    BY DEF SendersInv, TypeOK, Refused
  <1>2. CASE batch = {}
    <2>1. wake' = wake
      BY <1>1, <1>2 DEF Drop, Queued
    <2>. QED
      BY <1>1, <2>1, NothingOfQueue
  <1>3. CASE batch # {}
    <2>1. ASSUME NEW w \in Wakes
          PROVE  /\ wake'[w].redelivery = wake[w].redelivery /\ wake'[w].turn = wake[w].turn
                 /\ wake'[w].state = IF w \in batch THEN "dropped" ELSE wake[w].state
      BY <1>1 DEF Drop, WakeRow, Queued
    <2>2. \A w \in batch : w \in Wakes /\ wake[w].state = "queued"
      BY DEF Queued
    <2>3. \A t \in Turns : TakenBy(wake', t) = TakenBy(wake, t)
      BY <2>1, <2>2 DEF TakenBy
    <2>4. Hands(wake') = Hands(wake)
      BY <2>3, SameHands
    <2>5. Queued(wake') = Queued(wake) \ batch
      BY <2>1, <2>2 DEF Queued
    <2>6. {w \in Wakes : wake'[w].state = "dropped"} = {w \in Wakes : wake[w].state = "dropped"} \cup batch
      BY <2>1, <2>2
    <2>7. \A st \in {"consumed", "moved"} :
             {w \in Wakes : wake'[w].state = st} = {w \in Wakes : wake[w].state = st}
      BY <2>1, <2>2
    <2>8. [w \in Wakes |-> wake'[w].redelivery] = [w \in Wakes |-> wake[w].redelivery]
      BY <2>1
    <2>9. Queue!Refuse(batch)
      BY <1>1, <2>4, <2>5, <2>6, <2>7, <2>8 DEF Queue!Refuse, Hands, Queued, TakenBy
    <2>10. batch \in (SUBSET Queued(wake)) \ {{}}
      BY <1>3
    <2>11. Queue!QNext
      BY <2>9, <2>10 DEF Queue!QNext
    <2>. QED
      BY <2>11
  <1>. QED
    BY <1>2, <1>3

\* What a hand-back does to one wake of a session that lives.
LEMMA RowHandedBack ==
    ASSUME NEW wk \in [Wakes -> WakeRow], NEW t, NEW counts \in BOOLEAN, NEW w \in Wakes
    PROVE  /\ w \notin TakenBy(wk, t) => HandBack(wk, t, counts, FALSE)[w] = wk[w]
           /\ w \in TakenBy(wk, t) /\ (counts /\ wk[w].redelivery >= MaxRedeliveries) =>
                 /\ HandBack(wk, t, counts, FALSE)[w].state = "dropped"
                 /\ HandBack(wk, t, counts, FALSE)[w].redelivery = wk[w].redelivery
           /\ w \in TakenBy(wk, t) /\ ~(counts /\ wk[w].redelivery >= MaxRedeliveries) =>
                 /\ HandBack(wk, t, counts, FALSE)[w].state = "queued"
                 /\ HandBack(wk, t, counts, FALSE)[w].redelivery = wk[w].redelivery + (IF counts THEN 1 ELSE 0)
  BY DEF HandBack, Requeue, WakeRow

\* What the queue sees of a hand-back: the batch waits again, but for the wakes
\* it gives up.
HandedBack(h, k, t, c, batch, over) ==
    /\ \A s \in Turns \ {t} : TakenBy(k, s) = TakenBy(h, s)
    /\ TakenBy(k, t) = {}
    /\ Queued(k) = (Queued(h) \cup batch) \ over
    /\ {w \in Wakes : k[w].state = "dropped"} = {w \in Wakes : h[w].state = "dropped"} \cup over
    /\ \A st \in {"consumed", "moved"} : {w \in Wakes : k[w].state = st} = {w \in Wakes : h[w].state = st}
    /\ \A w \in Wakes : k[w].redelivery = IF c /\ w \in batch \ over THEN h[w].redelivery + 1 ELSE h[w].redelivery

\* A hand-back gives up the wakes at the bound, and counts the others.
LEMMA HandBackOfQueue ==
    ASSUME NEW h \in [Wakes -> WakeRow], NEW t \in Turns, NEW c \in BOOLEAN,
           NEW k, k = HandBack(h, t, c, FALSE), NEW batch, batch = TakenBy(h, t),
           NEW over, over = {i \in batch : c /\ h[i].redelivery >= MaxRedeliveries}
    PROVE  HandedBack(h, k, t, c, batch, over)
  <1>1. ASSUME NEW w \in Wakes
        PROVE  /\ w \notin batch => k[w] = h[w]
               /\ w \in over => k[w].state = "dropped" /\ k[w].redelivery = h[w].redelivery
               /\ w \in batch \ over => k[w].state = "queued" /\ k[w].redelivery = h[w].redelivery + (IF c THEN 1 ELSE 0)
    <2>1. k[w] = HandBack(h, t, c, FALSE)[w]
      OBVIOUS
    <2>2. w \notin batch => k[w] = h[w]
      BY <2>1 DEF HandBack
    <2>3. w \in over => w \in batch /\ c /\ h[w].redelivery >= MaxRedeliveries
      OBVIOUS
    <2>4. w \in batch \ over => w \in batch /\ ~(c /\ h[w].redelivery >= MaxRedeliveries)
      OBVIOUS
    <2>5. w \in over => k[w].state = "dropped" /\ k[w].redelivery = h[w].redelivery
      BY <2>1, <2>3, RowHandedBack
    <2>6. w \in batch \ over => k[w].state = "queued" /\ k[w].redelivery = h[w].redelivery + (IF c THEN 1 ELSE 0)
      <3>1. w \in batch \ over => k[w] = Requeue(h[w], c)
        BY <2>1, <2>4 DEF HandBack
      <3>2. Requeue(h[w], c).state = "queued" /\ Requeue(h[w], c).redelivery = h[w].redelivery + (IF c THEN 1 ELSE 0)
        BY Zenon DEF Requeue
      <3>. QED
        BY <3>1, <3>2, Zenon
    <2>. QED
      BY <2>2, <2>5, <2>6
  <1>2. \A w \in batch : w \in Wakes /\ h[w].state = "taken" /\ h[w].turn = t
    BY DEF TakenBy
  <1>3. over \subseteq batch
    OBVIOUS
  <1>4. over # {} => c
    OBVIOUS
  <1>5. \A w \in Wakes : h[w].redelivery \in Nat
    BY StoreAssumption DEF WakeRow
  <1>6. /\ \A s \in Turns \ {t} : TakenBy(k, s) = TakenBy(h, s)
        /\ TakenBy(k, t) = {}
    <2>1. ASSUME NEW s \in Turns \ {t} PROVE TakenBy(k, s) = TakenBy(h, s)
      <3>1. ASSUME NEW w \in Wakes PROVE w \in TakenBy(k, s) <=> w \in TakenBy(h, s)
        <4>1. CASE w \in batch
          BY <1>1, <1>2, <1>3, <4>1 DEF TakenBy
        <4>2. CASE w \notin batch
          BY <1>1, <4>2 DEF TakenBy
        <4>. QED
          BY <4>1, <4>2
      <3>2. TakenBy(k, s) \subseteq Wakes /\ TakenBy(h, s) \subseteq Wakes
        BY DEF TakenBy
      <3>. QED
        BY <3>1, <3>2
    <2>2. TakenBy(k, t) = {}
      <3>1. \A w \in Wakes : k[w].state = "taken" => w \notin batch
        BY <1>1, <1>3
      <3>2. \A w \in TakenBy(k, t) : w \in Wakes /\ k[w].state = "taken" /\ k[w].turn = t
        BY DEF TakenBy
      <3>3. \A w \in TakenBy(k, t) : w \in TakenBy(h, t)
        BY <1>1, <3>1, <3>2 DEF TakenBy
      <3>. QED
        BY <3>1, <3>2, <3>3
    <2>. QED
      BY <2>1, <2>2
  <1>7. Queued(k) = (Queued(h) \cup batch) \ over
    BY ZenonT(60), <1>1, <1>2, <1>3 DEF Queued
  <1>8. {w \in Wakes : k[w].state = "dropped"} = {w \in Wakes : h[w].state = "dropped"} \cup over
    BY ZenonT(60), <1>1, <1>2, <1>3
  <1>9. ASSUME NEW st \in {"consumed", "moved"}
        PROVE  {w \in Wakes : k[w].state = st} = {w \in Wakes : h[w].state = st}
    BY ZenonT(60), <1>1, <1>2, <1>3
  <1>10. ASSUME NEW w \in Wakes
         PROVE  k[w].redelivery = IF c /\ w \in batch \ over THEN h[w].redelivery + 1 ELSE h[w].redelivery
    <2>1. CASE w \in batch \ over
      <3>1. k[w].redelivery = h[w].redelivery + (IF c THEN 1 ELSE 0) /\ h[w].redelivery \in Nat
        BY <1>1, <1>5, <2>1
      <3>2. CASE c
        BY <2>1, <3>1, <3>2
      <3>3. CASE ~c
        <4>1. k[w].redelivery = h[w].redelivery + 0 /\ h[w].redelivery \in Nat
          BY <3>1, <3>3, Zenon
        <4>2. k[w].redelivery = h[w].redelivery
          <5>1. \A n \in Nat : n + 0 = n
            OBVIOUS
          <5>. QED
            BY <4>1, <5>1, Zenon
        <4>. QED
          BY <3>3, <4>2, Zenon
      <3>. QED
        BY <3>2, <3>3
    <2>2. CASE w \in over
      BY <1>1, <2>2
    <2>3. CASE w \notin batch
      BY <1>1, <2>3
    <2>. QED
      BY <2>1, <2>2, <2>3
  <1>. QED
    BY <1>6, <1>7, <1>8, <1>9, <1>10 DEF HandedBack

\* Handing wakes to a turn that is over does with them what its end did.
LEMMA HandedTakes ==
    ASSUME SendersInv, NEW ws \in SUBSET Wakes, NEW t \in Turns, Handed(ws, t),
           NEW batch, batch = ws \cap Queued(wake)
    PROVE  [Queue!QNext]_(Queue!qvars)
  <1>. DEFINE st == turn'[t].status
  <1>1. /\ wake \in [Wakes -> WakeRow] /\ turn \in [Turns -> TurnRow] /\ retired' = retired
        /\ wake' = TakeWakes(wake, ws, t, st, live.last, retired)
    BY DEF SendersInv, TypeOK, Handed
  <1>2. st # "running" => TakenBy(wake, t) = {}
    <2>1. t \in Running(turn) => st = "running"
      BY <1>1 DEF Handed, EnsureTurn, Running, TurnRow
    <2>. QED
      BY <2>1 DEF SendersInv, TakenHasRunningTurn, TakenBy
  <1>3. ASSUME NEW w \in Wakes, NEW s \in {"taken", "consumed"}
        PROVE  /\ Hand(wake, ws, t, s)[w].redelivery = wake[w].redelivery
               /\ w \in batch => Hand(wake, ws, t, s)[w].state = s /\ Hand(wake, ws, t, s)[w].turn = t
               /\ w \notin batch => Hand(wake, ws, t, s)[w] = wake[w]
    BY <1>1 DEF Hand, WakeRow, Queued
  <1>4. \A w \in batch : w \in Wakes /\ wake[w].state = "queued" /\ ~retired
    BY DEF Queued, SendersInv, RetiredHoldsNoWake
  <1>5. batch # {} => batch \in (SUBSET Queued(wake)) \ {{}}
    OBVIOUS
  <1>6. CASE st = "running"
    <2>1. wake' = Hand(wake, ws, t, "taken")
      BY <1>1, <1>6 DEF TakeWakes
    <2>2. CASE batch = {}
      <3>1. wake' = wake
        BY <1>1, <2>1, <2>2 DEF Hand, Queued
      <3>. QED
        BY <1>1, <3>1, NothingOfQueue
    <2>3. CASE batch # {}
      <3>1. ASSUME NEW w \in Wakes
            PROVE  /\ wake'[w].redelivery = wake[w].redelivery
                   /\ w \in batch => wake'[w].state = "taken" /\ wake'[w].turn = t
                   /\ w \notin batch => wake'[w] = wake[w]
        BY <1>3, <2>1
      <3>2. TakenBy(wake', t) = batch \cup TakenBy(wake, t) /\ \A s \in Turns \ {t} : TakenBy(wake', s) = TakenBy(wake, s)
        BY <1>4, <3>1 DEF TakenBy
      <3>3. Hands(wake') = (Hands(wake) \ {TakenBy(wake, t)}) \cup {batch \cup TakenBy(wake, t)}
        <4>1. Hands(wake') = (Hands(wake) \ {TakenBy(wake, t)}) \cup {TakenBy(wake', t)}
          BY <2>3, <3>2, HandGrows
        <4>. QED
          BY <3>2, <4>1
      <3>4. Queued(wake') = Queued(wake) \ batch
        BY <1>4, <3>1 DEF Queued
      <3>5. \A s \in {"consumed", "dropped", "moved"} :
               {w \in Wakes : wake'[w].state = s} = {w \in Wakes : wake[w].state = s}
        BY <1>4, <3>1
      <3>6. [w \in Wakes |-> wake'[w].redelivery] = [w \in Wakes |-> wake[w].redelivery]
        BY <3>1
      <3>. PICK with : with = TakenBy(wake, t)
        OBVIOUS
      <3>7. Queue!TakeUp(batch, with)
        BY <1>1, <3>3, <3>4, <3>5, <3>6 DEF Queue!TakeUp, Hands, Queued, TakenBy
      <3>8. with \in Hands(wake) \cup {{}}
        BY DEF Hands
      <3>9. with \in ({TakenBy(wake, u) : u \in Turns} \ {{}}) \cup {{}}
        BY <3>8 DEF Hands
      <3>. QED
        BY <1>5, <2>3, <3>7, <3>9 DEF Queue!QNext
    <2>. QED
      BY <2>2, <2>3
  <1>7. CASE st # "running" /\ FateOf(st, t, live.last) = "consumed"
    <2>1. wake' = Hand(wake, ws, t, "consumed")
      BY <1>1, <1>7 DEF TakeWakes
    <2>2. CASE batch = {}
      <3>1. wake' = wake
        BY <1>1, <2>1, <2>2 DEF Hand, Queued
      <3>. QED
        BY <1>1, <3>1, NothingOfQueue
    <2>3. CASE batch # {}
      <3>1. ASSUME NEW w \in Wakes
            PROVE  /\ wake'[w].redelivery = wake[w].redelivery
                   /\ w \in batch => wake'[w].state = "consumed"
                   /\ w \notin batch => wake'[w] = wake[w]
        BY <1>3, <2>1
      <3>2. \A s \in Turns : TakenBy(wake', s) = TakenBy(wake, s)
        BY <1>4, <3>1 DEF TakenBy
      <3>3. Hands(wake') = Hands(wake) \ {batch}
        <4>1. Hands(wake') = Hands(wake)
          BY <3>2, SameHands
        <4>2. batch \notin Hands(wake)
          BY <1>4, <2>3 DEF Hands, TakenBy
        <4>. QED
          BY <4>1, <4>2
      <3>4. Queued(wake') = Queued(wake) \ batch
        BY <1>4, <3>1 DEF Queued
      <3>5. /\ {w \in Wakes : wake'[w].state = "consumed"} = {w \in Wakes : wake[w].state = "consumed"} \cup batch
            /\ \A s \in {"dropped", "moved"} : {w \in Wakes : wake'[w].state = s} = {w \in Wakes : wake[w].state = s}
        BY <1>4, <3>1
      <3>6. [w \in Wakes |-> wake'[w].redelivery] = [w \in Wakes |-> wake[w].redelivery]
        BY <3>1
      <3>7. Queue!Finish(batch)
        BY <1>1, <3>3, <3>4, <3>5, <3>6 DEF Queue!Finish, Hands, Queued, TakenBy
      <3>8. batch \in (SUBSET Queued(wake)) \ {{}}
        BY <1>5, <2>3
      <3>9. Queue!QNext
        BY <3>7, <3>8 DEF Queue!QNext
      <3>. QED
        BY <3>9
    <2>. QED
      BY <2>2, <2>3
  <1>8. CASE st # "running" /\ FateOf(st, t, live.last) # "consumed"
    <2>. PICK h : h = Hand(wake, ws, t, "taken")
      OBVIOUS
    <2>. PICK c \in BOOLEAN : c <=> FateOf(st, t, live.last) = "counted"
      OBVIOUS
    <2>. PICK over : over = {i \in batch : c /\ h[i].redelivery >= MaxRedeliveries}
      OBVIOUS
    <2>1. h \in [Wakes -> WakeRow]
      BY <1>1, HandType
    <2>2. TakenBy(h, t) = batch
      BY <1>2, <1>3, <1>8 DEF TakenBy
    <2>3. CASE batch = {}
      <3>1. \A w \in Wakes : h[w] = wake[w]
        BY <1>3, <2>3
      <3>2. h = wake
        BY <1>1, <2>1, <3>1
      <3>3. wake' = wake
        BY <1>1, <1>8, <2>2, <2>3, <3>2 DEF TakeWakes, HandBack
      <3>. QED
        BY <1>1, <3>3, NothingOfQueue
    <2>4. CASE batch # {}
      <3>1. retired = FALSE
        BY <1>4, <2>4 DEF SendersInv, TypeOK
      <3>2. wake' = HandBack(h, t, c, FALSE)
        BY <1>1, <1>8, <3>1 DEF TakeWakes, HandBack, Requeue
      <3>3. HandedBack(h, wake', t, c, batch, over)
        BY <2>1, <2>2, <3>2, HandBackOfQueue
      <3>4. /\ \A s \in Turns \ {t} : TakenBy(h, s) = TakenBy(wake, s)
            /\ TakenBy(wake, t) = {}
        BY <1>2, <1>3, <1>4, <1>8 DEF TakenBy
      <3>5. Hands(wake') = Hands(wake)
        <4>1. \A s \in Turns : TakenBy(wake', s) = TakenBy(wake, s)
          BY <3>3, <3>4 DEF HandedBack
        <4>. QED
          BY <4>1, SameHands
      <3>6. batch \notin Hands(wake)
        BY <1>4, <2>4 DEF Hands, TakenBy
      <3>7. Queued(h) = Queued(wake) \ batch
        BY <1>3, <1>4 DEF Queued
      <3>8. Queued(wake') = Queued(wake) \ over
        <4>1. batch \subseteq Queued(wake)
          OBVIOUS
        <4>. QED
          BY <3>3, <3>7, <4>1 DEF HandedBack
      <3>9. /\ {w \in Wakes : wake'[w].state = "dropped"} = {w \in Wakes : wake[w].state = "dropped"} \cup over
            /\ \A s \in {"consumed", "moved"} : {w \in Wakes : wake'[w].state = s} = {w \in Wakes : wake[w].state = s}
        <4>1. \A s \in {"dropped", "consumed", "moved"} : {w \in Wakes : h[w].state = s} = {w \in Wakes : wake[w].state = s}
          BY <1>3, <1>4
        <4>. QED
          BY <3>3, <4>1 DEF HandedBack
      <3>10. \A w \in Wakes : wake'[w].redelivery = IF c /\ w \in batch \ over THEN wake[w].redelivery + 1 ELSE wake[w].redelivery
        BY <1>3, <3>3 DEF HandedBack
      <3>11. CASE c
        <4>1. over = {i \in batch : [w \in Wakes |-> wake[w].redelivery][i] >= MaxRedeliveries}
          BY <1>3, <1>4, <3>11
        <4>2. [w \in Wakes |-> wake'[w].redelivery]
                = [w \in Wakes |-> IF w \in batch \ over THEN [v \in Wakes |-> wake[v].redelivery][w] + 1
                                   ELSE [v \in Wakes |-> wake[v].redelivery][w]]
          BY <3>10, <3>11
        <4>3. Queued(wake') = (Queued(wake) \cup batch) \ over
          BY <3>8
        <4>4. Hands(wake') = Hands(wake) \ {batch}
          BY <3>5, <3>6
        <4>5. Queue!Fail(batch)
          <5>1. Queued(wake') = (Queued(wake) \cup batch) \ {i \in batch : [w \in Wakes |-> wake[w].redelivery][i] >= MaxRedeliveries}
            BY <4>1, <4>3
          <5>2. {w \in Wakes : wake'[w].state = "dropped"} = {w \in Wakes : wake[w].state = "dropped"} \cup {i \in batch : [w \in Wakes |-> wake[w].redelivery][i] >= MaxRedeliveries}
            BY <3>9, <4>1
          <5>3. [w \in Wakes |-> wake'[w].redelivery]
                  = [w \in Wakes |-> IF w \in batch \ {i \in batch : [v \in Wakes |-> wake[v].redelivery][i] >= MaxRedeliveries}
                                     THEN [v \in Wakes |-> wake[v].redelivery][w] + 1
                                     ELSE [v \in Wakes |-> wake[v].redelivery][w]]
            BY <4>1, <4>2
          <5>. QED
            BY <4>4, <1>1, <3>9, <5>1, <5>2, <5>3 DEF Queue!Fail, Hands, Queued, TakenBy
        <4>6. batch \in (SUBSET Queued(wake)) \ {{}}
          BY <1>5, <2>4
        <4>7. Queue!QNext
          BY <4>5, <4>6 DEF Queue!QNext
        <4>. QED
          BY <4>7
      <3>12. CASE ~c
        <4>1. over = {}
          BY <3>12
        <4>2. [w \in Wakes |-> wake'[w].redelivery] = [w \in Wakes |-> wake[w].redelivery]
          BY <3>10, <3>12
        <4>. QED
          BY <1>1, <3>5, <3>8, <3>9, <4>1, <4>2 DEF Queue!qvars, Hands, Queued, TakenBy
      <3>. QED
        BY <3>11, <3>12
    <2>. QED
      BY <2>3, <2>4
  <1>. QED
    BY <1>6, <1>7, <1>8

\* The end of a turn does with its batch what its outcome says.
LEMMA FinishedSettles ==
    ASSUME SendersInv, NEW t \in Turns, NEW fate \in Fates,
           wake' = Settle(wake, t, fate, retired), retired' = retired,
           NEW batch, batch = TakenBy(wake, t)
    PROVE  [Queue!QNext]_(Queue!qvars)
  <1>1. wake \in [Wakes -> WakeRow]
    BY DEF SendersInv, TypeOK
  <1>2. \A w \in batch : w \in Wakes /\ wake[w].state = "taken" /\ wake[w].turn = t
    BY DEF TakenBy
  <1>3. batch \cap Queued(wake) = {}
    BY <1>2 DEF Queued
  <1>4. CASE batch = {}
    <2>1. wake' = wake
      BY <1>1, <1>4 DEF Settle, Consume, HandBack
    <2>. QED
      BY <2>1, NothingOfQueue
  <1>5. CASE batch # {} /\ fate = "consumed"
    <2>1. ASSUME NEW w \in Wakes
          PROVE  /\ wake'[w].redelivery = wake[w].redelivery /\ wake'[w].turn = wake[w].turn
                 /\ wake'[w].state = IF w \in batch THEN "consumed" ELSE wake[w].state
      BY <1>1, <1>5 DEF Settle, Consume, WakeRow
    <2>2. TakenBy(wake', t) = {} /\ \A s \in Turns \ {t} : TakenBy(wake', s) = TakenBy(wake, s)
      BY <1>2, <2>1 DEF TakenBy
    <2>3. Hands(wake') = Hands(wake) \ {batch}
      BY <2>2, HandLeaves
    <2>4. Queued(wake') = Queued(wake) \ batch
      BY <1>2, <2>1 DEF Queued
    <2>5. /\ {w \in Wakes : wake'[w].state = "consumed"} = {w \in Wakes : wake[w].state = "consumed"} \cup batch
          /\ \A s \in {"dropped", "moved"} : {w \in Wakes : wake'[w].state = s} = {w \in Wakes : wake[w].state = s}
      BY <1>2, <2>1
    <2>6. [w \in Wakes |-> wake'[w].redelivery] = [w \in Wakes |-> wake[w].redelivery]
      BY <2>1
    <2>7. Queue!Finish(batch)
      BY <2>3, <2>4, <2>5, <2>6 DEF Queue!Finish, Hands, Queued, TakenBy
    <2>8. batch \in {TakenBy(wake, u) : u \in Turns} \ {{}}
      BY <1>5
    <2>9. Queue!QNext
      BY <2>7, <2>8 DEF Queue!QNext
    <2>. QED
      BY <2>9
  <1>6. CASE batch # {} /\ fate # "consumed"
    <2>. PICK c \in BOOLEAN : c <=> fate = "counted"
      OBVIOUS
    <2>. PICK over : over = {i \in batch : c /\ wake[i].redelivery >= MaxRedeliveries}
      OBVIOUS
    <2>1. retired = FALSE
      BY <1>2, <1>6 DEF SendersInv, RetiredHoldsNoWake, TypeOK
    <2>2. wake' = HandBack(wake, t, c, FALSE)
      BY <1>6, <2>1 DEF Settle, HandBack, Requeue
    <2>3. HandedBack(wake, wake', t, c, batch, over)
      BY <1>1, <2>2, HandBackOfQueue
    <2>4. Hands(wake') = Hands(wake) \ {batch}
      BY <2>3, HandLeaves DEF HandedBack
    <2>5. batch \in {TakenBy(wake, u) : u \in Turns} \ {{}}
      BY <1>6
    <2>8. \A s \in {"consumed", "moved"} : {w \in Wakes : wake'[w].state = s} = {w \in Wakes : wake[w].state = s}
      BY <2>3 DEF HandedBack
    <2>9. over = {} => {w \in Wakes : wake'[w].state = "dropped"} = {w \in Wakes : wake[w].state = "dropped"}
      BY <2>3 DEF HandedBack
    <2>6. CASE c
      <3>1. over = {i \in batch : [w \in Wakes |-> wake[w].redelivery][i] >= MaxRedeliveries}
        BY <1>2, <2>6
      <3>2. [w \in Wakes |-> wake'[w].redelivery]
              = [w \in Wakes |-> IF w \in batch \ over THEN [v \in Wakes |-> wake[v].redelivery][w] + 1
                                 ELSE [v \in Wakes |-> wake[v].redelivery][w]]
        BY <2>3, <2>6 DEF HandedBack
      <3>3. Queue!Fail(batch)
        <4>1. Queued(wake') = (Queued(wake) \cup batch) \ {i \in batch : [w \in Wakes |-> wake[w].redelivery][i] >= MaxRedeliveries}
          BY <2>3, <3>1 DEF HandedBack
        <4>2. {w \in Wakes : wake'[w].state = "dropped"} = {w \in Wakes : wake[w].state = "dropped"} \cup {i \in batch : [w \in Wakes |-> wake[w].redelivery][i] >= MaxRedeliveries}
          BY <2>3, <3>1 DEF HandedBack
        <4>3. [w \in Wakes |-> wake'[w].redelivery]
                = [w \in Wakes |-> IF w \in batch \ {i \in batch : [v \in Wakes |-> wake[v].redelivery][i] >= MaxRedeliveries}
                                   THEN [v \in Wakes |-> wake[v].redelivery][w] + 1
                                   ELSE [v \in Wakes |-> wake[v].redelivery][w]]
          BY <3>1, <3>2
        <4>. QED
          BY <2>4, <2>8, <4>1, <4>2, <4>3 DEF Queue!Fail, Hands, Queued, TakenBy
      <3>4. Queue!QNext
        BY <2>5, <3>3 DEF Queue!QNext
      <3>. QED
        BY <3>4
    <2>7. CASE ~c
      <3>1. over = {}
        BY <2>7
      <3>2. [w \in Wakes |-> wake'[w].redelivery] = [w \in Wakes |-> wake[w].redelivery]
        BY <2>3, <2>7 DEF HandedBack
      <3>3. Queued(wake') = Queued(wake) \cup (UNION {batch})
        BY <2>3, <3>1 DEF HandedBack
      <3>. PICK batches : batches = {batch}
        OBVIOUS
      <3>4. Queue!GiveBack(batches)
        BY <2>4, <2>8, <2>9, <3>1, <3>2, <3>3 DEF Queue!GiveBack, Hands, Queued, TakenBy
      <3>5. batches \in SUBSET ({TakenBy(wake, u) : u \in Turns} \ {{}})
        BY <2>5
      <3>6. Queue!QNext
        BY <3>4, <3>5 DEF Queue!QNext
      <3>. QED
        BY <3>6
    <2>. QED
      BY <2>6, <2>7
  <1>. QED
    BY <1>4, <1>5, <1>6

\* An interruption (a restart, a settled store) gives every batch back.
LEMMA InterruptedGivesBack ==
    ASSUME SendersInv, NEW ts, Interrupted(ts), NEW batches, batches = Hands(wake)
    PROVE  [Queue!QNext]_(Queue!qvars)
  <1>1. /\ wake \in [Wakes -> WakeRow] /\ retired' = retired
        /\ wake' = HandBackAll(wake, ts, retired)
    BY DEF SendersInv, TypeOK, Interrupted
  <1>2. \A w \in Wakes : wake[w].state = "taken" => wake[w].turn \in ts /\ wake[w].turn \in Turns /\ retired = FALSE
    BY DEF SendersInv, TakenHasRunningTurn, RetiredHoldsNoWake, Interrupted, Running, TypeOK
  <1>3. ASSUME NEW w \in Wakes
        PROVE  /\ wake'[w].redelivery = wake[w].redelivery
               /\ wake'[w].state = IF wake[w].state = "taken" THEN "queued" ELSE wake[w].state
    <2>1. CASE wake[w].state # "taken"
      BY <1>1, <2>1 DEF HandBackAll
    <2>2. CASE wake[w].state = "taken"
      <3>1. wake'[w] = HandBack(wake, wake[w].turn, FALSE, FALSE)[w]
        BY <1>1, <1>2, <2>2 DEF HandBackAll
      <3>2. w \in TakenBy(wake, wake[w].turn)
        BY <2>2 DEF TakenBy
      <3>3. wake[w].redelivery \in Nat
        BY <1>1, StoreAssumption DEF WakeRow
      <3>. QED
        BY <1>1, <2>2, <3>1, <3>2, <3>3 DEF HandBack, Requeue
    <2>. QED
      BY <2>1, <2>2
  <1>4. \A s \in Turns : TakenBy(wake', s) = {}
    BY <1>3 DEF TakenBy
  <1>5. Hands(wake') = Hands(wake) \ batches
    BY <1>4 DEF Hands
  <1>6. UNION batches = {w \in Wakes : wake[w].state = "taken"}
    <2>1. ASSUME NEW w \in UNION batches PROVE w \in Wakes /\ wake[w].state = "taken"
      BY DEF Hands, TakenBy
    <2>2. ASSUME NEW w \in Wakes, wake[w].state = "taken" PROVE w \in UNION batches
      <3>1. wake[w].turn \in Turns /\ w \in TakenBy(wake, wake[w].turn)
        BY <1>2, <2>2 DEF TakenBy
      <3>2. TakenBy(wake, wake[w].turn) \in batches
        BY <3>1 DEF Hands
      <3>. QED
        BY <3>1, <3>2
    <2>. QED
      BY <2>1, <2>2
  <1>7. Queued(wake') = Queued(wake) \cup (UNION batches)
    BY <1>3, <1>6 DEF Queued
  <1>8. \A s \in {"consumed", "dropped", "moved"} :
           {w \in Wakes : wake'[w].state = s} = {w \in Wakes : wake[w].state = s}
    BY <1>3
  <1>9. [w \in Wakes |-> wake'[w].redelivery] = [w \in Wakes |-> wake[w].redelivery]
    BY <1>3
  <1>10. Queue!GiveBack(batches)
    BY <1>1, <1>5, <1>7, <1>8, <1>9 DEF Queue!GiveBack, Hands, Queued, TakenBy
  <1>11. batches \in SUBSET ({TakenBy(wake, u) : u \in Turns} \ {{}})
    BY DEF Hands
  <1>12. Queue!QNext
    BY <1>10, <1>11 DEF Queue!QNext
  <1>. QED
    BY <1>12

-----------------------------------------------------------------------------
(***************************************************************************)
(* The refinement.                                                         *)
(***************************************************************************)

\* Only a recycle moves wakes.
LEMMA StepMoved == ASSUME SendersInv, [Next]_vars PROVE MovedIsRetired'
  <1>1. wake \in [Wakes -> WakeRow]
    BY DEF SendersInv, TypeOK
  <1>2. CASE UNCHANGED <<wake, turn, retired>>
    BY <1>2 DEF SendersInv, MovedIsRetired
  <1>3. CASE \E w \in Wakes : Delivered(w)
    BY <1>1, <1>3 DEF SendersInv, MovedIsRetired, Delivered, Enqueue, WakeRow
  <1>4. CASE Recycled
    BY <1>4 DEF MovedIsRetired, Recycled
  <1>5. CASE \E ws \in SUBSET Wakes : Refused(ws)
    BY <1>1, <1>5 DEF SendersInv, MovedIsRetired, Refused, Drop, WakeRow
  <1>6. ASSUME NEW ws \in SUBSET Wakes, NEW t \in Turns, Handed(ws, t) PROVE MovedIsRetired'
    <2>1. ASSUME NEW w \in Wakes, wake'[w].state = "moved" PROVE wake[w].state = "moved"
      <3>. DEFINE st == turn'[t].status
      <3>1. wake' = TakeWakes(wake, ws, t, st, live.last, retired)
        BY <1>6 DEF Handed
      <3>2. CASE st = "running" \/ FateOf(st, t, live.last) = "consumed"
        BY <1>1, <2>1, <3>1, <3>2 DEF TakeWakes, Hand, WakeRow
      <3>3. CASE st # "running" /\ FateOf(st, t, live.last) # "consumed"
        <4>. PICK h : h = Hand(wake, ws, t, "taken")
          OBVIOUS
        <4>. PICK c : c = (FateOf(st, t, live.last) = "counted")
          OBVIOUS
        <4>1. wake' = HandBack(h, t, c, retired)
          BY <3>1, <3>3 DEF TakeWakes
        <4>2. h \in [Wakes -> WakeRow]
          BY <1>1, HandType
        <4>3. h[w].state = "moved"
          BY <2>1, <4>1, <4>2 DEF HandBack, Requeue, WakeRow
        <4>. QED
          BY <1>1, <4>3 DEF Hand, WakeRow
      <3>. QED
        BY <3>2, <3>3
    <2>. QED
      BY <1>6, <2>1 DEF SendersInv, MovedIsRetired, Handed
  <1>7. CASE \E t \in Turns : Began(t)
    BY <1>7 DEF SendersInv, MovedIsRetired, Began
  <1>8. ASSUME NEW t \in Turns, NEW out, Finished(t, out) PROVE MovedIsRetired'
    <2>1. ASSUME NEW w \in Wakes, wake'[w].state = "moved" PROVE wake[w].state = "moved"
      BY <1>1, <1>8, <2>1 DEF Finished, Settle, Consume, HandBack, Requeue, WakeRow
    <2>. QED
      BY <1>8, <2>1 DEF SendersInv, MovedIsRetired, Finished
  <1>9. ASSUME NEW ts, Interrupted(ts) PROVE MovedIsRetired'
    <2>1. ASSUME NEW w \in Wakes, wake'[w].state = "moved" PROVE wake[w].state = "moved"
      BY <1>1, <1>9, <2>1 DEF Interrupted, HandBackAll, HandBack, Requeue, WakeRow
    <2>. QED
      BY <1>9, <2>1 DEF SendersInv, MovedIsRetired, Interrupted
  <1>. QED
    BY <1>2, <1>3, <1>4, <1>5, <1>6, <1>7, <1>8, <1>9, StepIsTransaction DEF Transaction, SendersInv

\* Every step is one of the queue's, or changes nothing of it.
LEMMA StepOfQueue == ASSUME SendersInv, [Next]_vars PROVE [Queue!QNext]_(Queue!qvars)
  <1>1. CASE UNCHANGED <<wake, turn, retired>>
    BY <1>1, NothingOfQueue
  <1>2. ASSUME NEW w \in Wakes, Delivered(w) PROVE [Queue!QNext]_(Queue!qvars)
    <2>1. Queue!Add(w)
      BY <1>2, DeliveredAdds
    <2>. QED
      BY <2>1 DEF Queue!QNext
  <1>3. CASE Recycled
    <2>1. Queue!Close
      BY <1>3, RecycledCloses
    <2>. QED
      BY <2>1 DEF Queue!QNext
  <1>4. ASSUME NEW ws \in SUBSET Wakes, Refused(ws) PROVE [Queue!QNext]_(Queue!qvars)
    <2>. PICK batch : batch = ws \cap Queued(wake)
      OBVIOUS
    <2>. QED
      BY <1>4, RefusedRefuses
  <1>5. ASSUME NEW ws \in SUBSET Wakes, NEW t \in Turns, Handed(ws, t) PROVE [Queue!QNext]_(Queue!qvars)
    <2>. PICK batch : batch = ws \cap Queued(wake)
      OBVIOUS
    <2>. QED
      BY <1>5, HandedTakes
  <1>6. ASSUME NEW t \in Turns, Began(t) PROVE [Queue!QNext]_(Queue!qvars)
    <2>1. UNCHANGED Queue!qvars
      BY <1>6, NothingOfQueue DEF Began
    <2>. QED
      BY <2>1
  <1>7. ASSUME NEW t \in Turns, NEW end \in Ends \cup {"none"}, NEW reason \in BOOLEAN, Finished(t, Outcome(end, reason))
        PROVE  [Queue!QNext]_(Queue!qvars)
    <2>. PICK batch : batch = TakenBy(wake, t)
      OBVIOUS
    <2>. PICK fate : fate = Outcome(end, reason).fate
      OBVIOUS
    <2>1. fate \in Fates
      BY OutcomeType
    <2>2. wake' = Settle(wake, t, fate, retired) /\ retired' = retired
      BY <1>7 DEF Finished
    <2>. QED
      BY <2>1, <2>2, FinishedSettles
  <1>8. ASSUME NEW ts, Interrupted(ts) PROVE [Queue!QNext]_(Queue!qvars)
    <2>. PICK batches : batches = Hands(wake)
      OBVIOUS
    <2>. QED
      BY <1>8, InterruptedGivesBack
  <1>. QED
    BY <1>1, <1>2, <1>3, <1>4, <1>5, <1>6, <1>7, <1>8, StepIsTransaction DEF Transaction, SendersInv

\* An empty store is an empty queue.
LEMMA InitOfQueue == ASSUME Init PROVE Queue!QInit /\ MovedIsRetired
  <1>1. \A w \in Wakes : wake[w].state = "absent" /\ wake[w].redelivery = 0
    BY DEF Init, NoWake
  <1>2. Queued(wake) = {} /\ Hands(wake) = {}
    BY <1>1 DEF Queued, Hands, TakenBy
  <1>3. \A s \in {"consumed", "dropped", "moved"} : {w \in Wakes : wake[w].state = s} = {}
    BY <1>1
  <1>4. [w \in Wakes |-> wake[w].redelivery] = [w \in Wakes |-> 0]
    BY <1>1
  <1>5. Queue!QInit
    BY <1>2, <1>3, <1>4 DEF Init, Queue!QInit, Hands, Queued, TakenBy
  <1>. QED
    BY <1>1, <1>5 DEF MovedIsRetired

\* Whatever the pump, the admission, the CLI, the timers, a person, a crash and
\* the boot after it do, in whatever order, a session's senders see the queue of
\* WakeQueue: a batch is finished or given back whole, only its failures count,
\* and what is done stays done.
THEOREM ImplementsQueue == Spec => QueueOfWakes
  <1>1. Init => Queue!QInit /\ MovedIsRetired
    BY InitOfQueue
  <1>2. TypeOK /\ RetiredHoldsNoWake /\ TakenHasRunningTurn /\ MovedIsRetired /\ [Next]_vars =>
           MovedIsRetired' /\ [Queue!QNext]_(Queue!qvars)
    BY StepMoved, StepOfQueue DEF SendersInv
  <1>. QED
    BY <1>1, <1>2, TypeCorrect, RetiredIsEmpty, TakenIsRunning, PTL DEF Spec, QueueOfWakes, Queue!QSpec

=============================================================================
