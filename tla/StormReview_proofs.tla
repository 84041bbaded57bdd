------------------------- MODULE StormReview_proofs -------------------------
(***************************************************************************)
(* That what a session's review queue settled stays settled, that a call   *)
(* runs at most once on a decision, that no open item is left without its  *)
(* call, a park or a hold, and that the items open for one action do not   *)
(* add up, for every number of calls, every set of actions and of faults.  *)
(***************************************************************************)
EXTENDS StormReview, SequenceTheorems, TLAPS

-----------------------------------------------------------------------------
(***************************************************************************)
(* The types of what the proofs are about.                                 *)
(***************************************************************************)

ItemRow == [state : ItemStates, parked : BOOLEAN, via : Ways]
CallRow == [state : CallStates, act : Actions, future : {"none", "pending", "done"}]
LiveSet == [state : {"none", "up", "dying", "closing"}, held : SUBSET Calls, deciding : SUBSET Calls,
            ahead : SUBSET Calls, release : BOOLEAN]
DecSet  == [pc : {"none", "read", "out", "session"}, call : Calls \cup {NoCall}, allow : BOOLEAN]
Phases  == {"wait", "out", "made", "failed"}

\* A write of one call's item, and one that spends a grant.
Single == {"open", "spend", "answer", "deliver", "park"}
OpSet  == [kind : OpKinds, calls : SUBSET Calls, grant : Calls \cup {NoCall}]
Ops    == {op \in OpSet : /\ op.kind \in Single => \E c \in Calls : op.calls = {c}
                          /\ op.kind = "spend" => op.grant \in Calls}

Typed ==
    /\ item \in [Calls -> ItemRow] /\ grant \in [Calls -> {"none", "open", "used"}]
    /\ ran \in [Calls -> Nat]
    /\ call \in [Calls -> CallRow]
    /\ live \in LiveSet /\ unparked \in SUBSET Calls
    /\ q \in Seq(Ops) /\ phase \in Phases /\ (phase # "wait" => q # <<>>)
    /\ dec \in DecSet /\ (dec.pc # "none" => dec.call \in Calls)

-----------------------------------------------------------------------------
(***************************************************************************)
(* What a step does to the queue of writes.                                *)
(***************************************************************************)

QKept     == q' = q /\ phase' = phase
QFailed   == phase = "out" /\ q' = q /\ phase' = "failed"
QMade     == phase = "out" /\ q # <<>> /\ q' = q /\ phase' = "made"
QPopped   == q # <<>> /\ q' = Tail(q) /\ phase' = "wait"
QCleared  == q' = <<>> /\ phase' = "wait"
\* The first write begins; what it is about may be known only now.
QBegun(op) == /\ q # <<>> /\ phase = "wait" /\ phase' = "out"
              /\ op.kind = Head(q).kind /\ (op.kind # "close" => op = Head(q))
              /\ q' = <<op>> \o Tail(q)
QWrote(op) == \/ q = <<>> /\ q' = <<op>> /\ phase' = "out"
              \/ q # <<>> /\ q' = Append(q, op) /\ phase' = phase

QMoves ==
    \/ QKept \/ QFailed \/ QPopped \/ QCleared
    \/ \E op \in Ops : QBegun(op)
    \/ \E op \in Ops : op.kind # "open" /\ QWrote(op)

\* A call asks, once.
Asks(c) ==
    /\ call[c].state = "none" /\ call'[c].state # "none"
    /\ \E op \in Ops : op.kind = "open" /\ op.calls = {c} /\ QWrote(op)

\* What it does to the items, the grants and the calls that ran.
Moves   == UNCHANGED <<item, grant, ran>> /\ (QMoves \/ \E c \in Calls : Asks(c))
Opens   == QMade /\ Head(q).kind = "open" /\ OpenItem(OpCall) /\ UNCHANGED <<grant, ran>>
Edits   == /\ \/ item' = item
              \/ \E calls : item' = Park(item, calls)
              \/ \E calls : \E state \in {"withdrawn", "expired"} : item' = To(item, calls, state)
           /\ UNCHANGED <<grant, ran>>
           /\ QKept \/ (QMade /\ Head(q).kind \notin {"open", "spend", "answer"})
Spends  == /\ QMade /\ Head(q).kind = "spend" /\ grant[Head(q).grant] = "open"
           /\ grant' = [grant EXCEPT ![Head(q).grant] = "used"] /\ UNCHANGED <<item, ran>>
Answers == QMade /\ Head(q).kind = "answer" /\ IsOpen(OpCall) /\ Record(OpCall, "in_call") /\ UNCHANGED <<grant, ran>>
Decides(c, via) ==
    /\ IsOpen(c) /\ Record(c, via) /\ UNCHANGED ran
    /\ grant' = IF via = "grant" THEN [grant EXCEPT ![c] = "open"] ELSE grant
    /\ QKept \/ (QMade /\ Head(q).kind = "deliver")
RunsOf(g) == QPopped /\ UNCHANGED <<item, grant>> /\ ran' = [ran EXCEPT ![g] = @ + 1]
Runs    == /\ phase = "made" /\ q # <<>>
           /\ \/ Head(q).kind = "spend" /\ RunsOf(Head(q).grant)
              \/ Head(q).kind = "answer" /\ RunsOf(OpCall)

Effect ==
    \/ Moves \/ Opens \/ Edits \/ Spends \/ Answers \/ Runs
    \/ \E c \in Calls, via \in {"grant", "wake"} : Decides(c, via)

\* And the memory it leaves; a call that was asked stays asked.
Asked2 == \A c \in Calls : call[c].state # "none" => call'[c].state # "none"
Remembered ==
    /\ call' \in [Calls -> CallRow] /\ Asked2
    /\ live' \in LiveSet /\ unparked' \in SUBSET Calls
    /\ dec' \in DecSet /\ (dec'.pc # "none" => dec'.call \in Calls)

-----------------------------------------------------------------------------
(***************************************************************************)
(* The parts of a step.                                                    *)
(***************************************************************************)

\* The operations of the writes.
LEMMA OpsOf ==
    /\ \A kind \in OpKinds \ (Single \cup {"spend"}), calls \in SUBSET Calls : Op(kind, calls) \in Ops
    /\ \A kind \in OpKinds \ {"spend"}, c \in Calls : Op(kind, {c}) \in Ops
    /\ \A c, g \in Calls : SpendOp(c, g) \in Ops
    /\ \A kind, calls : Op(kind, calls).kind = kind /\ Op(kind, calls).calls = calls
  BY DEF Op, SpendOp, Ops, OpSet, OpKinds, Single

\* The first write.
LEMMA HeadOp ==
    ASSUME Typed, q # <<>>
    PROVE  /\ Head(q) \in Ops /\ Tail(q) \in Seq(Ops)
           /\ Head(q).kind \in Single => OpCall \in Calls /\ Head(q).calls = {OpCall}
           /\ Head(q).kind = "spend" => Head(q).grant \in Calls
  <1>1. Head(q) \in Ops /\ Tail(q) \in Seq(Ops)
    BY DEF Typed
  <1>2. ASSUME Head(q).kind \in Single PROVE OpCall \in Calls /\ Head(q).calls = {OpCall}
    <2>1. PICK c \in Calls : Head(q).calls = {c}
      BY <1>1, <1>2 DEF Ops
    <2>2. OpCall = c
      BY <2>1 DEF OpCall
    <2>. QED
      BY <2>1, <2>2
  <1>. QED
    BY <1>1, <1>2 DEF Ops

\* What a write changes in memory.
LEMMA LiveEdits ==
    ASSUME NEW l \in LiveSet, NEW op \in Ops
    PROVE  /\ Prepare(l, op) \in LiveSet
           /\ Starting(l, op) \in Ops /\ Starting(l, op).kind = op.kind
           /\ op.kind # "close" => Starting(l, op) = op
  BY DEF Prepare, Starting, LiveSet, Ops, OpSet, Single, Settling

LEMMA NoLiveType == NoLive \in LiveSet
  BY DEF NoLive, LiveSet

LEMMA UndoType ==
    ASSUME Typed, q # <<>>, NEW l \in LiveSet
    PROVE  Undo(l) \in LiveSet
  BY HeadOp DEF Undo, LiveSet, Ops, OpSet

\* A write joins the queue.
LEMMA WriteJoins ==
    ASSUME Typed, NEW l \in LiveSet, NEW op \in Ops, Write(l, op)
    PROVE  /\ live' \in LiveSet
           /\ \E o \in Ops : o.kind = op.kind /\ (op.kind # "close" => o = op) /\ QWrote(o)
  <1>1. CASE q = <<>>
    BY <1>1, LiveEdits DEF Write, QWrote
  <1>2. CASE q # <<>>
    BY <1>2 DEF Write, QWrote
  <1>. QED
    BY <1>1, <1>2

\* One of another kind than a new item moves the queue, and no more.
LEMMA WriteMoves ==
    ASSUME Typed, NEW l \in LiveSet, NEW op \in Ops, op.kind # "open", Write(l, op)
    PROVE  live' \in LiveSet /\ QMoves
  BY WriteJoins DEF QMoves

\* The calls of a process that ends.
LEMMA DiedType ==
    ASSUME Typed, call' = Died
    PROVE  call' \in [Calls -> CallRow] /\ Asked2
  BY DEF Typed, Died, CallRow, CallStates, Asked2

\* A call goes on.
LEMMA BecomesType ==
    ASSUME Typed, NEW c \in Calls, NEW state \in CallStates \ {"none"},
           Becomes(c, state) \/ SetResult(c, state)
    PROVE  call' \in [Calls -> CallRow] /\ Asked2
  <1>1. CASE Becomes(c, state)
    BY ZenonT(60), <1>1 DEF Typed, Becomes, CallRow, CallStates, Asked2
  <1>2. CASE SetResult(c, state)
    <2>1. call[c] \in CallRow /\ call' = [call EXCEPT ![c] = call'[c]]
      BY <1>2 DEF Typed, SetResult
    <2>2. call'[c].future = "done" /\ call'[c].act = call[c].act
          /\ call'[c].state = IF call[c].state = "waits" THEN state ELSE call[c].state
      BY <1>2, <2>1 DEF Typed, SetResult, CallRow
    <2>3. call'[c] \in CallRow
      BY <1>2, <2>1 DEF Typed, SetResult, CallRow
    <2>. QED
      BY <2>1, <2>2, <2>3 DEF Typed, Asked2
  <1>. QED
    BY <1>1, <1>2

LEMMA SameCalls == ASSUME Typed, call' = call PROVE call' \in [Calls -> CallRow] /\ Asked2
  BY DEF Typed, Asked2

-----------------------------------------------------------------------------
(***************************************************************************)
(* Every step has one of the effects.                                      *)
(***************************************************************************)

LEMMA StartEffect == ASSUME Typed, StartWrite PROVE Effect /\ Remembered
  <1>1. call' = call /\ UNCHANGED <<item, grant, ran, dec, unparked>> /\ q # <<>> /\ phase = "wait"
    BY DEF StartWrite, store, cli, ledger
  <1>2. CASE live' = live /\ phase' = phase /\ q' = Tail(q)
    <2>1. QPopped
      BY <1>1, <1>2 DEF QPopped
    <2>. QED
      BY <1>1, <1>2, <2>1, SameCalls DEF Effect, Moves, QMoves, Remembered, Typed
  <1>3. CASE live' = Prepare(live, Head(q)) /\ q' = <<Starting(live, Head(q))>> \o Tail(q) /\ phase' = "out"
    <2>1. live \in LiveSet /\ Head(q) \in Ops
      BY <1>1, HeadOp DEF Typed
    <2>2. QBegun(Starting(live, Head(q))) /\ Starting(live, Head(q)) \in Ops /\ live' \in LiveSet
      BY <1>1, <1>3, <2>1, LiveEdits DEF QBegun
    <2>. QED
      BY <1>1, <2>2, SameCalls DEF Effect, Moves, QMoves, Remembered, Typed
  <1>. QED
    BY <1>2, <1>3 DEF StartWrite

LEMMA CommitEffect == ASSUME Typed, Commit PROVE Effect /\ Remembered
  <1>1. call' = call /\ live' = live /\ dec' = dec /\ q' = q /\ ran' = ran /\ phase = "out" /\ q # <<>>
    BY DEF Commit, CommitOpen, CommitSpend, CommitAnswer, CommitDeliver, CommitPark, CommitWithdraw, CommitMoved,
           StoreFails, Out, Made, NotMade, Free, Spend, ledger, cli, ParkItems
  <1>2. unparked' \in SUBSET Calls
    <2>1. CASE unparked' = unparked
      BY <2>1 DEF Typed
    <2>2. CASE CommitPark
      <3>1. Head(q).calls \in SUBSET Calls
        BY <1>1, HeadOp DEF Ops, OpSet
      <3>. QED
        BY <2>2, <3>1 DEF CommitPark, ParkItems, Typed
    <2>. QED
      BY <2>1, <2>2 DEF Commit, CommitOpen, CommitSpend, CommitAnswer, CommitDeliver, CommitWithdraw, CommitMoved,
           StoreFails, NotMade
  <1>3. Remembered
    BY <1>1, <1>2, SameCalls DEF Remembered, Typed
  <1>4. CASE NotMade
    <2>1. QFailed /\ UNCHANGED <<item, grant, ran>>
      BY <1>1, <1>4 DEF NotMade, QFailed, store
    <2>. QED
      BY <1>3, <2>1 DEF Effect, Moves, QMoves
  <1>5. CASE ~NotMade
    <2>1. phase' = "made" /\ QMade
      BY <1>1, <1>5 DEF Commit, CommitOpen, CommitSpend, CommitAnswer, CommitDeliver, CommitPark, CommitWithdraw,
             CommitMoved, StoreFails, Made, QMade
    <2>2. CASE CommitOpen
      BY <1>1, <1>3, <2>1, <2>2 DEF CommitOpen, Opens, Effect, Out
    <2>3. CASE CommitSpend
      BY <1>1, <1>3, <1>5, <2>1, <2>3 DEF CommitSpend, Spends, Effect, Out
    <2>4. CASE CommitAnswer
      BY <1>1, <1>3, <1>5, <2>1, <2>4 DEF CommitAnswer, Answers, Effect, Out
    <2>5. CASE CommitDeliver
      <3>1. PICK c : c = OpCall
        OBVIOUS
      <3>2. c \in Calls
        BY <1>1, <2>5, <3>1, HeadOp DEF CommitDeliver, Out, Single
      <3>3. PICK via \in {"grant", "wake"} : via = IF dec.allow THEN "grant" ELSE "wake"
        OBVIOUS
      <3>4. Decides(c, via)
        BY <1>1, <1>5, <2>1, <2>5, <3>1, <3>3 DEF CommitDeliver, Deliver, Decides, Out
      <3>. QED
        BY <1>3, <3>2, <3>4 DEF Effect
    <2>6. CASE CommitPark
      BY <1>1, <1>3, <2>1, <2>6 DEF CommitPark, ParkItems, Edits, Effect, Out
    <2>7. CASE CommitWithdraw
      <3>1. \E calls : item' = To(item, calls, "withdrawn")
        BY <2>7 DEF CommitWithdraw
      <3>. QED
        BY <1>1, <1>3, <2>1, <2>7, <3>1 DEF CommitWithdraw, Edits, Effect, Out
    <2>8. CASE CommitMoved
      <3>1. \E calls : item' = To(item, calls, "withdrawn")
        BY <2>8 DEF CommitMoved
      <3>. QED
        BY <1>1, <1>3, <2>1, <2>8, <3>1 DEF CommitMoved, Edits, Effect, Out
    <2>. QED
      BY <1>3, <1>5, <2>2, <2>3, <2>4, <2>5, <2>6, <2>7, <2>8 DEF Commit, StoreFails
  <1>. QED
    BY <1>4, <1>5

\* The writer of the first write, once the store made it or did not.
LEMMA ReturnEffect == ASSUME Typed, Return PROVE Effect /\ Remembered
  <1>1. ASSUME NEW to \in {"made", "failed"}, ReturnOpen(to) PROVE Effect /\ Remembered
    <2>1. q # <<>> /\ Head(q).kind = "open" /\ UNCHANGED <<item, grant, ran, dec, unparked>>
          /\ live' = (IF to = "failed" THEN Undo(live) ELSE live) /\ QPopped
      BY <1>1 DEF ReturnOpen, Back, Free, store, ledger, QPopped, Release
    <2>2. OpCall \in Calls
      BY <2>1, HeadOp DEF Single
    <2>3. call' \in [Calls -> CallRow] /\ Asked2
      BY <1>1, <2>2, BecomesType, SameCalls DEF ReturnOpen, CallStates
    <2>4. live' \in LiveSet
      BY <2>1, UndoType DEF Typed
    <2>. QED
      BY <2>1, <2>3, <2>4 DEF Effect, Moves, QMoves, Remembered, Typed
  <1>2. ASSUME NEW to \in {"made", "failed"}, ReturnSpend(to) PROVE Effect /\ Remembered
    <2>1. q # <<>> /\ Head(q).kind = "spend" /\ UNCHANGED <<item, grant, dec, unparked, live>> /\ QPopped /\ phase = to
      BY <1>2 DEF ReturnSpend, Back, store, QPopped, Release
    <2>2. OpCall \in Calls
      BY <2>1, HeadOp DEF Single
    <2>3. call' \in [Calls -> CallRow] /\ Asked2
      BY <1>2, <2>2, BecomesType, SameCalls DEF ReturnSpend, CallStates
    <2>4. Remembered
      BY <2>1, <2>3 DEF Remembered, Typed
    <2>5. CASE ran' = ran
      BY <2>1, <2>4, <2>5 DEF Effect, Moves, QMoves
    <2>6. CASE to = "made" /\ ran' = [ran EXCEPT ![Head(q).grant] = @ + 1]
      BY <2>1, <2>4, <2>6 DEF Effect, Runs, RunsOf
    <2>. QED
      BY <1>2, <2>5, <2>6 DEF ReturnSpend, Free, ledger
  <1>3. ASSUME NEW to \in {"made", "failed"}, ReturnPark(to) PROVE Effect /\ Remembered
    <2>1. q # <<>> /\ Head(q).kind = "park" /\ UNCHANGED <<item, grant, ran, dec, unparked>> /\ QPopped
      BY <1>3 DEF ReturnPark, Back, Free, store, ledger, QPopped, Release
    <2>2. OpCall \in Calls
      BY <2>1, HeadOp DEF Single
    <2>3. call' \in [Calls -> CallRow] /\ Asked2
      BY <1>3, <2>2, BecomesType, SameCalls DEF ReturnPark, CallStates
    <2>4. live' \in LiveSet
      BY <1>3, <2>1, UndoType DEF ReturnPark, Release, Typed, LiveSet
    <2>. QED
      BY <2>1, <2>3, <2>4 DEF Effect, Moves, QMoves, Remembered, Typed
  <1>4. ASSUME NEW to \in {"made", "failed"}, ReturnAhead(to) PROVE Effect /\ Remembered
    <2>1. q # <<>> /\ UNCHANGED <<item, grant, ran, dec, unparked, call>> /\ QPopped
      BY <1>4 DEF ReturnAhead, Back, Free, store, ledger, cli, QPopped, Release
    <2>2. Head(q).calls \in SUBSET Calls
      BY <2>1, HeadOp DEF Ops, OpSet
    <2>3. live' \in LiveSet
      BY <1>4, <2>2 DEF ReturnAhead, Release, Typed, LiveSet
    <2>. QED
      BY <2>1, <2>3, SameCalls DEF Effect, Moves, QMoves, Remembered, Typed
  <1>5. ASSUME NEW to \in {"made", "failed"}, ReturnMoved(to) PROVE Effect /\ Remembered
    <2>1. q # <<>> /\ UNCHANGED <<item, grant, ran, dec, call, live>> /\ QPopped /\ unparked' \in SUBSET Calls
      BY <1>5 DEF ReturnMoved, Back, Free, store, ledger, cli, QPopped, Release, Typed
    <2>. QED
      BY <2>1, SameCalls DEF Effect, Moves, QMoves, Remembered, Typed
  <1>6. ASSUME ReturnAnswer PROVE Effect /\ Remembered
    <2>1. q # <<>> /\ Head(q).kind = "answer" /\ phase = "made" /\ UNCHANGED <<item, grant, unparked>> /\ QPopped /\ dec' = NoDec
          /\ live' = [live EXCEPT !.deciding = @ \ Head(q).calls]
      BY <1>6 DEF ReturnAnswer, Back, store, QPopped, Release
    <2>2. OpCall \in Calls
      BY <2>1, HeadOp DEF Single
    <2>3. call' \in [Calls -> CallRow] /\ Asked2
      BY <1>6, <2>2, BecomesType, SameCalls DEF ReturnAnswer, CallStates
    <2>4. live' \in LiveSet
      BY <2>1 DEF Typed, LiveSet
    <2>5. Remembered
      BY <2>1, <2>3, <2>4 DEF Remembered, Typed, NoDec, DecSet
    <2>6. CASE ran' = ran
      BY <2>1, <2>5, <2>6 DEF Effect, Moves, QMoves
    <2>7. CASE ran' = [ran EXCEPT ![OpCall] = @ + 1]
      BY <2>1, <2>5, <2>7 DEF Effect, Runs, RunsOf
    <2>. QED
      BY <1>6, <2>6, <2>7 DEF ReturnAnswer, Free, ledger
  <1>7. ASSUME ReturnDeliver \/ DecisionFails PROVE Effect /\ Remembered
    <2>1. q # <<>> /\ UNCHANGED <<item, grant, ran, unparked, call>> /\ QPopped /\ dec' = NoDec
      BY <1>7 DEF ReturnDeliver, DecisionFails, Back, Free, store, ledger, cli, QPopped, Release
    <2>2. live' \in LiveSet
      <3>1. CASE ReturnDeliver
        BY <3>1 DEF ReturnDeliver, Release, Typed
      <3>2. CASE DecisionFails
        <4>1. Undo(live) \in LiveSet /\ live' = [Undo(live) EXCEPT !.deciding = @ \ Head(q).calls]
          BY <2>1, <3>2, UndoType DEF DecisionFails, Release, Typed
        <4>. QED
          BY <4>1 DEF LiveSet
      <3>. QED
        BY <1>7, <3>1, <3>2
    <2>. QED
      BY <2>1, <2>2, SameCalls DEF Effect, Moves, QMoves, Remembered, Typed, NoDec, DecSet
  <1>8. ASSUME ReturnWithdraw \/ ReturnClose PROVE Effect /\ Remembered
    <2>1. q # <<>> /\ UNCHANGED <<item, grant, ran, unparked, call, dec>> /\ QPopped /\ live' \in LiveSet
      BY <1>8, NoLiveType DEF ReturnWithdraw, ReturnClose, Back, Free, store, ledger, cli, QPopped, Release, Typed
    <2>. QED
      BY <2>1, SameCalls DEF Effect, Moves, QMoves, Remembered, Typed
  <1>9. ASSUME Unusable PROVE Effect /\ Remembered
    <2>1. UNCHANGED <<item, grant, ran, unparked>> /\ call' = Died /\ QCleared /\ live' \in LiveSet
          /\ (dec' = dec \/ dec' = NoDec)
      BY <1>9, NoLiveType DEF Unusable, Free, store, ledger, QCleared, NoDec, DecSet
    <2>2. dec' \in DecSet /\ (dec'.pc # "none" => dec'.call \in Calls)
      <3>1. NoDec \in DecSet /\ NoDec.pc = "none"
        BY DEF NoDec, DecSet
      <3>. QED
        BY <2>1, <3>1 DEF Typed
    <2>3. unparked' \in SUBSET Calls
      BY <2>1 DEF Typed
    <2>4. Effect
      BY <2>1 DEF Effect, Moves, QMoves
    <2>. QED
      BY <2>1, <2>2, <2>3, <2>4, DiedType DEF Remembered
  <1>. QED
    BY <1>1, <1>2, <1>3, <1>4, <1>5, <1>6, <1>7, <1>8, <1>9 DEF Return

\* Steps that leave the store and the writes alone.
LEMMA QuietEffect ==
    ASSUME Typed, UNCHANGED <<item, grant, ran, q, phase, live, dec>>, unparked' \in SUBSET Calls,
           call' = call \/ call' = Died
    PROVE  Effect /\ Remembered
  BY SameCalls, DiedType DEF Typed, Effect, Moves, QMoves, QKept, Remembered

\* Steps that only join the queue of writes.
LEMMA JoinEffect ==
    ASSUME Typed, NEW l \in LiveSet, NEW op \in Ops, op.kind # "open", Write(l, op),
           UNCHANGED <<item, grant, ran, unparked, call>>,
           dec' \in DecSet, dec'.pc # "none" => dec'.call \in Calls
    PROVE  Effect /\ Remembered
  <1>1. live' \in LiveSet /\ QMoves
    BY WriteMoves
  <1>. QED
    BY <1>1, SameCalls DEF Typed, Effect, Moves, Remembered

LEMMA AskEffect == ASSUME Typed, NEW c \in Calls, Ask(c) PROVE Effect /\ Remembered
  <1>1. UNCHANGED <<item, grant, ran, dec, unparked>> /\ call[c].state = "none" /\ live \in LiveSet
    BY DEF Ask, Asked, Free, store, ledger, Typed
  <1>2. ASSUME NEW g \in Calls, Becomes(c, "spends"), Write(live, SpendOp(c, g)) PROVE Effect /\ Remembered
    <2>1. SpendOp(c, g) \in Ops /\ SpendOp(c, g).kind = "spend"
      BY OpsOf DEF SpendOp
    <2>2. live' \in LiveSet /\ QMoves
      BY <1>1, <1>2, <2>1, WriteMoves
    <2>3. call' \in [Calls -> CallRow] /\ Asked2
      BY <1>2, BecomesType DEF CallStates
    <2>. QED
      BY <1>1, <2>2, <2>3 DEF Typed, Effect, Moves, Remembered
  <1>3. ASSUME call' = [call EXCEPT ![c].state = "opens", ![c].future = "pending"], Write(live, Op("open", {c}))
        PROVE  Effect /\ Remembered
    <2>1. Op("open", {c}) \in Ops /\ Op("open", {c}).kind = "open" /\ Op("open", {c}).calls = {c}
      BY OpsOf DEF OpKinds
    <2>2. live' \in LiveSet /\ \E op \in Ops : op.kind = "open" /\ op.calls = {c} /\ QWrote(op)
      BY <1>1, <1>3, <2>1, WriteJoins
    <2>3. call' \in [Calls -> CallRow] /\ Asked2 /\ call'[c].state = "opens"
      BY ZenonT(60), <1>3 DEF Typed, CallRow, CallStates, Asked2
    <2>4. Asks(c)
      BY <1>1, <2>2, <2>3 DEF Asks
    <2>. QED
      BY <1>1, <2>2, <2>3, <2>4 DEF Typed, Effect, Moves, Remembered
  <1>. QED
    BY <1>2, <1>3 DEF Ask, Grants

LEMMA CliEffect ==
    ASSUME Typed, \/ \E c \in Calls : TakesBack(c) \/ PumpResolved(c)
                  \/ TurnEnds \/ BackoffOver \/ Dies \/ ReleasesIdle \/ PumpClosed
    PROVE  Effect /\ Remembered
  <1>1. ASSUME NEW c \in Calls, TakesBack(c) PROVE Effect /\ Remembered
    <2>1. UNCHANGED <<item, grant, ran, q, phase, live, dec, unparked>>
      BY <1>1 DEF TakesBack, Spend, store, engine, writes
    <2>2. call' \in [Calls -> CallRow] /\ Asked2
      <3>1. CASE Becomes(c, "leaves")
        BY <3>1, BecomesType DEF CallStates
      <3>2. CASE call' = [call EXCEPT ![c].state = "withdrawn", ![c].future = "done"]
        BY ZenonT(60), <3>2 DEF Typed, CallRow, CallStates, Asked2
      <3>. QED
        BY <1>1, <3>1, <3>2 DEF TakesBack
    <2>. QED
      BY <2>1, <2>2 DEF Typed, Effect, Moves, QMoves, QKept, Remembered
  <1>2. ASSUME NEW c \in Calls, PumpResolved(c) PROVE Effect /\ Remembered
    <2>1. UNCHANGED <<item, grant, ran, dec, unparked, call>> /\ live \in LiveSet
      BY <1>2 DEF PumpResolved, Free, store, ledger, Typed
    <2>2. CASE UNCHANGED writes
      BY <2>1, <2>2, QuietEffect DEF writes, Typed
    <2>3. CASE Write(live, Op("withdraw", {c}))
      <3>1. Op("withdraw", {c}) \in Ops /\ Op("withdraw", {c}).kind # "open"
        BY OpsOf DEF OpKinds
      <3>. QED
        BY <2>1, <2>3, <3>1, JoinEffect DEF Typed
    <2>. QED
      BY <1>2, <2>2, <2>3 DEF PumpResolved
  <1>3. CASE TurnEnds \/ BackoffOver
    <2>1. UNCHANGED <<item, grant, ran, q, phase, live, dec, unparked, call>>
      BY <1>3 DEF TurnEnds, BackoffOver, Free, engine, writes, store, ledger, cli
    <2>. QED
      BY <2>1, QuietEffect DEF Typed
  <1>4. CASE Dies \/ ReleasesIdle
    <2>1. UNCHANGED <<item, grant, ran, q, phase, dec, unparked>> /\ call' = Died
          /\ \E how \in {"dying", "closing"} : live' = [live EXCEPT !.state = how]
      BY <1>4 DEF Dies, ReleasesIdle, ProcessEnds, Free, Spend, store, ledger
    <2>2. live' \in LiveSet
      BY <2>1 DEF Typed, LiveSet
    <2>. QED
      BY <2>1, <2>2, DiedType DEF Typed, Effect, Moves, QMoves, QKept, Remembered
  <1>5. CASE PumpClosed
    <2>1. UNCHANGED <<item, grant, ran, dec, unparked, call>> /\ live \in LiveSet /\ Write(live, Op("close", {}))
      BY <1>5 DEF PumpClosed, Free, ledger, cli, Typed
    <2>2. Op("close", {}) \in Ops /\ Op("close", {}).kind # "open"
      BY OpsOf DEF OpKinds, Single
    <2>. QED
      BY <2>1, <2>2, JoinEffect DEF Typed
  <1>. QED
    BY <1>1, <1>2, <1>3, <1>4, <1>5

LEMMA PersonEffect ==
    ASSUME Typed, \/ \E c \in Calls, allow \in BOOLEAN : Decide(c, allow)
                  \/ Route \/ DeliverOut \/ \E calls \in SUBSET Parked : Expire(calls)
                  \/ ParkOldest \/ \E m \in {"person", "other"} : Sent(m)
    PROVE  Effect /\ Remembered
  <1>1. ASSUME NEW c \in Calls, NEW allow \in BOOLEAN, Decide(c, allow) PROVE Effect /\ Remembered
    <2>1. UNCHANGED <<item, grant, ran, q, phase, live, unparked, call>> /\ dec'.call = c /\ dec' \in DecSet
      BY <1>1 DEF Decide, Free, store, ledger, cli, writes, DecSet
    <2>. QED
      BY <2>1, SameCalls DEF Typed, Effect, Moves, QMoves, QKept, Remembered
  <1>2. CASE Route
    <2>1. UNCHANGED <<item, grant, ran, unparked, call>> /\ dec.call \in Calls /\ dec'.call = dec.call /\ dec' \in DecSet
      BY <1>2 DEF Route, Free, store, ledger, cli, Typed, DecSet
    <2>2. CASE UNCHANGED writes
      BY <2>1, <2>2, SameCalls DEF writes, Typed, Effect, Moves, QMoves, QKept, Remembered
    <2>3. CASE \E op \in {Op("answer", {dec.call}), Op("deliver", {dec.call})} :
                  Write(live, op) \/ Write([live EXCEPT !.deciding = @ \cup {dec.call}], op)
      <3>1. PICK op : /\ op \in {Op("answer", {dec.call}), Op("deliver", {dec.call})}
                      /\ Write(live, op) \/ Write([live EXCEPT !.deciding = @ \cup {dec.call}], op)
        BY <2>3
      <3>2. op \in Ops /\ op.kind # "open"
        BY <2>1, <3>1, OpsOf DEF OpKinds
      <3>3. live \in LiveSet /\ [live EXCEPT !.deciding = @ \cup {dec.call}] \in LiveSet
        BY <2>1 DEF Typed, LiveSet
      <3>. QED
        BY <2>1, <3>1, <3>2, <3>3, JoinEffect
    <2>. QED
      BY <1>2, <2>2, <2>3 DEF Route
  <1>3. CASE DeliverOut
    <2>1. UNCHANGED <<q, phase, live, unparked, call>> /\ dec' = NoDec /\ ran' = ran /\ dec.call \in Calls
      BY <1>3 DEF DeliverOut, writes, cli, Free, Spend, ledger, Typed
    <2>2. Remembered
      BY <2>1, SameCalls DEF Remembered, Typed, NoDec, DecSet
    <2>3. CASE UNCHANGED <<item, grant>>
      BY <2>1, <2>2, <2>3 DEF Effect, Moves, QMoves, QKept
    <2>4. CASE Deliver(dec.call)
      <3>. PICK c : c = dec.call
        OBVIOUS
      <3>. PICK via \in {"grant", "wake"} : via = IF dec.allow THEN "grant" ELSE "wake"
        OBVIOUS
      <3>1. Decides(c, via)
        BY <2>1, <2>4 DEF Deliver, Decides, QKept
      <3>. QED
        BY <2>1, <2>2, <3>1 DEF Effect
    <2>. QED
      BY <1>3, <2>3, <2>4 DEF DeliverOut
  <1>4. ASSUME NEW calls, Expire(calls) PROVE Effect /\ Remembered
    <2>1. UNCHANGED <<grant, ran, q, phase, live, dec, unparked, call>> /\ item' = To(item, calls, "expired")
      BY <1>4 DEF Expire, Spend, engine, writes, cli
    <2>2. Remembered
      BY <2>1, SameCalls DEF Remembered, Typed
    <2>3. Edits
      BY <2>1 DEF Edits, QKept
    <2>. QED
      BY <2>2, <2>3 DEF Effect
  <1>5. CASE ParkOldest
    <2>1. PICK c \in Calls : Write(live, Op("park", {c}))
      BY <1>5 DEF ParkOldest, Typed, LiveSet
    <2>2. UNCHANGED <<item, grant, ran, unparked, call, dec>>
      BY <1>5 DEF ParkOldest, Spend, store, cli
    <2>3. Op("park", {c}) \in Ops /\ Op("park", {c}).kind # "open"
      BY OpsOf DEF OpKinds
    <2>. QED
      BY <2>1, <2>2, <2>3, JoinEffect DEF Typed
  <1>6. CASE \E m \in {"person", "other"} : Sent(m)
    <2>1. UNCHANGED <<item, grant, ran, q, phase, live, dec, unparked, call>>
      BY <1>6 DEF Sent, Free, Spend, ledger, engine, writes, cli
    <2>. QED
      BY <2>1, QuietEffect DEF Typed
  <1>. QED
    BY <1>1, <1>2, <1>3, <1>4, <1>5, <1>6

LEMMA AdmissionEffect == ASSUME Typed, PassReads \/ PassGoes \/ Attach \/ Looks \/ Send PROVE Effect /\ Remembered
  <1>1. CASE PassReads \/ PassGoes \/ Send
    <2>1. UNCHANGED <<item, grant, ran, q, phase, live, dec, call>> /\ unparked' \in SUBSET Calls
      BY <1>1 DEF PassReads, PassGoes, Send, Free, store, ledger, cli, writes, Typed
    <2>. QED
      BY <2>1, QuietEffect
  <1>2. CASE Attach
    <2>1. UNCHANGED <<item, grant, ran, q, phase, dec, call, unparked>> /\ live' = [NoLive EXCEPT !.state = "up"]
      BY <1>2 DEF Attach, Free, store, ledger, cli
    <2>2. live' \in LiveSet
      BY <2>1, NoLiveType DEF LiveSet
    <2>. QED
      BY <2>1, <2>2, SameCalls DEF Typed, Effect, Moves, QMoves, QKept, Remembered
  <1>3. CASE Looks
    <2>1. UNCHANGED <<item, grant, ran, dec, call, unparked>> /\ live \in LiveSet
      BY <1>3 DEF Looks, Free, store, ledger, cli, Typed
    <2>2. CASE UNCHANGED writes
      BY <2>1, <2>2, QuietEffect DEF writes, Typed
    <2>3. CASE Write(live, Op("moved", unparked))
      <3>1. Op("moved", unparked) \in Ops /\ Op("moved", unparked).kind # "open"
        BY OpsOf DEF OpKinds, Single, Typed
      <3>. QED
        BY <2>1, <2>3, <3>1, JoinEffect DEF Typed
    <2>. QED
      BY <1>3, <2>2, <2>3 DEF Looks
  <1>. QED
    BY <1>1, <1>2, <1>3

LEMMA LifeEffect ==
    ASSUME Typed, Shutdown \/ ShutdownCloses \/ Stops \/ Crashes \/ Boot \/ ParkRestarted \/ SettleStoreFailed
    PROVE  Effect /\ Remembered
  <1>1. CASE Shutdown
    <2>1. UNCHANGED <<item, grant, ran, dec, call, unparked>> /\ live \in LiveSet
      BY <1>1 DEF Shutdown, Spend, store, cli, Typed
    <2>2. CASE UNCHANGED writes
      BY <2>1, <2>2, QuietEffect DEF writes, Typed
    <2>3. CASE ~UNCHANGED writes
      <3>1. PICK held \in SUBSET Calls : Write(live, Op("ahead", held))
        BY <1>1, <2>3 DEF Shutdown, Typed, LiveSet
      <3>2. Op("ahead", held) \in Ops /\ Op("ahead", held).kind # "open"
        BY OpsOf DEF OpKinds, Single
      <3>. QED
        BY <2>1, <3>1, <3>2, JoinEffect DEF Typed
    <2>. QED
      BY <2>2, <2>3
  <1>2. CASE ShutdownCloses
    <2>1. UNCHANGED <<item, grant, ran, q, phase, dec, unparked>> /\ (call' = call \/ call' = Died)
          /\ (live' = live \/ live' = [live EXCEPT !.state = "closing"])
      BY <1>2 DEF ShutdownCloses, ProcessEnds, Free, store, ledger
    <2>2. live' \in LiveSet
      BY <2>1 DEF Typed, LiveSet
    <2>. QED
      BY <2>1, <2>2, SameCalls, DiedType DEF Typed, Effect, Moves, QMoves, QKept, Remembered
  <1>3. CASE Stops \/ Crashes
    <2>1. UNCHANGED <<item, grant, ran>> /\ call' = Died /\ live' = NoLive /\ dec' = NoDec /\ unparked' = {} /\ QCleared
      BY <1>3 DEF Stops, Crashes, Down, Free, Spend, store, ledger, QCleared
    <2>. QED
      BY <2>1, NoLiveType, DiedType DEF Effect, Moves, QMoves, Remembered, NoDec, DecSet
  <1>4. CASE Boot
    <2>1. UNCHANGED <<item, grant, ran, q, phase, live, dec, unparked, call>>
      BY <1>4 DEF Boot, Free, ledger, writes, cli
    <2>. QED
      BY <2>1, QuietEffect DEF Typed
  <1>5. CASE ParkRestarted \/ SettleStoreFailed
    <2>1. /\ UNCHANGED <<grant, q, phase, live, dec, call>>
          /\ \E calls \in SUBSET Calls : ParkItems(calls)
      BY <1>5 DEF ParkRestarted, SettleStoreFailed, writes, cli
    <2>2. /\ ran' = ran /\ unparked' \in SUBSET Calls
          /\ item' = item \/ \E calls : item' = Park(item, calls)
      BY <2>1 DEF ParkItems, Free, Spend, ledger, Typed
    <2>3. Remembered
      BY <2>1, <2>2, SameCalls DEF Remembered, Typed
    <2>4. Edits
      BY <2>1, <2>2 DEF Edits, QKept
    <2>. QED
      BY <2>3, <2>4 DEF Effect
  <1>. QED
    BY <1>1, <1>2, <1>3, <1>4, <1>5

LEMMA StepEffect == ASSUME Typed, [Next]_vars PROVE Effect /\ Remembered
  <1>1. CASE UNCHANGED vars
    <2>1. UNCHANGED <<item, grant, ran, q, phase, live, dec, unparked, call>>
      BY <1>1 DEF vars, store, engine, writes, cli, ledger
    <2>. QED
      BY <2>1, QuietEffect DEF Typed
  <1>2. CASE Next
    BY <1>2, StartEffect, CommitEffect, ReturnEffect, AskEffect, CliEffect, PersonEffect, AdmissionEffect, LifeEffect DEF Next
  <1>. QED
    BY <1>1, <1>2

-----------------------------------------------------------------------------
(***************************************************************************)
(* Each effect keeps the types.                                            *)
(***************************************************************************)

\* The transactions on the items.
LEMMA ItemEdits ==
    ASSUME NEW its \in [Calls -> ItemRow], NEW calls, NEW state \in {"withdrawn", "expired"}
    PROVE  To(its, calls, state) \in [Calls -> ItemRow] /\ Park(its, calls) \in [Calls -> ItemRow]
  BY DEF To, Park, ItemRow, ItemStates

LEMMA OpenItemType ==
    ASSUME item \in [Calls -> ItemRow], NEW c \in Calls, OpenItem(c)
    PROVE  /\ item' \in [Calls -> ItemRow] /\ item'[c] = NewItem
           /\ \A d \in Calls \ {c} : item'[d] = item[d] \/ (item[d].state = "open" /\ item'[d].state = "withdrawn")
  <1>1. To(item, SameCallParked(c), "withdrawn") \in [Calls -> ItemRow]
    BY ItemEdits
  <1>2. ASSUME NEW d \in Calls
        PROVE  \/ To(item, SameCallParked(c), "withdrawn")[d] = item[d]
               \/ item[d].state = "open" /\ To(item, SameCallParked(c), "withdrawn")[d].state = "withdrawn"
    BY DEF To, ItemRow
  <1>3. NewItem \in ItemRow
    BY DEF NewItem, ItemRow, ItemStates, Ways
  <1>. QED
    BY <1>1, <1>2, <1>3 DEF OpenItem

LEMMA RecordType ==
    ASSUME item \in [Calls -> ItemRow], NEW c \in Calls, NEW via \in Ways, Record(c, via)
    PROVE  /\ item' \in [Calls -> ItemRow] /\ item'[c].state = "decided" /\ item'[c].via = via
           /\ \A d \in Calls \ {c} : item'[d] = item[d]
  BY DEF Record, ItemRow, ItemStates

\* The queue of writes.
LEMMA QueueType ==
    ASSUME Typed, QKept \/ QFailed \/ QMade \/ QMoves \/ \E c \in Calls : Asks(c)
    PROVE  q' \in Seq(Ops) /\ phase' \in Phases /\ (phase' # "wait" => q' # <<>>)
  <1>1. CASE QKept \/ QFailed \/ QMade
    BY <1>1 DEF Typed, QKept, QFailed, QMade, Phases
  <1>2. CASE QPopped \/ QCleared
    <2>1. CASE QPopped
      BY <2>1, HeadOp DEF QPopped, Phases
    <2>2. CASE QCleared
      BY <2>2 DEF QCleared, Phases
    <2>. QED
      BY <1>2, <2>1, <2>2
  <1>3. ASSUME NEW op \in Ops, QBegun(op) PROVE q' \in Seq(Ops) /\ phase' \in Phases /\ (phase' # "wait" => q' # <<>>)
    <2>1. Tail(q) \in Seq(Ops) /\ <<op>> \in Seq(Ops)
      BY <1>3, HeadOp DEF QBegun
    <2>2. q' \in Seq(Ops) /\ Len(q') = 1 + Len(Tail(q))
      BY <1>3, <2>1 DEF QBegun
    <2>. QED
      BY <1>3, <2>1, <2>2 DEF QBegun, Phases
  <1>4. ASSUME NEW op \in Ops, QWrote(op) PROVE q' \in Seq(Ops) /\ phase' \in Phases /\ (phase' # "wait" => q' # <<>>)
    <2>1. CASE q = <<>> /\ q' = <<op>> /\ phase' = "out"
      BY <2>1 DEF Phases
    <2>2. CASE q # <<>> /\ q' = Append(q, op) /\ phase' = phase
      <3>1. q' \in Seq(Ops) /\ q' # <<>>
        BY <2>2, AppendProperties DEF Typed
      <3>. QED
        BY <2>2, <3>1 DEF Typed
    <2>. QED
      BY <1>4, <2>1, <2>2 DEF QWrote
  <1>. QED
    BY <1>1, <1>2, <1>3, <1>4 DEF QMoves, Asks

LEMMA StepTyped == ASSUME Typed, [Next]_vars PROVE Typed'
  <1>1. Effect /\ Remembered
    BY StepEffect
  <1>2. item \in [Calls -> ItemRow] /\ grant \in [Calls -> {"none", "open", "used"}] /\ ran \in [Calls -> Nat]
    BY DEF Typed
  <1>3. item' \in [Calls -> ItemRow]
    <2>1. CASE Opens
      BY <1>2, <2>1, HeadOp, OpenItemType DEF Opens, QMade, Single
    <2>2. CASE Edits
      BY <1>2, <2>2, ItemEdits DEF Edits
    <2>3. CASE Answers
      BY <1>2, <2>3, HeadOp, RecordType DEF Answers, QMade, Single, Ways
    <2>4. CASE \E c \in Calls, via \in {"grant", "wake"} : Decides(c, via)
      BY <1>2, <2>4, RecordType DEF Decides, Ways
    <2>. QED
      BY <1>1, <1>2, <2>1, <2>2, <2>3, <2>4 DEF Effect, Moves, Spends, Runs, RunsOf
  <1>4. grant' \in [Calls -> {"none", "open", "used"}]
    <2>1. CASE Spends
      BY <1>2, <2>1 DEF Spends
    <2>2. CASE \E c \in Calls, via \in {"grant", "wake"} : Decides(c, via)
      BY <1>2, <2>2 DEF Decides
    <2>. QED
      BY <1>1, <1>2, <2>1, <2>2 DEF Effect, Moves, Opens, Edits, Answers, Runs, RunsOf
  <1>5. ran' \in [Calls -> Nat]
    <2>1. CASE Runs
      BY <1>2, <2>1 DEF Runs, RunsOf
    <2>. QED
      BY <1>1, <1>2, <2>1 DEF Effect, Moves, Opens, Edits, Answers, Spends, Decides
  <1>6. q' \in Seq(Ops) /\ phase' \in Phases /\ (phase' # "wait" => q' # <<>>)
    BY <1>1, QueueType DEF Effect, Moves, Opens, Edits, Spends, Answers, Runs, RunsOf, Decides, QMoves
  <1>. QED
    BY <1>1, <1>3, <1>4, <1>5, <1>6 DEF Typed, Remembered

LEMMA InitTyped == Init => Typed
  BY ReviewAssumption, NoLiveType DEF Init, Typed, NoItem, ItemRow, ItemStates, Ways, CallRow, CallStates, NoDec, DecSet, Phases, NoLive, LiveSet

-----------------------------------------------------------------------------
(***************************************************************************)
(* An item opens once.                                                     *)
(***************************************************************************)

\* The writes that open an item of call c.
OpensAt(i, c) == i \in 1 .. Len(q) /\ q[i].kind = "open" /\ q[i].calls = {c}

\* A call is asked before its item opens, one write opens it, and until the
\* store made that write there is no item.
OpensOnce ==
    \A c \in Calls :
        /\ item[c].state # "none" => call[c].state # "none"
        /\ \A i \in 1 .. Len(q) : OpensAt(i, c) =>
              /\ call[c].state # "none"
              /\ item[c].state = "none" \/ (i = 1 /\ phase = "made")
              /\ \A j \in 1 .. Len(q) : OpensAt(j, c) => i = j

\* A queue whose opening writes were there before, k places further back.
LEMMA OpensCarried ==
    ASSUME Typed, OpensOnce, Asked2,
           \A c \in Calls : item'[c].state = "none" <=> item[c].state = "none",
           NEW k \in {0, 1},
           \A i \in 1 .. Len(q') : q'[i].kind = "open" =>
              i + k \in 1 .. Len(q) /\ q[i + k].kind = "open" /\ q[i + k].calls = q'[i].calls,
           phase = "made" => k = 1 \/ phase' = "made"
    PROVE  OpensOnce'
  <1>1. Len(q) \in Nat
    BY DEF Typed
  <1>2. ASSUME NEW c \in Calls PROVE item'[c].state # "none" => call'[c].state # "none"
    BY DEF OpensOnce, Asked2
  <1>3. ASSUME NEW c \in Calls, NEW i \in 1 .. Len(q'), q'[i].kind = "open", q'[i].calls = {c}
        PROVE  /\ call'[c].state # "none"
               /\ item'[c].state = "none" \/ (i = 1 /\ phase' = "made")
               /\ \A j \in 1 .. Len(q') : q'[j].kind = "open" /\ q'[j].calls = {c} => i = j
    <2>1. OpensAt(i + k, c)
      BY <1>3 DEF OpensAt
    <2>2. i + k \in 1 .. Len(q) /\ i \in Int /\ (i + k = 1 => i = 1 /\ k = 0)
      BY <1>3
    <2>3. /\ call[c].state # "none"
          /\ item[c].state = "none" \/ (i + k = 1 /\ phase = "made")
      BY <2>1, <2>2 DEF OpensOnce
    <2>4. ASSUME NEW j \in 1 .. Len(q'), q'[j].kind = "open", q'[j].calls = {c} PROVE i = j
      <3>1. OpensAt(j + k, c) /\ j + k \in 1 .. Len(q)
        BY <2>4 DEF OpensAt
      <3>2. i + k = j + k
        BY <2>1, <2>2, <3>1 DEF OpensOnce
      <3>. QED
        BY <3>2
    <2>. QED
      BY <2>2, <2>3, <2>4 DEF Asked2
  <1>. QED
    BY <1>2, <1>3 DEF OpensOnce, OpensAt

\* The moves of the queue.
LEMMA QueueCarried ==
    ASSUME Typed, OpensOnce, Asked2,
           \A c \in Calls : item'[c].state = "none" <=> item[c].state = "none",
           QMoves \/ (QMade /\ Head(q).kind # "open")
    PROVE  OpensOnce'
  <1>1. q \in Seq(Ops) /\ Len(q) \in Nat /\ (phase # "wait" => q # <<>>)
    BY DEF Typed
  <1>2. CASE QKept \/ QFailed \/ QMade
    <2>1. q' = q /\ (phase = "made" => phase' = "made")
      BY <1>2 DEF QKept, QFailed, QMade
    <2>2. \A i \in 1 .. Len(q') : i + 0 = i
      BY <1>1, <2>1
    <2>. QED
      BY <2>1, <2>2, OpensCarried
  <1>3. CASE QPopped
    <2>1. \A i \in 1 .. Len(q') : i + 1 \in 1 .. Len(q) /\ q[i + 1] = q'[i]
      BY <1>1, <1>3 DEF QPopped
    <2>. QED
      BY <2>1, OpensCarried
  <1>4. CASE QCleared
    <2>1. Len(q') = 0 /\ \A i \in 1 .. Len(q') : FALSE
      BY <1>4 DEF QCleared
    <2>. QED
      BY <2>1, OpensCarried
  <1>5. ASSUME NEW op \in Ops, QBegun(op) PROVE OpensOnce'
    <2>1. Len(q') = Len(q) /\ q'[1] = op /\ \A i \in 2 .. Len(q) : q'[i] = q[i]
      BY <1>1, <1>5 DEF QBegun
    <2>2. op.kind = "open" => op = q[1]
      BY <1>1, <1>5 DEF QBegun
    <2>3. \A i \in 1 .. Len(q') : q'[i].kind = "open" => i + 0 = i /\ q'[i] = q[i]
      BY <1>1, <2>1, <2>2
    <2>4. phase # "made"
      BY <1>5 DEF QBegun
    <2>. QED
      BY <2>1, <2>3, <2>4, OpensCarried
  <1>6. ASSUME NEW op \in Ops, op.kind # "open", QWrote(op) PROVE OpensOnce'
    <2>1. \A i \in 1 .. Len(q') : q'[i].kind = "open" => i + 0 = i /\ i \in 1 .. Len(q) /\ q'[i] = q[i]
      BY <1>1, <1>6 DEF QWrote
    <2>2. phase = "made" => phase' = "made"
      BY <1>1, <1>6 DEF QWrote
    <2>. QED
      BY <2>1, <2>2, OpensCarried
  <1>. QED
    BY <1>2, <1>3, <1>4, <1>5, <1>6 DEF QMoves

LEMMA StepOpens == ASSUME Typed, OpensOnce, [Next]_vars PROVE OpensOnce'
  <1>1. Effect /\ Asked2
    BY StepEffect DEF Remembered
  <1>2. item \in [Calls -> ItemRow] /\ q \in Seq(Ops)
    BY DEF Typed
  <1>3. CASE Moves /\ QMoves
    BY <1>1, <1>3, QueueCarried DEF Moves
  <1>4. ASSUME Moves, NEW c \in Calls, Asks(c) PROVE OpensOnce'
    <2>1. PICK op \in Ops : op.kind = "open" /\ op.calls = {c} /\ QWrote(op)
      BY <1>4 DEF Asks
    <2>2. item' = item /\ call[c].state = "none" /\ call'[c].state # "none"
      BY <1>4 DEF Moves, Asks
    <2>3. \A i \in 1 .. Len(q') : \/ i \in 1 .. Len(q) /\ q'[i] = q[i]
                                  \/ i = Len(q) + 1 /\ q'[i] = op
      <3>1. CASE q = <<>> /\ q' = <<op>>
        BY <3>1
      <3>2. CASE q' = Append(q, op)
        BY <1>2, <3>2, AppendProperties
      <3>. QED
        BY <2>1, <3>1, <3>2 DEF QWrote
    <2>4. phase = "made" => phase' = "made"
      BY <2>1 DEF QWrote, Typed
    <2>5. item[c].state = "none" /\ \A i \in 1 .. Len(q) : ~OpensAt(i, c)
      BY <2>2 DEF OpensOnce
    <2>6. ASSUME NEW d \in Calls, NEW i \in 1 .. Len(q'), q'[i].kind = "open", q'[i].calls = {d}
          PROVE  /\ call'[d].state # "none"
                 /\ item'[d].state = "none" \/ (i = 1 /\ phase' = "made")
                 /\ \A j \in 1 .. Len(q') : q'[j].kind = "open" /\ q'[j].calls = {d} => i = j
      <3>1. CASE d = c
        <4>1. \A j \in 1 .. Len(q') : q'[j].kind = "open" /\ q'[j].calls = {d} => j = Len(q) + 1
          BY <2>3, <2>5, <3>1 DEF OpensAt
        <4>. QED
          BY <2>2, <2>5, <2>6, <3>1, <4>1
      <3>2. CASE d # c
        <4>1. \A j \in 1 .. Len(q') : q'[j].kind = "open" /\ q'[j].calls = {d} => j \in 1 .. Len(q) /\ OpensAt(j, d)
          BY <2>1, <2>3, <3>2 DEF OpensAt
        <4>. QED
          BY <1>1, <2>2, <2>4, <2>6, <4>1 DEF OpensOnce, Asked2
      <3>. QED
        BY <3>1, <3>2
    <2>7. \A d \in Calls : item'[d].state # "none" => call'[d].state # "none"
      BY <1>1, <2>2 DEF OpensOnce, Asked2
    <2>. QED
      BY <2>6, <2>7 DEF OpensOnce, OpensAt
  <1>5. CASE Opens
    <2>1. OpCall \in Calls /\ q[1].kind = "open" /\ q[1].calls = {OpCall} /\ 1 \in 1 .. Len(q) /\ q' = q
          /\ phase = "out" /\ phase' = "made"
      BY <1>2, <1>5, HeadOp DEF Opens, QMade, Single
    <2>. PICK c \in Calls : c = OpCall
      BY <2>1
    <2>2. /\ item'[c].state = "open"
          /\ \A d \in Calls \ {c} : item'[d].state = "none" <=> item[d].state = "none"
      BY <1>2, <1>5, OpenItemType DEF Opens, NewItem
    <2>3. OpensAt(1, c)
      BY <2>1 DEF OpensAt
    <2>4. call[c].state # "none" /\ \A i \in 1 .. Len(q) : OpensAt(i, c) => i = 1
      BY <2>1, <2>3 DEF OpensOnce
    <2>5. \A d \in Calls : item'[d].state # "none" => call'[d].state # "none"
      BY <1>1, <2>2, <2>4 DEF OpensOnce, Asked2
    <2>6. ASSUME NEW d \in Calls, NEW i \in 1 .. Len(q), OpensAt(i, d)
          PROVE  /\ call'[d].state # "none"
                 /\ item'[d].state = "none" \/ (i = 1 /\ phase' = "made")
                 /\ \A j \in 1 .. Len(q) : OpensAt(j, d) => i = j
      <3>1. CASE d = c
        BY <1>1, <2>1, <2>4, <2>6, <3>1 DEF Asked2
      <3>2. CASE d # c
        BY <1>1, <2>1, <2>2, <2>6, <3>2 DEF OpensOnce, Asked2
      <3>. QED
        BY <3>1, <3>2
    <2>. QED
      BY <2>1, <2>5, <2>6 DEF OpensOnce, OpensAt
  <1>6. CASE Edits
    <2>1. \A c \in Calls : item'[c].state = "none" <=> item[c].state = "none"
      BY <1>2, <1>6 DEF Edits, To, Park, ItemRow
    <2>. QED
      BY <1>1, <1>6, <2>1, QueueCarried DEF Edits, QMoves
  <1>7. CASE Spends \/ Runs
    <2>1. item' = item /\ (QMoves \/ (QMade /\ Head(q).kind # "open"))
      BY <1>7 DEF Spends, Runs, RunsOf, QMoves
    <2>. QED
      BY <1>1, <2>1, QueueCarried
  <1>8. CASE Answers
    <2>1. OpCall \in Calls
      BY <1>8, HeadOp DEF Answers, QMade, Single
    <2>2. \A c \in Calls : item'[c].state = "none" <=> item[c].state = "none"
      BY <1>2, <1>8, <2>1, RecordType DEF Answers, Ways, IsOpen
    <2>. QED
      BY <1>1, <1>8, <2>2, QueueCarried DEF Answers
  <1>9. ASSUME NEW c \in Calls, NEW via \in {"grant", "wake"}, Decides(c, via) PROVE OpensOnce'
    <2>1. \A d \in Calls : item'[d].state = "none" <=> item[d].state = "none"
      BY <1>2, <1>9, RecordType DEF Decides, Ways, IsOpen
    <2>. QED
      BY <1>1, <1>9, <2>1, QueueCarried DEF Decides, QMoves
  <1>. QED
    BY <1>1, <1>3, <1>4, <1>5, <1>6, <1>7, <1>8, <1>9 DEF Effect, Moves

-----------------------------------------------------------------------------
(***************************************************************************)
(* What is settled stays settled.                                          *)
(***************************************************************************)

\* Every transaction writes an item that is open, or has none yet.
LEMMA StepSettles ==
    ASSUME Typed, OpensOnce, [Next]_vars, NEW c \in Calls, item[c].state \in {"decided", "withdrawn", "expired"}
    PROVE  item'[c] = item[c]
  <1>1. Effect
    BY StepEffect
  <1>2. item \in [Calls -> ItemRow] /\ q \in Seq(Ops)
    BY DEF Typed
  <1>3. CASE Opens
    <2>1. OpCall \in Calls /\ OpensAt(1, OpCall) /\ 1 \in 1 .. Len(q) /\ phase = "out"
      BY <1>2, <1>3, HeadOp DEF Opens, QMade, Single, OpensAt
    <2>. PICK d \in Calls : d = OpCall
      BY <2>1
    <2>2. item[d].state = "none"
      BY <2>1 DEF OpensOnce
    <2>. QED
      BY <1>2, <1>3, <2>2, OpenItemType DEF Opens
  <1>4. CASE Edits
    BY <1>2, <1>4 DEF Edits, To, Park
  <1>5. CASE Answers
    BY <1>2, <1>5, HeadOp, RecordType DEF Answers, QMade, Single, Ways, IsOpen
  <1>6. CASE \E d \in Calls, via \in {"grant", "wake"} : Decides(d, via)
    BY <1>2, <1>6, RecordType DEF Decides, Ways, IsOpen
  <1>. QED
    BY <1>1, <1>3, <1>4, <1>5, <1>6 DEF Effect, Moves, Spends, Runs, RunsOf

LEMMA InitOpens == Init => OpensOnce
  BY DEF Init, OpensOnce, OpensAt, NoItem

\* The person's decision, the CLI's taking back, a supersede, the expiry and a
\* late park race for an item: what the first of them settled, no other touches.
THEOREM SettledIsSettled == Spec => SettledStays
  <1>1. Typed /\ OpensOnce /\ [Next]_vars =>
           [\A c \in Calls : item[c].state \in {"decided", "withdrawn", "expired"} => item'[c] = item[c]]_vars
    BY StepSettles
  <1>. QED
    BY <1>1, InitTyped, InitOpens, StepTyped, StepOpens, PTL DEF Spec, SettledStays

-----------------------------------------------------------------------------
(***************************************************************************)
(* A call runs at most once on a decision.                                 *)
(***************************************************************************)

\* The store made the answer into the call, or the spending of its grant; the
\* writer has not run it yet.
Answering(c) == q # <<>> /\ phase = "made" /\ Head(q).kind = "answer" /\ Head(q).calls = {c}
Spending(c)  == q # <<>> /\ phase = "made" /\ Head(q).kind = "spend" /\ Head(q).grant = c

\* The one way from a decision to a call: a wake alone runs none, an answer runs
\* the call it went into, a grant the call that spends it.
ByWake(c)  == item[c].via = "wake" /\ grant[c] = "none" /\ ran[c] = 0
InCall(c)  == item[c].via = "in_call" /\ grant[c] = "none" /\ ran[c] \in {0, 1} /\ (Answering(c) => ran[c] = 0)
ByGrant(c) == /\ item[c].via = "grant" /\ grant[c] \in {"open", "used"} /\ ran[c] \in {0, 1}
              /\ (grant[c] = "open" => ran[c] = 0)
              /\ (Spending(c) => grant[c] = "used" /\ ran[c] = 0)

WayOf(c) ==
    /\ item[c].state # "decided" => grant[c] = "none" /\ ran[c] = 0
    /\ item[c].state = "decided" => ByWake(c) \/ InCall(c) \/ ByGrant(c)
    /\ Answering(c) => item[c].state = "decided" /\ item[c].via = "in_call"
    /\ Spending(c)  => item[c].state = "decided" /\ item[c].via = "grant"

Decisions == \A c \in Calls : WayOf(c)

\* A step that makes no write keeps the ways, if it changes nothing of the call.
LEMMA WayKept ==
    ASSUME NEW c \in Calls, WayOf(c), grant'[c] = grant[c], ran'[c] = ran[c],
           \/ item'[c] = item[c]
           \/ item[c].state # "decided" /\ item'[c].state # "decided",
           Answering(c)' => Answering(c), Spending(c)' => Spending(c)
    PROVE  WayOf(c)'
  BY DEF WayOf, ByWake, InCall, ByGrant

\* What is made stays made until its writer goes on.
LEMMA MadeKept ==
    ASSUME Typed, QMoves \/ (\E d \in Calls : Asks(d)) \/ (QMade /\ Head(q).kind \notin {"answer", "spend"}),
           NEW c \in Calls
    PROVE  (Answering(c)' => Answering(c)) /\ (Spending(c)' => Spending(c))
  <1>1. q \in Seq(Ops)
    BY DEF Typed
  <1>2. CASE phase' # "made"
    BY <1>2 DEF Answering, Spending
  <1>3. CASE QKept \/ (QMade /\ Head(q).kind \notin {"answer", "spend"})
    BY <1>3 DEF QKept, QMade, Answering, Spending
  <1>4. ASSUME NEW op \in Ops, QWrote(op), phase' = "made"
        PROVE  (Answering(c)' => Answering(c)) /\ (Spending(c)' => Spending(c))
    <2>1. q # <<>> /\ phase = "made" /\ Head(q') = Head(q)
      BY <1>1, <1>4, AppendProperties DEF QWrote
    <2>. QED
      BY <2>1 DEF Answering, Spending
  <1>. QED
    BY <1>2, <1>3, <1>4 DEF QMoves, QFailed, QPopped, QCleared, QBegun, Asks

LEMMA StepDecisions == ASSUME Typed, OpensOnce, Decisions, [Next]_vars PROVE Decisions'
  <1>1. Effect
    BY StepEffect
  <1>2. item \in [Calls -> ItemRow] /\ q \in Seq(Ops) /\ grant \in [Calls -> {"none", "open", "used"}] /\ ran \in [Calls -> Nat]
    BY DEF Typed
  <1>3. CASE Moves
    BY <1>3, MadeKept, WayKept DEF Moves, Decisions
  <1>4. CASE Opens
    <2>1. OpCall \in Calls /\ OpensAt(1, OpCall) /\ 1 \in 1 .. Len(q) /\ phase = "out"
      BY <1>2, <1>4, HeadOp DEF Opens, QMade, Single, OpensAt
    <2>. PICK d \in Calls : d = OpCall
      BY <2>1
    <2>2. item[d].state = "none"
      BY <2>1 DEF OpensOnce
    <2>3. \A c \in Calls : \/ item'[c] = item[c]
                           \/ item[c].state # "decided" /\ item'[c].state # "decided"
      <3>1. OpenItem(d)
        BY <1>4 DEF Opens
      <3>2. /\ item'[d] = NewItem
            /\ \A c \in Calls \ {d} : item'[c] = item[c] \/ (item[c].state = "open" /\ item'[c].state = "withdrawn")
        BY <1>2, <3>1, OpenItemType
      <3>. QED
        BY <2>2, <3>2 DEF NewItem
    <2>. QED
      BY <1>4, <2>3, MadeKept, WayKept DEF Opens, Decisions
  <1>5. CASE Edits
    <2>1. \A c \in Calls : \/ item'[c] = item[c]
                           \/ item[c].state # "decided" /\ item'[c].state # "decided"
      BY SMTT(30), <1>2, <1>5 DEF Edits, To, Park, ItemRow
    <2>2. QMoves \/ (QMade /\ Head(q).kind \notin {"answer", "spend"})
      BY <1>5 DEF Edits, QMoves
    <2>. QED
      BY <1>5, <2>1, <2>2, MadeKept, WayKept DEF Edits, Decisions
  <1>6. CASE Spends
    <2>1. Head(q).grant \in Calls /\ q # <<>>
      BY <1>6, HeadOp DEF Spends, QMade
    <2>. PICK g \in Calls : g = Head(q).grant
      BY <2>1
    <2>2. /\ grant[g] = "open" /\ grant'[g] = "used" /\ UNCHANGED <<item, ran>>
          /\ \A c \in Calls \ {g} : grant'[c] = grant[c]
          /\ \A c \in Calls : ~Answering(c)' /\ (Spending(c)' => c = g)
      BY <1>2, <1>6 DEF Spends, QMade, Answering, Spending
    <2>3. WayOf(g)'
      <3>1. item[g].state = "decided" /\ item[g].via = "grant" /\ ran[g] = 0
        BY <2>2 DEF Decisions, WayOf, ByWake, InCall, ByGrant
      <3>. QED
        BY <2>2, <3>1 DEF WayOf, ByGrant
    <2>4. ASSUME NEW c \in Calls \ {g} PROVE WayOf(c)'
      BY <2>2, WayKept DEF Decisions
    <2>. QED
      BY <2>3, <2>4 DEF Decisions
  <1>7. CASE Answers
    <2>1. OpCall \in Calls /\ q # <<>> /\ Head(q).calls = {OpCall}
      BY <1>7, HeadOp DEF Answers, QMade, Single
    <2>. PICK d \in Calls : d = OpCall
      BY <2>1
    <2>2. /\ item[d].state = "open" /\ UNCHANGED <<grant, ran>>
          /\ \A c \in Calls : ~Spending(c)' /\ (Answering(c)' => c = d)
      BY <1>7, <2>1 DEF Answers, QMade, Answering, Spending, IsOpen
    <2>3. item'[d].state = "decided" /\ item'[d].via = "in_call" /\ \A c \in Calls \ {d} : item'[c] = item[c]
      BY <1>2, <1>7, RecordType DEF Answers, Ways
    <2>4. WayOf(d)'
      BY <2>2, <2>3 DEF Decisions, WayOf, InCall
    <2>5. ASSUME NEW c \in Calls \ {d} PROVE WayOf(c)'
      BY <2>2, <2>3, WayKept DEF Decisions
    <2>. QED
      BY <2>4, <2>5 DEF Decisions
  <1>8. ASSUME NEW d \in Calls, NEW via \in {"grant", "wake"}, Decides(d, via) PROVE Decisions'
    <2>1. item[d].state = "open" /\ ran' = ran /\ grant' = IF via = "grant" THEN [grant EXCEPT ![d] = "open"] ELSE grant
      BY <1>8 DEF Decides, IsOpen
    <2>2. item'[d].state = "decided" /\ item'[d].via = via /\ \A c \in Calls \ {d} : item'[c] = item[c]
      BY <1>2, <1>8, RecordType DEF Decides, Ways
    <2>3. \A c \in Calls : (Answering(c)' => Answering(c)) /\ (Spending(c)' => Spending(c))
      BY <1>8, MadeKept DEF Decides, QMoves
    <2>4. WayOf(d)'
      <3>1. grant[d] = "none" /\ ran[d] = 0 /\ ~Answering(d) /\ ~Spending(d)
        BY <2>1 DEF Decisions, WayOf
      <3>2. CASE via = "grant"
        BY <1>2, <2>1, <2>2, <2>3, <3>1, <3>2 DEF WayOf, ByGrant
      <3>3. CASE via = "wake"
        BY <2>1, <2>2, <2>3, <3>1, <3>3 DEF WayOf, ByWake
      <3>. QED
        BY <3>2, <3>3
    <2>5. ASSUME NEW c \in Calls \ {d} PROVE WayOf(c)'
      <3>1. grant'[c] = grant[c]
        BY <1>2, <2>1
      <3>. QED
        BY <2>1, <2>2, <2>3, <3>1, WayKept DEF Decisions
    <2>. QED
      BY <2>4, <2>5 DEF Decisions
  <1>9. CASE Runs
    <2>1. PICK g \in Calls : RunsOf(g) /\ (Answering(g) \/ Spending(g))
      <3>1. CASE Head(q).kind = "spend" /\ RunsOf(Head(q).grant)
        BY <1>9, <3>1, HeadOp DEF Runs, Spending
      <3>2. CASE Head(q).kind = "answer" /\ RunsOf(OpCall)
        BY <1>9, <3>2, HeadOp DEF Runs, Answering, Single
      <3>. QED
        BY <1>9, <3>1, <3>2 DEF Runs
    <2>2. /\ UNCHANGED <<item, grant>> /\ ran'[g] = ran[g] + 1 /\ \A c \in Calls \ {g} : ran'[c] = ran[c]
          /\ \A c \in Calls : ~Answering(c)' /\ ~Spending(c)'
      BY <1>2, <2>1 DEF RunsOf, QPopped, Answering, Spending
    <2>3. WayOf(g)'
      <3>1. CASE Answering(g)
        <4>1. item[g].state = "decided" /\ item[g].via = "in_call" /\ grant[g] = "none" /\ ran[g] = 0
          BY <3>1 DEF Decisions, WayOf, ByWake, InCall, ByGrant
        <4>. QED
          BY <2>2, <4>1 DEF WayOf, InCall
      <3>2. CASE Spending(g)
        <4>1. item[g].state = "decided" /\ item[g].via = "grant" /\ grant[g] = "used" /\ ran[g] = 0
          BY <3>2 DEF Decisions, WayOf, ByWake, InCall, ByGrant
        <4>. QED
          BY <2>2, <4>1 DEF WayOf, ByGrant
      <3>. QED
        BY <2>1, <3>1, <3>2
    <2>4. ASSUME NEW c \in Calls \ {g} PROVE WayOf(c)'
      BY <2>2, WayKept DEF Decisions
    <2>. QED
      BY <2>3, <2>4 DEF Decisions
  <1>. QED
    BY <1>1, <1>3, <1>4, <1>5, <1>6, <1>7, <1>8, <1>9 DEF Effect

LEMMA InitDecisions == Init => Decisions
  BY DEF Init, Decisions, WayOf, Answering, Spending, NoItem

\* However many ways lead from the person's decision to the agent (the held
\* call, a grant that several calls see, a write that waits behind a park), one
\* call runs on it, once, and only if the person allowed it.
THEOREM CallsRunOnce == Spec => []RunsOnce
  <1>1. Typed /\ OpensOnce /\ Decisions => RunsOnce
    BY DEF Decisions, WayOf, ByWake, InCall, ByGrant, RunsOnce
  <1>. QED
    BY <1>1, InitTyped, InitOpens, InitDecisions, StepTyped, StepOpens, StepDecisions, PTL DEF Spec

-----------------------------------------------------------------------------
(***************************************************************************)
(* An open item is held.                                                   *)
(***************************************************************************)

Off == {"down", "boot"}

\* Call c needs no process: its item is not open, parked, or held in memory.
Aside(c) == IsOpen(c) => item[c].parked \/ c \in unparked

\* The first write has taken c from the process: if it fails, its writer puts c
\* back, or the pump leaves the session to the store.
HeadTakes(c) ==
    /\ q # <<>> /\ phase \in {"out", "failed"} /\ c \in Head(q).calls
    /\ \/ Head(q).kind \in {"withdraw", "close"}
       \/ Head(q).kind \in {"answer", "deliver", "park"} /\ live.state # "none"

Kept(c) == (c \in live.held /\ live.state # "none") \/ HeadTakes(c) \/ up \in Off \/ storeFailed

\* The writes s of a process in state st: one closes it, after all that open an
\* item; the calls that are parked ahead of a shutdown have one of the items its.
InOrder(s, st, its) ==
    /\ \A i \in 1 .. Len(s) : s[i].kind = "close" => st \in {"dying", "closing"}
    /\ \A i \in 1 .. Len(s) : s[i].kind = "open" => st # "none"
    /\ \A i, j \in 1 .. Len(s) : s[i].kind = "close" /\ s[j].kind \in {"open", "close"} => j <= i
    /\ \A i \in 1 .. Len(s) : s[i].kind = "ahead" => \A c \in s[i].calls : its[c].state # "none"

\* The write that has the lock.
LockInv ==
    /\ phase # "wait" /\ Head(q).kind = "open" => Head(q).calls \subseteq live.held
    /\ phase # "wait" /\ Head(q).kind = "close" => live.held = {}
    /\ phase = "made" /\ Head(q).kind = "moved" => \A c \in Head(q).calls : ~IsOpen(c)
    /\ phase = "made" /\ Head(q).kind = "ahead" => \A c \in Head(q).calls : Aside(c)

LifeInv ==
    /\ storeFailed => live.state = "none"
    /\ up \in Off => live.state = "none" /\ adm.pc = "none"

HeldInv ==
    /\ InOrder(q, live.state, item)
    /\ \A c \in Calls : Aside(c) \/ Kept(c)
    /\ LockInv
    /\ \A c \in live.ahead : Aside(c) /\ item[c].state # "none"
    /\ LifeInv

\* What the queue does to the order of its writes.
LEMMA OrderLater ==
    ASSUME NEW s \in Seq(Ops), NEW st, NEW st2, NEW its, NEW its2, InOrder(s, st, its),
           st2 = st \/ (st = "up" /\ st2 \in {"dying", "closing"}) \/ st = "none",
           \A c \in Calls : its[c].state # "none" => its2[c].state # "none"
    PROVE  InOrder(s, st2, its2)
  <1>1. \A i \in 1 .. Len(s) : s[i].calls \subseteq Calls
    BY DEF Ops, OpSet
  <1>. QED
    BY <1>1 DEF InOrder

LEMMA OrderTail ==
    ASSUME NEW s \in Seq(Ops), s # <<>>, NEW st, NEW its, InOrder(s, st, its)
    PROVE  InOrder(Tail(s), st, its) /\ (Head(s).kind = "close" => InOrder(Tail(s), "none", its))
  <1>1. Len(s) \in Nat /\ 1 \in 1 .. Len(s) /\ Head(s) = s[1] /\ Len(Tail(s)) = Len(s) - 1
    OBVIOUS
  <1>2. \A i \in 1 .. Len(Tail(s)) : i + 1 \in 1 .. Len(s) /\ Tail(s)[i] = s[i + 1]
    OBVIOUS
  <1>3. InOrder(Tail(s), st, its)
    BY <1>1, <1>2 DEF InOrder
  <1>4. ASSUME Head(s).kind = "close", NEW i \in 1 .. Len(Tail(s)) PROVE Tail(s)[i].kind \notin {"open", "close"}
    BY <1>1, <1>2, <1>4 DEF InOrder
  <1>. QED
    BY <1>3, <1>4 DEF InOrder

LEMMA OrderBegun ==
    ASSUME NEW s \in Seq(Ops), s # <<>>, NEW op \in Ops, op.kind = Head(s).kind, op.kind = "ahead" => op = Head(s),
           NEW st, NEW its, InOrder(s, st, its)
    PROVE  InOrder(<<op>> \o Tail(s), st, its)
  <1>. DEFINE r == <<op>> \o Tail(s)
  <1>1. Len(s) \in Nat /\ Len(r) = Len(s) /\ r[1] = op /\ Head(s) = s[1] /\ \A i \in 2 .. Len(s) : r[i] = s[i]
    OBVIOUS
  <1>. HIDE DEF r
  <1>2. \A i \in 1 .. Len(r) : i \in 1 .. Len(s) /\ r[i].kind = s[i].kind /\ (r[i].kind = "ahead" => r[i] = s[i])
    BY <1>1
  <1>3. InOrder(r, st, its)
    BY <1>1, <1>2 DEF InOrder
  <1>. QED
    BY <1>3 DEF r

LEMMA OrderJoined ==
    ASSUME NEW s \in Seq(Ops), NEW op \in Ops, NEW st, NEW its, InOrder(s, st, its),
           op.kind = "open" => st = "up",
           op.kind = "close" => st \in {"dying", "closing"} /\ \A i \in 1 .. Len(s) : s[i].kind # "close",
           op.kind = "ahead" => \A c \in op.calls : its[c].state # "none"
    PROVE  InOrder(Append(s, op), st, its)
  <1>. DEFINE r == Append(s, op)
  <1>1. Len(s) \in Nat /\ Len(r) = Len(s) + 1 /\ r[Len(r)] = op /\ \A i \in 1 .. Len(s) : r[i] = s[i]
    BY AppendProperties
  <1>. HIDE DEF r
  <1>2. \A i \in 1 .. Len(r) : (i \in 1 .. Len(s) /\ r[i] = s[i]) \/ (i = Len(r) /\ r[i] = op)
    BY <1>1
  <1>3. ASSUME NEW i \in 1 .. Len(r), NEW j \in 1 .. Len(r), r[i].kind = "close", r[j].kind \in {"open", "close"}
        PROVE  j <= i
    <2>1. CASE i = Len(r)
      BY <1>1, <2>1
    <2>2. CASE i # Len(r)
      <3>1. i \in 1 .. Len(s) /\ s[i].kind = "close" /\ st \in {"dying", "closing"}
        BY <1>2, <1>3, <2>2 DEF InOrder
      <3>2. j \in 1 .. Len(s) /\ r[j] = s[j]
        BY <1>2, <1>3, <3>1
      <3>. QED
        BY <1>3, <3>1, <3>2 DEF InOrder
    <2>. QED
      BY <2>1, <2>2
  <1>4. InOrder(r, st, its)
    BY <1>2, <1>3 DEF InOrder
  <1>. QED
    BY <1>4 DEF r

\* What most steps leave alone: no item opens, none is forgotten.
Stays ==
    \A c \in Calls :
        /\ item[c].state # "none" => item'[c].state # "none"
        /\ item'[c].state = "open" =>
              IsOpen(c) /\ (item[c].parked => item'[c].parked) /\ (c \in unparked => c \in unparked')

SameProcess(l) ==
    /\ l.held = live.held /\ l.ahead = live.ahead
    /\ l.state = live.state \/ (live.state = "up" /\ l.state \in {"dying", "closing"})

SameLife ==
    /\ storeFailed' = storeFailed /\ (up \in Off <=> up' \in Off)
    /\ adm' = adm \/ adm.pc # "none" \/ adm'.pc = "none" \/ up = "up"

LEMMA StaysAside == ASSUME Stays PROVE \A c \in Calls : Aside(c) => Aside(c)'
  BY DEF Stays, Aside, IsOpen

LEMMA SameLifeInv ==
    ASSUME LifeInv, SameLife, live.state = "none" => live'.state = "none"
    PROVE  LifeInv'
  BY DEF LifeInv, SameLife, Off

\* Steps that leave the queue alone.
LEMMA QuietHeld ==
    ASSUME Typed, HeldInv, Stays, SameProcess(live'), q' = q, phase' = phase,
           SameLife \/ (LifeInv' /\ \A c \in Calls : Aside(c)')
    PROVE  HeldInv'
  <1>1. q \in Seq(Ops) /\ live \in LiveSet /\ (phase # "wait" => q # <<>>)
    BY DEF Typed
  <1>2. live'.held = live.held /\ live'.ahead = live.ahead /\ (live'.state = "none" <=> live.state = "none")
    BY DEF SameProcess
  <1>3. InOrder(q', live'.state, item')
    BY <1>1, OrderLater DEF HeldInv, SameProcess, Stays
  <1>4. \A c \in Calls : Aside(c) => Aside(c)'
    BY StaysAside
  <1>5. ASSUME NEW c \in Calls PROVE Aside(c)' \/ Kept(c)'
    <2>1. CASE HeadTakes(c)
      BY <1>2, <2>1 DEF HeadTakes, Kept
    <2>. QED
      BY <1>2, <1>4, <2>1 DEF HeldInv, Kept, SameLife
  <1>6. LockInv'
    <2>1. q # <<>> => Head(q).calls \subseteq Calls
      BY HeadOp DEF Ops, OpSet
    <2>. QED
      BY <1>1, <1>2, <1>4, <2>1 DEF HeldInv, LockInv, Stays, IsOpen
  <1>7. \A c \in live'.ahead : Aside(c)' /\ item'[c].state # "none"
    BY <1>1, <1>2, <1>4 DEF HeldInv, Stays, LiveSet
  <1>8. LifeInv'
    BY <1>2, SameLifeInv DEF HeldInv
  <1>. QED
    BY <1>3, <1>5, <1>6, <1>7, <1>8 DEF HeldInv

\* A write begins: what it takes from the process, its writer has.
LEMMA BeginsHeld ==
    ASSUME Typed, HeldInv, SameLife, UNCHANGED <<item, unparked>>, phase = "wait",
           NEW l \in LiveSet, SameProcess(l), NEW op \in Ops,
           live' = Prepare(l, op), phase' = "out", q' # <<>>, Head(q') = Starting(l, op),
           InOrder(q', l.state, item)
    PROVE  HeldInv'
  <1>1. live'.state = l.state /\ live'.ahead = live.ahead /\ (l.state = "none" <=> live.state = "none") /\ op.calls \subseteq Calls
    BY DEF SameProcess, Prepare, LiveSet, Ops, OpSet
  <1>2. \A c \in Calls : (Aside(c) <=> Aside(c)')
    BY DEF Aside, IsOpen
  <1>3. Starting(l, op).kind = op.kind /\ (op.kind # "close" => Starting(l, op) = op)
    BY LiveEdits
  <1>4. ASSUME NEW c \in Calls, ~Aside(c), Kept(c) PROVE Kept(c)'
    <2>1. CASE up \in Off \/ storeFailed
      BY <2>1 DEF Kept, SameLife
    <2>2. CASE c \in live.held /\ live.state # "none"
      <3>1. c \in l.held /\ l.state # "none" /\ c \notin l.ahead
        BY <1>1, <1>4, <2>2 DEF SameProcess, HeldInv
      <3>2. CASE op.kind = "open"
        BY <1>1, <3>1, <3>2 DEF Prepare, LiveSet, Kept
      <3>3. CASE op.kind = "close"
        <4>1. Starting(l, op).calls = l.held \ l.ahead
          BY <3>3 DEF Starting, Ops, OpSet
        <4>. QED
          BY <1>3, <3>1, <3>3, <4>1 DEF HeadTakes, Kept
      <3>4. CASE op.kind \in Settling
        <4>1. CASE c \in op.calls
          BY <1>1, <1>3, <3>1, <3>4, <4>1 DEF HeadTakes, Kept, Settling
        <4>2. CASE c \notin op.calls
          BY <1>1, <3>1, <3>4, <4>2 DEF Prepare, LiveSet, Kept, Settling
        <4>. QED
          BY <4>1, <4>2
      <3>5. CASE op.kind \notin Settling \cup {"open", "close"}
        BY <1>1, <3>1, <3>5 DEF Prepare, Kept
      <3>. QED
        BY <3>2, <3>3, <3>4, <3>5
    <2>. QED
      BY <1>4, <2>1, <2>2 DEF Kept, HeadTakes
  <1>5. LockInv'
    BY <1>3 DEF LockInv, Prepare, LiveSet
  <1>6. \A c \in live'.ahead : Aside(c)' /\ item'[c].state # "none"
    BY <1>1, <1>2 DEF HeldInv, Typed, LiveSet
  <1>7. LifeInv'
    BY <1>1, SameLifeInv DEF HeldInv
  <1>8. InOrder(q', live'.state, item')
    BY <1>1
  <1>. QED
    BY <1>2, <1>4, <1>5, <1>6, <1>7, <1>8 DEF HeldInv

\* A write joins the queue.
LEMMA JoinsHeld ==
    ASSUME Typed, HeldInv, SameLife, UNCHANGED <<item, unparked>>,
           NEW l \in LiveSet, SameProcess(l), l.state = live.state, NEW op \in Ops, Write(l, op),
           op.kind = "open" => l.state = "up",
           op.kind = "close" => l.state \in {"dying", "closing"} /\ \A i \in 1 .. Len(q) : q[i].kind # "close",
           op.kind = "ahead" => \A c \in op.calls : item[c].state # "none"
    PROVE  HeldInv'
  <1>1. q \in Seq(Ops) /\ (phase # "wait" => q # <<>>) /\ InOrder(q, l.state, item)
    BY DEF Typed, HeldInv
  <1>2. CASE q = <<>>
    <2>1. live' = Prepare(l, op) /\ q' = <<Starting(l, op)>> /\ phase' = "out"
      BY <1>2 DEF Write
    <2>2. Head(q') = Starting(l, op) /\ q' # <<>> /\ q' = Append(q, Starting(l, op))
      BY <1>2, <2>1
    <2>3. Starting(l, op) \in Ops /\ Starting(l, op).kind = op.kind /\ (op.kind # "close" => Starting(l, op) = op)
      BY LiveEdits
    <2>4. InOrder(Append(q, Starting(l, op)), l.state, item)
      BY <1>1, <2>3, OrderJoined
    <2>. QED
      BY <1>1, <1>2, <2>1, <2>2, <2>4, BeginsHeld
  <1>3. CASE q # <<>>
    <2>1. live' = l /\ q' = Append(q, op) /\ phase' = phase
      BY <1>3 DEF Write
    <2>2. InOrder(q', live'.state, item')
      BY <1>1, <2>1, OrderJoined
    <2>3. Head(q') = Head(q) /\ q' # <<>>
      BY <1>1, <1>3, <2>1, AppendProperties
    <2>4. live'.held = live.held /\ live'.ahead = live.ahead /\ live'.state = live.state
      BY <2>1 DEF SameProcess
    <2>5. \A c \in Calls : (Aside(c) <=> Aside(c)') /\ (IsOpen(c) <=> IsOpen(c)')
      BY DEF Aside, IsOpen
    <2>6. ASSUME NEW c \in Calls PROVE Aside(c)' \/ Kept(c)'
      <3>1. HeadTakes(c) => HeadTakes(c)'
        BY <1>3, <2>1, <2>3, <2>4 DEF HeadTakes
      <3>. QED
        BY <2>4, <2>5, <3>1 DEF HeldInv, Kept, SameLife
    <2>7. LockInv'
      <3>1. Head(q).calls \subseteq Calls
        BY <1>3, HeadOp DEF Ops, OpSet
      <3>. QED
        BY <2>1, <2>3, <2>4, <2>5, <3>1 DEF HeldInv, LockInv
    <2>8. \A c \in live'.ahead : Aside(c)' /\ item'[c].state # "none"
      BY <2>4, <2>5 DEF HeldInv, Typed, LiveSet
    <2>9. LifeInv'
      BY <2>4, SameLifeInv DEF HeldInv
    <2>. QED
      BY <2>2, <2>6, <2>7, <2>8, <2>9 DEF HeldInv
  <1>. QED
    BY <1>2, <1>3

-----------------------------------------------------------------------------
(***************************************************************************)
(* Each step keeps it.                                                     *)
(***************************************************************************)

\* The store made the first write: what it took is settled, parked, or held in
\* memory, and an item that opened is held by the process.
LEMMA MadeHeld ==
    ASSUME Typed, HeldInv, SameLife, live' = live, q' = q, q # <<>>, phase = "out", phase' = "made",
           \A c \in Calls : item[c].state # "none" => item'[c].state # "none",
           \A c \in Calls : \/ Aside(c) => Aside(c)'
                            \/ item[c].state = "none" /\ c \in live.held /\ live.state # "none",
           Head(q).kind \in Settling \cup {"close", "ahead"} => \A c \in Head(q).calls : Aside(c)',
           Head(q).kind = "moved" => \A c \in Head(q).calls : item'[c].state # "open"
    PROVE  HeldInv'
  <1>1. q \in Seq(Ops) /\ live \in LiveSet /\ Head(q).calls \subseteq Calls
    BY HeadOp DEF Typed, Ops, OpSet
  <1>2. InOrder(q', live'.state, item')
    BY <1>1, OrderLater DEF HeldInv
  <1>3. ASSUME NEW c \in Calls PROVE Aside(c)' \/ Kept(c)'
    <2>1. CASE HeadTakes(c)
      BY <2>1 DEF HeadTakes, Settling
    <2>2. CASE ~HeadTakes(c)
      BY <2>2 DEF HeldInv, Kept, SameLife
    <2>. QED
      BY <2>1, <2>2
  <1>4. LockInv'
    BY DEF HeldInv, LockInv, IsOpen
  <1>5. \A c \in live'.ahead : Aside(c)' /\ item'[c].state # "none"
    BY <1>1 DEF HeldInv, LiveSet
  <1>6. LifeInv'
    BY SameLifeInv DEF HeldInv
  <1>. QED
    BY <1>2, <1>3, <1>4, <1>5, <1>6 DEF HeldInv

\* The transactions on the items.
LEMMA EditStays ==
    ASSUME item \in [Calls -> ItemRow], unparked' = unparked, NEW calls, NEW state \in {"withdrawn", "expired"},
           item' = To(item, calls, state)
    PROVE  Stays /\ \A c \in Calls \cap calls : item'[c].state # "open"
  BY DEF Stays, To, ItemRow, IsOpen

LEMMA RecordStays ==
    ASSUME item \in [Calls -> ItemRow], unparked' = unparked, NEW c \in Calls, NEW via \in Ways, Record(c, via)
    PROVE  Stays /\ item'[c].state # "open"
  BY RecordType DEF Stays, IsOpen

LEMMA ParkStays ==
    ASSUME item \in [Calls -> ItemRow], NEW calls \in SUBSET Calls, ParkItems(calls)
    PROVE  Stays /\ \A c \in calls : Aside(c)'
  <1>1. CASE item' = Park(item, calls) /\ unparked' = unparked
    <2>1. \A c \in Calls : /\ item'[c].state = item[c].state /\ (item[c].parked => item'[c].parked)
                           /\ c \in calls /\ IsOpen(c) => item'[c].parked
      BY <1>1 DEF Park, ItemRow, IsOpen
    <2>. QED
      BY <1>1, <2>1 DEF Stays, Aside, IsOpen
  <1>2. CASE item' = item /\ unparked' = unparked \cup calls
    BY <1>2 DEF Stays, Aside, IsOpen
  <1>. QED
    BY <1>1, <1>2 DEF ParkItems

LEMMA CommitHeld == ASSUME Typed, OpensOnce, HeldInv, Commit PROVE HeldInv'
  <1>1. /\ live' = live /\ q' = q /\ q # <<>> /\ phase = "out" /\ UNCHANGED <<up, adm, storeFailed>>
        /\ item \in [Calls -> ItemRow] /\ q \in Seq(Ops) /\ Head(q) \in Ops /\ Head(q).calls \subseteq Calls
    <2>1. live' = live /\ q' = q /\ q # <<>> /\ phase = "out" /\ UNCHANGED <<up, adm, storeFailed>>
      BY DEF Commit, CommitOpen, CommitSpend, CommitAnswer, CommitDeliver, CommitPark, CommitWithdraw, CommitMoved,
             StoreFails, Out, Made, NotMade, holds
    <2>. QED
      BY <2>1, HeadOp DEF Typed, Ops, OpSet
  <1>2. SameLife /\ SameProcess(live')
    BY <1>1 DEF SameLife, SameProcess
  <1>3. \A c \in Calls : Stays => (Aside(c) => Aside(c)') /\ (item[c].state # "none" => item'[c].state # "none")
    BY StaysAside DEF Stays
  <1>4. CASE NotMade
    <2>1. UNCHANGED <<item, unparked, live, q>> /\ phase' = "failed"
      BY <1>4 DEF NotMade, store
    <2>2. InOrder(q', live'.state, item')
      BY <2>1 DEF HeldInv
    <2>3. \A c \in Calls : (Aside(c) <=> Aside(c)')
      BY <2>1 DEF Aside, IsOpen
    <2>4. \A c \in Calls : Aside(c)' \/ Kept(c)'
      BY <1>1, <1>2, <2>1, <2>3 DEF HeldInv, Kept, HeadTakes, SameLife
    <2>5. LockInv'
      BY <1>1, <2>1 DEF HeldInv, LockInv
    <2>6. \A c \in live'.ahead : Aside(c)' /\ item'[c].state # "none"
      BY <2>1, <2>3 DEF HeldInv, Typed, LiveSet
    <2>. QED
      BY <1>1, <1>2, <2>2, <2>4, <2>5, <2>6, SameLifeInv DEF HeldInv
  <1>5. CASE ~NotMade
    <2>1. phase' = "made"
      BY <1>5 DEF Commit, CommitOpen, CommitSpend, CommitAnswer, CommitDeliver, CommitPark, CommitWithdraw,
             CommitMoved, StoreFails, Made
    <2>2. CASE CommitOpen
      <3>1. OpCall \in Calls /\ Head(q).kind = "open" /\ Head(q).calls = {OpCall} /\ OpenItem(OpCall) /\ unparked' = unparked
        BY <1>1, <2>2, HeadOp DEF CommitOpen, Out, Single
      <3>2. PICK c \in Calls : c = OpCall
        BY <3>1
      <3>3. q[1].kind = "open" /\ 1 \in 1 .. Len(q) /\ OpensAt(1, c)
        BY <1>1, <3>1, <3>2 DEF OpensAt
      <3>4. item[c].state = "none" /\ c \in live.held /\ live.state # "none"
        BY <1>1, <3>1, <3>2, <3>3 DEF OpensOnce, HeldInv, LockInv, InOrder
      <3>5. item'[c] = NewItem /\ \A d \in Calls \ {c} : item'[d] = item[d] \/ (item[d].state = "open" /\ item'[d].state = "withdrawn")
        BY <1>1, <3>1, <3>2, OpenItemType
      <3>6. \A d \in Calls \ {c} : Aside(d) => Aside(d)'
        BY <3>1, <3>5 DEF Aside, IsOpen
      <3>7. \A d \in Calls : item[d].state # "none" => item'[d].state # "none"
        BY <3>5 DEF NewItem
      <3>8. \A d \in Calls : \/ Aside(d) => Aside(d)'
                             \/ item[d].state = "none" /\ d \in live.held /\ live.state # "none"
        BY <3>4, <3>6
      <3>. QED
        BY <1>1, <1>2, <2>1, <3>1, <3>7, <3>8, MadeHeld DEF Settling
    <2>3. CASE CommitSpend
      <3>1. Head(q).kind = "spend" /\ UNCHANGED <<item, unparked>>
        BY <1>5, <2>3 DEF CommitSpend, Out
      <3>2. Stays
        BY <3>1 DEF Stays, IsOpen
      <3>. QED
        BY <1>1, <1>2, <1>3, <2>1, <3>1, <3>2, MadeHeld DEF Settling
    <2>4. CASE CommitAnswer \/ CommitDeliver
      <3>1. /\ Head(q).kind \in {"answer", "deliver"} /\ OpCall \in Calls /\ Head(q).calls = {OpCall} /\ unparked' = unparked
            /\ \E via \in Ways : Record(OpCall, via)
        BY <1>1, <1>5, <2>4, HeadOp DEF CommitAnswer, CommitDeliver, Deliver, Out, Single, Ways
      <3>2. Stays /\ item'[OpCall].state # "open"
        BY <1>1, <3>1, RecordStays
      <3>3. \A c \in Head(q).calls : Aside(c)'
        BY <3>1, <3>2 DEF Aside, IsOpen
      <3>. QED
        BY <1>1, <1>2, <1>3, <2>1, <3>1, <3>2, <3>3, MadeHeld
    <2>5. CASE CommitPark
      <3>1. Head(q).kind \in {"park", "ahead", "close"} /\ ParkItems(Head(q).calls)
        BY <2>5 DEF CommitPark, Out
      <3>2. Stays /\ \A c \in Head(q).calls : Aside(c)'
        BY <1>1, <3>1, ParkStays
      <3>. QED
        BY <1>1, <1>2, <1>3, <2>1, <3>1, <3>2, MadeHeld
    <2>6. CASE CommitWithdraw
      <3>1. Head(q).kind = "withdraw" /\ item' = To(item, Head(q).calls, "withdrawn") /\ unparked' = unparked
        BY <2>6 DEF CommitWithdraw, Out
      <3>2. Stays /\ \A c \in Head(q).calls : item'[c].state # "open"
        BY <1>1, <3>1, EditStays
      <3>3. \A c \in Head(q).calls : Aside(c)'
        BY <3>2 DEF Aside, IsOpen
      <3>. QED
        BY <1>1, <1>2, <1>3, <2>1, <3>1, <3>2, <3>3, MadeHeld
    <2>7. CASE CommitMoved
      <3>1. Head(q).kind = "moved" /\ item' = To(item, Parked \cup Head(q).calls, "withdrawn") /\ unparked' = unparked
        BY <2>7 DEF CommitMoved, Out
      <3>2. PICK calls : calls = Parked \cup Head(q).calls
        OBVIOUS
      <3>3. Stays /\ \A c \in Calls \cap calls : item'[c].state # "open"
        BY <1>1, <3>1, <3>2, EditStays
      <3>4. \A c \in Head(q).calls : item'[c].state # "open"
        BY <1>1, <3>2, <3>3
      <3>. QED
        BY <1>1, <1>2, <1>3, <2>1, <3>1, <3>3, <3>4, MadeHeld DEF Settling
    <2>. QED
      BY <1>5, <2>2, <2>3, <2>4, <2>5, <2>6, <2>7 DEF Commit, StoreFails
  <1>. QED
    BY <1>4, <1>5

\* The writer gives up the lock: it has put back what a write that failed took.
LEMMA PopsHeld ==
    ASSUME Typed, HeldInv, SameLife, item' = item, q # <<>>, phase \in {"made", "failed"}, q' = Tail(q), phase' = "wait",
           live' \in LiveSet, live'.state = live.state,
           \A c \in live.held : c \in live'.held \/ Aside(c),
           \A c \in Calls : HeadTakes(c) => c \in live'.held /\ live.state # "none",
           \A c \in live'.ahead : Aside(c) /\ item[c].state # "none",
           \A c \in Calls : Aside(c) => Aside(c)'
    PROVE  HeldInv'
  <1>1. q \in Seq(Ops) /\ live' \in LiveSet
    BY DEF Typed
  <1>2. InOrder(q', live'.state, item')
    BY <1>1, OrderTail DEF HeldInv
  <1>3. \A c \in Calls : Aside(c)' \/ Kept(c)'
    BY DEF HeldInv, Kept, SameLife
  <1>4. LockInv'
    BY DEF LockInv
  <1>5. \A c \in live'.ahead : Aside(c)' /\ item'[c].state # "none"
    BY <1>1 DEF LiveSet
  <1>6. LifeInv'
    BY SameLifeInv DEF HeldInv
  <1>. QED
    BY <1>2, <1>3, <1>4, <1>5, <1>6 DEF HeldInv

\* The engine forgets its process and its writes, and the store settles the
\* session: it stopped, or could not record something.
LEMMA ForgetsHeld ==
    ASSUME live' = NoLive, q' = <<>>, phase' = "wait", storeFailed' \/ up' \in Off, up' \in Off => adm'.pc = "none"
    PROVE  HeldInv'
  <1>1. NoLive.state = "none" /\ NoLive.ahead = {} /\ Len(q') = 0 /\ 1 .. Len(q') = {}
    BY DEF NoLive
  <1>. QED
    BY <1>1 DEF HeldInv, InOrder, Kept, LockInv, LifeInv

LEMMA ReturnHeld == ASSUME Typed, OpensOnce, HeldInv, Return PROVE HeldInv'
  <1>1. /\ live \in LiveSet /\ q \in Seq(Ops) /\ item \in [Calls -> ItemRow]
        /\ q # <<>> => Head(q).calls \subseteq Calls /\ Head(q) = q[1] /\ 1 \in 1 .. Len(q)
    BY HeadOp DEF Typed, Ops, OpSet
  <1>2. live' \in LiveSet
    BY ReturnEffect DEF Remembered
  <1>3. \A c \in live.ahead : Aside(c) /\ item[c].state # "none"
    BY DEF HeldInv
  <1>4. UNCHANGED <<item, unparked>> => \A c \in Calls : Aside(c) => Aside(c)'
    BY DEF Aside, IsOpen
  <1>5. ASSUME NEW to \in {"made", "failed"}, ReturnOpen(to) PROVE HeldInv'
    <2>1. /\ q # <<>> /\ Head(q).kind = "open" /\ phase = to /\ UNCHANGED <<item, unparked, up, adm, storeFailed>>
          /\ live' = (IF to = "failed" THEN Undo(live) ELSE live) /\ q' = Tail(q) /\ phase' = "wait"
      BY <1>5 DEF ReturnOpen, Back, store, holds, Release
    <2>2. OpCall \in Calls /\ Head(q).calls = {OpCall}
      BY <2>1, HeadOp DEF Single
    <2>3. to = "failed" => item[OpCall].state = "none"
      BY <1>1, <2>1, <2>2 DEF OpensOnce, OpensAt
    <2>4. live'.state = live.state /\ live'.ahead = live.ahead /\ \A c \in live.held : c \in live'.held \/ (to = "failed" /\ c = OpCall)
      BY <1>1, <2>1, <2>2 DEF Undo, LiveSet
    <2>5. SameLife /\ \A c \in Calls : ~HeadTakes(c)
      BY <2>1 DEF SameLife, HeadTakes
    <2>6. \A c \in live.held : c \in live'.held \/ Aside(c)
      BY <2>3, <2>4 DEF Aside, IsOpen
    <2>. QED
      BY <1>2, <1>3, <1>4, <2>1, <2>4, <2>5, <2>6, PopsHeld
  <1>6. ASSUME NEW to \in {"made", "failed"}, ReturnSpend(to) PROVE HeldInv'
    <2>1. /\ q # <<>> /\ Head(q).kind = "spend" /\ phase = to /\ UNCHANGED <<item, unparked, up, adm, storeFailed, live>>
          /\ q' = Tail(q) /\ phase' = "wait"
      BY <1>6 DEF ReturnSpend, Back, store, holds, Release
    <2>2. SameLife /\ \A c \in Calls : ~HeadTakes(c)
      BY <2>1 DEF SameLife, HeadTakes
    <2>. QED
      BY <1>2, <1>3, <1>4, <2>1, <2>2, PopsHeld
  <1>7. ASSUME NEW to \in {"made", "failed"}, ReturnPark(to) PROVE HeldInv'
    <2>1. /\ q # <<>> /\ Head(q).kind = "park" /\ phase = to /\ UNCHANGED <<item, unparked, up, adm, storeFailed>>
          /\ q' = Tail(q) /\ phase' = "wait"
          /\ \/ to = "made" /\ live' = [live EXCEPT !.release = TRUE]
             \/ to = "failed" /\ live' = Undo(live)
      BY <1>7 DEF ReturnPark, Back, store, holds, Release
    <2>2. /\ live'.state = live.state /\ live'.ahead = live.ahead /\ live.held \subseteq live'.held
          /\ to = "failed" => Head(q).calls \subseteq live'.held
      BY <1>1, <2>1 DEF Undo, LiveSet, Settling
    <2>3. SameLife /\ \A c \in Calls : HeadTakes(c) => c \in live'.held /\ live.state # "none"
      BY <2>1, <2>2 DEF SameLife, HeadTakes
    <2>. QED
      BY <1>2, <1>3, <1>4, <2>1, <2>2, <2>3, PopsHeld
  <1>8. ASSUME NEW to \in {"made", "failed"}, ReturnAhead(to) PROVE HeldInv'
    <2>1. /\ q # <<>> /\ Head(q).kind = "ahead" /\ phase = to /\ UNCHANGED <<item, unparked, up, adm, storeFailed>>
          /\ q' = Tail(q) /\ phase' = "wait"
          /\ live' = IF to = "made" THEN [live EXCEPT !.ahead = @ \cup Head(q).calls] ELSE live
      BY <1>8 DEF ReturnAhead, Back, store, holds, Release
    <2>2. live'.state = live.state /\ live'.held = live.held
          /\ \A c \in live'.ahead : c \in live.ahead \/ (to = "made" /\ c \in Head(q).calls)
      BY <1>1, <2>1 DEF LiveSet
    <2>3. \A c \in Head(q).calls : item[c].state # "none" /\ (to = "made" => Aside(c))
      BY <1>1, <2>1 DEF HeldInv, InOrder, LockInv
    <2>4. SameLife /\ \A c \in Calls : ~HeadTakes(c)
      BY <2>1 DEF SameLife, HeadTakes
    <2>. QED
      BY <1>2, <1>3, <1>4, <2>1, <2>2, <2>3, <2>4, PopsHeld
  <1>9. ASSUME NEW to \in {"made", "failed"}, ReturnMoved(to) PROVE HeldInv'
    <2>1. /\ q # <<>> /\ Head(q).kind = "moved" /\ phase = to /\ UNCHANGED <<item, up, storeFailed, live>>
          /\ q' = Tail(q) /\ phase' = "wait"
          /\ unparked' = IF to = "made" THEN unparked \ Head(q).calls ELSE unparked
          /\ adm.pc = "moving" \/ adm' = NoAdm
      BY <1>9 DEF ReturnMoved, Back, store, holds, Release
    <2>2. to = "made" => \A c \in Head(q).calls : ~IsOpen(c)
      BY <2>1 DEF HeldInv, LockInv
    <2>3. \A c \in Calls : Aside(c) => Aside(c)'
      BY <2>1, <2>2 DEF Aside, IsOpen
    <2>4. SameLife /\ \A c \in Calls : ~HeadTakes(c)
      BY <2>1 DEF SameLife, HeadTakes, NoAdm
    <2>. QED
      BY <1>2, <1>3, <2>1, <2>3, <2>4, PopsHeld
  <1>10. CASE ReturnAnswer \/ ReturnDeliver \/ ReturnWithdraw
    <2>1. /\ q # <<>> /\ phase = "made" /\ UNCHANGED <<item, unparked, up, adm, storeFailed>>
          /\ q' = Tail(q) /\ phase' = "wait"
          /\ live' = live \/ live' = [live EXCEPT !.deciding = @ \ Head(q).calls]
      BY <1>10 DEF ReturnAnswer, ReturnDeliver, ReturnWithdraw, Back, store, holds, Release
    <2>2. live'.state = live.state /\ live'.held = live.held /\ live'.ahead = live.ahead
      BY <1>1, <2>1 DEF LiveSet
    <2>3. SameLife /\ \A c \in Calls : ~HeadTakes(c)
      BY <2>1 DEF SameLife, HeadTakes
    <2>. QED
      BY <1>2, <1>3, <1>4, <2>1, <2>2, <2>3, PopsHeld
  <1>11. CASE DecisionFails
    <2>1. /\ q # <<>> /\ phase = "failed" /\ Head(q).kind \in {"answer", "deliver"}
          /\ UNCHANGED <<item, unparked, up, adm, storeFailed>> /\ q' = Tail(q) /\ phase' = "wait"
          /\ live' = [Undo(live) EXCEPT !.deciding = @ \ Head(q).calls]
      BY <1>11 DEF DecisionFails, Back, store, holds, Release
    <2>2. Undo(live) \in LiveSet /\ Undo(live).state = live.state /\ Undo(live).ahead = live.ahead
          /\ Undo(live).held = live.held \cup Head(q).calls
      BY <1>1, <2>1, UndoType DEF Undo, LiveSet, Settling
    <2>3. live'.state = live.state /\ live'.ahead = live.ahead /\ live'.held = live.held \cup Head(q).calls
      BY <2>1, <2>2 DEF LiveSet
    <2>4. SameLife /\ \A c \in Calls : HeadTakes(c) => c \in live'.held /\ live.state # "none"
      BY <2>1, <2>3 DEF SameLife, HeadTakes
    <2>. QED
      BY <1>2, <1>3, <1>4, <2>1, <2>3, <2>4, PopsHeld
  <1>12. CASE ReturnClose
    <2>1. /\ q # <<>> /\ phase = "made" /\ Head(q).kind = "close" /\ UNCHANGED <<item, unparked, up, adm, storeFailed>>
          /\ q' = Tail(q) /\ phase' = "wait" /\ live' = NoLive
      BY <1>12 DEF ReturnClose, Back, store, Release
    <2>2. NoLive.state = "none" /\ NoLive.ahead = {}
      BY DEF NoLive
    <2>3. InOrder(q', live'.state, item')
      BY <1>1, <2>1, <2>2, OrderTail DEF HeldInv
    <2>4. live.held = {} /\ \A c \in Calls : ~HeadTakes(c)
      BY <2>1 DEF HeldInv, LockInv, HeadTakes
    <2>5. \A c \in Calls : Aside(c)' \/ Kept(c)'
      BY <1>4, <2>1, <2>4 DEF HeldInv, Kept
    <2>6. LifeInv'
      BY <2>1, <2>2 DEF HeldInv, LifeInv
    <2>. QED
      BY <2>1, <2>2, <2>3, <2>5, <2>6 DEF HeldInv, LockInv
  <1>13. CASE Unusable
    <2>1. live' = NoLive /\ q' = <<>> /\ phase' = "wait" /\ storeFailed' /\ up' = up /\ (adm' = adm \/ adm' = NoAdm)
      BY <1>13 DEF Unusable
    <2>2. up' \in Off => adm'.pc = "none"
      BY <2>1 DEF HeldInv, LifeInv, NoAdm
    <2>. QED
      BY <2>1, <2>2, ForgetsHeld
  <1>. QED
    BY <1>5, <1>6, <1>7, <1>8, <1>9, <1>10, <1>11, <1>12, <1>13 DEF Return

LEMMA StartHeld == ASSUME Typed, HeldInv, StartWrite PROVE HeldInv'
  <1>1. /\ q # <<>> /\ phase = "wait" /\ UNCHANGED <<item, unparked, up, adm, storeFailed>>
        /\ live \in LiveSet /\ q \in Seq(Ops) /\ Head(q) \in Ops /\ InOrder(q, live.state, item)
    BY HeadOp DEF StartWrite, store, holds, Typed, HeldInv
  <1>2. SameLife /\ SameProcess(live) /\ \A c \in Calls : Aside(c) => Aside(c)'
    BY <1>1 DEF SameLife, SameProcess, Aside, IsOpen
  <1>3. CASE q' = Tail(q) /\ live' = live /\ phase' = phase
    <2>1. InOrder(q', live'.state, item')
      BY <1>1, <1>3, OrderTail
    <2>2. \A c \in Calls : Aside(c)' \/ Kept(c)'
      BY <1>1, <1>2, <1>3 DEF HeldInv, Kept, HeadTakes
    <2>3. LockInv' /\ LifeInv'
      BY <1>1, <1>2, <1>3, SameLifeInv DEF LockInv, HeldInv
    <2>4. \A c \in live'.ahead : Aside(c)' /\ item'[c].state # "none"
      BY <1>1, <1>2, <1>3 DEF HeldInv, LiveSet
    <2>. QED
      BY <2>1, <2>2, <2>3, <2>4 DEF HeldInv
  <1>4. CASE live' = Prepare(live, Head(q)) /\ q' = <<Starting(live, Head(q))>> \o Tail(q) /\ phase' = "out"
    <2>1. /\ Starting(live, Head(q)) \in Ops /\ Starting(live, Head(q)).kind = Head(q).kind
          /\ Head(q).kind # "close" => Starting(live, Head(q)) = Head(q)
      BY <1>1, LiveEdits
    <2>2. InOrder(q', live.state, item)
      BY <1>1, <1>4, <2>1, OrderBegun
    <2>3. q' # <<>> /\ Head(q') = Starting(live, Head(q))
      <3>1. Tail(q) \in Seq(Ops)
        BY <1>1, HeadOp
      <3>2. Len(q') = 1 + Len(Tail(q)) /\ q'[1] = Starting(live, Head(q)) /\ q' \in Seq(Ops)
        BY <1>4, <2>1, <3>1
      <3>. QED
        BY <3>1, <3>2
    <2>. QED
      BY <1>1, <1>2, <1>4, <2>2, <2>3, BeginsHeld
  <1>. QED
    BY <1>3, <1>4 DEF StartWrite

\* Steps that leave the store alone, but for what they append to the queue.
LEMMA SameStays == ASSUME item' = item, \A c \in unparked : IsOpen(c) => c \in unparked' PROVE Stays
  BY DEF Stays, IsOpen

LEMMA CliHeld ==
    ASSUME Typed, HeldInv,
           \/ \E c \in Calls : Ask(c) \/ TakesBack(c) \/ PumpResolved(c)
           \/ TurnEnds \/ BackoffOver \/ Dies \/ ReleasesIdle \/ PumpClosed
    PROVE  HeldInv'
  <1>1. live \in LiveSet /\ SameProcess(live)
    BY DEF Typed, SameProcess
  <1>2. ASSUME NEW c \in Calls, Ask(c) PROVE HeldInv'
    <2>1. UNCHANGED <<item, unparked, up, adm, storeFailed>> /\ live.state = "up"
      BY <1>2 DEF Ask, store, holds
    <2>2. SameLife
      BY <2>1 DEF SameLife
    <2>3. CASE \E g \in Grants(call[c].act) : Write(live, SpendOp(c, g))
      <3>1. PICK g \in Calls : Write(live, SpendOp(c, g))
        BY <2>3 DEF Grants
      <3>2. PICK op \in Ops : op = SpendOp(c, g) /\ op.kind = "spend"
        <4>1. SpendOp(c, g) \in Ops /\ SpendOp(c, g).kind = "spend"
          BY OpsOf DEF SpendOp
        <4>. QED
          BY <4>1
      <3>. QED
        BY <1>1, <2>1, <2>2, <3>1, <3>2, JoinsHeld
    <2>4. CASE Write(live, Op("open", {c}))
      <3>1. PICK op \in Ops : op = Op("open", {c}) /\ op.kind = "open"
        BY OpsOf DEF OpKinds
      <3>. QED
        BY <1>1, <2>1, <2>2, <2>4, <3>1, JoinsHeld
    <2>. QED
      BY <1>2, <2>3, <2>4 DEF Ask
  <1>3. CASE TurnEnds \/ BackoffOver \/ \E c \in Calls : TakesBack(c) \/ (PumpResolved(c) /\ UNCHANGED writes)
    <2>1. UNCHANGED <<item, unparked, up, adm, storeFailed, live, q, phase>>
      BY <1>3 DEF TakesBack, PumpResolved, TurnEnds, BackoffOver, store, engine, writes, holds
    <2>2. SameLife /\ Stays /\ SameProcess(live')
      BY <2>1, SameStays DEF SameLife, SameProcess
    <2>. QED
      BY <2>1, <2>2, QuietHeld
  <1>4. ASSUME NEW c \in Calls, PumpResolved(c), ~UNCHANGED writes PROVE HeldInv'
    <2>1. UNCHANGED <<item, unparked, up, adm, storeFailed>> /\ Write(live, Op("withdraw", {c}))
      BY <1>4 DEF PumpResolved, store, holds
    <2>2. SameLife
      BY <2>1 DEF SameLife
    <2>3. PICK op \in Ops : op = Op("withdraw", {c}) /\ op.kind = "withdraw"
      BY OpsOf DEF OpKinds
    <2>. QED
      BY <1>1, <2>1, <2>2, <2>3, JoinsHeld
  <1>5. CASE Dies \/ ReleasesIdle
    <2>1. /\ UNCHANGED <<item, unparked, up, adm, storeFailed, q, phase>> /\ live.state = "up"
          /\ \E how \in {"dying", "closing"} : live' = [live EXCEPT !.state = how]
      BY <1>5 DEF Dies, ReleasesIdle, ProcessEnds, store, holds
    <2>2. SameLife /\ Stays /\ SameProcess(live')
      BY <1>1, <2>1, SameStays DEF SameLife, SameProcess, LiveSet
    <2>. QED
      BY <2>1, <2>2, QuietHeld
  <1>6. CASE PumpClosed
    <2>1. UNCHANGED <<item, unparked, up, adm, storeFailed>> /\ Write(live, Op("close", {})) /\ live.state \in {"dying", "closing"}
      BY <1>6 DEF PumpClosed
    <2>2. SameLife
      BY <2>1 DEF SameLife
    <2>3. PICK op \in Ops : op = Op("close", {}) /\ op.kind = "close"
      BY OpsOf DEF OpKinds, Single
    <2>4. \A i \in 1 .. Len(q) : q[i].kind # "close"
      BY <1>6 DEF PumpClosed, PumpFree
    <2>. QED
      BY <1>1, <2>1, <2>2, <2>3, <2>4, JoinsHeld
  <1>. QED
    BY <1>2, <1>3, <1>4, <1>5, <1>6

LEMMA PersonHeld ==
    ASSUME Typed, HeldInv,
           \/ \E c \in Calls, allow \in BOOLEAN : Decide(c, allow)
           \/ Route \/ DeliverOut \/ (\E calls \in SUBSET Parked : Expire(calls))
           \/ ParkOldest \/ \E m \in {"person", "other"} : Sent(m)
    PROVE  HeldInv'
  <1>1. live \in LiveSet /\ SameProcess(live) /\ item \in [Calls -> ItemRow] /\ (dec.pc # "none" => dec.call \in Calls)
    BY DEF Typed, SameProcess
  <1>2. CASE (\E c \in Calls, allow \in BOOLEAN : Decide(c, allow)) \/ \E m \in {"person", "other"} : Sent(m)
    <2>1. UNCHANGED <<item, unparked, up, adm, storeFailed, live, q, phase>>
      BY <1>2 DEF Decide, Sent, store, engine, writes, holds
    <2>2. SameLife /\ Stays /\ SameProcess(live')
      BY <2>1, SameStays DEF SameLife, SameProcess
    <2>. QED
      BY <2>1, <2>2, QuietHeld
  <1>3. CASE Route
    <2>1. UNCHANGED <<item, unparked, up, adm, storeFailed>> /\ dec.pc = "read"
      BY <1>3 DEF Route, store, holds
    <2>2. SameLife
      BY <2>1 DEF SameLife
    <2>3. PICK c \in Calls : c = dec.call
      BY <1>1, <2>1
    <2>4. PICK l : l = [live EXCEPT !.deciding = @ \cup {c}]
      OBVIOUS
    <2>5. l \in LiveSet /\ SameProcess(l) /\ l.state = live.state
      BY <1>1, <2>4 DEF LiveSet, SameProcess
    <2>6. CASE Write(l, Op("answer", {c}))
      <3>1. PICK op \in Ops : op = Op("answer", {c}) /\ op.kind = "answer"
        BY OpsOf DEF OpKinds
      <3>. QED
        BY <2>1, <2>2, <2>5, <2>6, <3>1, JoinsHeld
    <2>7. CASE Write(live, Op("deliver", {c}))
      <3>1. PICK op \in Ops : op = Op("deliver", {c}) /\ op.kind = "deliver"
        BY OpsOf DEF OpKinds
      <3>. QED
        BY <1>1, <2>1, <2>2, <2>7, <3>1, JoinsHeld
    <2>8. CASE UNCHANGED writes
      <3>1. live' = live /\ q' = q /\ phase' = phase
        BY <2>8 DEF writes
      <3>2. Stays /\ SameProcess(live')
        BY <2>1, <3>1, SameStays DEF SameProcess
      <3>. QED
        BY <2>2, <3>1, <3>2, QuietHeld
    <2>. QED
      BY <1>3, <2>3, <2>4, <2>6, <2>7, <2>8 DEF Route
  <1>4. CASE DeliverOut \/ \E calls \in SUBSET Parked : Expire(calls)
    <2>1. UNCHANGED <<unparked, up, adm, storeFailed, live, q, phase>>
      BY <1>4 DEF DeliverOut, Expire, engine, writes, holds
    <2>2. Stays
      <3>1. CASE item' = item
        BY <2>1, <3>1, SameStays
      <3>2. CASE \E via \in Ways : Record(dec.call, via)
        <4>1. dec.call \in Calls \/ item' = item
          BY <1>1, <3>2 DEF Record, Typed
        <4>. QED
          BY <1>1, <2>1, <3>1, <3>2, <4>1, RecordStays
      <3>3. CASE \E calls : item' = To(item, calls, "expired")
        BY <1>1, <2>1, <3>3, EditStays
      <3>. QED
        BY <1>4, <3>1, <3>2, <3>3 DEF DeliverOut, Deliver, Expire, Ways
    <2>3. SameLife /\ SameProcess(live')
      BY <2>1 DEF SameLife, SameProcess
    <2>. QED
      BY <2>1, <2>2, <2>3, QuietHeld
  <1>5. CASE ParkOldest
    <2>1. PICK c \in live.held : Write(live, Op("park", {c})) /\ UNCHANGED <<item, unparked, up, adm, storeFailed>>
      BY <1>5 DEF ParkOldest, store, holds
    <2>2. c \in Calls
      BY <1>1, <2>1 DEF LiveSet
    <2>3. SameLife
      BY <2>1 DEF SameLife
    <2>4. PICK op \in Ops : op = Op("park", {c}) /\ op.kind = "park"
      BY <2>2, OpsOf DEF OpKinds
    <2>. QED
      BY <1>1, <2>1, <2>3, <2>4, JoinsHeld
  <1>. QED
    BY <1>2, <1>3, <1>4, <1>5

LEMMA AdmissionHeld == ASSUME Typed, HeldInv, PassReads \/ PassGoes \/ Attach \/ Looks \/ Send PROVE HeldInv'
  <1>1. live \in LiveSet /\ SameProcess(live) /\ unparked \in SUBSET Calls /\ (phase # "wait" => q # <<>>) /\ q \in Seq(Ops)
    BY DEF Typed, SameProcess
  <1>2. CASE PassReads \/ PassGoes \/ Send \/ (Looks /\ UNCHANGED writes)
    <2>1. /\ UNCHANGED <<item, up, storeFailed, live, q, phase>> /\ (unparked' = unparked \/ unparked' = {c \in unparked : IsOpen(c)})
          /\ adm' = adm \/ up = "up" \/ adm.pc # "none"
      BY <1>2 DEF PassReads, PassGoes, Send, Looks, store, writes, holds
    <2>2. SameLife /\ Stays /\ SameProcess(live')
      BY <2>1, SameStays DEF SameLife, SameProcess
    <2>. QED
      BY <2>1, <2>2, QuietHeld
  <1>3. CASE Looks /\ ~UNCHANGED writes
    <2>1. UNCHANGED <<item, unparked, up, storeFailed>> /\ adm.pc = "look" /\ Write(live, Op("moved", unparked))
      BY <1>3 DEF Looks, store, holds
    <2>2. SameLife
      BY <2>1 DEF SameLife
    <2>3. PICK op \in Ops : op = Op("moved", unparked) /\ op.kind = "moved"
      BY <1>1, OpsOf DEF OpKinds, Single
    <2>. QED
      BY <1>1, <2>1, <2>2, <2>3, JoinsHeld
  <1>4. CASE Attach
    <2>1. /\ UNCHANGED <<item, unparked, up, storeFailed, q, phase>> /\ adm.pc = "attach" /\ live.state = "none" /\ ~storeFailed
          /\ live' = [NoLive EXCEPT !.state = "up"]
      BY <1>4 DEF Attach, store, holds
    <2>2. live'.state = "up" /\ live'.held = {} /\ live'.ahead = {}
      BY <2>1, NoLiveType DEF NoLive, LiveSet
    <2>3. InOrder(q', live'.state, item')
      BY <1>1, <2>1, <2>2, OrderLater DEF HeldInv
    <2>4. \A c \in Calls : Aside(c)' \/ Kept(c)'
      <3>1. \A c \in Calls : (Aside(c) <=> Aside(c)') /\ (HeadTakes(c) => HeadTakes(c)')
        BY <2>1, <2>2 DEF Aside, IsOpen, HeadTakes
      <3>. QED
        BY <2>1, <3>1 DEF HeldInv, Kept
    <2>5. q # <<>> => Head(q).kind \notin {"open", "close"}
      <3>1. q # <<>> => Head(q) = q[1] /\ 1 \in 1 .. Len(q)
        BY <1>1
      <3>. QED
        BY <2>1, <3>1 DEF HeldInv, InOrder
    <2>6. LockInv'
      BY <1>1, <2>1, <2>5 DEF HeldInv, LockInv, Aside, IsOpen
    <2>7. LifeInv'
      BY <2>1 DEF HeldInv, LifeInv
    <2>. QED
      BY <2>2, <2>3, <2>4, <2>6, <2>7 DEF HeldInv
  <1>. QED
    BY <1>2, <1>3, <1>4

LEMMA LifeHeld ==
    ASSUME Typed, HeldInv, Shutdown \/ ShutdownCloses \/ Stops \/ Crashes \/ Boot \/ ParkRestarted \/ SettleStoreFailed
    PROVE  HeldInv'
  <1>1. live \in LiveSet /\ SameProcess(live) /\ item \in [Calls -> ItemRow]
    BY DEF Typed, SameProcess
  <1>2. CASE Shutdown
    <2>. DEFINE held == {c \in live.held : IsOpen(c) /\ call[c].future = "pending"}
    <2>1. /\ UNCHANGED <<item, unparked, storeFailed>> /\ up = "up" /\ up' = "parking"
          /\ Write(live, Op("ahead", held)) \/ UNCHANGED writes
      BY <1>2 DEF Shutdown, store, holds
    <2>2. SameLife
      BY <2>1 DEF SameLife, Off
    <2>3. CASE Write(live, Op("ahead", held))
      <3>1. held \subseteq Calls /\ \A c \in held : item[c].state # "none"
        BY <1>1 DEF LiveSet, IsOpen
      <3>. HIDE DEF held
      <3>2. PICK op \in Ops : op = Op("ahead", held) /\ op.kind = "ahead" /\ op.calls = held
        BY <3>1, OpsOf DEF OpKinds, Single
      <3>. QED
        BY <1>1, <2>1, <2>2, <2>3, <3>1, <3>2, JoinsHeld
    <2>4. CASE UNCHANGED writes
      <3>1. live' = live /\ q' = q /\ phase' = phase
        BY <2>4 DEF writes
      <3>2. Stays /\ SameProcess(live')
        BY <2>1, <3>1, SameStays DEF SameProcess
      <3>. QED
        BY <2>2, <3>1, <3>2, QuietHeld
    <2>. QED
      BY <2>1, <2>3, <2>4
  <1>3. CASE ShutdownCloses
    <2>1. /\ UNCHANGED <<item, unparked, adm, storeFailed, q, phase>> /\ up = "parking" /\ up' = "closing"
          /\ live' = live \/ (live.state = "up" /\ live' = [live EXCEPT !.state = "closing"])
      BY <1>3 DEF ShutdownCloses, ProcessEnds, store, holds
    <2>2. SameLife /\ Stays /\ SameProcess(live')
      BY <1>1, <2>1, SameStays DEF SameLife, SameProcess, LiveSet, Off
    <2>. QED
      BY <2>1, <2>2, QuietHeld
  <1>4. CASE Stops \/ Crashes
    <2>1. live' = NoLive /\ q' = <<>> /\ phase' = "wait" /\ up' = "down" /\ adm' = NoAdm
      BY <1>4 DEF Stops, Crashes, Down
    <2>. QED
      BY <2>1, ForgetsHeld DEF Off, NoAdm
  <1>5. CASE Boot
    <2>1. UNCHANGED <<item, unparked, adm, storeFailed, live, q, phase>> /\ up = "down" /\ up' = "boot"
      BY <1>5 DEF Boot, writes, holds
    <2>2. SameLife /\ Stays /\ SameProcess(live')
      BY <2>1, SameStays DEF SameLife, SameProcess, Off
    <2>. QED
      BY <2>1, <2>2, QuietHeld
  <1>6. CASE ParkRestarted \/ SettleStoreFailed
    <2>1. /\ UNCHANGED <<adm, live, q, phase>> /\ ParkItems({c \in Calls : IsOpen(c) /\ ~item[c].parked})
          /\ up' = "up" /\ (storeFailed' = storeFailed \/ storeFailed' = FALSE)
      BY <1>6 DEF ParkRestarted, SettleStoreFailed, writes, holds
    <2>2. PICK calls \in SUBSET Calls : calls = {c \in Calls : IsOpen(c) /\ ~item[c].parked}
      OBVIOUS
    <2>3. Stays /\ \A c \in calls : Aside(c)'
      BY <1>1, <2>1, <2>2, ParkStays
    <2>4. \A c \in Calls : Aside(c)'
      BY <2>2, <2>3, StaysAside DEF Aside
    <2>5. LifeInv'
      BY <2>1 DEF HeldInv, LifeInv, Off
    <2>6. SameProcess(live')
      BY <2>1 DEF SameProcess
    <2>. QED
      BY <2>1, <2>3, <2>4, <2>5, <2>6, QuietHeld
  <1>. QED
    BY <1>2, <1>3, <1>4, <1>5, <1>6

LEMMA StepHeld == ASSUME Typed, OpensOnce, HeldInv, [Next]_vars PROVE HeldInv'
  <1>1. CASE UNCHANGED vars
    <2>1. UNCHANGED <<item, unparked, up, adm, storeFailed, live, q, phase>>
      BY <1>1 DEF vars, store, engine, writes, holds
    <2>2. SameLife /\ Stays /\ SameProcess(live')
      BY <2>1, SameStays DEF SameLife, SameProcess
    <2>. QED
      BY <2>1, <2>2, QuietHeld
  <1>2. CASE Next
    BY <1>2, StartHeld, CommitHeld, ReturnHeld, CliHeld, PersonHeld, AdmissionHeld, LifeHeld DEF Next
  <1>. QED
    BY <1>1, <1>2

LEMMA InitHeld == Init => HeldInv
  <1>. SUFFICES ASSUME Init PROVE HeldInv
    OBVIOUS
  <1>1. q = <<>> /\ Len(q) = 0 /\ 1 .. Len(q) = {} /\ live.ahead = {} /\ \A c \in Calls : item[c].state = "none"
    BY DEF Init, NoLive, NoItem
  <1>2. \A c \in Calls : Aside(c)
    BY <1>1 DEF Aside, IsOpen
  <1>. QED
    BY <1>1, <1>2 DEF HeldInv, InOrder, LockInv, LifeInv, Init, Off

LEMMA HeldCorrect == Spec => [](Typed /\ OpensOnce /\ HeldInv)
  BY InitTyped, InitOpens, InitHeld, StepTyped, StepOpens, StepHeld, PTL DEF Spec

\* However the person, the pump, the memory guard, the expiry, failed writes,
\* dead processes and restarts fall, an open item whose call is gone is parked
\* or held in memory: the agent's question is never open with nobody to ask.
THEOREM OpenItemsAreHeld == Spec => []OpenItemIsHeld
  <1>1. ASSUME Typed, HeldInv, NEW c \in Calls, IsOpen(c)
        PROVE  c \in live.held \/ item[c].parked \/ c \in unparked \/ Settles(c) \/ up \in {"down", "boot"} \/ storeFailed
    <2>1. CASE HeadTakes(c)
      <3>1. q \in Seq(Ops) /\ q # <<>> /\ Head(q) = q[1] /\ 1 \in 1 .. Len(q)
        BY <1>1, <2>1 DEF Typed, HeadTakes
      <3>. QED
        BY <2>1, <3>1 DEF HeadTakes, Settles, Settling
    <2>. QED
      BY <1>1, <2>1 DEF HeldInv, Aside, Kept, Off
  <1>2. Typed /\ HeldInv => OpenItemIsHeld
    BY <1>1 DEF OpenItemIsHeld
  <1>. QED
    BY <1>2, HeldCorrect, PTL

\* When an item opens, every other open item for the same action belongs to a call
\* its process still holds, to a park that failed, or to a write that settles it:
\* the parked ones are withdrawn in the same transaction, and the calls of a dead
\* process or of the last run are parked before anything new is asked.
THEOREM OneItemPerAction == Spec => OneActionOneItem
  <1>1. ASSUME Typed, OpensOnce, HeldInv, [Next]_vars, NEW c \in Calls, NEW d \in Calls,
               ~IsOpen(c), item'[c].state = "open", c # d, call[c].act = call[d].act, item'[d].state = "open"
        PROVE  d \in live.held \cup unparked \/ Settles(d)
    <2>1. Effect /\ item \in [Calls -> ItemRow] /\ q \in Seq(Ops)
      BY <1>1, StepEffect DEF Typed
    <2>2. Opens
      <3>1. CASE Edits
        BY <1>1, <2>1, <3>1 DEF Edits, To, Park, ItemRow, IsOpen
      <3>2. CASE Answers
        BY <1>1, <2>1, <3>2, HeadOp, RecordType DEF Answers, QMade, Single, Ways, IsOpen
      <3>3. CASE \E e \in Calls, via \in {"grant", "wake"} : Decides(e, via)
        BY <1>1, <2>1, <3>3, RecordType DEF Decides, Ways, IsOpen
      <3>. QED
        BY <1>1, <2>1, <3>1, <3>2, <3>3 DEF Effect, Moves, Spends, Runs, RunsOf, IsOpen
    <2>3. /\ q # <<>> /\ phase = "out" /\ Head(q).kind = "open" /\ OpCall \in Calls /\ OpenItem(OpCall)
          /\ Head(q) = q[1] /\ 1 \in 1 .. Len(q)
      BY <1>1, <2>1, <2>2, HeadOp DEF Opens, QMade, Single
    <2>4. PICK e \in Calls : e = OpCall
      BY <2>3
    <2>5. OpenItem(e) /\ \A b \in Calls \ {e} : item'[b] = item[b] \/ (item[b].state = "open" /\ item'[b].state = "withdrawn")
      BY <2>1, <2>3, <2>4, OpenItemType
    <2>6. e = c /\ IsOpen(d) /\ item'[d] = item[d]
      BY <1>1, <2>5 DEF IsOpen
    <2>7. ~item[d].parked
      <3>1. ASSUME item[d].parked PROVE d \in SameCallParked(c)
        BY <1>1, <2>6, <3>1 DEF SameCallParked, Parked
      <3>2. ASSUME d \in SameCallParked(c) PROVE item'[d].state = "withdrawn"
        BY <1>1, <2>1, <2>5, <2>6, <3>2 DEF OpenItem, To, ItemRow, IsOpen
      <3>. QED
        BY <1>1, <3>1, <3>2
    <2>8. live.state # "none" /\ up \notin Off /\ ~storeFailed
      BY <1>1, <2>3 DEF HeldInv, InOrder, LifeInv
    <2>. QED
      BY <1>1, <2>6, <2>7, <2>8, <2>3 DEF HeldInv, Aside, Kept, HeadTakes
  <1>2. Typed /\ OpensOnce /\ HeldInv /\ [Next]_vars =>
           [\A c, d \in Calls :
              /\ ~IsOpen(c) /\ item'[c].state = "open"
              /\ c # d /\ call[c].act = call[d].act /\ item'[d].state = "open"
              => d \in live.held \cup unparked \/ Settles(d)]_vars
    BY <1>1
  <1>. QED
    BY <1>2, HeldCorrect, PTL DEF Spec, OneActionOneItem

=============================================================================
