---------------------- MODULE StormSessionCli_proofs -----------------------
(***************************************************************************)
(* What is proved of StormSession about the CLI process and what it says:  *)
(* one process of a session works at a time, the end of a turn that is     *)
(* recorded as running is never lost, what is consumed was received, and   *)
(* a message is given up only after its turns really failed.  The          *)
(* invariants below say how the process, the engine's object for it, the   *)
(* events between the two and the rows of the store fit together at every  *)
(* step of the six actors.                                                 *)
(***************************************************************************)
EXTENDS StormSession_proofs, SequenceTheorems, FiniteSetTheorems

\* The event that ends turn t.
End(t) == [kind |-> "finished", turn |-> t]

\* The end of turn t is still to be read: the process c runs it, or has said
\* that it ended.
AheadIn(c, t) == c.turn = t \/ \E i \in 1 .. Len(c.q) : c.q[i] = End(t)
Ahead(t)      == AheadIn(cli, t)

\* The engine still records what the process of its object says, and that
\* process is the one that talks.
Alive    == ~live.closed /\ ~live.stale
Attached == cli.epoch = live.epoch

\* The steps of the admission task that hold a process.
Handles == {"look", "opened", "closing", "ready", "sending", "accepted", "take"}

\* A session held back for a process of the last run has no admission.
HoldInv ==
    /\ look => adm.pc = "none" /\ ~survivor
    /\ adm.pc # "none" => ~survivor
    /\ recheck => survivor
    /\ up # "up" => adm.pc = "none" /\ ~look
    /\ up = "down" => ~recheck

\* The process, its object and the session's epoch.
ProcInv ==
    /\ cli.epoch <= epoch /\ live.epoch <= epoch
    /\ adm.pc = "attach" => ~live.reg
    /\ adm.pc = "opening" => /\ cli.epoch < live.epoch /\ cli.state # "up"
                             /\ Alive /\ live.turn = NoTurn /\ live.input = "none"
    /\ adm.pc \in Handles => Attached
    /\ live.closed \/ adm.pc = "opening" \/ Attached
    /\ live.reg <=> Alive
    /\ ~Alive => cli.state # "up"
    /\ live.closed /\ Attached => cli.state \in {"none", "gone"}
    /\ live.stale /\ Fenced => storeFailed

\* What is in the queue of a process: nothing follows its own end, and the end
\* of a turn that started is ahead.
QueueIn(c) ==
    /\ c.state \in {"none", "gone"} => c.turn = NoTurn
    /\ \A i \in 1 .. Len(c.q) :
          /\ c.q[i].kind = "closed" => i = Len(c.q) /\ c.state = "gone"
          /\ c.q[i].kind = "started" =>
                c.turn = c.q[i].turn \/ \E j \in i + 1 .. Len(c.q) : c.q[j] = End(c.q[i].turn)
QueueInv == QueueIn(cli)

\* Turn t will be ended in the record by its end.
Awaited(t) == Alive /\ Fenced /\ Attached /\ Ahead(t)

\* A turn that is recorded as running, or that a take may still record so.
RunInv ==
    /\ up = "up" => \A t \in Running(turn) : storeFailed \/ (Awaited(t) /\ turn[t].epoch = epoch)
    /\ adm.pc \in {"accepted", "take"} /\ turn[adm.turn].status = "none" /\ Fenced =>
          storeFailed \/ Awaited(adm.turn)

CliInv == HoldInv /\ ProcInv /\ QueueInv /\ RunInv

-----------------------------------------------------------------------------
(***************************************************************************)
(* What a step does to the process.                                        *)
(***************************************************************************)

\* It is told to end, it dies, or nothing happens to it (c before, d after).
SameState(c, d) == d.state = c.state \/ {c.state, d.state} \cap {"none", "gone"} = {}
Keeps(c, d)     == SameState(c, d) /\ d.q = c.q /\ d.turn = c.turn /\ d.epoch = c.epoch

\* It says that it is idle, starts a turn, or ends the one it ran.
Says(c, d) ==
    /\ d.q = Append(c.q, [kind |-> "idle", turn |-> NoTurn])
    /\ c.state \in Serving /\ d.state = c.state /\ d.turn = c.turn /\ d.epoch = c.epoch
Starts(c, d) ==
    /\ c.turn = NoTurn /\ d.turn \in Turns
    /\ d.q = Append(c.q, [kind |-> "started", turn |-> d.turn])
    /\ c.state \in Serving /\ d.state = c.state /\ d.epoch = c.epoch
Ends1(c, d) ==
    /\ c.turn \in Turns /\ d.turn = NoTurn
    /\ d.q = Append(c.q, End(c.turn))
    /\ c.state \in Serving \cup {"closing"} /\ d.state = c.state /\ d.epoch = c.epoch

\* It ends: with the end of its open turn, when it has one.
ClosedEvent == [kind |-> "closed", turn |-> NoTurn]
Exits(c, d) ==
    /\ c.state \in {"dead", "closing"} /\ d.state = "gone" /\ d.turn = NoTurn /\ d.epoch = c.epoch
    /\ d.q = (IF c.turn # NoTurn THEN Append(c.q, End(c.turn)) ELSE c.q) \o <<ClosedEvent>>

\* The pump reads an event of it, or another process (or none) takes its place.
Pops(c, d)    == c.q # <<>> /\ d.q = Tail(c.q) /\ SameState(c, d) /\ d.turn = c.turn /\ d.epoch = c.epoch
Renewed(c, d) == d.q = <<>> /\ d.turn = NoTurn

\* The steps that lose no event.
Talks(c, d) == Keeps(c, d) \/ Says(c, d) \/ Starts(c, d) \/ Ends1(c, d) \/ Exits(c, d)

\* An event is of a turn, or names none.
LEMMA EventTypes ==
    /\ \A t \in Turns : End(t) \in Events /\ [kind |-> "started", turn |-> t] \in Events
    /\ [kind |-> "idle", turn |-> NoTurn] \in Events /\ ClosedEvent \in Events
    /\ \A e \in Events : /\ e.kind = "finished" => e = End(e.turn) /\ e.turn \in Turns
                         /\ e.kind = "started" => e.turn \in Turns
                         /\ e.kind \in {"idle", "closed"} => \A t : e # End(t)
  <1>1. \A t \in Turns, k \in {"started", "finished"} : [kind |-> k, turn |-> t] \in Events
    BY DEF Events
  <1>2. \A k \in {"idle", "closed"} : [kind |-> k, turn |-> NoTurn] \in Events
    BY DEF Events
  <1>3. ASSUME NEW e \in Events PROVE /\ e.kind = "finished" => e = End(e.turn) /\ e.turn \in Turns
                                      /\ e.kind = "started" => e.turn \in Turns
                                      /\ e.kind \in {"idle", "closed"} => \A t : e # End(t)
    BY DEF Events, End
  <1>. QED
    BY <1>1, <1>2, <1>3 DEF End, ClosedEvent

\* A process that talks keeps what it had said, and the end of its turn.
LEMMA TalkKeeps ==
    ASSUME NEW c \in CliType, NEW d \in CliType, Talks(c, d)
    PROVE  /\ Len(c.q) <= Len(d.q)
           /\ \A i \in 1 .. Len(c.q) : d.q[i] = c.q[i]
           /\ \A t \in Turns : AheadIn(c, t) => AheadIn(d, t)
  <1>. DEFINE fin == Append(c.q, End(c.turn))
  <1>1. c.q \in Seq(Events) /\ d.q \in Seq(Events) /\ Len(c.q) \in Nat /\ Len(d.q) \in Nat
    BY DEF CliType
  <1>2. c.turn # NoTurn => c.turn \in Turns
    BY StoreAssumption DEF CliType, TurnIds, Turns, NoTurn
  <1>3. ASSUME NEW e \in Events, d.q = Append(c.q, e)
        PROVE  Len(d.q) = Len(c.q) + 1 /\ d.q[Len(d.q)] = e /\ \A i \in 1 .. Len(c.q) : d.q[i] = c.q[i]
    BY <1>1, <1>3, AppendProperties
  <1>4. CASE Keeps(c, d)
    BY <1>1, <1>4 DEF Keeps, AheadIn
  <1>5. CASE Says(c, d)
    <2>1. Len(d.q) = Len(c.q) + 1 /\ \A i \in 1 .. Len(c.q) : d.q[i] = c.q[i]
      BY <1>3, <1>5, EventTypes DEF Says
    <2>. QED
      BY <1>1, <1>5, <2>1 DEF Says, AheadIn
  <1>6. CASE Starts(c, d)
    <2>1. Len(d.q) = Len(c.q) + 1 /\ \A i \in 1 .. Len(c.q) : d.q[i] = c.q[i]
      BY <1>3, <1>6, EventTypes DEF Starts
    <2>2. \A t \in Turns : t # NoTurn
      BY DEF Turns, NoTurn
    <2>. QED
      BY <1>1, <1>6, <2>1, <2>2 DEF Starts, AheadIn
  <1>7. CASE Ends1(c, d)
    <2>1. Len(d.q) = Len(c.q) + 1 /\ d.q[Len(d.q)] = End(c.turn) /\ \A i \in 1 .. Len(c.q) : d.q[i] = c.q[i]
      BY <1>3, <1>7, EventTypes DEF Ends1
    <2>. QED
      BY <1>1, <1>7, <2>1 DEF Ends1, AheadIn
  <1>8. CASE Exits(c, d)
    <2>1. <<ClosedEvent>> \in Seq(Events) /\ Len(<<ClosedEvent>>) = 1
      BY EventTypes
    <2>2. CASE c.turn = NoTurn
      <3>1. d.q = c.q \o <<ClosedEvent>>
        BY <1>8, <2>2 DEF Exits
      <3>2. Len(d.q) = Len(c.q) + 1 /\ \A i \in 1 .. Len(c.q) : d.q[i] = c.q[i]
        BY <1>1, <2>1, <3>1, ConcatProperties
      <3>3. \A t \in Turns : t # NoTurn
        BY DEF Turns, NoTurn
      <3>. QED
        BY <1>1, <2>2, <3>2, <3>3 DEF AheadIn
    <2>3. CASE c.turn # NoTurn
      <3>1. d.q = fin \o <<ClosedEvent>>
        BY <1>8, <2>3 DEF Exits
      <3>2. End(c.turn) \in Events
        BY <1>2, <2>3, EventTypes
      <3>3. fin \in Seq(Events) /\ Len(fin) = Len(c.q) + 1 /\ fin[Len(c.q) + 1] = End(c.turn)
            /\ \A i \in 1 .. Len(c.q) : fin[i] = c.q[i]
        BY <1>1, <3>2, AppendProperties
      <3>. HIDE DEF fin
      <3>4. Len(d.q) = Len(fin) + 1 /\ \A i \in 1 .. Len(fin) : d.q[i] = fin[i]
        BY <1>1, <2>1, <3>1, <3>3, ConcatProperties
      <3>5. /\ Len(d.q) = Len(c.q) + 2 /\ d.q[Len(c.q) + 1] = End(c.turn)
            /\ \A i \in 1 .. Len(c.q) : d.q[i] = c.q[i]
        BY <1>1, <3>3, <3>4
      <3>6. Len(c.q) + 1 \in 1 .. Len(d.q) /\ \A i \in 1 .. Len(c.q) : i \in 1 .. Len(d.q)
        BY <1>1, <3>5
      <3>7. AheadIn(d, c.turn)
        BY <3>5, <3>6 DEF AheadIn
      <3>8. ASSUME NEW t \in Turns, NEW i \in 1 .. Len(c.q), c.q[i] = End(t) PROVE AheadIn(d, t)
        BY <3>5, <3>6, <3>8 DEF AheadIn
      <3>9. \A t \in Turns : AheadIn(c, t) => AheadIn(d, t)
        BY <3>7, <3>8 DEF AheadIn
      <3>. QED
        BY <1>1, <3>5, <3>9
    <2>. QED
      BY <2>2, <2>3
  <1>. QED
    BY <1>4, <1>5, <1>6, <1>7, <1>8 DEF Talks

\* Reading an event loses that event alone.
LEMMA PopKeeps ==
    ASSUME NEW c \in CliType, NEW d \in CliType, Pops(c, d)
    PROVE  /\ Len(c.q) \in Nat \ {0} /\ Len(d.q) = Len(c.q) - 1 /\ Head(c.q) = c.q[1] /\ Head(c.q) \in Events
           /\ \A i \in 1 .. Len(d.q) : d.q[i] = c.q[i + 1]
           /\ \A t \in Turns : AheadIn(c, t) => AheadIn(d, t) \/ Head(c.q) = End(t)
  <1>1. c.q \in Seq(Events) /\ c.q # <<>> /\ d.q = Tail(c.q) /\ d.turn = c.turn
    BY DEF CliType, Pops
  <1>2. Len(c.q) \in Nat \ {0} /\ Head(c.q) = c.q[1]
    BY <1>1
  <1>3. Head(c.q) \in Events /\ Len(d.q) = Len(c.q) - 1 /\ \A i \in 1 .. Len(d.q) : d.q[i] = c.q[i + 1]
    BY <1>1, HeadTailProperties
  <1>4. ASSUME NEW t \in Turns, NEW i \in 1 .. Len(c.q), c.q[i] = End(t), i # 1
        PROVE  AheadIn(d, t)
    <2>1. i - 1 \in 1 .. Len(d.q) /\ d.q[i - 1] = End(t)
      BY <1>2, <1>3, <1>4
    <2>. QED
      BY <2>1 DEF AheadIn
  <1>. QED
    BY <1>1, <1>2, <1>3, <1>4 DEF AheadIn

\* What is in the queue stays as it should be.
LEMMA QueueKept ==
    ASSUME NEW c \in CliType, NEW d \in CliType, Talks(c, d) \/ Pops(c, d) \/ Renewed(c, d), QueueIn(c)
    PROVE  QueueIn(d)
  <1>. DEFINE fin == Append(c.q, End(c.turn))
  <1>1. c.q \in Seq(Events) /\ d.q \in Seq(Events) /\ Len(c.q) \in Nat /\ Len(d.q) \in Nat
    BY DEF CliType
  <1>2. c.turn # NoTurn => c.turn \in Turns
    BY StoreAssumption DEF CliType, TurnIds, Turns, NoTurn
  <1>3. CASE Renewed(c, d)
    BY <1>3 DEF Renewed, QueueIn
  <1>4. CASE Pops(c, d)
    <2>1. /\ Len(c.q) \in Nat \ {0} /\ Len(d.q) = Len(c.q) - 1
          /\ \A i \in 1 .. Len(d.q) : d.q[i] = c.q[i + 1]
      BY <1>4, PopKeeps
    <2>2. SameState(c, d) /\ d.turn = c.turn
      BY <1>4 DEF Pops
    <2>3. d.state \in {"none", "gone"} => d.turn = NoTurn
      BY <2>2 DEF QueueIn, SameState
    <2>4. ASSUME NEW i \in 1 .. Len(d.q), d.q[i].kind = "closed" PROVE i = Len(d.q) /\ d.state = "gone"
      <3>1. i + 1 \in 1 .. Len(c.q) /\ c.q[i + 1].kind = "closed"
        BY <2>1, <2>4
      <3>2. i + 1 = Len(c.q) /\ c.state = "gone"
        BY <3>1 DEF QueueIn
      <3>. QED
        BY <2>1, <2>2, <3>2 DEF SameState
    <2>5. ASSUME NEW i \in 1 .. Len(d.q), d.q[i].kind = "started"
          PROVE  d.turn = d.q[i].turn \/ \E j \in i + 1 .. Len(d.q) : d.q[j] = End(d.q[i].turn)
      <3>1. i + 1 \in 1 .. Len(c.q) /\ c.q[i + 1] = d.q[i]
        BY <2>1, <2>5
      <3>2. c.turn = d.q[i].turn \/ \E j \in i + 2 .. Len(c.q) : c.q[j] = End(d.q[i].turn)
        <4>1. i + 1 + 1 = i + 2
          OBVIOUS
        <4>2. c.turn = c.q[i + 1].turn \/ \E j \in i + 1 + 1 .. Len(c.q) : c.q[j] = End(c.q[i + 1].turn)
          BY <2>5, <3>1 DEF QueueIn
        <4>. QED
          BY <3>1, <4>1, <4>2
      <3>3. ASSUME NEW j \in i + 2 .. Len(c.q), c.q[j] = End(d.q[i].turn)
            PROVE  \E k \in i + 1 .. Len(d.q) : d.q[k] = End(d.q[i].turn)
        <4>1. j - 1 \in i + 1 .. Len(d.q) /\ d.q[j - 1] = c.q[j]
          BY <2>1, <3>3
        <4>. QED
          BY <3>3, <4>1
      <3>. QED
        BY <2>2, <3>2, <3>3
    <2>. QED
      BY <2>3, <2>4, <2>5 DEF QueueIn
  <1>5. CASE Keeps(c, d)
    BY <1>5 DEF Keeps, SameState, QueueIn
  <1>6. ASSUME NEW e \in Events, d.q = Append(c.q, e), e.kind # "closed", e.kind = "started" => d.turn = e.turn,
               c.state \notin {"none", "gone"}, d.state = c.state,
               d.turn = c.turn \/ c.turn = NoTurn \/ e = End(c.turn)
        PROVE  QueueIn(d)
    <2>1. Len(d.q) = Len(c.q) + 1 /\ d.q[Len(d.q)] = e /\ \A i \in 1 .. Len(c.q) : d.q[i] = c.q[i]
      BY <1>1, <1>6, AppendProperties
    <2>2. ASSUME NEW i \in 1 .. Len(d.q) PROVE d.q[i].kind # "closed"
      BY <1>1, <1>6, <2>1 DEF QueueIn
    <2>3. ASSUME NEW i \in 1 .. Len(d.q), d.q[i].kind = "started"
          PROVE  d.turn = d.q[i].turn \/ \E j \in i + 1 .. Len(d.q) : d.q[j] = End(d.q[i].turn)
      <3>1. CASE i = Len(d.q)
        BY <1>6, <2>1, <2>3, <3>1
      <3>2. CASE i # Len(d.q)
        <4>1. i \in 1 .. Len(c.q) /\ d.q[i] = c.q[i]
          BY <1>1, <2>1, <3>2
        <4>2. c.turn = d.q[i].turn \/ \E j \in i + 1 .. Len(c.q) : c.q[j] = End(d.q[i].turn)
          BY <2>3, <4>1 DEF QueueIn
        <4>3. d.q[i].turn # NoTurn
          <5>1. d.q[i] \in Events
            BY <1>1, <4>1, ElementOfSeq
          <5>. QED
            BY <2>3, <5>1, EventTypes DEF Turns, NoTurn
        <4>4. CASE c.turn = d.q[i].turn
          <5>1. d.turn = c.turn \/ e = End(c.turn)
            BY <1>6, <4>3, <4>4
          <5>2. Len(d.q) \in i + 1 .. Len(d.q)
            BY <1>1, <2>1, <4>1
          <5>. QED
            BY <2>1, <4>4, <5>1, <5>2
        <4>5. ASSUME NEW j \in i + 1 .. Len(c.q), c.q[j] = End(d.q[i].turn)
              PROVE  j \in i + 1 .. Len(d.q) /\ d.q[j] = End(d.q[i].turn)
          BY <1>1, <2>1, <4>1, <4>5
        <4>. QED
          BY <4>2, <4>4, <4>5
      <3>. QED
        BY <3>1, <3>2
    <2>. QED
      BY <1>6, <2>2, <2>3 DEF QueueIn
  <1>7. CASE Says(c, d)
    BY <1>6, <1>7, EventTypes DEF Says, Serving
  <1>8. CASE Starts(c, d)
    BY <1>6, <1>8, EventTypes DEF Starts, Serving
  <1>9. CASE Ends1(c, d)
    <2>1. End(c.turn) \in Events /\ End(c.turn).kind = "finished"
      BY <1>9, EventTypes DEF Ends1, End
    <2>. QED
      BY <1>6, <1>9, <2>1 DEF Ends1, Serving
  <1>10. CASE Exits(c, d)
    <2>. DEFINE last == IF c.turn # NoTurn THEN fin ELSE c.q
    <2>1. d.q = last \o <<ClosedEvent>> /\ d.state = "gone" /\ d.turn = NoTurn /\ c.state \notin {"none", "gone"}
      BY <1>10 DEF Exits
    <2>2. <<ClosedEvent>> \in Seq(Events) /\ Len(<<ClosedEvent>>) = 1 /\ <<ClosedEvent>>[1] = ClosedEvent
      BY EventTypes
    <2>3. /\ last \in Seq(Events) /\ Len(c.q) <= Len(last) /\ Len(last) \in Nat
          /\ \A i \in 1 .. Len(c.q) : last[i] = c.q[i]
          /\ \A i \in 1 .. Len(last) : i > Len(c.q) => last[i].kind = "finished"
          /\ c.turn # NoTurn => last[Len(last)] = End(c.turn) /\ Len(last) = Len(c.q) + 1
      <3>1. CASE c.turn = NoTurn
        BY <1>1, <3>1
      <3>2. CASE c.turn # NoTurn
        <4>0. End(c.turn) \in Events
          BY <1>2, <3>2, EventTypes
        <4>1. fin \in Seq(Events) /\ Len(fin) = Len(c.q) + 1 /\ fin[Len(c.q) + 1] = End(c.turn)
              /\ \A i \in 1 .. Len(c.q) : fin[i] = c.q[i]
          BY <1>1, <4>0, AppendProperties
        <4>2. End(c.turn).kind = "finished"
          BY DEF End
        <4>3. last = fin
          BY <3>2
        <4>. HIDE DEF fin, last
        <4>. QED
          BY <1>1, <4>1, <4>2, <4>3
      <3>. QED
        BY <3>1, <3>2
    <2>. HIDE DEF last
    <2>4. Len(d.q) = Len(last) + 1 /\ d.q[Len(d.q)] = ClosedEvent /\ \A i \in 1 .. Len(last) : d.q[i] = last[i]
      BY <1>1, <2>1, <2>2, <2>3, ConcatProperties
    <2>5. ASSUME NEW i \in 1 .. Len(d.q), d.q[i].kind = "closed" PROVE i = Len(d.q)
      <3>1. ASSUME i \in 1 .. Len(c.q) PROVE FALSE
        <4>1. c.q[i].kind = "closed"
          BY <2>3, <2>4, <2>5, <3>1
        <4>. QED
          BY <2>1, <3>1, <4>1 DEF QueueIn
      <3>. QED
        BY SMTT(30), <1>1, <2>3, <2>4, <2>5, <3>1
    <2>6. ASSUME NEW i \in 1 .. Len(d.q), d.q[i].kind = "started"
          PROVE  \E j \in i + 1 .. Len(d.q) : d.q[j] = End(d.q[i].turn)
      <3>1. i # Len(d.q)
        BY <2>4, <2>6 DEF ClosedEvent
      <3>2. i \in 1 .. Len(c.q) /\ d.q[i] = c.q[i]
        BY <1>1, <2>3, <2>4, <2>6, <3>1
      <3>3. c.turn = d.q[i].turn \/ \E j \in i + 1 .. Len(c.q) : c.q[j] = End(d.q[i].turn)
        BY <2>6, <3>2 DEF QueueIn
      <3>4. d.q[i].turn # NoTurn
        <4>1. d.q[i] \in Events
          BY <1>1, <3>2, ElementOfSeq
        <4>. QED
          BY <2>6, <4>1, EventTypes DEF Turns, NoTurn
      <3>. QED
        BY <1>1, <2>3, <2>4, <3>2, <3>3, <3>4
    <2>. QED
      BY <2>1, <2>5, <2>6 DEF QueueIn
  <1>. QED
    BY <1>3, <1>4, <1>5, <1>7, <1>8, <1>9, <1>10 DEF Talks

-----------------------------------------------------------------------------
(***************************************************************************)
(* The steps of the process, one by one.                                   *)
(***************************************************************************)

\* A process is asked to end, or closed while it is idle.
LEMMA CloseKeeps ==
    ASSUME NEW c \in CliType
    PROVE  /\ SameState(c, CloseAsked(c)) /\ CloseAsked(c).state # "up"
           /\ CloseAsked(c).q = c.q /\ CloseAsked(c).turn = c.turn /\ CloseAsked(c).epoch = c.epoch
           /\ c.state \in Serving => Keeps(c, [c EXCEPT !.state = "closing"])
           /\ c.state = "asked" => Keeps(c, [c EXCEPT !.state = "closing"])
           /\ c.state \in Serving => Keeps(c, [c EXCEPT !.state = "dead"])
           /\ Keeps(c, c) /\ \A b \in BOOLEAN : Keeps(c, [c EXCEPT !.idle = b])
  <1>1. c.state \in CliStates
    BY DEF CliType
  <1>2. \A s \in CliStates : /\ [c EXCEPT !.state = s].state = s /\ [c EXCEPT !.state = s].q = c.q
                             /\ [c EXCEPT !.state = s].turn = c.turn /\ [c EXCEPT !.state = s].epoch = c.epoch
    BY DEF CliType
  <1>3. \A b \in BOOLEAN : Keeps(c, [c EXCEPT !.idle = b])
    BY DEF CliType, Keeps, SameState
  <1>4. "closing" \in CliStates /\ "asked" \in CliStates /\ "dead" \in CliStates
    BY DEF CliStates
  <1>. QED
    BY <1>1, <1>2, <1>3, <1>4 DEF CloseAsked, Keeps, SameState, Serving

\* What a step of the process itself does to it.
LEMMA CliTalks ==
    ASSUME TypeOK, Cli
    PROVE  Talks(cli, cli') /\ (cli'.state = "up" => cli.state = "up")
  <1>. USE DEF Talks
  <1>1. cli \in CliType /\ (cli.turn # NoTurn => cli.turn \in Turns)
    BY Parts
  <1>2. CASE CliAccept
    <2>1. CASE cli.turn = NoTurn
      BY <1>1, <1>2, <2>1 DEF CliAccept, Starts, CliType
    <2>2. CASE cli.turn # NoTurn
      BY <1>1, <1>2, <2>2, CloseKeeps DEF CliAccept
    <2>. QED
      BY <2>1, <2>2
  <1>3. CASE CliIdle
    BY <1>1, <1>3 DEF CliIdle, Emit, Says, CliType
  <1>4. CASE CliLateIdle
    BY <1>1, <1>4 DEF CliLateIdle, Emit, Says, CliType
  <1>5. CASE CliMissesIdle
    BY <1>1, <1>5, CloseKeeps DEF CliMissesIdle, CliType
  <1>6. CASE CliOwnTurn
    BY <1>1, <1>6 DEF CliOwnTurn, Emit, Starts, CliType, Serving
  <1>7. CASE CliDies
    BY <1>1, <1>7, CloseKeeps DEF CliDies, CliType
  <1>8. CASE CliCloseCalled
    BY <1>1, <1>8, CloseKeeps DEF CliCloseCalled, CliType
  <1>9. CASE CliDeathReported
    BY <1>1, <1>9 DEF CliDeathReported, Exits, LastEvents, End, ClosedEvent, CliType
  <1>10. CASE CliExit
    BY <1>1, <1>10 DEF CliExit, Exits, LastEvents, End, ClosedEvent, CliType
  <1>11. CASE OrphanExits
    BY <1>1, <1>11, CloseKeeps DEF OrphanExits
  <1>12. ASSUME NEW end \in {"completed", "failed", "retry"}, CliFinish(end)
         PROVE  Talks(cli, cli') /\ (cli'.state = "up" => cli.state = "up")
    BY <1>1, <1>12 DEF CliFinish, Ends1, Emit, End, CliType
  <1>. QED
    BY <1>2, <1>3, <1>4, <1>5, <1>6, <1>7, <1>8, <1>9, <1>10, <1>11, <1>12 DEF Cli

\* A process that talks is still the same one, and stays gone once it is.
LEMMA TalkSame ==
    ASSUME Talks(cli, cli')
    PROVE  cli'.epoch = cli.epoch /\ (cli.state \in {"none", "gone"} => cli'.state \in {"none", "gone"})
  BY DEF Talks, Keeps, Says, Starts, Ends1, Exits, SameState, Serving

-----------------------------------------------------------------------------
(***************************************************************************)
(* The steps that leave the process with its object.                       *)
(***************************************************************************)

\* The object and the process are as they were, but for what they say; the
\* admission task has no process yet, or still has the one it had.
Calm ==
    /\ UNCHANGED <<epoch, storeFailed>>
    /\ live'.closed = live.closed /\ live'.stale = live.stale /\ live'.reg = live.reg /\ live'.epoch = live.epoch
    /\ cli'.epoch = cli.epoch /\ (cli'.state = "up" => cli.state = "up")
    /\ cli.state \in {"none", "gone"} => cli'.state \in {"none", "gone"}
    /\ (adm'.pc = "opening") <=> (adm.pc = "opening")
    /\ adm.pc = "opening" => live'.turn = live.turn /\ live'.input = live.input
    /\ adm'.pc = "attach" => adm.pc = "attach" \/ ~live.reg
    /\ adm'.pc \in Handles => adm.pc \in Handles \/ (adm.pc # "opening" /\ live.reg)

LEMMA CalmProc == ASSUME TypeOK, ProcInv, Calm PROVE ProcInv'
  <1>1. (Alive' <=> Alive) /\ (Attached' <=> Attached) /\ (Fenced' <=> Fenced)
    BY DEF Calm, Alive, Attached, Fenced
  <1>2. (cli.epoch <= epoch /\ live.epoch <= epoch)'
    BY DEF Calm, ProcInv
  <1>3. (adm.pc = "attach" => ~live.reg)'
    BY DEF Calm, ProcInv
  <1>4. (adm.pc = "opening" => /\ cli.epoch < live.epoch /\ cli.state # "up"
                               /\ Alive /\ live.turn = NoTurn /\ live.input = "none")'
    BY <1>1 DEF Calm, ProcInv
  <1>5. (adm.pc \in Handles => Attached)'
    BY <1>1 DEF Calm, ProcInv, Alive
  <1>6. (live.closed \/ adm.pc = "opening" \/ Attached)' /\ (live.reg <=> Alive)'
    BY <1>1 DEF Calm, ProcInv
  <1>7. (~Alive => cli.state # "up")' /\ (live.closed /\ Attached => cli.state \in {"none", "gone"})'
    BY <1>1 DEF Calm, ProcInv
  <1>8. (live.stale /\ Fenced => storeFailed)'
    BY <1>1 DEF Calm, ProcInv
  <1>. QED
    BY <1>2, <1>3, <1>4, <1>5, <1>6, <1>7, <1>8 DEF ProcInv

\* No turn is recorded, and none of the events is lost.
Silent ==
    /\ UNCHANGED <<turn, epoch, storeFailed>> /\ (up' = "up" => up = "up")
    /\ live'.closed = live.closed /\ live'.stale = live.stale /\ live'.epoch = live.epoch
    /\ Talks(cli, cli')
    /\ adm'.pc \in {"accepted", "take"} => adm.pc \in {"accepted", "take"} /\ adm'.turn = adm.turn

\* A step that loses no event leaves what was awaited awaited.
LEMMA TalkAwaits ==
    ASSUME TypeOK, TypeOK', Talks(cli, cli'), epoch' = epoch,
           live'.closed = live.closed, live'.stale = live.stale, live'.epoch = live.epoch
    PROVE  \A t \in Turns : Awaited(t) => Awaited(t)'
  <1>1. cli \in CliType /\ cli' \in CliType
    BY DEF TypeOK
  <1>2. \A t \in Turns : Ahead(t) => Ahead(t)'
    BY <1>1, TalkKeeps DEF Ahead
  <1>3. cli'.epoch = cli.epoch
    BY TalkSame
  <1>. QED
    BY <1>2, <1>3 DEF Awaited, Alive, Fenced, Attached

LEMMA SilentRun == ASSUME TypeOK, TypeOK', RunInv, Silent PROVE RunInv'
  <1>1. \A t \in Turns : Awaited(t) => Awaited(t)'
    BY TalkAwaits DEF Silent
  <1>2. \A t \in Running(turn) : t \in Turns
    BY DEF Running
  <1>3. (up = "up" => \A t \in Running(turn) : storeFailed \/ (Awaited(t) /\ turn[t].epoch = epoch))'
    BY <1>1, <1>2 DEF Silent, RunInv
  <1>4. (adm.pc \in {"accepted", "take"} /\ turn[adm.turn].status = "none" /\ Fenced =>
            storeFailed \/ Awaited(adm.turn))'
    BY <1>1 DEF Silent, RunInv, TypeOK, Fenced
  <1>. QED
    BY <1>3, <1>4 DEF RunInv

\* The two fields of the admission task that the invariants speak of.
LEMMA AdmSteps ==
    ASSUME TypeOK
    PROVE  /\ \A pc \in AdmStates : Go(pc) => adm'.pc = pc /\ adm'.turn = adm.turn /\ adm'.ws = adm.ws
           /\ \A pc \in AdmStates, ws \in SUBSET Wakes :
                 adm' = [adm EXCEPT !.pc = pc, !.ws = ws] => adm'.pc = pc /\ adm'.turn = adm.turn /\ adm'.ws = ws
           /\ adm' = NoAdm => adm'.pc = "none"
           /\ Admitted => adm' = NoAdm
  <1>1. adm \in AdmType
    BY DEF TypeOK
  <1>2. \A pc \in AdmStates : Go(pc) => adm'.pc = pc /\ adm'.turn = adm.turn /\ adm'.ws = adm.ws
    BY <1>1 DEF AdmType, Go
  <1>3. \A pc \in AdmStates, ws \in SUBSET Wakes :
           adm' = [adm EXCEPT !.pc = pc, !.ws = ws] => adm'.pc = pc /\ adm'.turn = adm.turn /\ adm'.ws = ws
    BY <1>1 DEF AdmType
  <1>4. adm' = NoAdm => adm'.pc = "none"
    BY DEF NoAdm
  <1>5. Admitted => adm' = NoAdm
    BY DEF Admitted
  <1>. QED
    BY <1>2, <1>3, <1>4, <1>5

\* One step.
LEMMA StepHold == ASSUME TypeOK, HoldInv, [Next]_vars PROVE HoldInv'
  <1>. USE DEF HoldInv
  <1>1. CASE UNCHANGED vars
    BY <1>1 DEF vars, gates
  <1>2. CASE Api
    BY <1>2 DEF Api, Deliver, Pause, Resume, Retire, gates
  <1>3. CASE Admission
    <2>1. CASE PassRead
      BY <2>1 DEF PassRead, Wanted, gates
    <2>2. CASE PassAct
      BY <2>2, AdmSteps DEF PassAct, gates, AdmStates
    <2>3. ASSUME adm.pc # "none", UNCHANGED <<up, look, survivor, recheck>> PROVE HoldInv'
      BY <2>3
    <2>4. CASE AttachBump \/ Open \/ AttachWrite \/ AttachWriteFails
      BY <2>3, <2>4 DEF AttachBump, Open, AttachWrite, AttachWriteFails, gates
    <2>5. CASE AttachClosed \/ \E retryable, recorded \in BOOLEAN : OpenFails(retryable, recorded)
      BY <2>3, <2>5 DEF AttachClosed, OpenFails
    <2>6. CASE Look \/ Send \/ SendReturn \/ Take \/ TakeStale \/ TakeFails
      BY <2>3, <2>6 DEF Look, Send, SendReturn, Take, TakeStale, TakeFails, gates
    <2>7. ASSUME NEW code, GaveUp(code), adm.pc = "sending" PROVE HoldInv'
      BY <2>7, AdmSteps DEF GaveUp
    <2>. QED
      BY <1>3, <2>1, <2>2, <2>3, <2>4, <2>5, <2>6, <2>7
      DEF Admission, SendFails, SendFindsDead, SendFailsUnrecorded
  <1>4. CASE Cli
    <2>1. CASE CliAccept
      <3>1. adm'.pc = "accepted" /\ adm.pc = "sending"
        BY <2>1 DEF CliAccept, TypeOK, AdmType
      <3>. QED
        BY <2>1, <3>1 DEF CliAccept, gates
    <2>. QED
      BY <1>4, <2>1 DEF Cli, CliIdle, CliMissesIdle, CliLateIdle, CliOwnTurn, CliDies, CliDeathReported,
                CliCloseCalled, CliExit, OrphanExits, CliFinish, gates
  <1>5. CASE Pump
    BY <1>5 DEF Pump, PumpStarted, PumpFinished, PumpIdle, PumpLateIdle, PumpClosed, PumpUnrecorded,
                PumpClosedUnrecorded, PumpDrain, gates
  <1>6. CASE Timers
    BY <1>6 DEF Timers, BackoffOver, IdleMissing, IdleMissingUnrecorded, Release, PoolCloses, PoolReopens,
                SettleStoreFailed, gates
  <1>7. CASE Life
    <2>1. CASE Shutdown
      BY <2>1, AdmSteps DEF Shutdown, gates
    <2>2. CASE ShutdownDone \/ ServerCrash
      BY <2>2, AdmSteps DEF ShutdownDone, ServerCrash, Gone
    <2>3. CASE Boot
      BY <2>3 DEF Boot
    <2>4. CASE RecheckSurvivor
      BY <2>4 DEF RecheckSurvivor
    <2>. QED
      BY <1>7, <2>1, <2>2, <2>3, <2>4 DEF Life
  <1>. QED
    BY <1>1, <1>2, <1>3, <1>4, <1>5, <1>6, <1>7 DEF Next

\* The steps of the API, the process and the timers leave the process with its
\* object, and lose none of its events.
LEMMA OthersCalm ==
    ASSUME TypeOK, HoldInv, ProcInv,
           \/ UNCHANGED vars \/ Api \/ PassRead \/ Cli
           \/ BackoffOver \/ IdleMissing \/ Release \/ PoolCloses \/ PoolReopens \/ RecheckSurvivor
    PROVE  Calm /\ Talks(cli, cli') /\ (Cli \/ Keeps(cli, cli')) /\ UNCHANGED <<turn, up>>
  <1>1. live \in LiveType /\ cli \in CliType /\ adm \in AdmType
    BY DEF TypeOK
  <1>2. CASE UNCHANGED <<turn, epoch, storeFailed, live, cli, adm, up>>
    BY <1>1, <1>2, CloseKeeps DEF Calm, Talks
  <1>3. CASE UNCHANGED vars \/ Api \/ PassRead \/ BackoffOver \/ PoolCloses \/ PoolReopens \/ RecheckSurvivor
    BY <1>2, <1>3 DEF vars, rows, gates, world, Api, Deliver, Pause, Resume, Retire, PassRead, BackoffOver,
                      PoolCloses, PoolReopens, RecheckSurvivor
  <1>4. CASE Cli
    <2>1. Talks(cli, cli') /\ (cli'.state = "up" => cli.state = "up")
      BY <1>4, CliTalks
    <2>2. UNCHANGED <<turn, epoch, storeFailed, live, up>>
      BY <1>4 DEF Cli, CliAccept, CliIdle, CliMissesIdle, CliLateIdle, CliOwnTurn, CliDies, CliDeathReported,
                  CliCloseCalled, CliExit, OrphanExits, CliFinish, rows, gates
    <2>3. adm' = adm \/ (adm.pc = "sending" /\ adm'.pc = "accepted")
      BY <1>1, <1>4 DEF Cli, CliAccept, CliIdle, CliMissesIdle, CliLateIdle, CliOwnTurn, CliDies, CliDeathReported,
                  CliCloseCalled, CliExit, OrphanExits, CliFinish, AdmType
    <2>. QED
      BY <1>4, <2>1, <2>2, <2>3, TalkSame DEF Calm, Handles
  <1>5. CASE IdleMissing
    <2>1. live'.closed = live.closed /\ live'.stale = live.stale /\ live'.reg = live.reg /\ live'.epoch = live.epoch
          /\ live'.turn = live.turn
      BY <1>1, <1>5 DEF IdleMissing, EndInput, LiveType
    <2>2. adm.pc # "opening"
      BY <1>5 DEF IdleMissing, IdleIsMissing, EndsInput, ProcInv
    <2>3. UNCHANGED <<turn, epoch, storeFailed, cli, adm, up>>
      BY <1>5 DEF IdleMissing, gates, world
    <2>. QED
      BY <1>1, <2>1, <2>2, <2>3, CloseKeeps DEF Calm, Talks
  <1>6. CASE Release
    <2>1. live'.closed = live.closed /\ live'.stale = live.stale /\ live'.reg = live.reg /\ live'.epoch = live.epoch
          /\ live'.turn = live.turn /\ live'.input = live.input
      BY <1>1, <1>6 DEF Release, ClosesIdle, LiveType
    <2>2. Keeps(cli, cli') /\ (cli'.state = "up" => cli.state = "up")
      BY <1>1, <1>6, CloseKeeps DEF Release, ClosesIdle, CliType
    <2>3. UNCHANGED <<turn, epoch, storeFailed, adm, up>>
      BY <1>6 DEF Release, rows, gates
    <2>. QED
      BY <2>1, <2>2, <2>3, TalkSame DEF Calm, Talks
  <1>. QED
    BY <1>3, <1>4, <1>5, <1>6

\* So do the admission task's, but for those that start, abandon or lose a
\* process.
LEMMA TaskCalm ==
    ASSUME TypeOK, HoldInv, ProcInv,
           \/ PassAct \/ AttachWrite \/ AttachWriteFails \/ AttachClosed \/ Look \/ Send \/ SendReturn
           \/ Take \/ TakeFails \/ SendFindsDead \/ \E code \in SendErrors : SendFails(code)
    PROVE  /\ Calm /\ Talks(cli, cli') /\ Keeps(cli, cli') /\ UNCHANGED up
           /\ Take \/ (turn' = turn
                       /\ (adm'.pc \in {"accepted", "take"} => adm.pc \in {"accepted", "take"} /\ adm'.turn = adm.turn))
  <1>1. live \in LiveType /\ cli \in CliType /\ adm \in AdmType
    BY DEF TypeOK
  <1>2. cli' = cli => Keeps(cli, cli') /\ cli'.epoch = cli.epoch /\ cli'.state = cli.state
    BY <1>1, CloseKeeps
  <1>3. cli' = (IF cli.state \in Serving THEN [cli EXCEPT !.state = "closing"] ELSE cli) =>
           Keeps(cli, cli') /\ cli'.epoch = cli.epoch /\ (cli'.state = "up" => cli.state = "up")
           /\ (cli.state \in {"none", "gone"} => cli'.state = cli.state)
    BY <1>1, CloseKeeps DEF CliType, Serving
  <1>4. CASE PassAct
    <2>1. adm.pc = "none" /\ UNCHANGED <<turn, epoch, storeFailed, up>>
      BY <1>4 DEF PassAct, HoldInv, gates
    <2>2. \/ adm' = adm
          \/ adm'.pc = "look" /\ live.reg
          \/ adm'.pc = "attach" /\ ~live.reg
      BY <1>4, AdmSteps DEF PassAct, AdmStates
    <2>3. live'.closed = live.closed /\ live'.stale = live.stale /\ live'.reg = live.reg /\ live'.epoch = live.epoch
      BY <1>1, <1>4 DEF PassAct, ClosesIdle, LiveType
    <2>4. \/ cli' = cli
          \/ cli' = (IF cli.state \in Serving THEN [cli EXCEPT !.state = "closing"] ELSE cli)
      BY <1>4 DEF PassAct, ClosesIdle
    <2>. QED
      BY <1>2, <1>3, <2>1, <2>2, <2>3, <2>4 DEF Calm, Talks, Handles
  <1>5. CASE AttachWrite
    <2>1. live'.closed = live.closed /\ live'.stale = live.stale /\ live'.reg = live.reg /\ live'.epoch = live.epoch
      BY <1>1, <1>5 DEF AttachWrite, LiveType
    <2>2. adm'.pc = "look" /\ adm.pc = "opened" /\ UNCHANGED <<turn, epoch, storeFailed, cli, up>>
      BY <1>5, AdmSteps DEF AttachWrite, AdmStates, gates, world
    <2>. QED
      BY <1>2, <2>1, <2>2 DEF Calm, Talks, Handles
  <1>6. CASE AttachWriteFails
    <2>1. live'.closed = live.closed /\ live'.stale = live.stale /\ live'.reg = live.reg /\ live'.epoch = live.epoch
      BY <1>1, <1>6 DEF AttachWriteFails, LiveType
    <2>2. adm'.pc = "closing" /\ adm.pc = "opened" /\ UNCHANGED <<turn, epoch, storeFailed, up>>
      BY <1>6, AdmSteps DEF AttachWriteFails, AdmStates, gates, rows
    <2>3. cli' = (IF cli.state \in Serving THEN [cli EXCEPT !.state = "closing"] ELSE cli)
      BY <1>6 DEF AttachWriteFails
    <2>. QED
      BY <1>3, <2>1, <2>2, <2>3 DEF Calm, Talks, Handles
  <1>7. CASE AttachClosed
    <2>1. live'.closed = live.closed /\ live'.stale = live.stale /\ live'.reg = live.reg /\ live'.epoch = live.epoch
      BY <1>1, <1>7 DEF AttachClosed, ProcInv, Alive, LiveType
    <2>2. adm'.pc = "none" /\ adm.pc = "closing" /\ UNCHANGED <<turn, epoch, storeFailed, cli, up>>
      BY <1>7, AdmSteps DEF AttachClosed, world
    <2>. QED
      BY <1>2, <2>1, <2>2 DEF Calm, Talks, Handles
  <1>8. CASE Look
    <2>1. adm.pc = "look" /\ adm'.pc \in {"none", "ready"} /\ UNCHANGED <<turn, epoch, storeFailed, live, cli, up>>
      BY <1>8, AdmSteps, QueuedType DEF Look, AdmStates, gates, world, rows
    <2>. QED
      BY <1>2, <2>1 DEF Calm, Talks, Handles
  <1>9. CASE Send
    <2>1. adm.pc = "ready" /\ adm'.pc \in {"none", "sending"} /\ UNCHANGED <<turn, epoch, storeFailed, cli, up>>
      BY <1>9, AdmSteps DEF Send, AdmStates, gates, world, rows
    <2>2. live'.closed = live.closed /\ live'.stale = live.stale /\ live'.reg = live.reg /\ live'.epoch = live.epoch
      BY <1>1, <1>9 DEF Send, LiveType
    <2>. QED
      BY <1>2, <2>1, <2>2 DEF Calm, Talks, Handles
  <1>10. CASE SendReturn
    <2>1. adm.pc = "accepted" /\ adm'.pc = "take" /\ adm'.turn = adm.turn
          /\ UNCHANGED <<turn, epoch, storeFailed, cli, up>>
      BY <1>10, AdmSteps DEF SendReturn, AdmStates, gates, world, rows
    <2>2. live'.closed = live.closed /\ live'.stale = live.stale /\ live'.reg = live.reg /\ live'.epoch = live.epoch
      BY <1>1, <1>10 DEF SendReturn, BeginTurn, LiveType
    <2>. QED
      BY <1>2, <2>1, <2>2 DEF Calm, Talks, Handles
  <1>11. CASE Take \/ TakeFails
    <2>1. adm.pc = "take" /\ adm'.pc = "none" /\ UNCHANGED <<epoch, storeFailed, live, cli, up>>
      BY <1>11, AdmSteps DEF Take, TakeFails, gates, world, rows
    <2>2. Take \/ turn' = turn
      BY <1>11 DEF TakeFails, rows
    <2>. QED
      BY <1>2, <2>1, <2>2 DEF Calm, Talks, Handles
  <1>12. ASSUME Unopened, NEW code, GaveUp(code), adm.pc = "sending", UNCHANGED <<storeFailed, cli>>
         PROVE  Calm /\ Talks(cli, cli') /\ Keeps(cli, cli') /\ UNCHANGED <<up, turn>> /\ adm'.pc = "none"
    <2>1. adm'.pc = "none" /\ UNCHANGED <<turn, epoch, up>>
      BY <1>12, AdmSteps DEF GaveUp
    <2>2. live'.closed = live.closed /\ live'.stale = live.stale /\ live'.reg = live.reg /\ live'.epoch = live.epoch
      <3>1. CASE Unsent
        BY <1>1, <1>12, <3>1 DEF Unopened, EndInput, LiveType
      <3>2. CASE ~Unsent
        BY <1>1, <1>12, <3>2 DEF Unopened, LiveType
      <3>. QED
        BY <3>1, <3>2
    <2>. QED
      BY <1>2, <1>12, <2>1, <2>2 DEF Calm, Talks, Handles
  <1>13. CASE SendFindsDead \/ \E code \in SendErrors : SendFails(code)
    BY <1>12, <1>13 DEF SendFindsDead, SendFails
  <1>. QED
    BY <1>4, <1>5, <1>6, <1>7, <1>8, <1>9, <1>10, <1>11, <1>13

-----------------------------------------------------------------------------
(***************************************************************************)
(* The steps of the pump.                                                  *)
(***************************************************************************)

\* The pump reads the process of a live object.
LEMMA HeardOf ==
    ASSUME TypeOK, ProcInv, NEW kind, Heard(kind)
    PROVE  /\ Alive /\ Attached /\ adm.pc # "opening" /\ up # "down"
           /\ Head(cli.q).kind = kind /\ cli.q # <<>>
           /\ Pops(cli, Popped) /\ Popped.state = cli.state /\ Popped \in CliType
  <1>1. Popped.q = Tail(cli.q) /\ Popped.state = cli.state /\ Popped.turn = cli.turn /\ Popped.epoch = cli.epoch
    BY DEF Popped, TypeOK, CliType
  <1>2. Popped \in CliType
    BY HeardType
  <1>3. Pops(cli, Popped)
    BY <1>1 DEF Heard, Pops, SameState
  <1>. QED
    BY <1>1, <1>2, <1>3, Parts DEF Heard, ProcInv, Alive, Attached

\* What the object of a process becomes keeps what the invariants say of it.
LEMMA LiveKeeps ==
    ASSUME NEW l \in LiveType
    PROVE  /\ \A t \in TurnIds : LET m == BeginTurn(l, t)
                               IN  m.closed = l.closed /\ m.stale = l.stale /\ m.reg = l.reg /\ m.epoch = l.epoch
           /\ LET m == EndInput(l)
              IN  m.closed = l.closed /\ m.stale = l.stale /\ m.reg = l.reg /\ m.epoch = l.epoch
           /\ LET m == Abandoned(l)
              IN  m.closed = l.closed /\ m.stale = TRUE /\ m.reg = FALSE /\ m.epoch = l.epoch
           /\ LET m == Closed(l)
              IN  m.closed = TRUE /\ m.stale = l.stale /\ m.reg = FALSE /\ m.epoch = l.epoch
  BY DEF LiveType, BeginTurn, EndInput, Abandoned, Closed

\* A recorded event of a turn, or an idle, leaves the process with its object.
LEMMA PumpCalm ==
    ASSUME TypeOK, ProcInv, PumpStarted \/ PumpFinished \/ PumpIdle \/ PumpLateIdle
    PROVE  Calm /\ Pops(cli, cli') /\ UNCHANGED <<adm, up>>
  <1>1. live \in LiveType
    BY DEF TypeOK
  <1>2. \E kind \in {"started", "finished", "idle"} : Heard(kind) /\ cli' = Popped
    BY DEF PumpStarted, PumpFinished, PumpIdle, PumpLateIdle, Record
  <1>3. adm.pc # "opening" /\ Pops(cli, cli') /\ cli'.state = cli.state /\ cli'.epoch = cli.epoch
    BY <1>2, HeardOf DEF Pops
  <1>4. UNCHANGED <<epoch, storeFailed, adm, up>>
    BY DEF PumpStarted, PumpFinished, PumpIdle, PumpLateIdle, gates, rows
  <1>5. live'.closed = live.closed /\ live'.stale = live.stale /\ live'.reg = live.reg /\ live'.epoch = live.epoch
    <2>1. CASE PumpStarted
      <3>1. Head(cli.q).turn \in TurnIds
        BY <2>1, HeardType, TurnIsId DEF PumpStarted, Record
      <3>. QED
        BY <1>1, <2>1, <3>1 DEF PumpStarted, BeginTurn, LiveType
    <2>2. CASE PumpFinished
      BY <1>1, <2>2 DEF PumpFinished, LiveType
    <2>3. CASE PumpIdle
      BY <1>1, <2>3, LiveKeeps DEF PumpIdle
    <2>4. CASE PumpLateIdle
      BY <2>4 DEF PumpLateIdle
    <2>. QED
      BY <2>1, <2>2, <2>3, <2>4
  <1>. QED
    BY <1>3, <1>4, <1>5 DEF Calm

\* A write that was not made keeps the invariant: the process is abandoned, and
\* one of the session's epoch is settled with the store.
LEMMA UnrecordedProc ==
    ASSUME TypeOK, ProcInv, adm.pc # "opening", NEW l \in LiveType, NEW c \in CliType, Unrecorded(l, c),
           l.epoch = live.epoch, c.epoch = cli.epoch, c.state = cli.state,
           l.closed = live.closed \/ (l.closed /\ cli.state = "gone"),
           adm' = adm \/ adm'.pc = "none", epoch' = epoch
    PROVE  ProcInv'
  <1>1. live' = Abandoned(l) /\ cli' = CloseAsked(c)
    BY DEF Unrecorded
  <1>2. live'.closed = l.closed /\ live'.stale /\ ~live'.reg /\ live'.epoch = live.epoch
    BY <1>1, LiveKeeps
  <1>3. cli'.epoch = cli.epoch /\ cli'.state # "up" /\ SameState(c, cli')
    BY <1>1, CloseKeeps
  <1>4. cli.state \in {"none", "gone"} => cli'.state \in {"none", "gone"}
    BY <1>3 DEF SameState
  <1>5. Fenced' => storeFailed'
    BY <1>2 DEF Unrecorded, Fenced
  <1>6. (live.closed /\ Attached => cli.state \in {"none", "gone"})'
    BY <1>2, <1>3, <1>4 DEF ProcInv, Attached
  <1>7. (live.closed \/ adm.pc = "opening" \/ Attached)' /\ (adm.pc \in Handles => Attached)'
    BY <1>2, <1>3 DEF ProcInv, Attached, Handles, Alive
  <1>. QED
    BY <1>2, <1>3, <1>5, <1>6, <1>7 DEF ProcInv, Alive

\* Nor does it lose the end of a turn that nothing will settle.
LEMMA UnrecordedRun ==
    ASSUME TypeOK, RunInv, NEW l \in LiveType, NEW c, Unrecorded(l, c),
           l.epoch = live.epoch, UNCHANGED <<turn, epoch, up>>, adm' = adm \/ adm'.pc = "none"
    PROVE  RunInv'
  <1>1. live'.epoch = live.epoch
    BY LiveKeeps DEF Unrecorded
  <1>2. CASE Fenced
    BY <1>2 DEF Unrecorded, RunInv
  <1>3. CASE ~Fenced
    <2>1. ~Fenced' /\ storeFailed' = storeFailed
      BY <1>1, <1>3 DEF Unrecorded, Fenced
    <2>2. up = "up" => \A t \in Running(turn) : storeFailed
      BY <1>3 DEF RunInv, Awaited
    <2>. QED
      BY <2>1, <2>2 DEF RunInv
  <1>. QED
    BY <1>2, <1>3

-----------------------------------------------------------------------------
(***************************************************************************)
(* The invariants are inductive.                                           *)
(***************************************************************************)

\* A step of the session that is none of the calm ones.
Loud ==
    \/ AttachBump \/ Open \/ TakeStale
    \/ \E retryable, recorded \in BOOLEAN : OpenFails(retryable, recorded)
    \/ \E code \in SendErrors \cup {"process_died"} : SendFailsUnrecorded(code)
    \/ PumpClosed \/ PumpUnrecorded \/ PumpClosedUnrecorded \/ PumpDrain
    \/ IdleMissingUnrecorded \/ SettleStoreFailed \/ Shutdown \/ Gone \/ Boot

LEMMA StepKinds ==
    ASSUME TypeOK, HoldInv, ProcInv, [Next]_vars
    PROVE  \/ Calm /\ Talks(cli, cli') /\ (Cli \/ Keeps(cli, cli'))
           \/ Calm /\ Pops(cli, cli') /\ (PumpStarted \/ PumpFinished \/ PumpIdle \/ PumpLateIdle)
           \/ Loud
  <1>1. CASE UNCHANGED vars \/ Api \/ Cli
    BY <1>1, OthersCalm
  <1>2. CASE Admission
    BY <1>2, OthersCalm, TaskCalm DEF Admission, Loud
  <1>3. CASE Pump
    BY <1>3, PumpCalm DEF Pump, Loud
  <1>4. CASE Timers
    BY <1>4, OthersCalm DEF Timers, Loud
  <1>5. CASE Life
    BY <1>5, OthersCalm DEF Life, Loud, ShutdownDone, ServerCrash
  <1>. QED
    BY <1>1, <1>2, <1>3, <1>4, <1>5 DEF Next

\* The end of a process is the last thing it says: no turn is ahead of it.
LEMMA ClosedIsLast ==
    ASSUME TypeOK, QueueInv, cli.q # <<>>, Head(cli.q).kind = "closed"
    PROVE  cli.state = "gone" /\ \A t \in Turns : ~Ahead(t)
  <1>1. cli.q \in Seq(Events) /\ Len(cli.q) \in Nat \ {0} /\ Head(cli.q) = cli.q[1]
    BY DEF TypeOK, CliType
  <1>2. 1 = Len(cli.q) /\ cli.state = "gone"
    <2>1. 1 \in 1 .. Len(cli.q) /\ cli.q[1].kind = "closed"
      BY <1>1
    <2>. QED
      BY <2>1 DEF QueueInv, QueueIn
  <1>3. cli.turn = NoTurn
    BY <1>2 DEF QueueInv, QueueIn
  <1>4. \A t \in Turns : cli.q[1] # End(t) /\ t # NoTurn
    BY <1>1 DEF End, Turns, NoTurn
  <1>. QED
    BY <1>2, <1>3, <1>4 DEF Ahead, AheadIn

\* The transactions of the process that are not made.
LEMMA LoudUnrecorded ==
    ASSUME TypeOK, ProcInv, QueueInv,
           \/ \E code \in SendErrors \cup {"process_died"} : SendFailsUnrecorded(code)
           \/ PumpUnrecorded \/ PumpClosedUnrecorded \/ IdleMissingUnrecorded
    PROVE  \E l \in LiveType, c \in CliType :
              /\ Unrecorded(l, c) /\ adm.pc # "opening"
              /\ l.epoch = live.epoch /\ c.epoch = cli.epoch /\ c.state = cli.state
              /\ l.closed = live.closed \/ (l.closed /\ cli.state = "gone")
              /\ adm' = adm \/ adm'.pc = "none"
              /\ UNCHANGED <<turn, epoch, up>>
              /\ c = cli \/ Pops(cli, c)
  <1>1. live \in LiveType /\ cli \in CliType
    BY DEF TypeOK
  <1>2. CASE \E code \in SendErrors \cup {"process_died"} : SendFailsUnrecorded(code)
    <2>1. PICK code \in SendErrors \cup {"process_died"} : SendFailsUnrecorded(code)
      BY <1>2
    <2>. DEFINE l == [live EXCEPT !.dying = code = "process_died"]
    <2>2. l \in LiveType /\ l.epoch = live.epoch /\ l.closed = live.closed
      BY <1>1 DEF LiveType
    <2>3. Unrecorded(l, cli) /\ adm.pc = "sending"
      BY <2>1 DEF SendFailsUnrecorded
    <2>4. UNCHANGED <<turn, epoch, up>> /\ adm'.pc = "none"
      BY <2>1, AdmSteps DEF SendFailsUnrecorded, GaveUp
    <2>. HIDE DEF l
    <2>. QED
      BY <1>1, <2>2, <2>3, <2>4
  <1>3. CASE PumpUnrecorded
    <2>1. PICK kind \in {"started", "finished", "idle"} :
             /\ Heard(kind)
             /\ Unrecorded(IF kind = "started" THEN BeginTurn(live, Head(cli.q).turn) ELSE live, Popped)
      BY <1>3 DEF PumpUnrecorded
    <2>. DEFINE l == IF kind = "started" THEN BeginTurn(live, Head(cli.q).turn) ELSE live
    <2>2. kind = "started" => Head(cli.q).turn \in TurnIds
      BY <2>1, HeardType, TurnIsId
    <2>3. l \in LiveType /\ l.epoch = live.epoch /\ l.closed = live.closed
      <3>1. CASE kind = "started"
        <4>1. l = BeginTurn(live, Head(cli.q).turn)
          BY <3>1
        <4>2. BeginTurn(live, Head(cli.q).turn) \in LiveType
          BY <1>1, <2>2, <3>1, LiveEdits
        <4>3. /\ BeginTurn(live, Head(cli.q).turn).epoch = live.epoch
              /\ BeginTurn(live, Head(cli.q).turn).closed = live.closed
          BY <1>1 DEF BeginTurn, LiveType
        <4>. QED
          BY <4>1, <4>2, <4>3
      <3>2. CASE kind # "started"
        BY <1>1, <3>2
      <3>. QED
        BY <3>1, <3>2
    <2>4. /\ Popped \in CliType /\ Pops(cli, Popped) /\ Popped.epoch = cli.epoch /\ Popped.state = cli.state
          /\ adm.pc # "opening"
      BY <2>1, HeardOf DEF Pops
    <2>5. UNCHANGED <<turn, epoch, up, adm>>
      BY <1>3 DEF PumpUnrecorded, rows
    <2>. HIDE DEF l
    <2>. QED
      BY <2>1, <2>3, <2>4, <2>5 DEF l
  <1>4. CASE PumpClosedUnrecorded
    <2>1. Heard("closed") /\ Unrecorded(Closed(live), Popped) /\ UNCHANGED <<turn, epoch, up, adm>>
      BY <1>4 DEF PumpClosedUnrecorded, rows
    <2>2. /\ Popped \in CliType /\ Pops(cli, Popped) /\ Popped.epoch = cli.epoch /\ Popped.state = cli.state
          /\ adm.pc # "opening" /\ cli.state = "gone"
      BY <2>1, HeardOf, ClosedIsLast DEF Pops
    <2>3. Closed(live) \in LiveType /\ Closed(live).epoch = live.epoch /\ Closed(live).closed
      <3>1. Closed(live) \in LiveType
        BY <1>1, LiveEdits
      <3>. QED
        BY <1>1, <3>1 DEF Closed, LiveType
    <2>. QED
      BY <2>1, <2>2, <2>3
  <1>5. CASE IdleMissingUnrecorded
    <2>1. Unrecorded(live, cli) /\ UNCHANGED <<turn, epoch, up, adm>> /\ adm.pc # "opening"
      BY <1>5 DEF IdleMissingUnrecorded, IdleIsMissing, EndsInput, ProcInv, rows
    <2>. QED
      BY <1>1, <2>1
  <1>. QED
    BY <1>2, <1>3, <1>4, <1>5

\* One step keeps the process with its object.
LEMMA StepProc == ASSUME TypeOK, HoldInv, ProcInv, QueueInv, [Next]_vars PROVE ProcInv'
  <1>1. live \in LiveType /\ cli \in CliType /\ adm \in AdmType /\ epoch \in Nat /\ cli.epoch \in Nat /\ live.epoch \in Nat
    BY Parts DEF TypeOK
  <1>2. CASE Calm
    BY <1>2, CalmProc
  <1>3. CASE AttachBump
    <2>1. CASE retired
      <3>1. adm'.pc = "none" /\ adm.pc # "opening" /\ UNCHANGED <<epoch, live, cli, storeFailed>>
        BY <1>3, <2>1, AdmSteps DEF AttachBump, gates, world
      <3>. QED
        BY <3>1 DEF ProcInv, Alive, Attached, Fenced, Handles
    <2>2. CASE ~retired
      <3>1. adm'.pc = "opening" /\ adm.pc = "attach" /\ epoch' = epoch + 1 /\ cli' = cli
        BY <1>3, <2>2, AdmSteps DEF AttachBump, AdmStates, world
      <3>2. /\ live'.epoch = epoch + 1 /\ live'.reg /\ ~live'.closed /\ ~live'.stale
            /\ live'.turn = NoTurn /\ live'.input = "none"
        BY <1>3, <2>2 DEF AttachBump, Opening
      <3>. QED
        BY <1>1, <3>1, <3>2 DEF ProcInv, Alive, Attached, Fenced, Handles
    <2>. QED
      BY <2>1, <2>2
  <1>4. CASE Open
    <2>1. adm'.pc = "opened" /\ adm.pc = "opening" /\ UNCHANGED <<epoch, live, storeFailed>>
      BY <1>4, AdmSteps DEF Open, AdmStates, rows, gates
    <2>2. cli'.epoch = live.epoch
      BY <1>4 DEF Open, NoCli
    <2>. QED
      BY <2>1, <2>2 DEF ProcInv, Alive, Attached, Fenced, Handles
  <1>5. ASSUME adm.pc = "opening", live' = [live EXCEPT !.reg = FALSE, !.closed = TRUE], adm'.pc = "none",
               UNCHANGED <<epoch, storeFailed>>, cli'.epoch = cli.epoch, cli'.state # "up"
        PROVE  ProcInv'
    <2>1. live'.closed /\ ~live'.reg /\ live'.epoch = live.epoch /\ live'.stale = live.stale
      BY <1>1, <1>5 DEF LiveType
    <2>. QED
      BY <1>1, <1>5, <2>1 DEF ProcInv, Alive, Attached, Fenced, Handles
  <1>6. CASE \E retryable, recorded \in BOOLEAN : OpenFails(retryable, recorded)
    BY <1>5, <1>6, AdmSteps DEF OpenFails, world, ProcInv
  <1>7. CASE TakeStale
    <2>1. live' = Abandoned(live) /\ cli' = CloseAsked(cli) /\ adm.pc = "take" /\ adm'.pc = "none" /\ ~Fenced
          /\ UNCHANGED <<epoch, storeFailed>>
      BY <1>7, AdmSteps DEF TakeStale, rows, gates
    <2>2. live'.closed = live.closed /\ live'.stale /\ ~live'.reg /\ live'.epoch = live.epoch
      BY <1>1, <2>1, LiveKeeps
    <2>3. cli'.epoch = cli.epoch /\ cli'.state # "up" /\ SameState(cli, cli')
      BY <1>1, <2>1, CloseKeeps
    <2>. QED
      BY <2>1, <2>2, <2>3 DEF ProcInv, Alive, Attached, Fenced, Handles, SameState
  <1>8. CASE \/ \E code \in SendErrors \cup {"process_died"} : SendFailsUnrecorded(code)
             \/ PumpUnrecorded \/ PumpClosedUnrecorded \/ IdleMissingUnrecorded
    BY <1>8, LoudUnrecorded, UnrecordedProc
  <1>9. CASE PumpClosed
    <2>1. Heard("closed") /\ live' = Closed(live) /\ cli' = Popped /\ UNCHANGED <<epoch, storeFailed, adm>>
      BY <1>9 DEF PumpClosed, Record
    <2>2. adm.pc # "opening" /\ cli'.state = "gone" /\ cli'.epoch = cli.epoch
      BY <2>1, HeardOf, ClosedIsLast DEF Pops
    <2>3. live'.closed /\ live'.stale = live.stale /\ ~live'.reg /\ live'.epoch = live.epoch
      BY <1>1, <2>1, LiveKeeps
    <2>. QED
      BY <2>1, <2>2, <2>3 DEF ProcInv, Alive, Attached, Fenced, Handles
  <1>10. CASE PumpDrain
    <2>1. cli' = Popped /\ UNCHANGED <<epoch, storeFailed, adm>> /\ live.stale /\ ~live.closed /\ Attached
      BY <1>10 DEF PumpDrain, rows, gates, Attached
    <2>2. cli'.state = cli.state /\ cli'.epoch = cli.epoch
      BY <1>1, <2>1 DEF Popped, CliType
    <2>3. live'.stale = live.stale /\ live'.reg = live.reg /\ live'.epoch = live.epoch
          /\ (live'.closed => live.closed \/ cli.state = "gone")
      BY <1>1, <1>10, ClosedIsLast DEF PumpDrain, LiveType
    <2>. QED
      BY <1>1, <2>1, <2>2, <2>3 DEF ProcInv, Alive, Attached, Fenced, Handles
  <1>11. CASE SettleStoreFailed
    <2>1. epoch' = epoch + 1 /\ UNCHANGED <<live, cli, adm>>
      BY <1>11 DEF SettleStoreFailed, world
    <2>. QED
      BY <1>1, <2>1 DEF ProcInv, Alive, Attached, Fenced
  <1>12. CASE Shutdown
    <2>1. adm'.pc = "none" /\ UNCHANGED <<epoch, storeFailed>>
      BY <1>12, AdmSteps DEF Shutdown, gates
    <2>2. CASE adm.pc = "opening"
      <3>1. live' = [live EXCEPT !.reg = FALSE, !.closed = TRUE] /\ cli' = CloseAsked(cli)
        BY <1>12, <2>2 DEF Shutdown
      <3>. QED
        BY <1>1, <1>5, <2>1, <2>2, <3>1, CloseKeeps
    <2>3. CASE adm.pc # "opening"
      <3>1. live' = [live EXCEPT !.reason = TRUE]
            /\ cli' = IF cli.state \in Serving THEN [cli EXCEPT !.state = "closing"] ELSE CloseAsked(cli)
        BY <1>12, <2>3 DEF Shutdown
      <3>2. cli'.epoch = cli.epoch /\ cli'.state # "up" /\ SameState(cli, cli')
        BY <1>1, <3>1, CloseKeeps DEF Keeps, Serving, CliType
      <3>3. live'.closed = live.closed /\ live'.stale = live.stale /\ live'.reg = live.reg /\ live'.epoch = live.epoch
        BY <1>1, <3>1 DEF LiveType
      <3>. QED
        BY <2>1, <2>3, <3>2, <3>3 DEF ProcInv, Alive, Attached, Fenced, Handles, SameState
    <2>. QED
      BY <2>2, <2>3
  <1>13. CASE Gone
    <2>1. live' = NoLive /\ cli' = NoCli /\ adm'.pc = "none" /\ epoch' = epoch
      BY <1>13, AdmSteps DEF Gone, rows
    <2>2. NoLive.closed /\ ~NoLive.stale /\ ~NoLive.reg /\ NoLive.epoch = 0 /\ NoCli.epoch = 0 /\ NoCli.state = "none"
      BY DEF NoLive, NoCli, Opening
    <2>. QED
      BY <1>1, <2>1, <2>2 DEF ProcInv, Alive, Attached, Fenced, Handles
  <1>14. CASE Boot
    <2>1. UNCHANGED <<live, cli, adm, storeFailed>> /\ epoch' \in {epoch, epoch + 1} /\ adm.pc = "none"
      BY <1>14 DEF Boot, HoldInv
    <2>. QED
      BY <1>1, <2>1 DEF ProcInv, Alive, Attached, Fenced, Handles
  <1>. QED
    BY <1>2, <1>3, <1>4, <1>6, <1>7, <1>8, <1>9, <1>10, <1>11, <1>12, <1>13, <1>14, StepKinds DEF Loud

\* A process that was opened has said nothing, and neither has one that is lost.
LEMMA NewIsSilent == ASSUME TypeOK, Open \/ Gone PROVE Renewed(cli, cli')
  <1>. DEFINE new == [NoCli EXCEPT !.state = "up", !.epoch = live.epoch]
  <1>1. NoCli \in CliType /\ NoCli.q = <<>> /\ NoCli.turn = NoTurn
    BY CliEdits, Parts DEF NoCli
  <1>2. new.q = NoCli.q /\ new.turn = NoCli.turn
    BY <1>1 DEF CliType
  <1>3. cli' = new \/ cli' = NoCli
    BY DEF Open, Gone
  <1>. HIDE DEF new
  <1>. QED
    BY <1>1, <1>2, <1>3 DEF Renewed

\* What a step does to the process: it talks by itself, it is told to end or left
\* alone, an event of it is read, or another takes its place.
LEMMA StepCli ==
    ASSUME TypeOK, HoldInv, ProcInv, QueueInv, [Next]_vars
    PROVE  \/ Cli /\ Talks(cli, cli')
           \/ Keeps(cli, cli') \/ Pops(cli, cli')
           \/ Renewed(cli, cli') /\ (Open \/ Gone)
  <1>1. live \in LiveType /\ cli \in CliType /\ Keeps(cli, cli)
    BY CloseKeeps DEF TypeOK
  <1>2. CASE AttachBump \/ SettleStoreFailed \/ Boot \/ \E retryable, recorded \in BOOLEAN : OpenFails(retryable, recorded)
    BY <1>1, <1>2 DEF AttachBump, SettleStoreFailed, Boot, OpenFails, world
  <1>3. CASE Open \/ Gone
    BY <1>3, NewIsSilent
  <1>4. CASE TakeStale
    BY <1>1, <1>4, CloseKeeps DEF TakeStale, Keeps
  <1>5. CASE \/ \E code \in SendErrors \cup {"process_died"} : SendFailsUnrecorded(code)
             \/ PumpUnrecorded \/ PumpClosedUnrecorded \/ IdleMissingUnrecorded
    <2>1. PICK l \in LiveType, c \in CliType : Unrecorded(l, c) /\ (c = cli \/ Pops(cli, c))
      BY <1>5, LoudUnrecorded
    <2>2. cli' = CloseAsked(c)
      BY <2>1 DEF Unrecorded
    <2>3. SameState(c, cli') /\ cli'.q = c.q /\ cli'.turn = c.turn /\ cli'.epoch = c.epoch
      BY <2>2, CloseKeeps
    <2>. QED
      BY <2>1, <2>3 DEF Keeps, Pops, SameState
  <1>6. CASE PumpClosed
    <2>1. Heard("closed") /\ cli' = Popped
      BY <1>6 DEF PumpClosed, Record
    <2>. QED
      BY <2>1, HeardOf
  <1>7. CASE PumpDrain
    BY <1>1, <1>7 DEF PumpDrain, Popped, Pops, SameState, CliType
  <1>8. CASE Shutdown
    BY <1>1, <1>8, CloseKeeps DEF Shutdown, Keeps
  <1>. QED
    BY <1>2, <1>3, <1>4, <1>5, <1>6, <1>7, <1>8, StepKinds DEF Loud

\* One step keeps the queue of the process as it should be.
LEMMA StepQueue ==
    ASSUME TypeOK, TypeOK', HoldInv, ProcInv, QueueInv, [Next]_vars
    PROVE  QueueInv'
  <1>1. cli \in CliType /\ cli' \in CliType
    BY DEF TypeOK
  <1>2. QueueIn(cli')
    BY <1>1, QueueKept, StepCli DEF QueueInv, Talks
  <1>. QED
    BY <1>2 DEF QueueInv

\* Nothing awaited, and nothing recorded: every turn that runs waits for the
\* store to be settled, before and after.
LEMMA NoneAwaited ==
    ASSUME TypeOK, RunInv, \A t \in Turns : ~Awaited(t), UNCHANGED <<turn, storeFailed, up>>,
           adm'.pc \notin {"accepted", "take"} \/ (adm' = adm /\ (Fenced' => Fenced))
    PROVE  RunInv'
  <1>1. up = "up" => \A t \in Running(turn) : storeFailed
    BY DEF RunInv, Running
  <1>2. adm.pc \in {"accepted", "take"} /\ turn[adm.turn].status = "none" /\ Fenced => storeFailed
    BY DEF RunInv, TypeOK
  <1>. QED
    BY <1>1, <1>2 DEF RunInv

\* One step loses no end of a turn that runs.
LEMMA StepRun ==
    ASSUME TypeOK, TypeOK', HoldInv, ProcInv, QueueInv, RunInv, [Next]_vars
    PROVE  RunInv'
  <1>1. /\ live \in LiveType /\ cli \in CliType /\ cli' \in CliType /\ adm \in AdmType
        /\ epoch \in Nat /\ cli.epoch \in Nat /\ live.epoch \in Nat /\ turn \in [Turns -> TurnRow]
    BY Parts DEF TypeOK
  <1>2. CASE Silent
    BY <1>2, SilentRun
  <1>3. CASE \/ UNCHANGED vars \/ Api \/ PassRead \/ (Cli /\ ~CliAccept)
             \/ BackoffOver \/ IdleMissing \/ Release \/ PoolCloses \/ PoolReopens \/ RecheckSurvivor
    <2>1. Calm /\ Talks(cli, cli') /\ UNCHANGED <<turn, up>>
      BY <1>3, OthersCalm
    <2>2. adm' = adm
      BY <1>3 DEF vars, Api, Deliver, Pause, Resume, Retire, PassRead, Cli, CliIdle, CliMissesIdle, CliLateIdle,
                  CliOwnTurn, CliDies, CliDeathReported, CliCloseCalled, CliExit, OrphanExits, CliFinish,
                  BackoffOver, IdleMissing, Release, PoolCloses, PoolReopens, RecheckSurvivor
    <2>. QED
      BY <1>2, <2>1, <2>2 DEF Silent, Calm
  <1>4. CASE \/ PassAct \/ AttachWrite \/ AttachWriteFails \/ AttachClosed \/ Look \/ Send \/ SendReturn
             \/ TakeFails \/ SendFindsDead \/ \E code \in SendErrors : SendFails(code)
    <2>1. Calm /\ Talks(cli, cli') /\ UNCHANGED up
      BY <1>4, TaskCalm
    <2>2. turn' = turn
      BY <1>4 DEF PassAct, AttachWrite, AttachWriteFails, AttachClosed, Look, Send, SendReturn, TakeFails,
                  SendFindsDead, SendFails, GaveUp, rows
    <2>3. adm'.pc \in {"accepted", "take"} => adm.pc \in {"accepted", "take"} /\ adm'.turn = adm.turn
      BY <1>4, <2>2, TaskCalm, AdmSteps DEF Take, TakeFails, AdmStates
    <2>. QED
      BY <1>2, <2>1, <2>2, <2>3 DEF Silent, Calm
  <1>5. CASE CliAccept
    <2>1. Calm /\ Talks(cli, cli') /\ UNCHANGED <<turn, up>>
      BY <1>5, OthersCalm DEF Cli
    <2>2. \A t \in Turns : Awaited(t) => Awaited(t)'
      BY <2>1, TalkAwaits DEF Calm
    <2>3. adm.pc = "sending" /\ cli.state \in Serving /\ adm'.turn = cli'.turn /\ live' = live
      BY <1>1, <1>5 DEF CliAccept, AdmType
    <2>4. Attached /\ ~live.closed /\ (Fenced => storeFailed \/ Alive)
      BY <2>3 DEF ProcInv, Handles, Serving, Alive
    <2>5. Ahead(adm.turn)'
      BY <2>3 DEF Ahead, AheadIn
    <2>6. Fenced' => (storeFailed \/ Awaited(adm.turn))'
      BY <2>1, <2>3, <2>4, <2>5 DEF Calm, Awaited, Alive, Attached, Fenced
    <2>. QED
      BY <2>1, <2>2, <2>6 DEF RunInv, Running, Calm
  <1>6. CASE Take
    <2>1. Calm /\ Talks(cli, cli') /\ UNCHANGED up /\ adm'.pc = "none" /\ live' = live
      BY <1>6, TaskCalm, AdmSteps DEF Take
    <2>2. \A t \in Turns : Awaited(t) => Awaited(t)'
      BY <2>1, TalkAwaits DEF Calm
    <2>3. adm.pc = "take" /\ adm.turn \in Turns /\ Fenced /\ turn' = EnsureTurn(turn, adm.turn, live.epoch)
      BY <1>6 DEF Take, Took, TypeOK
    <2>4. \A t \in Running(turn') :
             \/ t \in Running(turn) /\ turn'[t] = turn[t]
             \/ t = adm.turn /\ turn[t].status = "none" /\ turn'[t].epoch = epoch
      BY <1>1, <2>3 DEF EnsureTurn, Running, Fenced
    <2>5. \A t \in Running(turn') : t \in Turns
      BY DEF Running
    <2>. QED
      BY <2>1, <2>2, <2>3, <2>4, <2>5 DEF RunInv, Calm
  <1>7. CASE PumpStarted
    <2>0. Heard("started") /\ Head(cli.q).turn \in Turns
      BY <1>7, HeardType DEF PumpStarted, Record
    <2>. PICK t \in Turns : t = Head(cli.q).turn
      BY <2>0
    <2>1. Calm /\ Pops(cli, cli') /\ UNCHANGED <<adm, up>>
      BY <1>7, PumpCalm
    <2>2. Heard("started") /\ Fenced /\ turn' = EnsureTurn(turn, t, epoch)
      BY <1>7 DEF PumpStarted, Record
    <2>3. Alive /\ Attached /\ Head(cli.q).kind = "started" /\ cli.q # <<>>
      BY <2>2, HeardOf
    <2>4. /\ Len(cli.q) \in Nat \ {0} /\ Head(cli.q) = cli.q[1] /\ Len(cli'.q) = Len(cli.q) - 1
          /\ \A i \in 1 .. Len(cli'.q) : cli'.q[i] = cli.q[i + 1]
          /\ \A s \in Turns : AheadIn(cli, s) => AheadIn(cli', s) \/ Head(cli.q) = End(s)
      BY <1>1, <2>1, PopKeeps
    <2>5. \A s \in Turns : Ahead(s) => Ahead(s)'
      <3>1. \A s \in Turns : Head(cli.q) # End(s)
        BY <2>3 DEF End
      <3>. QED
        BY <2>4, <3>1 DEF Ahead
    <2>6. Ahead(t)
      <3>1. 1 \in 1 .. Len(cli.q) /\ cli.q[1].kind = "started"
        BY <2>3, <2>4
      <3>2. cli.turn = cli.q[1].turn \/ \E j \in 1 + 1 .. Len(cli.q) : cli.q[j] = End(cli.q[1].turn)
        BY <3>1 DEF QueueInv, QueueIn
      <3>. QED
        BY <2>4, <3>2 DEF Ahead, AheadIn
    <2>7. (Alive' <=> Alive) /\ (Attached' <=> Attached) /\ (Fenced' <=> Fenced)
      BY <2>1 DEF Calm, Alive, Attached, Fenced
    <2>8. \A s \in Turns : Awaited(s) => Awaited(s)'
      BY <2>5, <2>7 DEF Awaited
    <2>9. Awaited(t)'
      BY <2>2, <2>3, <2>6, <2>8 DEF Awaited
    <2>10. \A s \in Running(turn') :
             \/ s \in Running(turn) /\ turn'[s] = turn[s]
             \/ s = t /\ turn'[s].epoch = epoch
      BY <1>1, <2>2, <2>3 DEF EnsureTurn, Running
    <2>11. \A s \in Turns : turn'[s].status = "none" => turn[s].status = "none"
      BY <1>1, <2>2, <2>3 DEF EnsureTurn
    <2>12. \A s \in Running(turn') : s \in Turns
      BY DEF Running
    <2>13. (up = "up" => \A s \in Running(turn) : storeFailed \/ (Awaited(s) /\ turn[s].epoch = epoch))'
      BY <2>1, <2>8, <2>9, <2>10, <2>12 DEF RunInv, Calm
    <2>14. (adm.pc \in {"accepted", "take"} /\ turn[adm.turn].status = "none" /\ Fenced =>
               storeFailed \/ Awaited(adm.turn))'
      BY <2>1, <2>7, <2>8, <2>11 DEF RunInv, Calm, TypeOK
    <2>. QED
      BY <2>13, <2>14 DEF RunInv
  <1>8. CASE PumpFinished
    <2>0. Heard("finished") /\ Head(cli.q).turn \in Turns
      BY <1>8, HeardType DEF PumpFinished, Record
    <2>. PICK t \in Turns : t = Head(cli.q).turn
      BY <2>0
    <2>. DEFINE out == Outcome(how[t], live.reason)
    <2>1. Calm /\ Pops(cli, cli') /\ UNCHANGED <<adm, up>>
      BY <1>8, PumpCalm
    <2>2. Heard("finished") /\ turn' = EndTurn(EnsureTurn(turn, t, epoch), t, out.status)
      BY <1>8 DEF PumpFinished, Record
    <2>3. \A s : s # t => Head(cli.q) # End(s)
      BY DEF End
    <2>4. \A s \in Turns : s # t /\ AheadIn(cli, s) => AheadIn(cli', s)
      BY <1>1, <2>1, <2>3, PopKeeps
    <2>5. (Alive' <=> Alive) /\ (Attached' <=> Attached) /\ (Fenced' <=> Fenced)
      BY <2>1 DEF Calm, Alive, Attached, Fenced
    <2>6. \A s \in Turns : s # t /\ Awaited(s) => Awaited(s)'
      BY <2>4, <2>5 DEF Awaited, Ahead
    <2>7. out.status \in {"finished", "interrupted", "failed"}
      BY DEF Outcome
    <2>. HIDE DEF out
    <2>8. turn'[t].status = out.status /\ \A s \in Turns : s # t => turn'[s] = turn[s]
      BY <1>1, <2>2 DEF EndTurn, EnsureTurn, TurnRow
    <2>9. \A s \in Running(turn') : s \in Turns /\ s # t /\ s \in Running(turn) /\ turn'[s] = turn[s]
      BY <2>7, <2>8 DEF Running
    <2>10. (up = "up" => \A s \in Running(turn) : storeFailed \/ (Awaited(s) /\ turn[s].epoch = epoch))'
      BY <2>1, <2>6, <2>9 DEF RunInv, Calm
    <2>11. (adm.pc \in {"accepted", "take"} /\ turn[adm.turn].status = "none" /\ Fenced =>
               storeFailed \/ Awaited(adm.turn))'
      BY <2>1, <2>5, <2>6, <2>7, <2>8 DEF RunInv, Calm, TypeOK
    <2>. QED
      BY <2>10, <2>11 DEF RunInv
  <1>9. CASE PumpIdle \/ PumpLateIdle
    <2>1. Calm /\ Pops(cli, cli') /\ UNCHANGED <<adm, up>>
      BY <1>9, PumpCalm
    <2>2. Heard("idle") /\ turn' = turn
      BY <1>9 DEF PumpIdle, PumpLateIdle, Record, rows
    <2>3. \A s \in Turns : AheadIn(cli, s) => AheadIn(cli', s)
      <3>1. Head(cli.q).kind = "idle"
        BY <2>2, HeardOf
      <3>2. \A s : Head(cli.q) # End(s)
        BY <3>1 DEF End
      <3>. QED
        BY <1>1, <2>1, <3>2, PopKeeps
    <2>4. (Alive' <=> Alive) /\ (Attached' <=> Attached) /\ (Fenced' <=> Fenced)
      BY <2>1 DEF Calm, Alive, Attached, Fenced
    <2>5. \A s \in Turns : Awaited(s) => Awaited(s)'
      BY <2>3, <2>4 DEF Awaited, Ahead
    <2>. QED
      BY <2>1, <2>2, <2>4, <2>5 DEF RunInv, Calm, Running, TypeOK
  <1>10. CASE AttachBump
    <2>1. \A t \in Turns : ~Awaited(t)
      BY <1>10 DEF AttachBump, ProcInv, Awaited
    <2>2. adm'.pc \notin {"accepted", "take"} /\ UNCHANGED <<turn, storeFailed, up>>
      BY <1>10, AdmSteps DEF AttachBump, AdmStates, gates
    <2>. QED
      BY <2>1, <2>2, NoneAwaited
  <1>11. CASE Open \/ \E retryable, recorded \in BOOLEAN : OpenFails(retryable, recorded)
    <2>1. \A t \in Turns : ~Awaited(t)
      BY <1>1, <1>11 DEF Open, OpenFails, ProcInv, Awaited, Attached
    <2>2. adm'.pc \notin {"accepted", "take"} /\ UNCHANGED <<turn, storeFailed, up>>
      BY <1>11, AdmSteps DEF Open, OpenFails, AdmStates, gates, rows
    <2>. QED
      BY <2>1, <2>2, NoneAwaited
  <1>12. CASE TakeStale
    <2>1. \A t \in Turns : ~Awaited(t)
      BY <1>12 DEF TakeStale, Awaited
    <2>2. adm'.pc \notin {"accepted", "take"} /\ UNCHANGED <<turn, storeFailed, up>>
      BY <1>12, AdmSteps DEF TakeStale, gates, rows
    <2>. QED
      BY <2>1, <2>2, NoneAwaited
  <1>13. CASE \/ \E code \in SendErrors \cup {"process_died"} : SendFailsUnrecorded(code)
              \/ PumpUnrecorded \/ PumpClosedUnrecorded \/ IdleMissingUnrecorded
    BY <1>13, LoudUnrecorded, UnrecordedRun
  <1>14. CASE PumpClosed
    <2>1. Heard("closed") /\ live' = Closed(live) /\ UNCHANGED <<turn, epoch, storeFailed, up, adm>>
      BY <1>14 DEF PumpClosed, Record
    <2>2. \A t \in Turns : ~Awaited(t)
      BY <2>1, HeardOf, ClosedIsLast DEF Awaited
    <2>3. Fenced' => Fenced
      BY <1>1, <2>1, LiveKeeps DEF Fenced
    <2>. QED
      BY <2>1, <2>2, <2>3, NoneAwaited
  <1>15. CASE PumpDrain
    <2>1. \A t \in Turns : ~Awaited(t)
      BY <1>15 DEF PumpDrain, Awaited, Alive
    <2>2. UNCHANGED <<turn, epoch, storeFailed, up, adm>> /\ live'.epoch = live.epoch
      BY <1>1, <1>15 DEF PumpDrain, rows, gates, LiveType
    <2>. QED
      BY <2>1, <2>2, NoneAwaited DEF Fenced
  <1>16. CASE SettleStoreFailed
    <2>1. turn' = InterruptRunning(turn) /\ epoch' = epoch + 1 /\ live' = live
      BY <1>16 DEF SettleStoreFailed
    <2>2. Running(turn') = {}
      BY <1>1, <2>1 DEF Running, InterruptRunning, TurnRow
    <2>3. ~Fenced'
      BY <1>1, <2>1 DEF Fenced, ProcInv
    <2>. QED
      BY <2>2, <2>3 DEF RunInv
  <1>17. CASE Shutdown \/ Gone
    BY <1>17, AdmSteps DEF Shutdown, Gone, RunInv
  <1>18. CASE Boot
    <2>1. turn' = InterruptRunning(turn) /\ adm'.pc = "none"
      BY <1>18 DEF Boot, HoldInv
    <2>2. Running(turn') = {}
      BY <1>1, <2>1 DEF Running, InterruptRunning, TurnRow
    <2>. QED
      BY <2>1, <2>2 DEF RunInv
  <1>. QED
    BY <1>3, <1>4, <1>5, <1>6, <1>7, <1>8, <1>9, <1>10, <1>11, <1>12, <1>13, <1>14, <1>15, <1>16, <1>17, <1>18
    DEF Next, Admission, Cli, Pump, Timers, Life, ShutdownDone, ServerCrash

\* The invariants hold of a session that starts.
LEMMA InitCli == ASSUME Init PROVE CliInv
  <1>1. /\ live = NoLive /\ cli = NoCli /\ adm = NoAdm /\ epoch = 0 /\ up = "up" /\ ~look /\ ~recheck
        /\ turn = [t \in Turns |-> NoRow]
    BY DEF Init
  <1>2. NoLive.closed /\ ~NoLive.stale /\ ~NoLive.reg /\ NoLive.epoch = 0
    BY DEF NoLive, Opening
  <1>3. NoCli.state = "none" /\ NoCli.epoch = 0 /\ NoCli.turn = NoTurn /\ NoCli.q = <<>> /\ NoAdm.pc = "none"
    BY DEF NoCli, NoAdm
  <1>4. HoldInv
    BY <1>1, <1>3 DEF HoldInv
  <1>5. ProcInv
    BY <1>1, <1>2, <1>3 DEF ProcInv, Handles, Alive, Attached
  <1>6. QueueInv
    BY <1>1, <1>3 DEF QueueInv, QueueIn
  <1>7. RunInv
    <2>1. Running(turn) = {}
      BY <1>1 DEF Running, NoRow
    <2>. QED
      BY <1>1, <1>3, <2>1 DEF RunInv
  <1>. QED
    BY <1>4, <1>5, <1>6, <1>7 DEF CliInv

\* They hold at every step of every actor, whatever faults happen.
LEMMA CliCorrect == Spec => []CliInv
  <1>1. ASSUME TypeOK, TypeOK', CliInv, [Next]_vars PROVE CliInv'
    BY <1>1, StepHold, StepProc, StepQueue, StepRun DEF CliInv
  <1>. QED
    BY <1>1, InitCli, TypeCorrect, PTL DEF Spec

\* A turn that the store shows as running while the server is up is one whose
\* end will be recorded: the process runs it or has said its end, and its object
\* is neither stale nor fenced off; or the store is to be settled first.  No
\* crash, shutdown, failed write, new epoch or dead CLI leaves one behind.
THEOREM TurnsAreAwaited == Spec => []NoTurnIsStranded
  <1>1. CliInv => NoTurnIsStranded
    BY DEF CliInv, RunInv, NoTurnIsStranded, Awaited, Alive, Ahead, AheadIn, End
  <1>. QED
    BY <1>1, CliCorrect, PTL

\* A process is opened for a session only when the one before was told to end or
\* has ended, and none that the last restart could not stop may still run.
THEOREM ProcessesAreExclusive == Spec => OneProcessWorks
  <1>1. ASSUME TypeOK, CliInv, [Next]_vars, cli'.state = "up", cli'.epoch # cli.epoch
        PROVE  cli.state # "up" /\ ~survivor
    <2>1. Open \/ Gone
      BY <1>1, StepCli, TalkSame DEF CliInv, Pops, Talks
    <2>2. CASE Open
      BY <1>1, <2>2 DEF Open, CliInv, HoldInv, ProcInv
    <2>3. CASE Gone
      BY <1>1, <2>3 DEF Gone, NoCli
    <2>. QED
      BY <2>1, <2>2, <2>3
  <1>2. TypeOK /\ CliInv /\ [Next]_vars =>
           [cli'.state = "up" /\ cli'.epoch # cli.epoch => cli.state # "up" /\ ~survivor]_vars
    BY <1>1
  <1>. QED
    BY <1>2, TypeCorrect, CliCorrect, PTL DEF Spec, OneProcessWorks

-----------------------------------------------------------------------------
(***************************************************************************)
(* Who changes the rows, the admission task's input, and what a CLI has    *)
(* received.                                                               *)
(***************************************************************************)

\* The steps that change a wake or a turn; a take is of the input the task sent,
\* to the turn that received it.
LEMMA StepRows ==
    ASSUME TypeOK, HoldInv, [Next]_vars
    PROVE  \/ UNCHANGED <<wake, turn, retired>>
           \/ \E w \in Wakes : Delivered(w)
           \/ Recycled
           \/ adm.pc = "sending" /\ adm'.pc = "none" /\ up' = "up" /\ Refused(adm.ws)
           \/ adm.pc = "take" /\ adm'.pc = "none" /\ Fenced /\ Handed(adm.ws, adm.turn)
           \/ PumpStarted \/ PumpFinished \/ SettleStoreFailed \/ Boot
  <1>1. CASE UNCHANGED vars
    BY <1>1 DEF vars, rows
  <1>2. CASE Api
    BY <1>2 DEF Api, Deliver, Delivered, Pause, Resume, Retire, Recycled
  <1>3. CASE Admission
    <2>1. ASSUME NEW code, GaveUp(code), adm.pc = "sending"
          PROVE  UNCHANGED <<wake, turn, retired>> \/ (adm'.pc = "none" /\ up' = "up" /\ Refused(adm.ws))
      <3>1. adm'.pc = "none" /\ up' = "up" /\ UNCHANGED <<turn, retired>>
        BY <2>1, AdmSteps DEF GaveUp, HoldInv
      <3>. QED
        BY <2>1, <3>1 DEF GaveUp, Refused
    <2>2. CASE Take
      BY <2>2, AdmSteps DEF Take, Took, Handed
    <2>3. CASE PassRead \/ PassAct \/ AttachBump \/ Open \/ AttachWrite \/ AttachWriteFails \/ AttachClosed
      BY <2>3 DEF PassRead, PassAct, AttachBump, Open, AttachWrite, AttachWriteFails, AttachClosed, rows
    <2>4. CASE Look \/ Send \/ SendReturn \/ TakeStale \/ TakeFails
      BY <2>4 DEF Look, Send, SendReturn, TakeStale, TakeFails, rows
    <2>5. CASE \E retryable, recorded \in BOOLEAN : OpenFails(retryable, recorded)
      BY <2>5 DEF OpenFails
    <2>. QED
      BY <1>3, <2>1, <2>2, <2>3, <2>4, <2>5 DEF Admission, SendFails, SendFindsDead, SendFailsUnrecorded
  <1>4. CASE Cli
    BY <1>4 DEF Cli, CliAccept, CliIdle, CliMissesIdle, CliLateIdle, CliOwnTurn, CliDies, CliDeathReported,
                CliCloseCalled, CliExit, OrphanExits, CliFinish, rows
  <1>5. CASE Pump
    BY <1>5 DEF Pump, PumpIdle, PumpLateIdle, PumpClosed, PumpUnrecorded, PumpClosedUnrecorded, PumpDrain, rows
  <1>6. CASE Timers
    BY <1>6 DEF Timers, BackoffOver, IdleMissing, IdleMissingUnrecorded, Release, PoolCloses, PoolReopens, rows
  <1>7. CASE Life
    <2>1. CASE Shutdown
      BY <2>1, AdmSteps DEF Shutdown, Took, Handed
    <2>2. CASE ShutdownDone \/ ServerCrash \/ RecheckSurvivor
      BY <2>2 DEF ShutdownDone, ServerCrash, RecheckSurvivor, Gone, rows
    <2>. QED
      BY <1>7, <2>1, <2>2 DEF Life
  <1>. QED
    BY <1>1, <1>2, <1>3, <1>4, <1>5, <1>6, <1>7 DEF Next

\* What a CLI receives and how its turns end: the steps of the process alone, and
\* the end of the server.
LEMMA StepWorld ==
    ASSUME [Next]_vars
    PROVE  \/ UNCHANGED <<nextTurn, got, how>>
           \/ CliAccept \/ CliOwnTurn \/ CliDeathReported \/ CliExit \/ Gone
           \/ \E end \in {"completed", "failed", "retry"} : CliFinish(end)
  <1>1. CASE UNCHANGED vars \/ Api
    BY <1>1 DEF vars, world, Api, Deliver, Pause, Resume, Retire
  <1>2. CASE Admission
    <2>1. CASE PassRead \/ PassAct \/ AttachBump \/ Open \/ AttachWrite \/ AttachWriteFails \/ AttachClosed
      BY <2>1 DEF PassRead, PassAct, AttachBump, Open, AttachWrite, AttachWriteFails, AttachClosed, world
    <2>2. CASE Look \/ Send \/ SendReturn \/ Take \/ TakeStale \/ TakeFails
      BY <2>2 DEF Look, Send, SendReturn, Take, TakeStale, TakeFails, world
    <2>3. CASE \E retryable, recorded \in BOOLEAN : OpenFails(retryable, recorded)
      BY <2>3 DEF OpenFails, world
    <2>4. \A code : GaveUp(code) => UNCHANGED <<nextTurn, got, how>>
      BY DEF GaveUp
    <2>. QED
      BY <1>2, <2>1, <2>2, <2>3, <2>4 DEF Admission, SendFails, SendFindsDead, SendFailsUnrecorded
  <1>3. CASE Cli
    BY <1>3 DEF Cli, CliIdle, CliMissesIdle, CliLateIdle, CliDies, CliCloseCalled, OrphanExits
  <1>4. CASE Pump
    BY <1>4 DEF Pump, PumpStarted, PumpFinished, PumpIdle, PumpLateIdle, PumpClosed, PumpUnrecorded,
                PumpClosedUnrecorded, PumpDrain
  <1>5. CASE Timers
    BY <1>5 DEF Timers, BackoffOver, IdleMissing, IdleMissingUnrecorded, Release, PoolCloses, PoolReopens,
                SettleStoreFailed, world
  <1>6. CASE Life
    BY <1>6 DEF Life, Shutdown, ShutdownDone, ServerCrash, Boot, RecheckSurvivor
  <1>. QED
    BY <1>1, <1>2, <1>3, <1>4, <1>5, <1>6 DEF Next

\* The task holds an input; the CLI has it, and its wakes are not recorded yet.
Holding == {"ready", "sending", "accepted", "take"}
Handing == {"accepted", "take"}

\* The input of the task is what waited when it looked, and the turn that has it
\* is the one the CLI named.
LEMMA StepTask ==
    ASSUME TypeOK, [Next]_vars
    PROVE  /\ adm'.pc \in Holding =>
                  \/ adm.pc \in Holding /\ adm'.ws = adm.ws
                  \/ adm'.ws = Queued(wake) /\ UNCHANGED wake
           /\ adm'.pc \in Handing =>
                  \/ adm.pc \in Handing /\ adm'.ws = adm.ws /\ adm'.turn = adm.turn
                  \/ CliAccept
  <1>. USE DEF Holding, Handing
  <1>1. adm \in AdmType /\ Queued(wake) \in SUBSET Wakes
    BY QueuedType DEF TypeOK
  <1>2. CASE adm' = adm \/ adm'.pc = "none"
    BY <1>2
  <1>3. CASE UNCHANGED vars \/ Api \/ PassRead \/ (Cli /\ ~CliAccept) \/ Pump \/ Timers
    <2>1. adm' = adm
      BY <1>3 DEF vars, Api, Deliver, Pause, Resume, Retire, PassRead, Cli, CliIdle, CliMissesIdle, CliLateIdle,
                  CliOwnTurn, CliDies, CliDeathReported, CliCloseCalled, CliExit, OrphanExits, CliFinish,
                  Pump, PumpStarted, PumpFinished, PumpIdle, PumpLateIdle, PumpClosed, PumpUnrecorded,
                  PumpClosedUnrecorded, PumpDrain, Timers, BackoffOver, IdleMissing, IdleMissingUnrecorded,
                  Release, PoolCloses, PoolReopens, SettleStoreFailed
    <2>. QED
      BY <1>2, <2>1
  <1>4. CASE Life
    <2>1. adm' = adm \/ adm' = NoAdm
      BY <1>4 DEF Life, Shutdown, ShutdownDone, ServerCrash, Gone, Boot, RecheckSurvivor
    <2>. QED
      BY <1>2, <2>1, AdmSteps
  <1>5. CASE CliAccept
    BY <1>1, <1>5 DEF CliAccept, AdmType
  <1>6. CASE PassAct \/ AttachBump \/ Open \/ AttachWrite \/ AttachWriteFails \/ AttachClosed
    <2>1. adm' = adm \/ adm'.pc \in {"look", "attach", "none", "opening", "opened", "closing"}
      BY <1>6, AdmSteps DEF PassAct, AttachBump, Open, AttachWrite, AttachWriteFails, AttachClosed, AdmStates
    <2>. QED
      BY <1>2, <2>1
  <1>7. CASE Look
    BY <1>1, <1>2, <1>7, AdmSteps DEF Look, AdmStates, rows
  <1>8. CASE Send \/ SendReturn
    BY <1>2, <1>8, AdmSteps DEF Send, SendReturn, AdmStates
  <1>9. CASE \/ Take \/ TakeStale \/ TakeFails \/ SendFindsDead \/ \E code \in SendErrors : SendFails(code)
             \/ \E code \in SendErrors \cup {"process_died"} : SendFailsUnrecorded(code)
             \/ \E retryable, recorded \in BOOLEAN : OpenFails(retryable, recorded)
    <2>1. adm' = NoAdm
      BY <1>9, AdmSteps DEF Take, TakeStale, TakeFails, SendFindsDead, SendFails, SendFailsUnrecorded, GaveUp, OpenFails
    <2>. QED
      BY <1>2, <2>1, AdmSteps
  <1>. QED
    BY <1>3, <1>4, <1>5, <1>6, <1>7, <1>8, <1>9 DEF Next, Admission

-----------------------------------------------------------------------------
(***************************************************************************)
(* A wake is recorded with a turn that received it.                        *)
(***************************************************************************)

\* What the turn of a taken or consumed wake, and the input sent, have to do with
\* what the CLI received.
GotInv ==
    /\ \A w \in Wakes : wake[w].state \in {"taken", "consumed"} =>
          wake[w].turn \in Turns /\ w \in got[wake[w].turn]
    /\ adm.pc \in Handing => adm.ws \subseteq got[adm.turn]

\* Only a take records a wake with a turn: the transactions that end turns leave
\* it with the one it had.
LEMMA RowsKeepTurn ==
    ASSUME NEW wk \in [Wakes -> WakeRow], NEW w \in Wakes, NEW ws, NEW t, NEW ts, NEW st, NEW last, NEW fate, NEW ret
    PROVE  /\ Drop(wk, ws)[w].state \in {"taken", "consumed"} => Drop(wk, ws)[w] = wk[w]
           /\ MoveQueued(wk)[w].state \in {"taken", "consumed"} => MoveQueued(wk)[w] = wk[w]
           /\ Settle(wk, t, fate, ret)[w].state \in {"taken", "consumed"} =>
                 wk[w].state \in {"taken", "consumed"} /\ Settle(wk, t, fate, ret)[w].turn = wk[w].turn
           /\ HandBackAll(wk, ts, ret)[w].state \in {"taken", "consumed"} => HandBackAll(wk, ts, ret)[w] = wk[w]
  <1>1. Drop(wk, ws)[w].state \in {"taken", "consumed"} => Drop(wk, ws)[w] = wk[w]
    BY DEF Drop, WakeRow
  <1>2. MoveQueued(wk)[w].state \in {"taken", "consumed"} => MoveQueued(wk)[w] = wk[w]
    BY DEF MoveQueued, WakeRow
  <1>3. \A s, c : HandBack(wk, s, c, ret)[w].state \in {"taken", "consumed"} => HandBack(wk, s, c, ret)[w] = wk[w]
    BY DEF HandBack, Requeue, WakeRow
  <1>4. Consume(wk, t)[w].state \in {"taken", "consumed"} =>
           wk[w].state \in {"taken", "consumed"} /\ Consume(wk, t)[w].turn = wk[w].turn
    BY DEF Consume, TakenBy, WakeRow
  <1>5. HandBackAll(wk, ts, ret)[w].state \in {"taken", "consumed"} => HandBackAll(wk, ts, ret)[w] = wk[w]
    <2>1. \/ HandBackAll(wk, ts, ret)[w] = HandBack(wk, wk[w].turn, FALSE, ret)[w]
          \/ HandBackAll(wk, ts, ret)[w] = wk[w]
      BY DEF HandBackAll
    <2>2. HandBack(wk, wk[w].turn, FALSE, ret)[w].state \in {"taken", "consumed"} =>
             HandBack(wk, wk[w].turn, FALSE, ret)[w] = wk[w]
      BY DEF HandBack, Requeue, WakeRow
    <2>. QED
      BY <2>1, <2>2
  <1>. QED
    BY <1>1, <1>2, <1>3, <1>4, <1>5 DEF Settle

LEMMA TakeGives ==
    ASSUME NEW wk \in [Wakes -> WakeRow], NEW w \in Wakes, NEW ws, NEW t, NEW st, NEW last, NEW ret,
           TakeWakes(wk, ws, t, st, last, ret)[w].state \in {"taken", "consumed"}
    PROVE  \/ w \in ws /\ TakeWakes(wk, ws, t, st, last, ret)[w].turn = t
           \/ TakeWakes(wk, ws, t, st, last, ret)[w] = wk[w]
  <1>1. ASSUME NEW s
        PROVE  \/ w \in ws /\ Hand(wk, ws, t, s)[w].turn = t
               \/ Hand(wk, ws, t, s)[w] = wk[w]
    BY DEF Hand, WakeRow
  <1>2. \A c : LET h == Hand(wk, ws, t, "taken")
               IN  HandBack(h, t, c, ret)[w].state \in {"taken", "consumed"} => HandBack(h, t, c, ret)[w] = h[w]
    BY DEF HandBack, Requeue, Hand, WakeRow
  <1>. QED
    BY <1>1, <1>2 DEF TakeWakes

\* What a CLI received stays received, and its turns have numbers of their own.
LEMMA WorldGrows ==
    ASSUME TypeOK, [Next]_vars
    PROVE  /\ \A t \in Turns : got[t] \subseteq got'[t]
           /\ nextTurn <= nextTurn'
           /\ \A t \in Turns : how'[t] = how[t] \/ t = cli.turn
  <1>1. got \in [Turns -> SUBSET Wakes] /\ how \in [Turns -> Ends \cup {"none"}] /\ nextTurn \in Nat
    BY StoreAssumption DEF TypeOK
  <1>2. CASE CliAccept
    BY <1>1, <1>2 DEF CliAccept
  <1>3. CASE CliOwnTurn
    BY <1>1, <1>3 DEF CliOwnTurn
  <1>4. ASSUME NEW end, EndWith(end) PROVE \A t \in Turns : how'[t] = how[t] \/ t = cli.turn
    BY <1>1, <1>4 DEF EndWith
  <1>5. CASE CliDeathReported \/ CliExit \/ \E end \in {"completed", "failed", "retry"} : CliFinish(end)
    BY <1>1, <1>4, <1>5 DEF CliDeathReported, CliExit, CliFinish
  <1>6. CASE Gone
    BY <1>1, <1>6 DEF Gone
  <1>7. CASE UNCHANGED <<nextTurn, got, how>>
    BY <1>1, <1>7
  <1>. QED
    BY <1>2, <1>3, <1>5, <1>6, <1>7, StepWorld

\* One step.
LEMMA StepGot == ASSUME TypeOK, HoldInv, GotInv, [Next]_vars PROVE GotInv'
  <1>1. wake \in [Wakes -> WakeRow] /\ adm \in AdmType /\ got \in [Turns -> SUBSET Wakes]
    BY DEF TypeOK
  <1>2. \A t \in Turns : got[t] \subseteq got'[t]
    BY WorldGrows
  <1>3. \A w \in Wakes : wake'[w].state \in {"taken", "consumed"} =>
           \/ wake[w].state \in {"taken", "consumed"} /\ wake'[w].turn = wake[w].turn
           \/ adm.pc = "take" /\ w \in adm.ws /\ wake'[w].turn = adm.turn
    <2>1. CASE UNCHANGED <<wake, turn, retired>> \/ PumpStarted
      BY <2>1 DEF PumpStarted
    <2>2. CASE \E w \in Wakes : Delivered(w)
      BY <1>1, <2>2 DEF Delivered, Enqueue, WakeRow
    <2>3. CASE Recycled
      BY <1>1, <2>3, RowsKeepTurn DEF Recycled
    <2>4. CASE Refused(adm.ws)
      BY <1>1, <2>4, RowsKeepTurn DEF Refused
    <2>5. CASE adm.pc = "take" /\ Handed(adm.ws, adm.turn)
      BY <1>1, <2>5, TakeGives DEF Handed
    <2>6. CASE PumpFinished
      <3>. PICK t, fate : wake' = Settle(wake, t, fate, retired)
        BY <2>6 DEF PumpFinished
      <3>1. ASSUME NEW w \in Wakes, Settle(wake, t, fate, retired)[w].state \in {"taken", "consumed"}
            PROVE  wake[w].state \in {"taken", "consumed"} /\ Settle(wake, t, fate, retired)[w].turn = wake[w].turn
        BY <1>1, <3>1, RowsKeepTurn
      <3>. QED
        BY <3>1
    <2>7. CASE SettleStoreFailed \/ Boot
      BY <1>1, <2>7, RowsKeepTurn DEF SettleStoreFailed, Boot
    <2>. QED
      BY <2>1, <2>2, <2>3, <2>4, <2>5, <2>6, <2>7, StepRows
  <1>4. adm.pc = "take" => adm.turn \in Turns
    BY DEF TypeOK
  <1>5. (\A w \in Wakes : wake[w].state \in {"taken", "consumed"} =>
           wake[w].turn \in Turns /\ w \in got[wake[w].turn])'
    BY <1>2, <1>3, <1>4 DEF GotInv, Handing
  <1>6. (adm.pc \in Handing => adm.ws \subseteq got[adm.turn])'
    <2>1. CASE CliAccept
      <3>1. adm'.turn = cli'.turn /\ adm'.ws = adm.ws
        BY <1>1, <2>1 DEF CliAccept, AdmType
      <3>2. cli'.turn \in Turns
        BY <2>1, Parts DEF CliAccept, CliType
      <3>. QED
        BY <1>1, <2>1, <3>1, <3>2 DEF CliAccept
    <2>2. CASE ~CliAccept
      BY <1>2, <2>2, StepTask DEF GotInv, Handing, TypeOK
    <2>. QED
      BY <2>1, <2>2
  <1>. QED
    BY <1>5, <1>6 DEF GotInv

LEMMA GotCorrect == Spec => []GotInv
  <1>1. Init => GotInv
    BY DEF Init, GotInv, NoWake, NoAdm, Handing
  <1>2. Spec => []HoldInv
    <2>1. CliInv => HoldInv
      BY DEF CliInv
    <2>. QED
      BY <2>1, CliCorrect, PTL
  <1>. QED
    BY <1>1, <1>2, StepGot, TypeCorrect, PTL DEF Spec

\* A wake is recorded as consumed only with a turn whose CLI received it: between
\* the send and the take the turn may end, the store fail, the epoch move and the
\* server stop, and what the task hands over is still what it sent, to the turn
\* that has it.
THEOREM ConsumedIsReceived == Spec => []ConsumedWasReceived
  <1>1. GotInv => ConsumedWasReceived
    BY DEF GotInv, ConsumedWasReceived
  <1>. QED
    BY <1>1, GotCorrect, PTL

-----------------------------------------------------------------------------
(***************************************************************************)
(* The ends of the turns: a turn has one, and what the record makes of it  *)
(* is what really happened.                                                *)
(***************************************************************************)

\* The events of a process that are not read yet.
Said(c) == {c.q[i] : i \in 1 .. Len(c.q)}

IsEnd(e) == e.kind = "finished"

\* How the turns of a process c end, h what really happened and n the number of
\* its next turn: a turn that runs has not ended, one that is said to have ended
\* has, and the end of a turn that was interrupted is the last of a process that
\* is gone.
EndsIn(c, h, n) ==
    /\ c.turn # NoTurn => h[c.turn] = "none" /\ c.turn < n
    /\ \A e \in Said(c) : e.turn < n /\ (IsEnd(e) => h[e.turn] # "none")
    /\ \A i \in 1 .. Len(c.q) : IsEnd(c.q[i]) /\ h[c.q[i].turn] = "interrupted" =>
          c.state = "gone" /\ \A j \in i + 1 .. Len(c.q) : ~IsEnd(c.q[j])

\* Turn t ends so, if c runs it.
Ending(c, h, end) == IF c.turn # NoTurn THEN [h EXCEPT ![c.turn] = end] ELSE h

\* What a step makes the process say, and what happened.
LEMMA StepSaid ==
    ASSUME TypeOK, HoldInv, ProcInv, QueueInv, [Next]_vars
    PROVE  \/ /\ UNCHANGED <<how, nextTurn>>
              /\ \/ Keeps(cli, cli') \/ Says(cli, cli') \/ Pops(cli, cli')
                 \/ Renewed(cli, cli') /\ Open
           \/ Starts(cli, cli') /\ cli'.turn = nextTurn /\ nextTurn' = nextTurn + 1 /\ how' = how
           \/ \E end \in Ends \ {"interrupted"} :
                 Ends1(cli, cli') /\ how' = Ending(cli, how, end) /\ nextTurn' = nextTurn
           \/ \E end \in Ends : Exits(cli, cli') /\ how' = Ending(cli, how, end) /\ nextTurn' = nextTurn
           \/ Gone
  <1>1. cli \in CliType /\ (cli.turn # NoTurn => cli.turn \in Turns)
    BY Parts
  <1>2. CASE CliAccept
    <2>1. CASE cli.turn = NoTurn
      BY <1>1, <1>2, <2>1 DEF CliAccept, Starts, CliType
    <2>2. CASE cli.turn # NoTurn
      BY <1>1, <1>2, <2>2, CloseKeeps DEF CliAccept
    <2>. QED
      BY <2>1, <2>2
  <1>3. CASE CliIdle
    BY <1>1, <1>3 DEF CliIdle, Emit, Says, CliType
  <1>4. CASE CliLateIdle
    BY <1>1, <1>4 DEF CliLateIdle, Emit, Says, CliType
  <1>5. CASE CliMissesIdle
    BY <1>1, <1>5, CloseKeeps DEF CliMissesIdle, CliType
  <1>6. CASE CliOwnTurn
    BY <1>1, <1>6 DEF CliOwnTurn, Emit, Starts, CliType, Serving
  <1>7. CASE CliDies \/ CliCloseCalled
    BY <1>1, <1>7, CloseKeeps DEF CliDies, CliCloseCalled, CliType
  <1>8. CASE CliDeathReported \/ CliExit
    <2>1. Exits(cli, cli')
      BY <1>1, <1>8 DEF CliDeathReported, CliExit, Exits, LastEvents, End, ClosedEvent, CliType
    <2>2. \E end \in Ends : how' = Ending(cli, how, end)
      BY <1>8 DEF CliDeathReported, CliExit, EndWith, Ending, Ends
    <2>. QED
      BY <1>8, <2>1, <2>2 DEF CliDeathReported, CliExit
  <1>9. CASE OrphanExits
    BY <1>1, <1>9, CloseKeeps DEF OrphanExits
  <1>10. ASSUME NEW end \in {"completed", "failed", "retry"}, CliFinish(end)
         PROVE  \E e \in Ends \ {"interrupted"} :
                   Ends1(cli, cli') /\ how' = Ending(cli, how, e) /\ nextTurn' = nextTurn
    <2>1. Ends1(cli, cli')
      BY <1>1, <1>10 DEF CliFinish, Ends1, Emit, End, CliType
    <2>2. how' = Ending(cli, how, end) /\ nextTurn' = nextTurn /\ end \in Ends \ {"interrupted"}
      BY <1>10 DEF CliFinish, EndWith, Ending, Ends
    <2>. QED
      BY <2>1, <2>2
  <1>11. CASE Cli
    BY <1>2, <1>3, <1>4, <1>5, <1>6, <1>7, <1>8, <1>9, <1>10, <1>11 DEF Cli
  <1>12. CASE ~Cli /\ ~Gone
    <2>1. UNCHANGED <<how, nextTurn>>
      BY <1>12, StepWorld DEF Cli
    <2>. QED
      BY <1>12, <2>1, StepCli
  <1>. QED
    BY <1>11, <1>12

\* What a process has said is events; d is a process that says e more.
LEMMA SaidEvents == \A c \in CliType : \A x \in Said(c) : x \in Events /\ (IsEnd(x) => x.turn \in Turns)
  <1>1. \A c \in CliType : \A x \in Said(c) : x \in Events
    BY ElementOfSeq DEF Said, CliType
  <1>2. \A x \in Events : IsEnd(x) => x.turn \in Turns
    BY EventTypes DEF IsEnd
  <1>. QED
    BY <1>1, <1>2

LEMMA SaysMore ==
    ASSUME NEW c \in CliType, NEW d \in CliType, NEW e \in Events, d.q = Append(c.q, e)
    PROVE  /\ \A x \in Said(d) : x \in Said(c) \/ x = e
           /\ \A i \in 1 .. Len(d.q) : d.q[i] = e \/ (d.q[i] = c.q[i] /\ i \in 1 .. Len(c.q) /\ c.q[i] \in Said(c))
  <1>1. c.q \in Seq(Events) /\ Len(c.q) \in Nat
    BY DEF CliType
  <1>2. Len(d.q) = Len(c.q) + 1 /\ d.q[Len(d.q)] = e /\ \A i \in 1 .. Len(c.q) : d.q[i] = c.q[i]
    BY <1>1, AppendProperties
  <1>3. \A i \in 1 .. Len(d.q) : d.q[i] = e \/ (d.q[i] = c.q[i] /\ i \in 1 .. Len(c.q))
    BY <1>1, <1>2
  <1>. QED
    BY <1>3 DEF Said

\* Nothing said is lost or made up.
LEMMA EndsStay ==
    ASSUME NEW c \in CliType, NEW d \in CliType, NEW h, NEW n \in Nat \ {0}, EndsIn(c, h, n),
           Keeps(c, d) \/ Says(c, d) \/ Pops(c, d) \/ Renewed(c, d)
    PROVE  EndsIn(d, h, n)
  <1>1. c.q \in Seq(Events) /\ d.q \in Seq(Events) /\ Len(c.q) \in Nat /\ Len(d.q) \in Nat
    BY DEF CliType
  <1>2. CASE Keeps(c, d)
    BY <1>2 DEF Keeps, SameState, EndsIn, Said
  <1>3. CASE Says(c, d)
    <2>. DEFINE e == [kind |-> "idle", turn |-> NoTurn]
    <2>1. e \in Events /\ e.kind = "idle" /\ e.turn = 0
      BY EventTypes DEF NoTurn
    <2>2. d.q = Append(c.q, e) /\ d.state = c.state /\ d.turn = c.turn /\ c.state # "gone"
      BY <1>3 DEF Says, Serving
    <2>. HIDE DEF e
    <2>4. \A i \in 1 .. Len(d.q) : d.q[i] = e \/ (d.q[i] = c.q[i] /\ i \in 1 .. Len(c.q) /\ c.q[i] \in Said(c))
      BY <2>1, <2>2, SaysMore
    <2>5. \A x \in Said(d) : x \in Said(c) \/ x = e
      BY <2>1, <2>2, SaysMore
    <2>6. ASSUME NEW i \in 1 .. Len(d.q) PROVE ~(IsEnd(d.q[i]) /\ h[d.q[i].turn] = "interrupted")
      BY <2>1, <2>2, <2>4 DEF EndsIn, IsEnd
    <2>7. e.turn < n /\ ~IsEnd(e)
      BY <2>1 DEF IsEnd
    <2>. QED
      BY <2>2, <2>5, <2>6, <2>7 DEF EndsIn
  <1>4. CASE Pops(c, d)
    <2>1. Len(c.q) \in Nat \ {0} /\ Len(d.q) = Len(c.q) - 1 /\ \A i \in 1 .. Len(d.q) : d.q[i] = c.q[i + 1]
      BY <1>4, PopKeeps
    <2>2. \A i \in 1 .. Len(d.q) : i + 1 \in 1 .. Len(c.q) /\ d.q[i] = c.q[i + 1]
      BY <1>1, <2>1
    <2>3. d.turn = c.turn /\ (c.state = "gone" => d.state = "gone")
      BY <1>4 DEF Pops, SameState
    <2>4. Said(d) \subseteq Said(c)
      BY <2>2 DEF Said
    <2>5. ASSUME NEW i \in 1 .. Len(d.q), IsEnd(d.q[i]), h[d.q[i].turn] = "interrupted"
          PROVE  d.state = "gone" /\ \A j \in i + 1 .. Len(d.q) : ~IsEnd(d.q[j])
      <3>1. c.state = "gone" /\ \A j \in (i + 1) + 1 .. Len(c.q) : ~IsEnd(c.q[j])
        BY <2>2, <2>5 DEF EndsIn
      <3>2. ASSUME NEW j \in i + 1 .. Len(d.q) PROVE j + 1 \in (i + 1) + 1 .. Len(c.q) /\ d.q[j] = c.q[j + 1]
        BY <1>1, <2>1
      <3>. QED
        BY <2>3, <3>1, <3>2
    <2>. QED
      BY <2>3, <2>4, <2>5 DEF EndsIn
  <1>5. CASE Renewed(c, d)
    BY <1>5 DEF Renewed, EndsIn, Said
  <1>. QED
    BY <1>2, <1>3, <1>4, <1>5

\* A turn starts, with the next number.
LEMMA EndsStart ==
    ASSUME NEW c \in CliType, NEW d \in CliType, NEW h, NEW n \in Nat, EndsIn(c, h, n),
           Starts(c, d), d.turn = n, h[n] = "none"
    PROVE  EndsIn(d, h, n + 1)
  <1>. DEFINE e == [kind |-> "started", turn |-> d.turn]
  <1>1. d.q = Append(c.q, e) /\ d.state = c.state /\ c.state # "gone" /\ d.turn \in Turns
    BY DEF Starts, Serving
  <1>2. e \in Events /\ ~IsEnd(e) /\ e.turn = n
    BY <1>1, EventTypes DEF IsEnd
  <1>. HIDE DEF e
  <1>3. \A i \in 1 .. Len(d.q) : d.q[i] = e \/ (d.q[i] = c.q[i] /\ i \in 1 .. Len(c.q) /\ c.q[i] \in Said(c))
    BY <1>1, <1>2, SaysMore
  <1>4. \A x \in Said(d) : x \in Said(c) \/ x = e
    BY <1>1, <1>2, SaysMore
  <1>5. \A x \in Said(c) : x.turn \in Nat
    BY SaidEvents DEF Events, Turns, NoTurn
  <1>6. \A x \in Said(d) : x.turn < n + 1 /\ (IsEnd(x) => h[x.turn] # "none")
    BY <1>2, <1>4, <1>5 DEF EndsIn
  <1>7. ASSUME NEW i \in 1 .. Len(d.q) PROVE ~(IsEnd(d.q[i]) /\ h[d.q[i].turn] = "interrupted")
    BY <1>1, <1>2, <1>3 DEF EndsIn
  <1>8. h[d.turn] = "none" /\ d.turn < n + 1
    OBVIOUS
  <1>. QED
    BY <1>6, <1>7, <1>8 DEF EndsIn

\* The turn of a process ends while it runs, however it ends but interrupted.
LEMMA EndsEnd ==
    ASSUME NEW c \in CliType, NEW d \in CliType, NEW h \in [Turns -> Ends \cup {"none"}], NEW n \in Nat, EndsIn(c, h, n),
           Ends1(c, d), NEW end \in Ends \ {"interrupted"}
    PROVE  EndsIn(d, Ending(c, h, end), n)
  <1>. DEFINE e == End(c.turn)
              g == Ending(c, h, end)
  <1>1. d.q = Append(c.q, e) /\ d.state = c.state /\ c.state # "gone" /\ c.turn \in Turns /\ d.turn = NoTurn
    BY DEF Ends1, Serving
  <1>2. e \in Events /\ e.turn = c.turn /\ c.turn # NoTurn /\ c.turn \in Nat
    <2>1. e \in Events
      BY <1>1, EventTypes
    <2>. QED
      BY <1>1, <2>1 DEF End, Turns, NoTurn
  <1>3. g = [h EXCEPT ![c.turn] = end] /\ end \notin {"none", "interrupted"}
    BY <1>2 DEF Ending, Ends
  <1>. HIDE DEF e, g
  <1>4. \A i \in 1 .. Len(d.q) : d.q[i] = e \/ (d.q[i] = c.q[i] /\ i \in 1 .. Len(c.q) /\ c.q[i] \in Said(c))
    BY <1>1, <1>2, SaysMore
  <1>5. \A x \in Said(d) : x \in Said(c) \/ x = e
    BY <1>1, <1>2, SaysMore
  <1>6. \A x \in Said(c) : IsEnd(x) => x.turn \in Turns /\ x.turn # c.turn /\ g[x.turn] = h[x.turn]
    <2>1. \A x \in Said(c) : IsEnd(x) => x.turn \in Turns
      BY SaidEvents
    <2>2. \A x \in Said(c) : IsEnd(x) => x.turn # c.turn
      BY <1>2 DEF EndsIn
    <2>3. \A t \in Turns : t # c.turn => g[t] = h[t]
      BY <1>1, <1>3
    <2>. QED
      BY <2>1, <2>2, <2>3
  <1>7. g[c.turn] = end /\ c.turn < n
    BY <1>1, <1>2, <1>3 DEF EndsIn
  <1>8. \A x \in Said(d) : x.turn < n /\ (IsEnd(x) => g[x.turn] # "none")
    BY <1>2, <1>3, <1>5, <1>6, <1>7 DEF EndsIn
  <1>9. ASSUME NEW i \in 1 .. Len(d.q) PROVE ~(IsEnd(d.q[i]) /\ g[d.q[i].turn] = "interrupted")
    <2>1. CASE d.q[i] = e
      BY <1>2, <1>3, <1>7, <2>1
    <2>2. CASE d.q[i] = c.q[i] /\ i \in 1 .. Len(c.q) /\ c.q[i] \in Said(c)
      BY <1>1, <1>6, <2>2 DEF EndsIn
    <2>. QED
      BY <1>4, <2>1, <2>2
  <1>10. EndsIn(d, g, n)
    BY <1>1, <1>8, <1>9 DEF EndsIn
  <1>. QED
    BY <1>10 DEF g

\* A process that ends says the end of its turn, if it has one, and then its own.
LEMMA ExitSays ==
    ASSUME NEW c \in CliType, NEW d \in CliType, Exits(c, d)
    PROVE  \A i \in 1 .. Len(d.q) :
              \/ d.q[i] = ClosedEvent
              \/ c.turn \in Turns /\ d.q[i] = End(c.turn) /\ \A j \in i + 1 .. Len(d.q) : d.q[j] = ClosedEvent
              \/ d.q[i] = c.q[i] /\ c.q[i] \in Said(c)
  <1>. DEFINE fin == Append(c.q, End(c.turn))
  <1>1. c.q \in Seq(Events) /\ Len(c.q) \in Nat /\ (c.turn # NoTurn => c.turn \in Turns)
    BY StoreAssumption DEF CliType, TurnIds, Turns, NoTurn
  <1>2. <<ClosedEvent>> \in Seq(Events) /\ Len(<<ClosedEvent>>) = 1 /\ <<ClosedEvent>>[1] = ClosedEvent
    BY EventTypes
  <1>3. CASE c.turn = NoTurn
    <2>1. d.q = c.q \o <<ClosedEvent>>
      BY <1>3 DEF Exits
    <2>2. Len(d.q) = Len(c.q) + 1 /\ d.q[Len(c.q) + 1] = ClosedEvent /\ \A i \in 1 .. Len(c.q) : d.q[i] = c.q[i]
      BY <1>1, <1>2, <2>1, ConcatProperties
    <2>3. \A i \in 1 .. Len(d.q) : i = Len(c.q) + 1 \/ i \in 1 .. Len(c.q)
      BY <1>1, <2>2
    <2>. QED
      BY <2>2, <2>3 DEF Said
  <1>4. CASE c.turn # NoTurn
    <2>1. d.q = fin \o <<ClosedEvent>>
      BY <1>4 DEF Exits
    <2>2. End(c.turn) \in Events
      BY <1>1, <1>4, EventTypes
    <2>3. fin \in Seq(Events) /\ Len(fin) = Len(c.q) + 1 /\ fin[Len(c.q) + 1] = End(c.turn)
          /\ \A i \in 1 .. Len(c.q) : fin[i] = c.q[i]
      BY <1>1, <2>2, AppendProperties
    <2>. HIDE DEF fin
    <2>4. Len(d.q) = Len(fin) + 1 /\ d.q[Len(fin) + 1] = ClosedEvent /\ \A i \in 1 .. Len(fin) : d.q[i] = fin[i]
      BY <1>1, <1>2, <2>1, <2>3, ConcatProperties
    <2>5. /\ Len(d.q) = Len(c.q) + 2 /\ d.q[Len(c.q) + 2] = ClosedEvent /\ d.q[Len(c.q) + 1] = End(c.turn)
          /\ \A i \in 1 .. Len(c.q) : d.q[i] = c.q[i]
      BY <1>1, <2>3, <2>4
    <2>6. \A i \in 1 .. Len(d.q) : i = Len(c.q) + 2 \/ i = Len(c.q) + 1 \/ i \in 1 .. Len(c.q)
      BY <1>1, <2>5
    <2>7. \A j \in (Len(c.q) + 1) + 1 .. Len(d.q) : j = Len(c.q) + 2
      BY <1>1, <2>5
    <2>. QED
      BY <1>1, <1>4, <2>5, <2>6, <2>7 DEF Said
  <1>. QED
    BY <1>3, <1>4

LEMMA EndsExit ==
    ASSUME NEW c \in CliType, NEW d \in CliType, NEW h \in [Turns -> Ends \cup {"none"}], NEW n \in Nat \ {0},
           EndsIn(c, h, n), Exits(c, d), NEW end \in Ends
    PROVE  EndsIn(d, Ending(c, h, end), n)
  <1>. DEFINE e == End(c.turn)
              g == Ending(c, h, end)
  <1>1. /\ d.state = "gone" /\ d.turn = NoTurn /\ c.state # "gone"
        /\ c.turn = NoTurn => g = h
        /\ c.turn # NoTurn => g = [h EXCEPT ![c.turn] = end]
        /\ end # "none"
    BY DEF Exits, Ending, Ends
  <1>2. c.turn # NoTurn => c.turn \in Turns
    BY StoreAssumption DEF CliType, TurnIds, Turns, NoTurn
  <1>3. ~IsEnd(ClosedEvent) /\ ClosedEvent.turn < n
    BY DEF IsEnd, ClosedEvent, NoTurn
  <1>4. c.turn \in Turns => c.turn # NoTurn /\ IsEnd(e) /\ e.turn = c.turn
    BY DEF IsEnd, End, Turns, NoTurn
  <1>5. \A i \in 1 .. Len(d.q) :
           \/ d.q[i] = ClosedEvent
           \/ c.turn \in Turns /\ d.q[i] = e /\ \A j \in i + 1 .. Len(d.q) : d.q[j] = ClosedEvent
           \/ d.q[i] = c.q[i] /\ c.q[i] \in Said(c)
    BY ExitSays
  <1>. HIDE DEF e, g
  <1>6. \A x \in Said(c) : IsEnd(x) => x.turn \in Turns /\ x.turn # c.turn /\ g[x.turn] = h[x.turn]
    <2>1. \A x \in Said(c) : IsEnd(x) => x.turn \in Turns
      BY SaidEvents
    <2>2. \A x \in Said(c) : IsEnd(x) => x.turn # c.turn
      BY <1>2, <2>1 DEF EndsIn, NoTurn, Turns
    <2>3. \A t \in Turns : t # c.turn => g[t] = h[t]
      BY <1>1, <1>2
    <2>. QED
      BY <2>1, <2>2, <2>3
  <1>7. c.turn \in Turns => g[c.turn] = end /\ c.turn < n
    BY <1>1, <1>4 DEF EndsIn
  <1>8. \A x \in Said(d) : x = ClosedEvent \/ (c.turn \in Turns /\ x = e) \/ x \in Said(c)
    BY <1>5 DEF Said
  <1>9. \A x \in Said(d) : x.turn < n /\ (IsEnd(x) => g[x.turn] # "none")
    BY <1>1, <1>3, <1>4, <1>6, <1>7, <1>8 DEF EndsIn
  <1>10. ASSUME NEW i \in 1 .. Len(d.q), IsEnd(d.q[i]), g[d.q[i].turn] = "interrupted"
         PROVE  \A j \in i + 1 .. Len(d.q) : ~IsEnd(d.q[j])
    <2>1. CASE d.q[i] = c.q[i] /\ c.q[i] \in Said(c)
      <3>1. IsEnd(c.q[i]) /\ h[c.q[i].turn] = "interrupted"
        BY <1>6, <1>10, <2>1
      <3>2. PICK k \in 1 .. Len(c.q) : c.q[k] = c.q[i]
        BY <2>1 DEF Said
      <3>. QED
        BY <1>1, <3>1, <3>2 DEF EndsIn
    <2>. QED
      BY <1>3, <1>5, <1>10, <2>1
  <1>11. EndsIn(d, g, n)
    BY <1>1, <1>9, <1>10 DEF EndsIn
  <1>. QED
    BY <1>11 DEF g

\* What a step does to the record of a turn.
LEMMA StepStatus ==
    ASSUME TypeOK, TypeOK', HoldInv, [Next]_vars
    PROVE  \A t \in Turns :
              \/ turn'[t].status = turn[t].status
              \/ /\ turn[t].status = "none" /\ turn'[t].status = "running"
                 /\ (adm.pc = "take" /\ t = adm.turn) \/ (PumpStarted /\ t = Head(cli.q).turn)
              \/ PumpFinished /\ t = Head(cli.q).turn
              \/ /\ turn[t].status = "running" /\ turn'[t].status = "interrupted"
                 /\ SettleStoreFailed \/ Boot
  <1>1. turn \in [Turns -> TurnRow] /\ (adm.pc = "take" => adm.turn \in Turns)
    BY DEF TypeOK
  <1>2. ASSUME NEW s \in Turns, NEW e
        PROVE  \A t \in Turns : \/ EnsureTurn(turn, s, e)[t].status = turn[t].status
                                \/ t = s /\ turn[t].status = "none" /\ EnsureTurn(turn, s, e)[t].status = "running"
    BY <1>1 DEF EnsureTurn
  <1>3. CASE adm.pc = "take" /\ Handed(adm.ws, adm.turn)
    BY <1>1, <1>2, <1>3 DEF Handed
  <1>4. CASE PumpStarted
    <2>1. Head(cli.q).turn \in Turns
      BY <1>4, HeardType DEF PumpStarted, Record
    <2>. QED
      BY <1>2, <1>4, <2>1 DEF PumpStarted
  <1>5. CASE PumpFinished
    <2>1. PICK s \in Turns : s = Head(cli.q).turn /\ \E out : turn' = EndTurn(EnsureTurn(turn, s, epoch), s, out)
      BY <1>5, HeardType DEF PumpFinished, Record
    <2>2. EnsureTurn(turn, s, epoch) \in [Turns -> TurnRow]
      BY <1>1 DEF TypeOK, EnsureTurn, TurnRow, TurnStates
    <2>3. \A t \in Turns : t # s => turn'[t] = EnsureTurn(turn, s, epoch)[t]
      BY <2>1, <2>2 DEF EndTurn
    <2>4. \A t \in Turns : t # s => EnsureTurn(turn, s, epoch)[t].status = turn[t].status
      BY <1>2, <2>1
    <2>. QED
      BY <1>5, <2>1, <2>3, <2>4
  <1>6. CASE SettleStoreFailed \/ Boot
    BY <1>1, <1>6 DEF SettleStoreFailed, Boot, InterruptRunning, Running, TurnRow
  <1>7. CASE UNCHANGED turn
    BY <1>7
  <1>. QED
    BY <1>3, <1>4, <1>5, <1>6, <1>7, StepRows DEF Delivered, Recycled, Refused

\* The turns the CLI did not start have no record, and no input waits for one.
NumberInv ==
    /\ EndsIn(cli, how, nextTurn)
    /\ \A t \in Turns : t >= nextTurn => how[t] = "none" /\ turn[t].status = "none"
    /\ adm.pc \in Handing => adm.turn < nextTurn
    /\ up = "down" => cli.state = "none"

LEMMA StepNumber ==
    ASSUME TypeOK, TypeOK', HoldInv, ProcInv, QueueInv, NumberInv, [Next]_vars
    PROVE  NumberInv'
  <1>1. /\ cli \in CliType /\ cli' \in CliType /\ adm \in AdmType /\ (cli.turn # NoTurn => cli.turn \in Turns)
        /\ how \in [Turns -> Ends \cup {"none"}] /\ nextTurn \in Nat \ {0} /\ nextTurn' \in Nat \ {0}
    BY Parts, StoreAssumption DEF TypeOK
  <1>2. nextTurn <= nextTurn' /\ \A t \in Turns : how'[t] = how[t] \/ t = cli.turn
    BY WorldGrows
  <1>3. Gone => cli' = NoCli /\ nextTurn' = nextTurn /\ NoCli.q = <<>> /\ NoCli.turn = NoTurn /\ NoCli.state = "none"
    BY DEF Gone, NoCli
  <1>4. EndsIn(cli', how', nextTurn')
    <2>1. CASE UNCHANGED <<how, nextTurn>> /\ (Keeps(cli, cli') \/ Says(cli, cli') \/ Pops(cli, cli') \/ Renewed(cli, cli'))
      <3>1. EndsIn(cli', how, nextTurn)
        BY <1>1, <2>1, EndsStay DEF NumberInv
      <3>. QED
        BY <2>1, <3>1
    <2>2. CASE Starts(cli, cli') /\ cli'.turn = nextTurn /\ nextTurn' = nextTurn + 1 /\ how' = how
      <3>1. how[nextTurn] = "none"
        BY <1>1, <2>2 DEF Starts, NumberInv
      <3>2. EndsIn(cli', how, nextTurn + 1)
        BY <1>1, <2>2, <3>1, EndsStart DEF NumberInv
      <3>. QED
        BY <2>2, <3>2
    <2>3. ASSUME NEW end \in Ends \ {"interrupted"},
                 Ends1(cli, cli'), how' = Ending(cli, how, end), nextTurn' = nextTurn
          PROVE  EndsIn(cli', how', nextTurn')
      <3>1. EndsIn(cli', Ending(cli, how, end), nextTurn)
        BY <1>1, <2>3, EndsEnd DEF NumberInv
      <3>. QED
        BY <2>3, <3>1
    <2>4. ASSUME NEW end \in Ends, Exits(cli, cli'), how' = Ending(cli, how, end), nextTurn' = nextTurn
          PROVE  EndsIn(cli', how', nextTurn')
      <3>1. EndsIn(cli', Ending(cli, how, end), nextTurn)
        BY <1>1, <2>4, EndsExit DEF NumberInv
      <3>. QED
        BY <2>4, <3>1
    <2>5. CASE Gone
      BY <1>3, <2>5 DEF EndsIn, Said
    <2>. QED
      BY <2>1, <2>2, <2>3, <2>4, <2>5, StepSaid
  <1>5. ASSUME NEW t \in Turns, t >= nextTurn' PROVE how'[t] = "none" /\ turn'[t].status = "none"
    <2>1. t \in Nat /\ t >= nextTurn /\ how[t] = "none" /\ turn[t].status = "none"
      BY <1>1, <1>2, <1>5 DEF NumberInv, Turns
    <2>2. cli.turn # NoTurn => cli.turn < nextTurn
      BY DEF NumberInv, EndsIn
    <2>3. t # cli.turn
      BY <1>1, <2>1, <2>2 DEF Turns, NoTurn
    <2>4. PumpStarted \/ PumpFinished => t # Head(cli.q).turn
      <3>1. PumpStarted \/ PumpFinished => cli.q # <<>>
        BY DEF PumpStarted, PumpFinished, Record, Heard
      <3>2. cli.q # <<>> => Head(cli.q) \in Said(cli)
        <4>1. cli.q \in Seq(Events)
          BY <1>1 DEF CliType
        <4>2. cli.q # <<>> => Head(cli.q) = cli.q[1] /\ 1 \in 1 .. Len(cli.q)
          BY <4>1
        <4>. QED
          BY <4>2 DEF Said
      <3>3. cli.q # <<>> => Head(cli.q).turn < nextTurn
        BY <3>2 DEF NumberInv, EndsIn
      <3>. QED
        BY <1>1, <2>1, <3>1, <3>3
    <2>5. adm.pc = "take" => t # adm.turn
      BY <1>1, <2>1 DEF NumberInv, Handing
    <2>. QED
      BY <1>2, <2>1, <2>3, <2>4, <2>5, StepStatus
  <1>6. adm'.pc \in Handing => adm'.turn < nextTurn'
    <2>1. CASE CliAccept
      <3>1. adm'.turn = cli'.turn /\ cli'.turn # NoTurn
        BY <1>1, <2>1 DEF CliAccept, AdmType, CliType, Turns, NoTurn
      <3>. QED
        BY <1>4, <3>1 DEF EndsIn
    <2>2. CASE ~CliAccept
      <3>1. adm'.pc \in Handing => adm.pc \in Handing /\ adm'.turn = adm.turn
        BY <2>2, StepTask
      <3>2. adm.turn \in Nat
        BY <1>1 DEF AdmType, TurnIds
      <3>. QED
        BY <1>1, <1>2, <3>1, <3>2 DEF NumberInv
    <2>. QED
      BY <2>1, <2>2
  <1>7. up' = "down" => cli'.state = "none"
    <2>1. up' = "down" => up = "down" \/ Gone
      BY DEF Next, vars, Api, Deliver, Pause, Resume, Retire, Admission, PassRead, PassAct, AttachBump, Open,
             AttachWrite, AttachWriteFails, AttachClosed, OpenFails, Look, Send, SendReturn, Take, TakeStale, TakeFails,
             SendFindsDead, SendFails, SendFailsUnrecorded, GaveUp, Cli, CliAccept, CliIdle, CliMissesIdle,
             CliLateIdle, CliOwnTurn, CliDies, CliDeathReported, CliCloseCalled, CliExit, OrphanExits, CliFinish,
             Pump, PumpStarted, PumpFinished, PumpIdle, PumpLateIdle, PumpClosed, PumpUnrecorded,
             PumpClosedUnrecorded, PumpDrain, Timers, BackoffOver, IdleMissing, IdleMissingUnrecorded, Release,
             PoolCloses, PoolReopens, SettleStoreFailed, Life, Shutdown, ShutdownDone, ServerCrash, Boot,
             RecheckSurvivor
    <2>2. up = "down" => ~Open
      BY DEF HoldInv, Open
    <2>3. CASE up = "down" /\ ~Gone
      <3>1. cli.state = "none"
        BY <2>3 DEF NumberInv
      <3>. QED
        BY <2>2, <2>3, <3>1, StepSaid DEF Keeps, Says, Pops, SameState, Serving, Starts, Ends1, Exits
    <2>. QED
      BY <1>3, <2>1, <2>3
  <1>. QED
    BY <1>4, <1>5, <1>6, <1>7 DEF NumberInv

\* What an edit of the object leaves of the last end it recorded.
LEMMA LastKept ==
    ASSUME NEW l \in LiveType
    PROVE  /\ \A t : BeginTurn(l, t).last = l.last
           /\ EndInput(l).last = l.last /\ Abandoned(l).last = l.last /\ Closed(l).last = l.last
           /\ [l EXCEPT !.reason = TRUE].last = l.last /\ [l EXCEPT !.reg = FALSE].last = l.last
           /\ [l EXCEPT !.reg = FALSE, !.closed = TRUE].last = l.last /\ [l EXCEPT !.closed = TRUE].last = l.last
           /\ [l EXCEPT !.starting = FALSE].last = l.last /\ [l EXCEPT !.input = "open"].last = l.last
           /\ [l EXCEPT !.took = TRUE].last = l.last /\ \A b : [l EXCEPT !.dying = b].last = l.last
  BY DEF LiveType, BeginTurn, EndInput, Abandoned, Closed

\* The last end is the one of the last turn_finished the pump recorded; a new
\* object has none.
LEMMA StepLastEnd ==
    ASSUME TypeOK, HoldInv, ProcInv, QueueInv, [Next]_vars
    PROVE  live'.last = live.last \/ PumpFinished \/ (live'.last.turn = NoTurn /\ (AttachBump \/ Gone))
  <1>1. live \in LiveType /\ cli \in CliType
    BY DEF TypeOK
  <1>2. \A l \in LiveType : \A c : Unrecorded(l, c) => live'.last = l.last
    BY LastKept DEF Unrecorded
  <1>3. CASE live' = live
    BY <1>3
  <1>4. CASE UNCHANGED vars \/ Api \/ Cli
    BY <1>3, <1>4 DEF vars, Api, Deliver, Pause, Resume, Retire, Cli, CliAccept, CliIdle, CliMissesIdle,
             CliLateIdle, CliOwnTurn, CliDies, CliDeathReported, CliCloseCalled, CliExit, OrphanExits, CliFinish
  <1>5. CASE Admission
    <2>1. CASE PassRead \/ Open \/ Look \/ Take \/ TakeFails
      BY <1>3, <2>1 DEF PassRead, Open, Look, Take, TakeFails
    <2>2. CASE PassAct \/ AttachWrite \/ AttachWriteFails \/ AttachClosed \/ Send \/ TakeStale
      BY <1>1, <2>2, LastKept DEF PassAct, ClosesIdle, AttachWrite, AttachWriteFails, AttachClosed, Send, TakeStale
    <2>3. CASE AttachBump
      BY <2>3 DEF AttachBump, Opening, NoEnd
    <2>4. CASE \E retryable, recorded \in BOOLEAN : OpenFails(retryable, recorded)
      BY <1>1, <2>4, LastKept DEF OpenFails
    <2>5. CASE SendReturn
      <3>. DEFINE l == [live EXCEPT !.took = TRUE]
      <3>1. l \in LiveType /\ l.last = live.last
        BY <1>1 DEF LiveType
      <3>2. live' = l \/ live' = BeginTurn(l, adm.turn)
        BY <2>5 DEF SendReturn
      <3>. HIDE DEF l
      <3>. QED
        BY <3>1, <3>2, LastKept
    <2>6. ASSUME Unopened PROVE live'.last = live.last
      <3>. DEFINE l == IF Unsent THEN EndInput(live) ELSE live
      <3>1. l \in LiveType /\ l.last = live.last
        BY <1>1, LiveEdits, LastKept
      <3>2. \E b : live' = [l EXCEPT !.dying = b]
        BY <2>6 DEF Unopened
      <3>. HIDE DEF l
      <3>. QED
        BY <3>1, <3>2, LastKept
    <2>7. CASE SendFindsDead \/ \E code \in SendErrors : SendFails(code)
      BY <2>6, <2>7 DEF SendFindsDead, SendFails
    <2>8. CASE \E code \in SendErrors \cup {"process_died"} : SendFailsUnrecorded(code)
      <3>1. PICK b \in BOOLEAN : Unrecorded([live EXCEPT !.dying = b], cli)
        BY <2>8 DEF SendFailsUnrecorded
      <3>2. [live EXCEPT !.dying = b] \in LiveType
        BY <1>1 DEF LiveType
      <3>. QED
        BY ZenonT(60), <1>1, <1>2, <3>1, <3>2, LastKept
    <2>. QED
      BY <1>5, <2>1, <2>2, <2>3, <2>4, <2>5, <2>7, <2>8 DEF Admission
  <1>6. CASE Pump
    <2>1. CASE PumpStarted \/ PumpIdle \/ PumpLateIdle \/ PumpClosed
      BY <1>1, <2>1, LastKept DEF PumpStarted, PumpIdle, PumpLateIdle, PumpClosed
    <2>2. CASE PumpUnrecorded \/ PumpClosedUnrecorded
      <3>1. \E l \in {live, Closed(live), BeginTurn(live, Head(cli.q).turn)} : live' = Abandoned(l)
        BY <2>2 DEF PumpUnrecorded, PumpClosedUnrecorded, Unrecorded
      <3>2. Heard("started") => Head(cli.q).turn \in TurnIds
        BY HeardType, TurnIsId
      <3>3. Closed(live) \in LiveType /\ (Heard("started") => BeginTurn(live, Head(cli.q).turn) \in LiveType)
        BY <1>1, <3>2, LiveEdits
      <3>4. CASE Heard("started")
        BY <1>1, <3>1, <3>3, <3>4, LastKept
      <3>5. CASE ~Heard("started")
        BY <1>1, <1>2, <2>2, <3>3, <3>5, LastKept DEF PumpUnrecorded, PumpClosedUnrecorded
      <3>. QED
        BY <3>4, <3>5
    <2>3. CASE PumpDrain
      BY <1>1, <2>3, LastKept DEF PumpDrain
    <2>. QED
      BY <1>6, <2>1, <2>2, <2>3 DEF Pump
  <1>7. CASE Timers
    <2>1. CASE BackoffOver \/ PoolCloses \/ PoolReopens \/ SettleStoreFailed
      BY <1>3, <2>1 DEF BackoffOver, PoolCloses, PoolReopens, SettleStoreFailed
    <2>2. CASE IdleMissing \/ IdleMissingUnrecorded \/ Release
      BY <1>1, <1>2, <2>2, LastKept DEF IdleMissing, IdleMissingUnrecorded, Release, ClosesIdle
    <2>. QED
      BY <1>7, <2>1, <2>2 DEF Timers
  <1>8. CASE Life
    <2>1. CASE Shutdown
      BY <1>1, <2>1, LastKept DEF Shutdown
    <2>2. CASE Gone
      BY <2>2 DEF Gone, NoLive, Opening, NoEnd
    <2>3. CASE Boot \/ RecheckSurvivor
      BY <1>3, <2>3 DEF Boot, RecheckSurvivor
    <2>. QED
      BY <1>8, <2>1, <2>2, <2>3 DEF Life, ShutdownDone, ServerCrash
  <1>. QED
    BY <1>4, <1>5, <1>6, <1>7, <1>8 DEF Next

\* An event that is read had been said.
LEMMA HeadSaid ==
    \A c \in CliType : c.q # <<>> => Head(c.q) = c.q[1] /\ 1 \in 1 .. Len(c.q) /\ Head(c.q) \in Said(c)
  <1>1. \A q \in Seq(Events) : q # <<>> => Head(q) = q[1] /\ 1 \in 1 .. Len(q)
    OBVIOUS
  <1>. QED
    BY <1>1 DEF CliType, Said

\* What is still to be read had been said.
LEMMA PopSaid == ASSUME NEW c \in CliType, NEW d \in CliType, Pops(c, d) PROVE Said(d) \subseteq Said(c)
  <1>1. Len(c.q) \in Nat \ {0} /\ Len(d.q) = Len(c.q) - 1 /\ \A i \in 1 .. Len(d.q) : d.q[i] = c.q[i + 1]
    BY PopKeeps
  <1>2. \A i \in 1 .. Len(d.q) : i + 1 \in 1 .. Len(c.q) /\ d.q[i] = c.q[i + 1]
    BY <1>1
  <1>. QED
    BY <1>2 DEF Said

\* What a step does to the epochs: they are bumped for a new process, or by a
\* settling; the process's own changes when one is opened or lost.
LEMMA StepEpochs ==
    ASSUME TypeOK, HoldInv, ProcInv, QueueInv, [Next]_vars
    PROVE  \/ /\ live'.epoch = live.epoch /\ cli'.epoch = cli.epoch
              /\ epoch' = epoch \/ SettleStoreFailed \/ Boot
           \/ AttachBump /\ ~retired /\ live'.epoch = epoch + 1 /\ cli' = cli
           \/ Open \/ Gone
  <1>1. live \in LiveType /\ cli \in CliType
    BY DEF TypeOK
  <1>2. CASE SettleStoreFailed \/ Boot
    BY <1>2 DEF SettleStoreFailed, Boot, world
  <1>3. CASE AttachBump
    <2>1. CASE retired
      BY <1>3, <2>1 DEF AttachBump, world
    <2>2. CASE ~retired
      BY <1>3, <2>2 DEF AttachBump, Opening, world
    <2>. QED
      BY <2>1, <2>2
  <1>4. CASE Calm
    BY <1>4 DEF Calm
  <1>5. CASE \E retryable, recorded \in BOOLEAN : OpenFails(retryable, recorded)
    BY <1>1, <1>5 DEF OpenFails, LiveType, world
  <1>6. CASE TakeStale
    BY <1>1, <1>6, LiveKeeps, CloseKeeps DEF TakeStale, rows
  <1>7. CASE \/ \E code \in SendErrors \cup {"process_died"} : SendFailsUnrecorded(code)
             \/ PumpUnrecorded \/ PumpClosedUnrecorded \/ IdleMissingUnrecorded
    <2>1. PICK l \in LiveType, c \in CliType :
             Unrecorded(l, c) /\ l.epoch = live.epoch /\ c.epoch = cli.epoch /\ epoch' = epoch
      BY <1>7, LoudUnrecorded
    <2>2. live' = Abandoned(l) /\ cli' = CloseAsked(c)
      BY <2>1 DEF Unrecorded
    <2>. QED
      BY <2>1, <2>2, LiveKeeps, CloseKeeps
  <1>8. CASE PumpClosed
    <2>1. Heard("closed") /\ cli' = Popped /\ epoch' = epoch /\ live' = Closed(live)
      BY <1>8 DEF PumpClosed, Record
    <2>. QED
      BY <1>1, <2>1, LiveKeeps, HeardOf DEF Pops
  <1>9. CASE PumpDrain
    BY <1>1, <1>9 DEF PumpDrain, Popped, LiveType, CliType, rows
  <1>10. CASE Shutdown
    <2>1. live'.epoch = live.epoch /\ epoch' = epoch
      BY <1>1, <1>10 DEF Shutdown, LiveType
    <2>2. cli' = CloseAsked(cli) \/ (cli' = [cli EXCEPT !.state = "closing"])
      BY <1>10 DEF Shutdown
    <2>3. cli'.epoch = cli.epoch
      BY <1>1, <2>2, CloseKeeps DEF CliType
    <2>. QED
      BY <2>1, <2>3
  <1>. QED
    BY <1>2, <1>3, <1>4, <1>5, <1>6, <1>7, <1>8, <1>9, <1>10, StepKinds DEF Loud

\* A process and its object that fit the session's epoch did so before, and no
\* turn was settled meanwhile; or the process is new or gone, and no input is
\* under way.
LEMMA StepFits ==
    ASSUME TypeOK, HoldInv, ProcInv, QueueInv, NumberInv, [Next]_vars, Fenced', Attached'
    PROVE  \/ Fenced /\ Attached /\ ~SettleStoreFailed /\ ~Boot
           \/ cli'.turn = NoTurn /\ adm'.pc \notin Handing
  <1>1. epoch \in Nat /\ cli.epoch \in Nat /\ live.epoch \in Nat
    BY Parts DEF TypeOK
  <1>2. CASE SettleStoreFailed
    BY <1>1, <1>2 DEF SettleStoreFailed, ProcInv, Fenced
  <1>3. CASE Boot
    <2>1. cli.turn = NoTurn /\ adm.pc = "none" /\ UNCHANGED <<cli, adm>>
      BY <1>3 DEF Boot, NumberInv, QueueInv, QueueIn, HoldInv
    <2>. QED
      BY <2>1 DEF Handing
  <1>4. CASE Open \/ Gone
    <2>1. cli'.turn = NoTurn
      BY <1>4, NewIsSilent DEF Renewed
    <2>2. adm'.pc \in {"opened", "none"}
      BY <1>4, AdmSteps DEF Open, Gone, AdmStates
    <2>. QED
      BY <2>1, <2>2 DEF Handing
  <1>5. CASE live'.epoch = epoch + 1 /\ cli' = cli
    BY <1>1, <1>5 DEF Attached, ProcInv
  <1>6. CASE live'.epoch = live.epoch /\ cli'.epoch = cli.epoch /\ epoch' = epoch
    BY <1>2, <1>3, <1>6 DEF Fenced, Attached
  <1>. QED
    BY <1>2, <1>3, <1>4, <1>5, <1>6, StepEpochs

\* Only the bump of the epoch begins the opening of a process.
LEMMA StepOpening ==
    ASSUME TypeOK, HoldInv, ProcInv, QueueInv, [Next]_vars, adm'.pc = "opening"
    PROVE  (adm.pc = "opening" /\ ~PumpFinished) \/ AttachBump
  <1>1. CASE Calm
    BY <1>1, PumpCalm, HeardOf DEF Calm, PumpFinished, Record
  <1>2. CASE Open \/ TakeStale \/ \E retryable, recorded \in BOOLEAN : OpenFails(retryable, recorded)
    BY <1>2, AdmSteps DEF Open, TakeStale, OpenFails, AdmStates
  <1>3. CASE \/ \E code \in SendErrors \cup {"process_died"} : SendFailsUnrecorded(code)
             \/ PumpUnrecorded \/ PumpClosedUnrecorded \/ IdleMissingUnrecorded
    BY <1>3, LoudUnrecorded
  <1>4. CASE PumpClosed \/ PumpDrain
    BY <1>4, HeardOf DEF PumpClosed, Record, PumpDrain, ProcInv, Alive
  <1>5. CASE SettleStoreFailed \/ Boot
    BY <1>5 DEF SettleStoreFailed, Boot, PumpFinished, HoldInv
  <1>6. CASE Shutdown \/ Gone
    BY <1>6, AdmSteps DEF Shutdown, Gone
  <1>. QED
    BY <1>1, <1>2, <1>3, <1>4, <1>5, <1>6, StepKinds DEF Loud

\* The last end an object recorded, and the record of the turns, are what
\* happened.  After a turn that was interrupted nothing else of the process is
\* ended, so a late take finds its end still to be the last.
LastTurn == live.last.turn
LastInv ==
    /\ LastTurn # NoTurn =>
          /\ how[LastTurn] # "none"
          /\ live.last.fate = "counted" => how[LastTurn] \in {"retry", "crash"}
          /\ Attached /\ how[LastTurn] = "interrupted" => cli.state = "gone" /\ \A e \in Said(cli) : ~IsEnd(e)
    /\ adm.pc = "opening" => LastTurn = NoTurn
    /\ \A t \in Turns : turn[t].status = "failed" => how[t] \in {"failed", "retry", "crash"}
    /\ Fenced /\ Attached /\ cli.turn # NoTurn => turn[cli.turn].status \in {"none", "running"}
    /\ adm.pc \in Handing /\ Fenced /\ turn[adm.turn].status = "interrupted" =>
          LastTurn = adm.turn /\ how[adm.turn] = "interrupted"

\* What the pump records when it reads the end of a turn.
LEMMA EndRead ==
    ASSUME TypeOK, ProcInv, NumberInv, PumpFinished
    PROVE  LET t   == Head(cli.q).turn
               out == Outcome(how[t], live.reason)
           IN  /\ t \in Turns /\ how[t] \in Ends /\ t # cli.turn /\ t < nextTurn
               /\ live'.last = [turn |-> t, fate |-> out.fate]
               /\ turn'[t].status = out.status
               /\ \A s \in Turns : s # t => turn'[s].status = turn[s].status
               /\ how' = how /\ nextTurn' = nextTurn /\ adm' = adm
               /\ IsEnd(Head(cli.q)) /\ Pops(cli, cli') /\ Attached /\ Fenced
  <1>. DEFINE t   == Head(cli.q).turn
              out == Outcome(how[t], live.reason)
  <1>1. /\ live \in LiveType /\ cli \in CliType /\ turn \in [Turns -> TurnRow] /\ epoch \in Nat
        /\ how \in [Turns -> Ends \cup {"none"}]
    BY Parts DEF TypeOK
  <1>2. Heard("finished") /\ Fenced /\ cli' = Popped /\ UNCHANGED <<how, nextTurn, adm>>
    BY DEF PumpFinished, Record
  <1>3. cli.q # <<>> /\ IsEnd(Head(cli.q)) /\ Pops(cli, cli') /\ Attached
    BY <1>2, HeardOf DEF IsEnd
  <1>4. Head(cli.q) \in Said(cli)
    BY <1>1, <1>3, HeadSaid
  <1>5. t \in Turns
    BY <1>1, <1>3, <1>4, SaidEvents
  <1>6. how[t] # "none" /\ t < nextTurn
    BY <1>3, <1>4 DEF NumberInv, EndsIn
  <1>7. t # cli.turn
    BY <1>5, <1>6 DEF NumberInv, EndsIn, Turns, NoTurn
  <1>8. live'.last = [turn |-> t, fate |-> out.fate]
    BY <1>1 DEF PumpFinished, LiveType
  <1>9. turn'[t].status = out.status /\ \A s \in Turns : s # t => turn'[s].status = turn[s].status
    <2>1. turn' = EndTurn(EnsureTurn(turn, t, epoch), t, out.status)
      BY DEF PumpFinished
    <2>2. EnsureTurn(turn, t, epoch) \in [Turns -> TurnRow]
      BY <1>1, <1>5 DEF EnsureTurn, TurnRow, TurnStates
    <2>3. \A s \in Turns : s # t => EnsureTurn(turn, t, epoch)[s] = turn[s]
      BY <1>1, <1>5 DEF EnsureTurn
    <2>. HIDE DEF t, out
    <2>. QED
      BY <1>5, <2>1, <2>2, <2>3 DEF EndTurn, TurnRow
  <1>10. how[t] \in Ends
    BY <1>1, <1>5, <1>6
  <1>. QED
    BY <1>2, <1>3, <1>5, <1>6, <1>7, <1>8, <1>9, <1>10

\* A turn's status and its wakes' fate are those of its end.
LEMMA OutcomeOf ==
    ASSUME NEW end \in Ends, NEW reason
    PROVE  /\ Outcome(end, reason).status = "failed" => end \in {"failed", "retry", "crash"}
           /\ Outcome(end, reason).status = "interrupted" => end = "interrupted"
           /\ Outcome(end, reason).status \in {"finished", "failed", "interrupted"}
           /\ Outcome(end, reason).fate = "counted" => end \in {"retry", "crash"} /\ Outcome(end, reason).status = "failed"
  BY DEF Outcome, Ends

LEMMA StepLast ==
    ASSUME TypeOK, TypeOK', HoldInv, ProcInv, ProcInv', QueueInv, NumberInv, NumberInv', LastInv, [Next]_vars
    PROVE  LastInv'
  <1>1. /\ cli \in CliType /\ cli' \in CliType /\ adm \in AdmType /\ (cli.turn # NoTurn => cli.turn \in Turns)
        /\ how \in [Turns -> Ends \cup {"none"}] /\ nextTurn \in Nat /\ live \in LiveType
        /\ (adm.pc \in {"accepted", "take"} => adm.turn \in Turns)
    BY Parts, StoreAssumption DEF TypeOK
  <1>2. \A t \in Turns : how[t] # "none" => how'[t] = how[t]
    <2>1. cli.turn # NoTurn => how[cli.turn] = "none"
      BY DEF NumberInv, EndsIn
    <2>. QED
      BY <2>1, WorldGrows DEF Turns, NoTurn
  <1>3. LastTurn \in TurnIds /\ (LastTurn # NoTurn => LastTurn \in Turns)
    BY <1>1, StoreAssumption DEF LastTurn, LiveType, TurnIds, Turns, NoTurn
  <1>4. CASE PumpFinished
    <2>. DEFINE t   == Head(cli.q).turn
                out == Outcome(how[t], live.reason)
    <2>1. /\ t \in Turns /\ how[t] \in Ends /\ t # cli.turn /\ t < nextTurn
          /\ live'.last.turn = t /\ live'.last.fate = out.fate
          /\ turn'[t].status = out.status
          /\ \A s \in Turns : s # t => turn'[s].status = turn[s].status
          /\ how' = how /\ adm' = adm
          /\ IsEnd(Head(cli.q)) /\ Pops(cli, cli') /\ Attached /\ Fenced
      BY <1>4, EndRead
    <2>2. /\ out.status = "failed" => how[t] \in {"failed", "retry", "crash"}
          /\ out.status = "interrupted" => how[t] = "interrupted"
          /\ out.fate = "counted" => how[t] \in {"retry", "crash"}
      BY <2>1, OutcomeOf
    <2>. HIDE DEF t, out
    <2>3. how[t] = "interrupted" => cli'.state = "gone" /\ \A e \in Said(cli') : ~IsEnd(e)
      <3>1. cli.q # <<>> /\ Head(cli.q).turn = t /\ Head(cli.q) = cli.q[1] /\ 1 \in 1 .. Len(cli.q)
        BY <1>1, <2>1, HeadSaid DEF Pops, t
      <3>2. how[t] = "interrupted" => cli.state = "gone" /\ \A j \in 1 + 1 .. Len(cli.q) : ~IsEnd(cli.q[j])
        BY <2>1, <3>1 DEF NumberInv, EndsIn
      <3>3. \A i \in 1 .. Len(cli'.q) : i + 1 \in 1 + 1 .. Len(cli.q) /\ cli'.q[i] = cli.q[i + 1]
        <4>1. Len(cli.q) \in Nat \ {0} /\ Len(cli'.q) = Len(cli.q) - 1
              /\ \A i \in 1 .. Len(cli'.q) : cli'.q[i] = cli.q[i + 1]
          BY <1>1, <2>1, PopKeeps
        <4>. QED
          BY <4>1
      <3>4. cli.state = "gone" => cli'.state = "gone"
        BY <2>1 DEF Pops, SameState
      <3>. QED
        BY <3>2, <3>3, <3>4 DEF Said
    <2>4. (LastTurn # NoTurn =>
             /\ how[LastTurn] # "none"
             /\ live.last.fate = "counted" => how[LastTurn] \in {"retry", "crash"}
             /\ Attached /\ how[LastTurn] = "interrupted" => cli.state = "gone" /\ \A e \in Said(cli) : ~IsEnd(e))'
      BY <2>1, <2>2, <2>3 DEF LastTurn, Ends
    <2>5. (adm.pc = "opening" => LastTurn = NoTurn)'
      BY <1>4, StepOpening DEF AttachBump, PumpFinished, world, Record, Heard, ProcInv
    <2>6. (\A s \in Turns : turn[s].status = "failed" => how[s] \in {"failed", "retry", "crash"})'
      BY <2>1, <2>2 DEF LastInv
    <2>7. (Fenced /\ Attached /\ cli.turn # NoTurn => turn[cli.turn].status \in {"none", "running"})'
      BY <1>1, <2>1 DEF LastInv, Pops
    <2>8. (adm.pc \in Handing /\ Fenced /\ turn[adm.turn].status = "interrupted" =>
             LastTurn = adm.turn /\ how[adm.turn] = "interrupted")'
      <3>1. CASE adm.turn = t
        BY <2>1, <2>2, <3>1 DEF LastTurn
      <3>2. CASE adm.turn # t
        <4>1. Head(cli.q) \in Said(cli)
          BY <1>1, <2>1, HeadSaid DEF Pops
        <4>2. LastTurn = NoTurn \/ how[LastTurn] # "interrupted"
          BY <2>1, <4>1 DEF LastInv
        <4>3. adm.pc \in Handing => adm.turn \in Turns /\ adm.turn # NoTurn
          BY <1>1 DEF Handing, Turns, NoTurn
        <4>. QED
          BY <2>1, <3>2, <4>2, <4>3 DEF LastInv
      <3>. QED
        BY <3>1, <3>2
    <2>. QED
      BY <2>4, <2>5, <2>6, <2>7, <2>8 DEF LastInv
  <1>5. CASE ~PumpFinished
    <2>1. (LastTurn # NoTurn =>
             /\ how[LastTurn] # "none"
             /\ live.last.fate = "counted" => how[LastTurn] \in {"retry", "crash"}
             /\ Attached /\ how[LastTurn] = "interrupted" => cli.state = "gone" /\ \A e \in Said(cli) : ~IsEnd(e))'
      <3>1. live'.last = live.last \/ LastTurn' = NoTurn
        BY <1>5, StepLastEnd DEF LastTurn
      <3>2. ASSUME live'.last = live.last, LastTurn # NoTurn, Attached', how[LastTurn] = "interrupted"
            PROVE  cli'.state = "gone" /\ \A e \in Said(cli') : ~IsEnd(e)
        <4>1. CASE Gone
          <5>1. LastTurn' = NoTurn
            BY <4>1 DEF Gone, LastTurn, NoLive, Opening, NoEnd
          <5>. QED
            BY <3>2, <5>1 DEF LastTurn
        <4>2. ~Open
          BY <3>2 DEF Open, LastInv
        <4>3. CASE ~Gone
          <5>1. Attached
            <6>1. ~(AttachBump /\ ~retired)
              BY <3>2 DEF AttachBump, Opening, NoEnd, LastTurn
            <6>. QED
              BY <3>2, <4>2, <4>3, <6>1, StepEpochs DEF Attached
          <5>2. cli.state = "gone" /\ \A e \in Said(cli) : ~IsEnd(e)
            BY <3>2, <5>1 DEF LastInv
          <5>3. Keeps(cli, cli') \/ Pops(cli, cli')
            BY <4>2, <4>3, <5>2, StepSaid DEF Says, Starts, Ends1, Exits, Serving
          <5>4. cli'.state = "gone"
            BY <5>2, <5>3 DEF Keeps, Pops, SameState
          <5>5. Said(cli') \subseteq Said(cli)
            BY <1>1, <5>3, PopSaid DEF Keeps, Said
          <5>. QED
            BY <5>2, <5>4, <5>5
        <4>. QED
          BY <4>1, <4>3
      <3>. QED
        BY <1>2, <1>3, <3>1, <3>2 DEF LastInv, LastTurn
    <2>2. (adm.pc = "opening" => LastTurn = NoTurn)'
      <3>1. CASE AttachBump /\ adm'.pc = "opening"
        <4>1. ~retired
          BY <3>1, AdmSteps DEF AttachBump
        <4>2. live' = Opening(epoch + 1)
          BY <3>1, <4>1 DEF AttachBump
        <4>. QED
          BY <4>2 DEF Opening, NoEnd, LastTurn
      <3>. QED
        BY <1>5, <3>1, StepOpening, StepLastEnd DEF LastInv, LastTurn
    <2>3. (\A t \in Turns : turn[t].status = "failed" => how[t] \in {"failed", "retry", "crash"})'
      BY <1>2, <1>5, StepStatus DEF LastInv
    <2>4. (Fenced /\ Attached /\ cli.turn # NoTurn => turn[cli.turn].status \in {"none", "running"})'
      <3>. SUFFICES ASSUME Fenced', Attached', cli'.turn # NoTurn
                    PROVE  turn'[cli'.turn].status \in {"none", "running"}
        OBVIOUS
      <3>1. Fenced /\ Attached /\ ~SettleStoreFailed /\ ~Boot
        BY StepFits
      <3>2. cli'.turn \in Turns /\ turn[cli'.turn].status \in {"none", "running"}
        <4>1. CASE cli'.turn = cli.turn
          BY <1>1, <3>1, <4>1 DEF LastInv
        <4>2. CASE cli'.turn # cli.turn
          <5>1. Starts(cli, cli') /\ cli'.turn = nextTurn
            BY <4>2, StepSaid, NewIsSilent DEF Keeps, Says, Pops, Renewed, Ends1, Exits
          <5>. QED
            BY <1>1, <5>1 DEF Starts, NumberInv
        <4>. QED
          BY <4>1, <4>2
      <3>. QED
        BY <1>5, <3>1, <3>2, StepStatus
    <2>5. (adm.pc \in Handing /\ Fenced /\ turn[adm.turn].status = "interrupted" =>
             LastTurn = adm.turn /\ how[adm.turn] = "interrupted")'
      <3>. SUFFICES ASSUME adm'.pc \in Handing, Fenced', turn'[adm'.turn].status = "interrupted"
                    PROVE  LastTurn' = adm'.turn /\ how'[adm'.turn] = "interrupted"
        OBVIOUS
      <3>1. Attached'
        BY DEF ProcInv, Handing, Handles
      <3>2. Fenced /\ Attached /\ ~SettleStoreFailed /\ ~Boot
        BY <3>1, StepFits
      <3>3. ~CliAccept
        <4>1. CliAccept => adm'.turn = cli'.turn
          BY <1>1 DEF CliAccept, AdmType
        <4>2. CliAccept => adm'.pc = "accepted"
          BY <1>1 DEF CliAccept, AdmType
        <4>3. adm'.pc = "accepted" => adm'.turn \in Turns
          BY DEF TypeOK
        <4>. QED
          BY <2>4, <3>1, <4>1, <4>2, <4>3 DEF Turns, NoTurn
      <3>4. adm.pc \in Handing /\ adm'.turn = adm.turn /\ adm.turn \in Turns
        BY <1>1, <3>3, StepTask DEF Handing
      <3>5. turn[adm.turn].status = "interrupted"
        BY <1>5, <3>2, <3>4, StepStatus
      <3>6. LastTurn = adm.turn /\ how[adm.turn] = "interrupted"
        BY <3>2, <3>4, <3>5 DEF LastInv
      <3>7. ~AttachBump /\ ~Gone
        BY <3>4, AdmSteps DEF AttachBump, Gone, Handing
      <3>8. live'.last = live.last
        BY <1>5, <3>7, StepLastEnd
      <3>. QED
        BY <1>2, <3>4, <3>6, <3>8 DEF LastTurn
    <2>. QED
      BY <2>1, <2>2, <2>3, <2>4, <2>5 DEF LastInv
  <1>. QED
    BY <1>4, <1>5

-----------------------------------------------------------------------------
(***************************************************************************)
(* A message is given up only after the failures that are counted: each    *)
(* redelivery of a wake is the failure of another turn that had it.        *)
(***************************************************************************)

\* The task still has to record w with turn t, and turn t is over.
Pending(w, t) == adm.pc \in Handing /\ adm.turn = t /\ w \in adm.ws
Over(t)       == turn[t].status \notin {"none", "running"}

\* The failed turns of wake w that were recorded with it.
Counted(w) == {t \in FailedTurns(w) : Over(t) /\ ~Pending(w, t)}

CountInv ==
    /\ \A w \in Wakes : wake[w].redelivery <= Cardinality(Counted(w))
    /\ adm.pc \in Holding => \A w \in adm.ws : wake[w].state \notin {"absent", "taken", "consumed"}

\* Sets of turns are finite, and one that has a turn more is larger.
LEMMA MoreTurns ==
    ASSUME NEW S, NEW T, S \subseteq T, T \subseteq Turns
    PROVE  /\ Cardinality(S) \in Nat /\ Cardinality(T) \in Nat /\ Cardinality(S) <= Cardinality(T)
           /\ \A t \in T : t \notin S => Cardinality(S) + 1 <= Cardinality(T)
  <1>1. IsFiniteSet(Turns)
    BY StoreAssumption, FS_Interval DEF Turns
  <1>2. IsFiniteSet(S) /\ IsFiniteSet(T)
    BY <1>1, FS_Subset
  <1>3. Cardinality(S) \in Nat /\ Cardinality(T) \in Nat /\ Cardinality(S) <= Cardinality(T)
    BY <1>2, FS_CardinalityType, FS_Subset
  <1>4. ASSUME NEW t \in T, t \notin S PROVE Cardinality(S) + 1 <= Cardinality(T)
    <2>1. IsFiniteSet(S \cup {t}) /\ Cardinality(S \cup {t}) = Cardinality(S) + 1
      BY <1>2, <1>4, FS_AddElement
    <2>2. S \cup {t} \subseteq T
      BY <1>4
    <2>3. Cardinality(S \cup {t}) <= Cardinality(T)
      BY <1>2, <2>2, FS_Subset
    <2>. QED
      BY <2>1, <2>3
  <1>. QED
    BY <1>3, <1>4

\* A counted failure stays one, whatever happens next.
LEMMA CountedGrows ==
    ASSUME TypeOK, TypeOK', HoldInv, ProcInv, QueueInv, NumberInv, [Next]_vars
    PROVE  \A w \in Wakes : Counted(w) \subseteq Counted(w)'
  <1>. SUFFICES ASSUME NEW w \in Wakes, NEW t \in Counted(w) PROVE t \in Counted(w)'
    OBVIOUS
  <1>1. t \in Turns /\ w \in got[t] /\ how[t] \in {"failed", "retry", "crash"} /\ Over(t) /\ ~Pending(w, t)
    BY DEF Counted, FailedTurns
  <1>2. t # cli.turn /\ t < nextTurn
    <2>1. t # cli.turn
      BY <1>1 DEF NumberInv, EndsIn, Turns, NoTurn
    <2>2. t \in Nat /\ nextTurn \in Nat
      BY <1>1, StoreAssumption DEF TypeOK, Turns
    <2>. QED
      BY <1>1, <2>1, <2>2 DEF NumberInv
  <1>3. w \in got'[t] /\ how'[t] = how[t]
    BY <1>1, <1>2, WorldGrows
  <1>4. Over(t)'
    <2>1. CASE PumpFinished
      BY <1>1, <2>1, EndRead, OutcomeOf DEF Over
    <2>2. CASE ~PumpFinished
      BY <1>1, <2>2, StepStatus DEF Over
    <2>. QED
      BY <2>1, <2>2
  <1>5. ~Pending(w, t)'
    <2>1. CASE CliAccept
      <3>1. adm'.turn = cli'.turn
        BY <2>1 DEF CliAccept, TypeOK, AdmType
      <3>2. cli'.turn = cli.turn \/ cli'.turn = nextTurn
        BY <2>1 DEF CliAccept, TypeOK, CliType
      <3>3. nextTurn \in Nat /\ t \in Nat
        BY <1>1, StoreAssumption DEF TypeOK, Turns
      <3>. QED
        BY <1>2, <3>1, <3>2, <3>3 DEF Pending
    <2>2. CASE ~CliAccept
      BY <1>1, <2>2, StepTask DEF Pending, Handing, Holding
    <2>. QED
      BY <2>1, <2>2
  <1>. QED
    BY <1>1, <1>3, <1>4, <1>5 DEF Counted, FailedTurns

\* Row v is r after a turn that took it ended: given back, counted if c, or
\* dropped.
GivenBack(v, r, c, ret) ==
    \/ /\ r.state = "dropped" /\ r.redelivery = v.redelivery
       /\ ret \/ (c /\ v.redelivery >= MaxRedeliveries)
    \/ r.state = "queued" /\ (r.redelivery = v.redelivery \/ (c /\ r.redelivery = v.redelivery + 1))

LEMMA HandBackRow ==
    ASSUME NEW wk \in [Wakes -> WakeRow], NEW w \in Wakes, NEW t, NEW c \in BOOLEAN, NEW ret
    PROVE  \/ HandBack(wk, t, c, ret)[w] = wk[w]
           \/ w \in TakenBy(wk, t) /\ GivenBack(wk[w], HandBack(wk, t, c, ret)[w], c, ret)
  <1>. USE DEF GivenBack
  <1>1. CASE w \notin TakenBy(wk, t)
    BY <1>1 DEF HandBack
  <1>2. CASE w \in TakenBy(wk, t) /\ (ret \/ (c /\ wk[w].redelivery >= MaxRedeliveries))
    <2>1. HandBack(wk, t, c, ret)[w] = [wk[w] EXCEPT !.state = "dropped"]
      BY <1>2 DEF HandBack
    <2>. QED
      BY <1>2, <2>1 DEF WakeRow
  <1>3. CASE w \in TakenBy(wk, t) /\ ~(ret \/ (c /\ wk[w].redelivery >= MaxRedeliveries))
    <2>1. HandBack(wk, t, c, ret)[w] = Requeue(wk[w], c)
      BY <1>3 DEF HandBack
    <2>2. wk[w].redelivery \in Nat
      BY StoreAssumption DEF WakeRow
    <2>3. Requeue(wk[w], c).state = "queued"
      BY DEF Requeue
    <2>4. CASE c
      BY <1>3, <2>1, <2>3, <2>4 DEF Requeue
    <2>5. CASE ~c
      BY <1>3, <2>1, <2>2, <2>3, <2>5 DEF Requeue
    <2>. QED
      BY <2>4, <2>5
  <1>. QED
    BY <1>1, <1>2, <1>3

\* A wake that no turn took is left alone by the end of one.
LEMMA SettleRow ==
    ASSUME NEW wk \in [Wakes -> WakeRow], NEW w \in Wakes, NEW t, NEW fate, NEW ret
    PROVE  LET r == Settle(wk, t, fate, ret)[w]
           IN  \/ r.redelivery = wk[w].redelivery /\ (r.state = "dropped" => wk[w].state = "dropped" \/ ret)
               \/ /\ fate = "counted" /\ w \in TakenBy(wk, t)
                  /\ \/ r.redelivery = wk[w].redelivery + 1 /\ r.state # "dropped"
                     \/ r.redelivery = wk[w].redelivery /\ wk[w].redelivery >= MaxRedeliveries
  <1>1. CASE fate = "consumed"
    <2>1. Settle(wk, t, fate, ret)[w] = IF w \in TakenBy(wk, t) THEN [wk[w] EXCEPT !.state = "consumed"] ELSE wk[w]
      BY <1>1 DEF Settle, Consume
    <2>. QED
      BY <2>1 DEF WakeRow
  <1>2. CASE fate # "consumed"
    <2>1. PICK c \in BOOLEAN : c = (fate = "counted")
      OBVIOUS
    <2>2. Settle(wk, t, fate, ret)[w] = HandBack(wk, t, c, ret)[w]
      BY <1>2, <2>1 DEF Settle
    <2>3. \/ HandBack(wk, t, c, ret)[w] = wk[w]
          \/ w \in TakenBy(wk, t) /\ GivenBack(wk[w], HandBack(wk, t, c, ret)[w], c, ret)
      BY HandBackRow
    <2>. QED
      BY <2>1, <2>2, <2>3 DEF GivenBack
  <1>. QED
    BY <1>1, <1>2

\* The same for the wakes handed to a turn that is over already.
LEMMA TakeRow ==
    ASSUME NEW wk \in [Wakes -> WakeRow], NEW w \in Wakes, NEW ws, NEW t \in Turns, NEW st, NEW last, NEW ret
    PROVE  LET r == TakeWakes(wk, ws, t, st, last, ret)[w]
           IN  \/ r.redelivery = wk[w].redelivery /\ (r.state = "dropped" => wk[w].state = "dropped" \/ ret)
               \/ /\ st # "running" /\ FateOf(st, t, last) = "counted" /\ (w \in ws \/ w \in TakenBy(wk, t))
                  /\ \/ r.redelivery = wk[w].redelivery + 1 /\ r.state # "dropped"
                     \/ r.redelivery = wk[w].redelivery /\ wk[w].redelivery >= MaxRedeliveries
  <1>1. ASSUME NEW s \in {"taken", "consumed"}
        PROVE  /\ Hand(wk, ws, t, s)[w].redelivery = wk[w].redelivery
               /\ Hand(wk, ws, t, s)[w].state = wk[w].state \/ (w \in ws /\ Hand(wk, ws, t, s)[w].state = s)
               /\ Hand(wk, ws, t, s)[w] = wk[w] \/ w \in ws
    BY DEF Hand, WakeRow
  <1>2. CASE st = "running" \/ FateOf(st, t, last) = "consumed"
    <2>1. \E s \in {"taken", "consumed"} : TakeWakes(wk, ws, t, st, last, ret) = Hand(wk, ws, t, s)
      BY <1>2 DEF TakeWakes
    <2>. QED
      BY <1>1, <2>1
  <1>3. CASE st # "running" /\ FateOf(st, t, last) # "consumed"
    <2>0. PICK h : h = Hand(wk, ws, t, "taken")
      OBVIOUS
    <2>1. h \in [Wakes -> WakeRow]
      <3>1. t \in TurnIds
        BY TurnIsId
      <3>2. \A r \in WakeRow : [r EXCEPT !.state = "taken", !.turn = t] \in WakeRow
        BY <3>1 DEF WakeRow, WakeStates
      <3>. QED
        BY <2>0, <3>2 DEF Hand
    <2>2. PICK c \in BOOLEAN : c = (FateOf(st, t, last) = "counted")
      OBVIOUS
    <2>3. TakeWakes(wk, ws, t, st, last, ret)[w] = HandBack(h, t, c, ret)[w]
      BY <1>3, <2>0, <2>2 DEF TakeWakes
    <2>4. w \in TakenBy(h, t) => w \in ws \/ w \in TakenBy(wk, t)
      BY <1>1, <2>0 DEF TakenBy
    <2>5. h[w].redelivery = wk[w].redelivery /\ (h[w].state = "dropped" => wk[w].state = "dropped")
      BY <1>1, <2>0
    <2>6. \/ HandBack(h, t, c, ret)[w] = h[w]
          \/ w \in TakenBy(h, t) /\ GivenBack(h[w], HandBack(h, t, c, ret)[w], c, ret)
      BY <2>1, HandBackRow
    <2>. QED
      BY <1>3, <2>2, <2>3, <2>4, <2>5, <2>6 DEF GivenBack
  <1>. QED
    BY <1>2, <1>3

\* The wakes of turns that are settled go back uncounted.
LEMMA SettleAllRow ==
    ASSUME NEW wk \in [Wakes -> WakeRow], NEW w \in Wakes, NEW ts, NEW ret
    PROVE  LET r == HandBackAll(wk, ts, ret)[w]
           IN  /\ r.redelivery = wk[w].redelivery /\ (r.state = "dropped" => wk[w].state = "dropped" \/ ret)
               /\ r = wk[w] \/ wk[w].state = "taken"
  <1>1. CASE wk[w].state = "taken" /\ wk[w].turn \in ts
    <2>1. HandBackAll(wk, ts, ret)[w] = HandBack(wk, wk[w].turn, FALSE, ret)[w]
      BY <1>1 DEF HandBackAll
    <2>2. LET r == HandBack(wk, wk[w].turn, FALSE, ret)[w]
          IN  r.redelivery = wk[w].redelivery /\ (r.state = "dropped" => wk[w].state = "dropped" \/ ret)
      <3>1. wk[w] \in WakeRow /\ wk[w].redelivery \in Nat
        BY StoreAssumption DEF WakeRow
      <3>2. CASE w \in TakenBy(wk, wk[w].turn) /\ ret
        BY <3>1, <3>2 DEF HandBack, WakeRow
      <3>3. CASE w \in TakenBy(wk, wk[w].turn) /\ ~ret
        BY <3>1, <3>3 DEF HandBack, Requeue
      <3>4. CASE w \notin TakenBy(wk, wk[w].turn)
        BY <3>4 DEF HandBack
      <3>. QED
        BY <3>2, <3>3, <3>4
    <2>. QED
      BY <1>1, <2>1, <2>2
  <1>2. CASE ~(wk[w].state = "taken" /\ wk[w].turn \in ts)
    BY <1>2 DEF HandBackAll
  <1>. QED
    BY <1>1, <1>2

\* A step counts a redelivery of wake w, or drops it for the count, only with the
\* failure of a turn that was not counted before.
CountsNew(w) == \E t \in FailedTurns(w)' : t \notin Counted(w) /\ t \in Counted(w)'

LEMMA StepRedelivery ==
    ASSUME TypeOK, TypeOK', HoldInv, ProcInv, QueueInv, NumberInv, LastInv, GotInv, CountInv, TakenHasRunningTurn,
           [Next]_vars, NEW w \in Wakes
    PROVE  \/ /\ wake'[w].redelivery = wake[w].redelivery
              /\ wake'[w].state = "dropped" =>
                    \/ wake[w].state = "dropped" \/ retired
                    \/ adm.pc = "sending" /\ w \in adm.ws /\ adm'.pc = "none" /\ up' = "up"
           \/ /\ CountsNew(w)
              /\ \/ wake'[w].redelivery = wake[w].redelivery + 1 /\ wake'[w].state # "dropped"
                 \/ wake'[w].redelivery = wake[w].redelivery /\ wake[w].redelivery >= MaxRedeliveries
  <1>1. wake \in [Wakes -> WakeRow] /\ (adm.pc = "take" => adm.turn \in Turns) /\ turn \in [Turns -> TurnRow]
    BY DEF TypeOK
  <1>2. \A t \in FailedTurns(w) : t \in FailedTurns(w)'
    <2>1. \A t \in Turns : how[t] # "none" => t # cli.turn
      BY DEF NumberInv, EndsIn, Turns, NoTurn
    <2>. QED
      BY <2>1, WorldGrows DEF FailedTurns
  <1>3. CASE UNCHANGED <<wake, turn, retired>> \/ PumpStarted
    BY <1>3 DEF PumpStarted
  <1>4. CASE \E v \in Wakes : Delivered(v)
    BY <1>1, <1>4 DEF Delivered, Enqueue, WakeRow
  <1>5. CASE Recycled
    BY <1>1, <1>5 DEF Recycled, MoveQueued, WakeRow
  <1>6. CASE adm.pc = "sending" /\ adm'.pc = "none" /\ up' = "up" /\ Refused(adm.ws)
    BY <1>1, <1>6 DEF Refused, Drop, WakeRow
  <1>7. CASE adm.pc = "take" /\ adm'.pc = "none" /\ Fenced /\ Handed(adm.ws, adm.turn)
    <2>1. PICK t \in Turns : t = adm.turn
      BY <1>1, <1>7
    <2>2. PICK st : st = turn'[t].status
      OBVIOUS
    <2>3. wake' = TakeWakes(wake, adm.ws, t, st, live.last, retired)
      BY <1>7, <2>1, <2>2 DEF Handed
    <2>4. PICK last : last = live.last
      OBVIOUS
    <2>5. LET r == TakeWakes(wake, adm.ws, t, st, last, retired)[w]
          IN  \/ r.redelivery = wake[w].redelivery /\ (r.state = "dropped" => wake[w].state = "dropped" \/ retired)
              \/ /\ st # "running" /\ FateOf(st, t, last) = "counted" /\ (w \in adm.ws \/ w \in TakenBy(wake, t))
                 /\ \/ r.redelivery = wake[w].redelivery + 1 /\ r.state # "dropped"
                    \/ r.redelivery = wake[w].redelivery /\ wake[w].redelivery >= MaxRedeliveries
      BY <1>1, TakeRow
    <2>6. ASSUME st # "running", FateOf(st, t, last) = "counted", w \in adm.ws \/ w \in TakenBy(wake, t)
          PROVE  CountsNew(w)
      <3>1. turn[t].status = st /\ st \notin {"none", "running"}
        BY <1>1, <1>7, <2>1, <2>2, <2>6 DEF Handed, EnsureTurn
      <3>2. w \in adm.ws
        <4>1. t \notin Running(turn)
          BY <3>1 DEF Running
        <4>2. w \notin TakenBy(wake, t)
          BY <4>1 DEF TakenBy, TakenHasRunningTurn
        <4>. QED
          BY <2>6, <4>2
      <3>3. how[t] \in {"failed", "retry", "crash"}
        <4>1. st \in TurnStates
          BY <1>1, <3>1 DEF TurnRow
        <4>2. CASE live.last.turn = t
          BY <2>4, <2>6, <3>1, <4>2 DEF FateOf, LastInv, LastTurn, Turns, NoTurn
        <4>3. CASE live.last.turn # t
          <5>1. st # "finished"
            BY <2>4, <2>6, <4>3 DEF FateOf
          <5>2. st # "interrupted"
            BY <1>7, <2>1, <3>1, <4>3 DEF LastInv, LastTurn, Handing
          <5>. QED
            BY <3>1, <4>1, <5>1, <5>2 DEF LastInv, TurnStates
        <4>. QED
          BY <4>2, <4>3
      <3>4. t \in FailedTurns(w) /\ t \notin Counted(w)
        BY <1>7, <2>1, <3>1, <3>2, <3>3 DEF GotInv, Handing, FailedTurns, Counted, Pending
      <3>5. Over(t)' /\ ~Pending(w, t)'
        BY <1>7, <2>2, <3>1 DEF Over, Pending, Handing
      <3>6. t \in FailedTurns(w)'
        BY <1>2, <3>4
      <3>. QED
        BY <3>4, <3>5, <3>6 DEF CountsNew, Counted
    <2>. QED
      BY <2>3, <2>4, <2>5, <2>6
  <1>8. CASE PumpFinished
    <2>. DEFINE t   == Head(cli.q).turn
                out == Outcome(how[t], live.reason)
    <2>1. /\ t \in Turns /\ how[t] \in Ends /\ turn'[t].status = out.status /\ adm' = adm
      BY <1>8, EndRead
    <2>2. wake' = Settle(wake, t, out.fate, retired)
      BY <1>8 DEF PumpFinished
    <2>3. out.fate = "counted" => how[t] \in {"retry", "crash"} /\ out.status = "failed"
      BY <2>1, OutcomeOf
    <2>4. \E s \in Turns : \E f : s = t /\ f = out.fate
      BY <2>1
    <2>. HIDE DEF t, out
    <2>5. PICK s \in Turns : \E f : s = t /\ f = out.fate
      BY <2>4
    <2>6. PICK f : s = t /\ f = out.fate
      BY <2>5
    <2>7. wake' = Settle(wake, s, f, retired)
      BY <2>2, <2>6
    <2>8. LET r == Settle(wake, s, f, retired)[w]
          IN  \/ r.redelivery = wake[w].redelivery /\ (r.state = "dropped" => wake[w].state = "dropped" \/ retired)
              \/ /\ f = "counted" /\ w \in TakenBy(wake, s)
                 /\ \/ r.redelivery = wake[w].redelivery + 1 /\ r.state # "dropped"
                    \/ r.redelivery = wake[w].redelivery /\ wake[w].redelivery >= MaxRedeliveries
      BY <1>1, SettleRow
    <2>9. ASSUME f = "counted", w \in TakenBy(wake, s) PROVE CountsNew(w)
      <3>1. wake[w].state = "taken" /\ wake[w].turn = s
        BY <2>9 DEF TakenBy
      <3>2. w \in got[s] /\ s \in Running(turn)
        BY <3>1 DEF GotInv, TakenHasRunningTurn
      <3>3. s \in FailedTurns(w)
        BY <2>3, <2>6, <2>9, <3>2 DEF FailedTurns
      <3>4. s \notin Counted(w)
        BY <3>2 DEF Running, Counted, Over
      <3>5. Over(s)'
        BY <2>1, <2>3, <2>6, <2>9 DEF Over
      <3>6. ~Pending(w, s)'
        BY <2>1, <3>1 DEF Pending, CountInv, Handing, Holding
      <3>7. s \in FailedTurns(w)'
        BY <1>2, <3>3
      <3>. QED
        BY <3>4, <3>5, <3>6, <3>7 DEF CountsNew, Counted
    <2>. QED
      BY <2>7, <2>8, <2>9
  <1>9. CASE SettleStoreFailed \/ Boot
    <2>1. PICK ts : wake' = HandBackAll(wake, ts, retired)
      BY <1>9 DEF SettleStoreFailed, Boot
    <2>. QED
      BY <1>1, <2>1, SettleAllRow
  <1>. QED
    BY <1>3, <1>4, <1>5, <1>6, <1>7, <1>8, <1>9, StepRows

LEMMA StepCount ==
    ASSUME TypeOK, TypeOK', HoldInv, ProcInv, QueueInv, NumberInv, LastInv, GotInv, CountInv, TakenHasRunningTurn,
           [Next]_vars
    PROVE  CountInv'
  <1>1. wake \in [Wakes -> WakeRow] /\ adm \in AdmType
    BY DEF TypeOK
  <1>2. ASSUME NEW w \in Wakes PROVE wake'[w].redelivery <= Cardinality(Counted(w)')
    <2>1. Counted(w) \subseteq Counted(w)' /\ Counted(w)' \subseteq Turns
      BY CountedGrows DEF Counted, FailedTurns
    <2>2. /\ Cardinality(Counted(w)) \in Nat /\ Cardinality(Counted(w)') \in Nat
          /\ Cardinality(Counted(w)) <= Cardinality(Counted(w)')
          /\ CountsNew(w) => Cardinality(Counted(w)) + 1 <= Cardinality(Counted(w)')
      BY <2>1, MoreTurns DEF CountsNew
    <2>3. wake[w].redelivery \in Nat /\ wake[w].redelivery <= Cardinality(Counted(w))
      BY <1>1, StoreAssumption DEF WakeRow, CountInv
    <2>. QED
      BY <2>2, <2>3, StepRedelivery
  <1>3. ASSUME adm'.pc \in Holding, NEW w \in adm'.ws PROVE wake'[w].state \notin {"absent", "taken", "consumed"}
    <2>1. CASE adm'.ws = Queued(wake) /\ UNCHANGED wake
      BY <1>3, <2>1 DEF Queued
    <2>2. CASE adm.pc \in Holding /\ adm'.ws = adm.ws
      <3>1. w \in Wakes /\ wake[w].state \notin {"absent", "taken", "consumed"}
        BY <1>1, <1>3, <2>2 DEF AdmType, CountInv
      <3>2. CASE UNCHANGED <<wake, turn, retired>> \/ PumpStarted
        BY <3>1, <3>2 DEF PumpStarted
      <3>3. CASE \E v \in Wakes : Delivered(v)
        BY <1>1, <3>1, <3>3 DEF Delivered, Enqueue, WakeRow
      <3>4. CASE Recycled
        BY <1>1, <3>1, <3>4 DEF Recycled, MoveQueued, WakeRow
      <3>5. adm'.pc # "none"
        BY <1>3 DEF Holding
      <3>6. CASE PumpFinished
        <4>1. \A t : w \notin TakenBy(wake, t)
          BY <3>1 DEF TakenBy
        <4>2. PICK t, f : wake' = Settle(wake, t, f, retired)
          BY <3>6 DEF PumpFinished
        <4>3. wake'[w] = wake[w]
          BY <3>1, <4>1, <4>2 DEF Settle, Consume, HandBack
        <4>. QED
          BY <3>1, <4>3
      <3>7. CASE SettleStoreFailed \/ Boot
        <4>1. PICK ts : wake' = HandBackAll(wake, ts, retired)
          BY <3>7 DEF SettleStoreFailed, Boot
        <4>2. wake'[w] = wake[w]
          BY <1>1, <3>1, <4>1, SettleAllRow
        <4>. QED
          BY <3>1, <4>2
      <3>. QED
        BY <3>2, <3>3, <3>4, <3>5, <3>6, <3>7, StepRows
    <2>. QED
      BY <1>3, <2>1, <2>2, StepTask
  <1>. QED
    BY <1>2, <1>3 DEF CountInv

GiveUpInv == NumberInv /\ LastInv /\ CountInv

LEMMA InitGiveUp == Init => GiveUpInv
  <1>. SUFFICES ASSUME Init PROVE GiveUpInv
    OBVIOUS
  <1>1. NumberInv
    <2>1. cli.turn = NoTurn /\ cli.q = <<>> /\ Len(cli.q) = 0 /\ cli.state = "none"
      BY DEF Init, NoCli
    <2>2. Said(cli) = {} /\ 1 .. Len(cli.q) = {}
      BY <2>1 DEF Said
    <2>3. EndsIn(cli, how, nextTurn)
      BY <2>1, <2>2 DEF EndsIn
    <2>. QED
      BY <2>1, <2>3 DEF NumberInv, Init, NoRow, NoAdm, Handing
  <1>2. LastInv
    <2>1. LastTurn = NoTurn /\ adm.pc = "none" /\ cli.turn = NoTurn
      <3>1. Opening(0).last = NoEnd
        BY DEF Opening
      <3>2. NoLive.last = NoEnd
        BY <3>1, LiveStarts DEF NoLive, LiveType
      <3>. QED
        BY <3>2 DEF Init, LastTurn, NoEnd, NoAdm, NoCli
    <2>2. \A t \in Turns : turn[t].status = "none"
      BY DEF Init, NoRow
    <2>. QED
      BY <2>1, <2>2 DEF LastInv, Handing
  <1>3. CountInv
    <2>1. ASSUME NEW w \in Wakes PROVE wake[w].redelivery <= Cardinality(Counted(w))
      <3>1. wake[w].redelivery = 0
        BY DEF Init, NoWake
      <3>2. Counted(w) \subseteq Turns
        BY DEF Counted, FailedTurns
      <3>3. Cardinality(Counted(w)) \in Nat
        BY <3>2, MoreTurns
      <3>. QED
        BY <3>1, <3>3
    <2>2. adm.pc = "none"
      BY DEF Init, NoAdm
    <2>. QED
      BY <2>1, <2>2 DEF CountInv, Holding
  <1>. QED
    BY <1>1, <1>2, <1>3 DEF GiveUpInv

LEMMA GiveUpCorrect == Spec => []GiveUpInv
  <1>1. ASSUME TypeOK, TypeOK', CliInv, CliInv', GotInv, TakenHasRunningTurn, GiveUpInv, [Next]_vars PROVE GiveUpInv'
    <2>1. NumberInv'
      BY <1>1, StepNumber DEF CliInv, GiveUpInv
    <2>2. LastInv'
      BY <1>1, <2>1, StepLast DEF CliInv, GiveUpInv
    <2>3. CountInv'
      BY <1>1, StepCount DEF CliInv, GiveUpInv
    <2>. QED
      BY <2>1, <2>2, <2>3 DEF GiveUpInv
  <1>. QED
    BY <1>1, InitGiveUp, TypeCorrect, CliCorrect, GotCorrect, TakenIsRunning, PTL DEF Spec

\* A message is given up after the failures of more than MAX_REDELIVERIES turns
\* that received it, and of no fewer: a restart, a shutdown, a write that failed
\* or a turn the user interrupted never counts, and no failure counts twice; or
\* because its session is retired, or its CLI refused it for good.
THEOREM GivenUpIsFailed == Spec => GivenUpAfterFailures
  <1>1. ASSUME TypeOK, TypeOK', CliInv, GotInv, TakenHasRunningTurn, GiveUpInv, [Next]_vars,
               NEW w \in Wakes, wake[w].state # "dropped", wake'[w].state = "dropped"
        PROVE  \/ Cardinality(FailedTurns(w)') > MaxRedeliveries
               \/ retired
               \/ adm.pc = "sending" /\ w \in adm.ws /\ adm'.pc # "sending" /\ up' = "up"
    <2>1. CASE CountsNew(w) /\ wake[w].redelivery >= MaxRedeliveries
      <3>1. Counted(w) \subseteq FailedTurns(w)' /\ FailedTurns(w)' \subseteq Turns
        <4>1. Counted(w) \subseteq Counted(w)'
          BY <1>1, CountedGrows DEF CliInv, GiveUpInv
        <4>2. Counted(w)' \subseteq FailedTurns(w)' /\ FailedTurns(w)' \subseteq Turns
          BY DEF Counted, FailedTurns
        <4>. QED
          BY <4>1, <4>2
      <3>2. PICK t \in FailedTurns(w)' : t \notin Counted(w)
        BY <2>1 DEF CountsNew
      <3>3. /\ Cardinality(Counted(w)) \in Nat /\ Cardinality(FailedTurns(w)') \in Nat
            /\ Cardinality(Counted(w)) + 1 <= Cardinality(FailedTurns(w)')
        BY <3>1, <3>2, MoreTurns
      <3>4. wake[w].redelivery \in Nat /\ wake[w].redelivery <= Cardinality(Counted(w)) /\ MaxRedeliveries \in Nat
        BY <1>1, StoreAssumption DEF TypeOK, WakeRow, GiveUpInv, CountInv
      <3>. QED
        BY <2>1, <3>3, <3>4
    <2>2. CASE ~(CountsNew(w) /\ wake[w].redelivery >= MaxRedeliveries)
      BY <1>1, <2>2, StepRedelivery DEF CliInv, GiveUpInv
    <2>. QED
      BY <2>1, <2>2
  <1>2. TypeOK /\ TypeOK' /\ CliInv /\ GotInv /\ TakenHasRunningTurn /\ GiveUpInv /\ [Next]_vars =>
           [\A w \in Wakes : wake[w].state # "dropped" /\ wake'[w].state = "dropped" =>
              \/ Cardinality(FailedTurns(w)') > MaxRedeliveries
              \/ retired
              \/ adm.pc = "sending" /\ w \in adm.ws /\ adm'.pc # "sending" /\ up' = "up"]_vars
    BY <1>1
  <1>. QED
    BY <1>2, TypeCorrect, CliCorrect, GotCorrect, TakenIsRunning, GiveUpCorrect, PTL DEF Spec, GivenUpAfterFailures

-----------------------------------------------------------------------------
(***************************************************************************)
(* The turn that is shown.                                                 *)
(***************************************************************************)

\* Turns end in the order they began: what process c runs is the newest of n - 1
\* turns, and after the newest's end it says no other.
OrderIn(c, n) ==
    /\ c.turn # NoTurn => c.turn = n - 1
    /\ \A i \in 1 .. Len(c.q) : IsEnd(c.q[i]) /\ c.q[i].turn = n - 1 =>
          \A j \in i + 1 .. Len(c.q) : ~IsEnd(c.q[j])

\* Once the pump recorded the newest turn's end there is no end to read.
OrderInv ==
    /\ OrderIn(cli, nextTurn)
    /\ LastTurn # NoTurn /\ LastTurn = nextTurn - 1 /\ Attached => \A e \in Said(cli) : ~IsEnd(e)

\* The turn that is shown, and the one that an input the CLI has will be shown as,
\* are not over, or the pump knows it.
ShownInv ==
    /\ Alive /\ live.turn # NoTurn => Ahead(live.turn)
    /\ adm.pc = "accepted" => adm.turn = nextTurn - 1
    /\ Alive /\ adm.pc = "accepted" => Ahead(adm.turn) \/ LastTurn = adm.turn

LEMMA OrderStays ==
    ASSUME NEW c \in CliType, NEW d \in CliType, NEW n \in Nat, OrderIn(c, n),
           Keeps(c, d) \/ Says(c, d) \/ Pops(c, d) \/ Renewed(c, d)
    PROVE  OrderIn(d, n)
  <1>1. c.q \in Seq(Events) /\ d.q \in Seq(Events) /\ Len(c.q) \in Nat /\ Len(d.q) \in Nat
    BY DEF CliType
  <1>2. CASE Keeps(c, d)
    BY <1>2 DEF Keeps, OrderIn
  <1>3. CASE Renewed(c, d)
    BY <1>3 DEF Renewed, OrderIn
  <1>4. CASE Says(c, d)
    <2>. DEFINE e == [kind |-> "idle", turn |-> NoTurn]
    <2>1. e \in Events /\ ~IsEnd(e) /\ d.q = Append(c.q, e) /\ d.turn = c.turn
      BY <1>4, EventTypes DEF Says, IsEnd
    <2>. HIDE DEF e
    <2>2. Len(d.q) = Len(c.q) + 1 /\ d.q[Len(d.q)] = e /\ \A i \in 1 .. Len(c.q) : d.q[i] = c.q[i]
      BY <1>1, <2>1, AppendProperties
    <2>3. ASSUME NEW i \in 1 .. Len(d.q), IsEnd(d.q[i]), d.q[i].turn = n - 1, NEW j \in i + 1 .. Len(d.q), IsEnd(d.q[j])
          PROVE  FALSE
      <3>1. i # Len(d.q) /\ j # Len(d.q)
        BY <2>1, <2>2, <2>3
      <3>2. i \in 1 .. Len(c.q) /\ j \in i + 1 .. Len(c.q) /\ j \in 1 .. Len(c.q)
        BY <1>1, <2>2, <2>3, <3>1
      <3>. QED
        BY <2>2, <2>3, <3>2 DEF OrderIn
    <2>. QED
      BY <2>1, <2>3 DEF OrderIn
  <1>5. CASE Pops(c, d)
    <2>1. Len(c.q) \in Nat \ {0} /\ Len(d.q) = Len(c.q) - 1 /\ \A i \in 1 .. Len(d.q) : d.q[i] = c.q[i + 1]
      BY <1>5, PopKeeps
    <2>2. ASSUME NEW i \in 1 .. Len(d.q), IsEnd(d.q[i]), d.q[i].turn = n - 1, NEW j \in i + 1 .. Len(d.q)
          PROVE  ~IsEnd(d.q[j])
      <3>0. i \in Nat /\ j \in Nat /\ 1 =< i /\ i + 1 =< j /\ j =< Len(c.q) - 1 /\ Len(c.q) \in Nat
        BY <2>1, <2>2
      <3>1. i + 1 \in 1 .. Len(c.q) /\ j + 1 \in (i + 1) + 1 .. Len(c.q) /\ j \in 1 .. Len(d.q)
        BY <2>1, <3>0
      <3>2. d.q[i] = c.q[i + 1] /\ d.q[j] = c.q[j + 1]
        BY <2>1, <3>1
      <3>. QED
        BY <2>2, <3>1, <3>2 DEF OrderIn
    <2>. QED
      BY <1>5, <2>2 DEF Pops, OrderIn
  <1>. QED
    BY <1>2, <1>3, <1>4, <1>5

LEMMA OrderStart ==
    ASSUME NEW c \in CliType, NEW d \in CliType, NEW h, NEW n \in Nat, EndsIn(c, h, n), Starts(c, d), d.turn = n
    PROVE  OrderIn(d, n + 1)
  <1>. DEFINE e == [kind |-> "started", turn |-> d.turn]
  <1>1. d.q = Append(c.q, e) /\ d.turn \in Turns
    BY DEF Starts
  <1>2. e \in Events /\ ~IsEnd(e)
    BY <1>1, EventTypes DEF IsEnd
  <1>. HIDE DEF e
  <1>3. \A i \in 1 .. Len(d.q) : d.q[i] = e \/ (d.q[i] = c.q[i] /\ i \in 1 .. Len(c.q) /\ c.q[i] \in Said(c))
    BY <1>1, <1>2, SaysMore
  <1>4. \A i \in 1 .. Len(d.q) : ~(IsEnd(d.q[i]) /\ d.q[i].turn = n)
    BY <1>2, <1>3 DEF EndsIn
  <1>5. (n + 1) - 1 = n
    OBVIOUS
  <1>. QED
    BY <1>4, <1>5 DEF OrderIn

LEMMA OrderEnd ==
    ASSUME NEW c \in CliType, NEW d \in CliType, NEW h, NEW n \in Nat, EndsIn(c, h, n), OrderIn(c, n),
           Ends1(c, d) \/ Exits(c, d)
    PROVE  OrderIn(d, n)
  <1>1. c.q \in Seq(Events) /\ Len(c.q) \in Nat /\ Len(d.q) \in Nat /\ d.turn = NoTurn
    BY DEF CliType, Ends1, Exits
  <1>2. c.turn # NoTurn => c.turn = n - 1 /\ \A e \in Said(c) : ~(IsEnd(e) /\ e.turn = n - 1)
    BY DEF OrderIn, EndsIn
  <1>3. CASE Ends1(c, d)
    <2>0. c.turn \in Turns /\ d.q = Append(c.q, End(c.turn))
      BY <1>3 DEF Ends1
    <2>1. End(c.turn) \in Events /\ d.q = Append(c.q, End(c.turn)) /\ c.turn # NoTurn
      <3>1. End(c.turn) \in Events
        BY <2>0, EventTypes
      <3>2. c.turn # NoTurn
        BY <2>0 DEF Turns, NoTurn
      <3>. QED
        BY <2>0, <3>1, <3>2
    <2>2. Len(d.q) = Len(c.q) + 1 /\ \A i \in 1 .. Len(c.q) : d.q[i] = c.q[i]
      BY <1>1, <2>1, AppendProperties
    <2>3. ASSUME NEW i \in 1 .. Len(d.q), IsEnd(d.q[i]), d.q[i].turn = n - 1 PROVE i = Len(d.q)
      <3>1. ASSUME i \in 1 .. Len(c.q) PROVE FALSE
        <4>1. c.q[i] \in Said(c)
          BY <3>1 DEF Said
        <4>2. ~(IsEnd(c.q[i]) /\ c.q[i].turn = n - 1)
          BY <1>2, <2>1, <4>1
        <4>. QED
          BY <2>2, <2>3, <3>1, <4>2
      <3>. QED
        BY <1>1, <2>2, <3>1
    <2>4. \A j \in Len(d.q) + 1 .. Len(d.q) : FALSE
      BY <1>1
    <2>. QED
      BY <1>1, <2>3, <2>4 DEF OrderIn
  <1>4. CASE Exits(c, d)
    <2>1. CASE c.turn = NoTurn
      <3>1. d.q = c.q \o <<ClosedEvent>>
        BY <1>4, <2>1 DEF Exits
      <3>2. <<ClosedEvent>> \in Seq(Events) /\ Len(<<ClosedEvent>>) = 1 /\ <<ClosedEvent>>[1] = ClosedEvent
        BY EventTypes
      <3>3. Len(d.q) = Len(c.q) + 1 /\ d.q[Len(c.q) + 1] = ClosedEvent /\ \A i \in 1 .. Len(c.q) : d.q[i] = c.q[i]
        BY <1>1, <3>1, <3>2, ConcatProperties
      <3>4. ASSUME NEW i \in 1 .. Len(d.q), IsEnd(d.q[i]), d.q[i].turn = n - 1,
                   NEW j \in i + 1 .. Len(d.q), IsEnd(d.q[j])
            PROVE  FALSE
        <4>1. i # Len(d.q) /\ j # Len(d.q)
          BY <3>3, <3>4 DEF IsEnd, ClosedEvent
        <4>2. i \in 1 .. Len(c.q) /\ j \in i + 1 .. Len(c.q) /\ j \in 1 .. Len(c.q)
          BY <1>1, <3>3, <3>4, <4>1, SMTT(30)
        <4>. QED
          BY <3>3, <3>4, <4>2 DEF OrderIn
      <3>. QED
        BY <1>1, <3>4 DEF OrderIn
    <2>2. CASE c.turn # NoTurn
      <3>1. ASSUME NEW i \in 1 .. Len(d.q), IsEnd(d.q[i]), d.q[i].turn = n - 1
            PROVE  \A j \in i + 1 .. Len(d.q) : d.q[j] = ClosedEvent
        <4>1. ~IsEnd(ClosedEvent)
          BY DEF IsEnd, ClosedEvent
        <4>2. ~(d.q[i] = c.q[i] /\ c.q[i] \in Said(c))
          BY <1>2, <2>2, <3>1
        <4>. QED
          BY <1>4, <3>1, <4>1, <4>2, ExitSays
      <3>. QED
        BY <1>1, <3>1 DEF OrderIn, IsEnd, ClosedEvent
    <2>. QED
      BY <2>1, <2>2
  <1>. QED
    BY <1>3, <1>4

LEMMA StepOrder ==
    ASSUME TypeOK, TypeOK', HoldInv, ProcInv, ProcInv', QueueInv, NumberInv, LastInv, OrderInv, [Next]_vars
    PROVE  OrderInv'
  <1>1. /\ cli \in CliType /\ cli' \in CliType /\ nextTurn \in Nat /\ nextTurn' \in Nat
        /\ live \in LiveType /\ (cli.turn # NoTurn => cli.turn \in Turns)
        /\ how \in [Turns -> Ends \cup {"none"}]
    BY Parts, StoreAssumption DEF TypeOK
  <1>2. LastTurn \in Nat /\ (LastTurn # NoTurn => LastTurn \in Turns /\ LastTurn < nextTurn)
    <2>1. LastTurn \in Nat /\ (LastTurn # NoTurn => LastTurn \in Turns)
      BY <1>1, StoreAssumption DEF LastTurn, LiveType, TurnIds, Turns, NoTurn
    <2>2. LastTurn # NoTurn => how[LastTurn] # "none"
      BY DEF LastInv
    <2>. QED
      BY <1>1, <2>1, <2>2 DEF NumberInv
  <1>3. OrderIn(cli', nextTurn')
    <2>1. CASE nextTurn' = nextTurn /\ (Keeps(cli, cli') \/ Says(cli, cli') \/ Pops(cli, cli') \/ Renewed(cli, cli'))
      <3>1. OrderIn(cli', nextTurn)
        BY <1>1, <2>1, OrderStays DEF OrderInv
      <3>. QED
        BY <2>1, <3>1
    <2>2. CASE Starts(cli, cli') /\ cli'.turn = nextTurn /\ nextTurn' = nextTurn + 1
      <3>1. OrderIn(cli', nextTurn + 1)
        BY <1>1, <2>2, OrderStart DEF NumberInv
      <3>. QED
        BY <2>2, <3>1
    <2>3. CASE nextTurn' = nextTurn /\ (Ends1(cli, cli') \/ Exits(cli, cli'))
      <3>1. OrderIn(cli', nextTurn)
        BY <1>1, <2>3, OrderEnd DEF NumberInv, OrderInv
      <3>. QED
        BY <2>3, <3>1
    <2>4. CASE Gone
      <3>1. Renewed(cli, cli') /\ nextTurn' = nextTurn
        BY <2>4, NewIsSilent DEF Gone
      <3>. QED
        BY <2>1, <3>1
    <2>. QED
      BY <2>1, <2>2, <2>3, <2>4, StepSaid
  <1>4. ASSUME LastTurn' # NoTurn, LastTurn' = nextTurn' - 1, Attached'
        PROVE  \A e \in Said(cli') : ~IsEnd(e)
    <2>1. CASE PumpFinished
      <3>1. /\ LastTurn' = Head(cli.q).turn /\ nextTurn' = nextTurn
            /\ IsEnd(Head(cli.q)) /\ Pops(cli, cli')
        BY <2>1, EndRead DEF LastTurn
      <3>2. cli.q # <<>> /\ Head(cli.q) = cli.q[1] /\ 1 \in 1 .. Len(cli.q)
        BY <1>1, <3>1, HeadSaid DEF Pops
      <3>3. \A j \in 1 + 1 .. Len(cli.q) : ~IsEnd(cli.q[j])
        BY <1>4, <3>1, <3>2 DEF OrderInv, OrderIn
      <3>4. Len(cli.q) \in Nat \ {0} /\ Len(cli'.q) = Len(cli.q) - 1 /\ \A i \in 1 .. Len(cli'.q) : cli'.q[i] = cli.q[i + 1]
        BY <1>1, <3>1, PopKeeps
      <3>5. \A i \in 1 .. Len(cli'.q) : i + 1 \in 1 + 1 .. Len(cli.q) /\ cli'.q[i] = cli.q[i + 1]
        BY <3>4
      <3>. QED
        BY <3>3, <3>5 DEF Said
    <2>2. CASE ~PumpFinished
      <3>1. live'.last = live.last /\ LastTurn' = LastTurn
        BY <1>4, <2>2, StepLastEnd DEF LastTurn
      <3>2. CASE Gone \/ Open
        BY <3>2, NewIsSilent DEF Renewed, Said
      <3>3. CASE ~Gone /\ ~Open
        <4>1. ~(AttachBump /\ ~retired)
          BY <1>4 DEF AttachBump, Opening, NoEnd, LastTurn
        <4>2. Attached
          BY <1>4, <3>3, <4>1, StepEpochs DEF Attached
        <4>3. ~(Starts(cli, cli') /\ nextTurn' = nextTurn + 1)
          <5>1. LastTurn # NoTurn /\ LastTurn = nextTurn' - 1
            BY <1>4, <3>1
          <5>2. LastTurn < nextTurn /\ LastTurn \in Nat
            BY <1>2, <5>1
          <5>3. nextTurn' # nextTurn + 1
            <6>1. \A a, b, l \in Nat : l = b - 1 /\ l < a => b # a + 1
              OBVIOUS
            <6>. QED
              BY ZenonT(30), <1>1, <5>1, <5>2, <6>1
          <5>. QED
            BY <5>3
        <4>4. nextTurn' = nextTurn
          BY <3>3, <4>3, StepSaid
        <4>5. \A e \in Said(cli) : ~IsEnd(e)
          BY <1>4, <3>1, <4>2, <4>4 DEF OrderInv
        <4>6. cli.turn = NoTurn
          <5>1. cli.turn # NoTurn => cli.turn = nextTurn - 1 /\ how[cli.turn] = "none"
            BY DEF OrderInv, OrderIn, NumberInv, EndsIn
          <5>2. how[LastTurn] # "none" /\ LastTurn = nextTurn - 1
            BY <1>4, <3>1, <4>4 DEF LastInv
          <5>. QED
            BY <5>1, <5>2
        <4>7. CASE Keeps(cli, cli')
          BY <4>5, <4>7 DEF Keeps, Said
        <4>8. CASE Pops(cli, cli')
          BY <1>1, <4>5, <4>8, PopSaid
        <4>9. CASE Says(cli, cli')
          <5>. DEFINE e == [kind |-> "idle", turn |-> NoTurn]
          <5>1. e \in Events /\ ~IsEnd(e) /\ cli'.q = Append(cli.q, e)
            BY <4>9, EventTypes DEF Says, IsEnd
          <5>. HIDE DEF e
          <5>2. \A x \in Said(cli') : x \in Said(cli) \/ x = e
            BY <1>1, <5>1, SaysMore
          <5>. QED
            BY <4>5, <5>1, <5>2
        <4>10. CASE Exits(cli, cli')
          <5>1. \A i \in 1 .. Len(cli'.q) : cli'.q[i] = ClosedEvent \/ cli'.q[i] \in Said(cli)
            BY <1>1, <4>6, <4>10, ExitSays DEF Turns, NoTurn
          <5>2. ~IsEnd(ClosedEvent)
            BY DEF IsEnd, ClosedEvent
          <5>. QED
            BY <4>5, <5>1, <5>2 DEF Said
        <4>11. ~Ends1(cli, cli')
          BY <4>6 DEF Ends1, Turns, NoTurn
        <4>. QED
          BY <3>3, <4>3, <4>7, <4>8, <4>9, <4>10, <4>11, StepSaid
      <3>. QED
        BY <3>2, <3>3
    <2>. QED
      BY <2>1, <2>2
  <1>. QED
    BY <1>3, <1>4 DEF OrderInv

\* What an edit of the object leaves of the turn that is shown.
LEMMA TurnKept ==
    ASSUME NEW l \in LiveType
    PROVE  /\ EndInput(l).turn = l.turn
           /\ [l EXCEPT !.reason = TRUE].turn = l.turn /\ [l EXCEPT !.reg = FALSE].turn = l.turn
           /\ [l EXCEPT !.starting = FALSE].turn = l.turn /\ [l EXCEPT !.input = "open"].turn = l.turn
           /\ \A b : [l EXCEPT !.dying = b].turn = l.turn
  BY DEF LiveType, EndInput

\* A start that failed and a take found stale both end the object.
LEMMA AbandonKills ==
    ASSUME live \in LiveType, \/ TakeStale \/ \E retryable, recorded \in BOOLEAN : OpenFails(retryable, recorded)
    PROVE  live'.stale \/ live'.closed
  <1>1. CASE TakeStale
    BY <1>1, LiveKeeps DEF TakeStale, LiveType
  <1>2. CASE \E retryable, recorded \in BOOLEAN : OpenFails(retryable, recorded)
    <2>1. PICK retryable, recorded \in BOOLEAN : OpenFails(retryable, recorded)
      BY <1>2
    <2>2. live' = [live EXCEPT !.reg = FALSE, !.closed = TRUE]
      BY <2>1 DEF OpenFails
    <2>. QED
      BY <2>2 DEF LiveType
  <1>. QED
    BY <1>1, <1>2

\* An object is alive after a step only if it was, or is new.
LEMMA StepAlive ==
    ASSUME TypeOK, HoldInv, ProcInv, QueueInv, [Next]_vars, Alive'
    PROVE  \/ Alive /\ (Talks(cli, cli') \/ Open)
           \/ Alive /\ Pops(cli, cli') /\ (PumpStarted \/ PumpFinished \/ PumpIdle \/ PumpLateIdle)
           \/ AttachBump /\ live'.turn = NoTurn /\ adm'.pc = "opening"
  <1>1. live \in LiveType /\ cli \in CliType /\ Keeps(cli, cli)
    BY CloseKeeps DEF TypeOK
  <1>2. CASE Calm /\ Talks(cli, cli')
    BY <1>2 DEF Calm, Alive
  <1>3. CASE Calm /\ Pops(cli, cli') /\ (PumpStarted \/ PumpFinished \/ PumpIdle \/ PumpLateIdle)
    BY <1>3 DEF Calm, Alive
  <1>4. CASE AttachBump
    <2>1. CASE retired
      BY <1>1, <1>4, <2>1 DEF AttachBump, world, Talks, Alive
    <2>2. CASE ~retired
      <3>1. live' = Opening(epoch + 1) /\ Go("opening")
        BY <1>4, <2>2 DEF AttachBump
      <3>2. live'.turn = NoTurn /\ adm'.pc = "opening"
        BY <3>1, AdmSteps DEF AdmStates, Opening
      <3>. QED
        BY <1>4, <3>2
    <2>. QED
      BY <2>1, <2>2
  <1>5. CASE Open
    BY <1>5 DEF Open, Alive
  <1>6. CASE SettleStoreFailed \/ Boot
    BY <1>1, <1>6 DEF SettleStoreFailed, Boot, world, Talks, Alive
  <1>7. CASE Shutdown
    <2>1. live'.closed = live.closed /\ live'.stale = live.stale
      BY <1>1, <1>7 DEF Shutdown, LiveType, Alive
    <2>2. Keeps(cli, cli')
      BY <1>1, <1>7, CloseKeeps DEF Shutdown, Keeps
    <2>. QED
      BY <2>1, <2>2 DEF Talks, Alive
  <1>8. CASE TakeStale \/ \E retryable, recorded \in BOOLEAN : OpenFails(retryable, recorded)
    BY <1>1, <1>8, AbandonKills DEF Alive
  <1>9. CASE \/ \E code \in SendErrors \cup {"process_died"} : SendFailsUnrecorded(code)
             \/ PumpUnrecorded \/ PumpClosedUnrecorded \/ IdleMissingUnrecorded
    <2>1. PICK l \in LiveType, c \in CliType : Unrecorded(l, c)
      BY <1>9, LoudUnrecorded
    <2>. QED
      BY <2>1, LiveKeeps DEF Unrecorded, Alive
  <1>10. CASE PumpClosed
    BY <1>1, <1>10, LiveKeeps DEF PumpClosed, Alive
  <1>11. CASE PumpDrain
    BY <1>1, <1>11 DEF PumpDrain, LiveType, Alive
  <1>12. CASE Gone
    BY <1>12 DEF Gone, NoLive, Opening, Alive
  <1>. QED
    BY <1>2, <1>3, <1>4, <1>5, <1>6, <1>7, <1>8, <1>9, <1>10, <1>11, <1>12, StepKinds DEF Loud

\* An object that is alive shows the turn it showed, or none, but where a turn
\* starts or its input was accepted.
LEMMA StepShows ==
    ASSUME TypeOK, HoldInv, ProcInv, QueueInv, [Next]_vars, Alive'
    PROVE  live'.turn = live.turn \/ live'.turn = NoTurn \/ PumpStarted \/ SendReturn
  <1>1. live \in LiveType
    BY DEF TypeOK
  <1>2. CASE live' = live
    BY <1>2
  <1>3. CASE UNCHANGED vars \/ Api \/ Cli
    BY <1>2, <1>3 DEF vars, Api, Deliver, Pause, Resume, Retire, Cli, CliAccept, CliIdle, CliMissesIdle,
             CliLateIdle, CliOwnTurn, CliDies, CliDeathReported, CliCloseCalled, CliExit, OrphanExits, CliFinish
  <1>4. ASSUME NEW l \in LiveType, NEW c, Unrecorded(l, c) PROVE FALSE
    BY <1>4, LiveKeeps DEF Unrecorded, Alive
  <1>5. CASE \/ \E code \in SendErrors \cup {"process_died"} : SendFailsUnrecorded(code)
             \/ PumpUnrecorded \/ PumpClosedUnrecorded \/ IdleMissingUnrecorded
    BY <1>4, <1>5, LoudUnrecorded
  <1>6. CASE PassRead \/ Open \/ Look \/ Take \/ TakeFails
    BY <1>2, <1>6 DEF PassRead, Open, Look, Take, TakeFails
  <1>7. CASE PassAct \/ AttachWrite \/ AttachWriteFails \/ AttachClosed \/ Send
    BY <1>1, <1>7, TurnKept DEF PassAct, ClosesIdle, AttachWrite, AttachWriteFails, AttachClosed, Send
  <1>8. CASE TakeStale \/ \E retryable, recorded \in BOOLEAN : OpenFails(retryable, recorded)
    BY <1>1, <1>8, AbandonKills DEF Alive
  <1>9. CASE AttachBump
    <2>1. CASE retired
      BY <1>9, <2>1 DEF AttachBump
    <2>2. CASE ~retired
      BY <1>9, <2>2 DEF AttachBump, Opening
    <2>. QED
      BY <2>1, <2>2
  <1>10. CASE SendFindsDead \/ \E code \in SendErrors : SendFails(code)
    <2>. DEFINE l == IF Unsent THEN EndInput(live) ELSE live
    <2>1. l \in LiveType /\ l.turn = live.turn
      BY <1>1, LiveEdits, TurnKept
    <2>2. \E b : live' = [l EXCEPT !.dying = b]
      BY <1>10 DEF SendFindsDead, SendFails, Unopened
    <2>. HIDE DEF l
    <2>. QED
      BY <2>1, <2>2, TurnKept
  <1>11. CASE PumpFinished \/ PumpIdle \/ PumpLateIdle \/ PumpClosed \/ PumpDrain
    <2>1. CASE PumpFinished
      BY <1>1, <2>1 DEF PumpFinished, LiveType
    <2>2. CASE PumpIdle \/ PumpLateIdle
      BY <1>1, <2>2, TurnKept DEF PumpIdle, PumpLateIdle
    <2>3. CASE PumpClosed
      BY <1>1, <2>3, LiveKeeps DEF PumpClosed, Alive
    <2>4. CASE PumpDrain
      BY <1>1, <2>4 DEF PumpDrain, LiveType
    <2>. QED
      BY <1>11, <2>1, <2>2, <2>3, <2>4
  <1>12. CASE Timers /\ ~IdleMissingUnrecorded
    BY <1>1, <1>12, TurnKept DEF Timers, BackoffOver, IdleMissing, Release, ClosesIdle, PoolCloses, PoolReopens,
             SettleStoreFailed
  <1>13. CASE Life
    <2>1. CASE Shutdown
      BY <1>1, <2>1 DEF Shutdown, LiveType
    <2>2. CASE Gone
      BY <2>2 DEF Gone, NoLive, Opening
    <2>3. CASE Boot \/ RecheckSurvivor
      BY <1>2, <2>3 DEF Boot, RecheckSurvivor
    <2>. QED
      BY <1>13, <2>1, <2>2, <2>3 DEF Life, ShutdownDone, ServerCrash
  <1>. QED
    BY <1>3, <1>5, <1>6, <1>7, <1>8, <1>9, <1>10, <1>11, <1>12, <1>13 DEF Next, Admission, Pump, Timers

\* An input is accepted only by the CLI.
LEMMA StepAccepted ==
    ASSUME TypeOK, [Next]_vars, ~CliAccept, adm'.pc = "accepted"
    PROVE  adm.pc = "accepted" /\ adm'.turn = adm.turn
  <1>1. CASE adm' = adm
    BY <1>1
  <1>2. CASE UNCHANGED vars \/ Api \/ PassRead \/ Cli \/ Pump \/ Timers
    <2>1. adm' = adm
      BY <1>2 DEF vars, Api, Deliver, Pause, Resume, Retire, PassRead, Cli, CliIdle, CliMissesIdle, CliLateIdle,
                  CliOwnTurn, CliDies, CliDeathReported, CliCloseCalled, CliExit, OrphanExits, CliFinish,
                  Pump, PumpStarted, PumpFinished, PumpIdle, PumpLateIdle, PumpClosed, PumpUnrecorded,
                  PumpClosedUnrecorded, PumpDrain, Timers, BackoffOver, IdleMissing, IdleMissingUnrecorded,
                  Release, PoolCloses, PoolReopens, SettleStoreFailed
    <2>. QED
      BY <1>1, <2>1
  <1>3. CASE Life
    <2>1. adm' = adm \/ adm' = NoAdm
      BY <1>3 DEF Life, Shutdown, ShutdownDone, ServerCrash, Gone, Boot, RecheckSurvivor
    <2>. QED
      BY <1>1, <2>1, AdmSteps
  <1>4. CASE PassAct \/ AttachBump \/ Open \/ AttachWrite \/ AttachWriteFails \/ AttachClosed \/ Look \/ Send \/ SendReturn
    <2>1. adm' = adm \/ adm'.pc # "accepted"
      BY <1>4, AdmSteps, QueuedType DEF PassAct, AttachBump, Open, AttachWrite, AttachWriteFails, AttachClosed, Look,
                  Send, SendReturn, AdmStates
    <2>. QED
      BY <1>1, <2>1
  <1>5. CASE \/ Take \/ TakeStale \/ TakeFails \/ SendFindsDead \/ \E code \in SendErrors : SendFails(code)
             \/ \E code \in SendErrors \cup {"process_died"} : SendFailsUnrecorded(code)
             \/ \E retryable, recorded \in BOOLEAN : OpenFails(retryable, recorded)
    <2>1. adm' = NoAdm
      BY <1>5, AdmSteps DEF Take, TakeStale, TakeFails, SendFindsDead, SendFails, SendFailsUnrecorded, GaveUp, OpenFails
    <2>. QED
      BY <2>1, AdmSteps
  <1>. QED
    BY <1>2, <1>3, <1>4, <1>5 DEF Next, Admission

\* An event that is read and is no turn's end leaves every end to be read.
LEMMA PopAhead ==
    ASSUME TypeOK, TypeOK', Pops(cli, cli')
    PROVE  \A t \in Turns : Ahead(t) => Ahead(t)' \/ (Head(cli.q) = End(t) /\ PumpFinished)
                                     \/ ~(PumpStarted \/ PumpFinished \/ PumpIdle \/ PumpLateIdle)
  <1>1. cli \in CliType /\ cli' \in CliType
    BY DEF TypeOK
  <1>2. \A t \in Turns : Ahead(t) => Ahead(t)' \/ Head(cli.q) = End(t)
    BY <1>1, PopKeeps DEF Ahead
  <1>3. ASSUME NEW t, PumpStarted \/ PumpIdle \/ PumpLateIdle PROVE Head(cli.q) # End(t)
    BY <1>3 DEF PumpStarted, PumpIdle, PumpLateIdle, Record, Heard, End
  <1>. QED
    BY <1>2, <1>3

\* Without turns of the CLI's own, a turn begins only for an input.
LEMMA NoOwnTurn ==
    ASSUME "own" \notin Faults, [Next]_vars
    PROVE  CliAccept \/ nextTurn' = nextTurn
  <1>1. ~CliOwnTurn
    BY DEF CliOwnTurn, Spend
  <1>2. CliDeathReported \/ CliExit \/ Gone => nextTurn' = nextTurn
    BY DEF CliDeathReported, CliExit, Gone
  <1>3. ASSUME NEW end, CliFinish(end)
        PROVE  nextTurn' = nextTurn
    BY <1>3 DEF CliFinish
  <1>. QED
    BY <1>1, <1>2, <1>3, StepWorld

LEMMA StepShown ==
    ASSUME "own" \notin Faults, TypeOK, TypeOK', HoldInv, ProcInv, QueueInv, QueueInv', RunInv, NumberInv, LastInv,
           OrderInv, OrderInv', ShownInv, [Next]_vars
    PROVE  ShownInv'
  <1>1. /\ live \in LiveType /\ cli \in CliType /\ cli' \in CliType /\ adm \in AdmType
        /\ (adm.pc = "accepted" => adm.turn \in Turns) /\ (live.turn # NoTurn => live.turn \in Turns)
    BY Parts, StoreAssumption DEF TypeOK, LiveType, TurnIds, Turns, NoTurn
  <1>2. CASE CliAccept
    <2>1. /\ adm'.turn = cli'.turn /\ adm'.pc = "accepted" /\ live' = live /\ cli'.turn # NoTurn
      <3>1. adm'.turn = cli'.turn /\ adm'.pc = "accepted" /\ live' = live
        BY <1>1, <1>2 DEF CliAccept, AdmType
      <3>2. adm'.turn \in Turns
        BY <3>1 DEF TypeOK
      <3>. QED
        BY <3>1, <3>2 DEF Turns, NoTurn
    <2>2. Talks(cli, cli')
      BY <1>2, CliTalks DEF Cli
    <2>3. \A t \in Turns : Ahead(t) => Ahead(t)'
      BY <1>1, <2>2, TalkKeeps DEF Ahead
    <2>4. Ahead(adm.turn)' /\ adm'.turn = nextTurn' - 1
      BY <2>1 DEF Ahead, AheadIn, OrderInv, OrderIn
    <2>. QED
      BY <1>1, <2>1, <2>3, <2>4 DEF ShownInv, Alive
  <1>3. CASE ~CliAccept
    <2>1. nextTurn' = nextTurn
      BY <1>3, NoOwnTurn
    <2>2. adm'.pc = "accepted" => adm.pc = "accepted" /\ adm'.turn = adm.turn
      BY <1>3, StepAccepted
    <2>3. ASSUME Alive', adm'.pc = "accepted"
          PROVE  Ahead(adm.turn)' \/ LastTurn' = adm'.turn
      <3>1. adm.pc = "accepted" /\ adm'.turn = adm.turn /\ ~(AttachBump /\ adm'.pc = "opening") /\ ~Open
        BY <2>2, <2>3 DEF Open
      <3>2. PICK t \in Turns : t = adm.turn
        BY <1>1, <3>1
      <3>3. Alive /\ (Talks(cli, cli') \/ (Pops(cli, cli') /\ (PumpStarted \/ PumpFinished \/ PumpIdle \/ PumpLateIdle)))
        BY <2>3, <3>1, StepAlive
      <3>4. Ahead(t) => Ahead(t)' \/ (Head(cli.q) = End(t) /\ PumpFinished)
        <4>1. CASE Talks(cli, cli')
          BY <1>1, <4>1, TalkKeeps DEF Ahead
        <4>2. CASE Pops(cli, cli') /\ (PumpStarted \/ PumpFinished \/ PumpIdle \/ PumpLateIdle)
          BY <4>2, PopAhead
        <4>. QED
          BY <3>3, <4>1, <4>2
      <3>5. CASE PumpFinished
        <4>1. LastTurn' = Head(cli.q).turn /\ IsEnd(Head(cli.q)) /\ Pops(cli, cli') /\ Attached
          BY <3>5, EndRead DEF LastTurn
        <4>2. Head(cli.q) \in Said(cli)
          BY <1>1, <4>1, HeadSaid DEF Pops
        <4>3. t = nextTurn - 1 /\ t # NoTurn
          BY <3>1, <3>2 DEF ShownInv, Turns, NoTurn
        <4>4. LastTurn # t
          BY <4>1, <4>2, <4>3 DEF OrderInv
        <4>5. Ahead(t)
          BY <3>1, <3>2, <3>3, <4>4 DEF ShownInv
        <4>6. Head(cli.q) = End(t) => LastTurn' = t
          BY <4>1 DEF End
        <4>. QED
          BY <3>1, <3>2, <3>4, <4>5, <4>6
      <3>6. CASE ~PumpFinished
        <4>1. LastTurn' = LastTurn
          <5>1. ~Gone /\ (AttachBump => adm.pc = "attach")
            BY <2>3, AdmSteps DEF Gone, AttachBump
          <5>. QED
            BY <3>1, <3>6, <5>1, StepLastEnd DEF LastTurn
        <4>2. Ahead(t) => Ahead(t)'
          BY <3>4, <3>6
        <4>. QED
          BY <3>1, <3>2, <3>3, <4>1, <4>2 DEF ShownInv
      <3>. QED
        BY <3>5, <3>6
    <2>4. ASSUME Alive', live'.turn # NoTurn
          PROVE  Ahead(live.turn)'
      <3>1. CASE PumpStarted
        <4>1. Heard("started") /\ Head(cli.q).turn \in Turns
          BY <3>1, HeardType DEF PumpStarted, Record
        <4>2. PICK t \in Turns : t = Head(cli.q).turn
          BY <4>1
        <4>3. live'.turn = t
          BY <1>1, <3>1, <4>2 DEF PumpStarted, BeginTurn, LiveType
        <4>4. Pops(cli, cli')
          BY <3>1, PumpCalm
        <4>5. Ahead(t)
          <5>1. 1 \in 1 .. Len(cli.q) /\ cli.q[1].kind = "started" /\ cli.q[1].turn = t
            BY <1>1, <4>1, <4>2, <4>4, HeadSaid, HeardOf DEF Pops
          <5>2. cli.turn = cli.q[1].turn \/ \E j \in 1 + 1 .. Len(cli.q) : cli.q[j] = End(cli.q[1].turn)
            BY <5>1 DEF QueueInv, QueueIn
          <5>3. \A j \in 1 + 1 .. Len(cli.q) : j \in 1 .. Len(cli.q)
            BY <1>1 DEF CliType
          <5>. QED
            BY <5>1, <5>2, <5>3 DEF Ahead, AheadIn
        <4>6. Head(cli.q) # End(t)
          BY <4>1 DEF Heard, End
        <4>7. Ahead(t)'
          BY <3>1, <4>4, <4>5, <4>6, PopAhead
        <4>. QED
          BY <4>3, <4>7
      <3>2. CASE SendReturn
        <4>1. adm.pc = "accepted" /\ cli' = cli
          BY <3>2 DEF SendReturn, world
        <4>2. \/ live'.turn = live.turn
              \/ live'.turn = adm.turn /\ adm.turn # LastTurn
          <5>. DEFINE l == [live EXCEPT !.took = TRUE]
          <5>1. l \in LiveType /\ l.turn = live.turn /\ l.last = live.last
            BY <1>1 DEF LiveType
          <5>2. live' = l \/ (live' = BeginTurn(l, adm.turn) /\ adm.turn # l.last.turn)
            BY <3>2 DEF SendReturn
          <5>. HIDE DEF l
          <5>3. BeginTurn(l, adm.turn).turn = adm.turn
            BY <5>1 DEF BeginTurn, LiveType
          <5>. QED
            BY <5>1, <5>2, <5>3 DEF LastTurn
        <4>3. Alive
          BY <2>4, <3>2, StepAlive, AdmSteps DEF SendReturn, AttachBump
        <4>4. Ahead(live'.turn)
          BY <2>4, <4>1, <4>2, <4>3 DEF ShownInv
        <4>. QED
          BY <4>1, <4>4 DEF Ahead
      <3>3. CASE ~PumpStarted /\ ~SendReturn
        <4>1. live'.turn = live.turn /\ live.turn \in Turns
          BY <1>1, <2>4, <3>3, StepShows
        <4>2. PICK t \in Turns : t = live.turn
          BY <4>1
        <4>3. ~(AttachBump /\ live'.turn = NoTurn)
          BY <2>4
        <4>4. Alive /\ (Talks(cli, cli') \/ Open
                        \/ (Pops(cli, cli') /\ (PumpStarted \/ PumpFinished \/ PumpIdle \/ PumpLateIdle)))
          BY <2>4, <4>3, StepAlive
        <4>5. ~Open
          BY <2>4, <4>1 DEF Open, ProcInv
        <4>6. ~PumpFinished
          BY <1>1, <2>4 DEF PumpFinished, LiveType
        <4>7. Ahead(t)
          BY <2>4, <4>1, <4>2, <4>4 DEF ShownInv
        <4>8. Ahead(t)'
          <5>1. CASE Talks(cli, cli')
            BY <1>1, <4>7, <5>1, TalkKeeps DEF Ahead
          <5>2. CASE Pops(cli, cli') /\ (PumpStarted \/ PumpFinished \/ PumpIdle \/ PumpLateIdle)
            BY <4>6, <4>7, <5>2, PopAhead
          <5>. QED
            BY <4>4, <4>5, <5>1, <5>2
        <4>. QED
          BY <4>1, <4>2, <4>8
      <3>. QED
        BY <3>1, <3>2, <3>3
    <2>5. adm'.pc = "accepted" => adm'.turn = nextTurn' - 1
      BY <2>1, <2>2 DEF ShownInv
    <2>. QED
      BY <2>3, <2>4, <2>5 DEF ShownInv
  <1>. QED
    BY <1>2, <1>3

LEMMA InitShown == ASSUME Init PROVE OrderInv /\ ShownInv
  <1>1. live = NoLive /\ cli = NoCli /\ adm = NoAdm
    BY DEF Init
  <1>2. NoLive.closed /\ NoCli.turn = NoTurn /\ NoCli.q = <<>> /\ NoAdm.pc = "none"
    BY DEF NoLive, Opening, NoCli, NoAdm
  <1>3. Said(cli) = {} /\ Len(cli.q) = 0
    BY <1>1, <1>2 DEF Said
  <1>. QED
    BY <1>1, <1>2, <1>3 DEF OrderInv, OrderIn, ShownInv, Alive

\* The turn that is shown as running is one the CLI runs, or whose end is still to
\* be read, wherever the end overtakes the return of send: for every CLI that
\* begins turns only for our inputs.  (One that begins turns of its own breaks
\* it: the run's mix leaves them out.)
THEOREM TurnsShownAreReal ==
    ASSUME "own" \notin Faults
    PROVE  Spec => []TurnShownIsReal
  <1>1. ASSUME TypeOK, TypeOK', CliInv, CliInv', GiveUpInv, OrderInv, ShownInv, [Next]_vars PROVE (OrderInv /\ ShownInv)'
    <2>1. OrderInv'
      BY <1>1, StepOrder DEF CliInv, GiveUpInv
    <2>. QED
      BY <1>1, <2>1, StepShown DEF CliInv, GiveUpInv
  <1>2. ShownInv => TurnShownIsReal
    BY DEF ShownInv, TurnShownIsReal, Alive, Ahead, AheadIn, End
  <1>3. Init => OrderInv /\ ShownInv
    BY InitShown
  <1>. QED
    BY <1>1, <1>2, <1>3, TypeCorrect, CliCorrect, GiveUpCorrect, PTL DEF Spec

-----------------------------------------------------------------------------
(***************************************************************************)
(* While the server and its store hold, nothing is sent twice but after a  *)
(* failure.                                                                *)
(***************************************************************************)

\* The server is not stopped, its writes are made, and a CLI begins turns only
\* for our inputs; every other fault may happen.
Reliable == Faults \cap {"crash", "shutdown", "store", "own"} = {}

\* The process of the session's epoch is the one that is recorded, and no turn is
\* interrupted: a process is closed only while it is idle.
SteadyInv ==
    /\ up = "up" /\ ~storeFailed /\ Fenced /\ ~live.stale /\ cli.state # "asked"
    /\ live.reason => cli.state # "up" /\ adm.pc # "opening"
    /\ \A t \in Turns : turn[t].status # "interrupted" /\ how[t] # "interrupted"
    /\ LastTurn # NoTurn => live.last.fate # "back"

\* A turn whose end is to be read is the newest one, its input is open, and no
\* other input is on its way to the CLI.
NewestInv ==
    /\ \A t \in Turns : Ahead(t) =>
          /\ t = nextTurn - 1 /\ ~live.closed /\ live.input = "open" /\ ~live.reason /\ cli.state # "closing"
          /\ turn[t].status \in {"none", "running"}
          /\ adm.pc \in {"none"} \cup Handing
    /\ adm.pc = "sending" /\ cli.state = "up" => live.input = "open"
    /\ adm.pc \in Handing => adm.turn = nextTurn - 1 /\ (Ahead(adm.turn) \/ LastTurn = adm.turn)

\* The turns that received w, and those of them that gave it back for a failure.
Sent(w)  == {t \in Turns : w \in got[t]}
Again(t) == how[t] \in {"retry", "crash"}

\* What waits, and what the task holds, only failed turns received; what a turn
\* has, only failed turns and that one.
AgainInv ==
    /\ \A w \in Wakes : \A t \in Sent(w) :
          /\ wake[w].state \in {"absent", "queued"} => Again(t) \/ Pending(w, t)
          /\ wake[w].state = "taken" => Again(t) \/ t = wake[w].turn
          /\ adm.pc \in Holding /\ w \in adm.ws => Again(t) \/ Pending(w, t)
          /\ \A s \in Sent(w) : s < t => Again(s)
    /\ \A t \in Turns : t >= nextTurn => got[t] = {}

\* The steps that are left.
LEMMA RuledOut ==
    ASSUME Reliable, HoldInv, SteadyInv
    PROVE  /\ \A k \in {"crash", "shutdown", "store", "own"} : ~Spend(k)
           /\ \A l, c : ~Unrecorded(l, c)
           /\ ~TakeStale /\ ~TakeFails /\ ~AttachWriteFails /\ ~PumpDrain /\ ~SettleStoreFailed /\ ~Boot
           /\ ~Shutdown /\ ~ShutdownDone /\ ~ServerCrash /\ ~CliOwnTurn /\ ~CliCloseCalled
  <1>1. \A k \in {"crash", "shutdown", "store", "own"} : ~Spend(k)
    BY DEF Reliable, Spend
  <1>2. Fenced /\ up = "up" /\ ~storeFailed /\ ~live.stale /\ cli.state # "asked"
    BY DEF SteadyInv
  <1>3. \A l, c : ~Unrecorded(l, c)
    BY <1>1, <1>2 DEF Unrecorded
  <1>4. ~TakeStale /\ ~TakeFails /\ ~AttachWriteFails
    BY <1>1, <1>2 DEF TakeStale, TakeFails, AttachWriteFails
  <1>5. ~PumpDrain /\ ~SettleStoreFailed /\ ~Boot
    BY <1>2 DEF PumpDrain, SettleStoreFailed, Boot
  <1>6. ~Shutdown /\ ~ShutdownDone /\ ~ServerCrash /\ ~CliOwnTurn /\ ~CliCloseCalled
    BY <1>1, <1>2 DEF Shutdown, ShutdownDone, ServerCrash, CliOwnTurn, CliCloseCalled
  <1>. QED
    BY <1>1, <1>3, <1>4, <1>5, <1>6

LEMMA StillUp ==
    ASSUME Reliable, HoldInv, SteadyInv, [Next]_vars
    PROVE  up' = "up" /\ ~Gone
  <1>. SUFFICES up' = "up"
    BY DEF Gone
  <1>1. up = "up"
    BY DEF SteadyInv
  <1>2. CASE UNCHANGED vars \/ Api \/ Cli
    BY <1>1, <1>2 DEF vars, Api, Deliver, Pause, Resume, Retire, Cli, CliAccept, CliIdle, CliMissesIdle,
             CliLateIdle, CliOwnTurn, CliDies, CliDeathReported, CliCloseCalled, CliExit, OrphanExits, CliFinish
  <1>3. CASE PassRead \/ PassAct \/ AttachBump \/ Open \/ AttachWrite \/ AttachClosed \/ Look \/ Send \/ SendReturn \/ Take
    BY <1>1, <1>3 DEF PassRead, PassAct, AttachBump, Open, AttachWrite, AttachClosed, Look, Send, SendReturn, Take
  <1>4. CASE \E retryable, recorded \in BOOLEAN : OpenFails(retryable, recorded)
    BY <1>1, <1>4 DEF OpenFails
  <1>5. CASE SendFindsDead \/ \E code \in SendErrors : SendFails(code)
    BY <1>1, <1>5 DEF SendFindsDead, SendFails, GaveUp
  <1>6. CASE PumpStarted \/ PumpFinished \/ PumpIdle \/ PumpLateIdle \/ PumpClosed
    BY <1>1, <1>6 DEF PumpStarted, PumpFinished, PumpIdle, PumpLateIdle, PumpClosed
  <1>7. CASE BackoffOver \/ IdleMissing \/ Release \/ PoolCloses \/ PoolReopens \/ RecheckSurvivor
    BY <1>1, <1>7 DEF BackoffOver, IdleMissing, Release, PoolCloses, PoolReopens, RecheckSurvivor
  <1>8. ~PumpUnrecorded /\ ~PumpClosedUnrecorded /\ ~IdleMissingUnrecorded /\ \A code : ~SendFailsUnrecorded(code)
    BY RuledOut DEF PumpUnrecorded, PumpClosedUnrecorded, IdleMissingUnrecorded, SendFailsUnrecorded
  <1>. QED
    BY <1>2, <1>3, <1>4, <1>5, <1>6, <1>7, <1>8, RuledOut DEF Next, Admission, Pump, Timers, Life

\* What happens to the process and its object then.
LEMMA SteadyKinds ==
    ASSUME Reliable, TypeOK, HoldInv, ProcInv, QueueInv, SteadyInv, [Next]_vars
    PROVE  \/ Calm /\ Talks(cli, cli') /\ (Cli \/ Keeps(cli, cli'))
           \/ Calm /\ Pops(cli, cli') /\ (PumpStarted \/ PumpFinished \/ PumpIdle \/ PumpLateIdle)
           \/ AttachBump \/ Open \/ PumpClosed
           \/ \E retryable, recorded \in BOOLEAN : OpenFails(retryable, recorded)
  <1>1. ~PumpUnrecorded /\ ~PumpClosedUnrecorded /\ ~IdleMissingUnrecorded /\ \A code : ~SendFailsUnrecorded(code)
    BY RuledOut DEF PumpUnrecorded, PumpClosedUnrecorded, IdleMissingUnrecorded, SendFailsUnrecorded
  <1>. QED
    BY <1>1, StepKinds, RuledOut, StillUp DEF Loud

\* The end of a turn is ahead only if it was, or a CLI accepted an input for it.
LEMMA AheadBack ==
    ASSUME NEW c \in CliType, NEW d \in CliType,
           Keeps(c, d) \/ Says(c, d) \/ Pops(c, d) \/ Renewed(c, d) \/ Ends1(c, d) \/ Exits(c, d)
    PROVE  \A t \in Turns : AheadIn(d, t) => AheadIn(c, t)
  <1>1. \A t \in Turns : t # NoTurn
    BY DEF Turns, NoTurn
  <1>2. CASE Keeps(c, d)
    BY <1>2 DEF Keeps, AheadIn
  <1>3. CASE Renewed(c, d)
    BY <1>1, <1>3 DEF Renewed, AheadIn
  <1>4. CASE Says(c, d)
    <2>. DEFINE e == [kind |-> "idle", turn |-> NoTurn]
    <2>1. e \in Events /\ d.q = Append(c.q, e) /\ d.turn = c.turn /\ \A t : e # End(t)
      BY <1>4, EventTypes DEF Says, End
    <2>. HIDE DEF e
    <2>2. \A x \in Said(d) : x \in Said(c) \/ x = e
      BY <2>1, SaysMore
    <2>. QED
      BY <2>1, <2>2 DEF AheadIn, Said
  <1>5. CASE Pops(c, d)
    <2>1. Said(d) \subseteq Said(c) /\ d.turn = c.turn
      BY <1>5, PopSaid DEF Pops
    <2>. QED
      BY <2>1 DEF AheadIn, Said
  <1>6. CASE Ends1(c, d)
    <2>1. c.turn \in Turns /\ d.q = Append(c.q, End(c.turn)) /\ d.turn = NoTurn
      BY <1>6 DEF Ends1
    <2>2. End(c.turn) \in Events
      BY <2>1, EventTypes
    <2>3. \A x \in Said(d) : x \in Said(c) \/ x = End(c.turn)
      BY <2>1, <2>2, SaysMore
    <2>4. \A t : End(t) = End(c.turn) => t = c.turn
      BY DEF End
    <2>. QED
      BY <1>1, <2>1, <2>3, <2>4 DEF AheadIn, Said
  <1>7. CASE Exits(c, d)
    <2>1. \A i \in 1 .. Len(d.q) : \/ d.q[i] = ClosedEvent
                                   \/ d.q[i] = End(c.turn)
                                   \/ c.q[i] = d.q[i] /\ c.q[i] \in Said(c)
      BY <1>7, ExitSays
    <2>2. d.turn = NoTurn
      BY <1>7 DEF Exits
    <2>3. \A t : End(t) # ClosedEvent /\ (End(t) = End(c.turn) => t = c.turn)
      BY DEF End, ClosedEvent
    <2>. QED
      BY <1>1, <2>1, <2>2, <2>3 DEF AheadIn, Said
  <1>. QED
    BY <1>2, <1>3, <1>4, <1>5, <1>6, <1>7

LEMMA StepBehind ==
    ASSUME Reliable, TypeOK, TypeOK', HoldInv, ProcInv, QueueInv, SteadyInv, [Next]_vars
    PROVE  \A t \in Turns : Ahead(t)' => Ahead(t) \/ (CliAccept /\ cli.turn = NoTurn /\ t = nextTurn)
  <1>1. cli \in CliType /\ cli' \in CliType /\ nextTurn \in Nat
    BY StoreAssumption DEF TypeOK
  <1>2. CASE Starts(cli, cli') /\ cli'.turn = nextTurn /\ nextTurn' = nextTurn + 1
    <2>1. nextTurn' # nextTurn
      BY <1>1, <1>2
    <2>2. CliAccept
      BY <2>1, NoOwnTurn DEF Reliable
    <2>. DEFINE e == [kind |-> "started", turn |-> cli'.turn]
    <2>3. e \in Events /\ cli'.q = Append(cli.q, e) /\ cli.turn = NoTurn /\ \A t : e # End(t)
      BY <1>2, EventTypes DEF Starts, End
    <2>. HIDE DEF e
    <2>4. \A x \in Said(cli') : x \in Said(cli) \/ x = e
      BY <1>1, <2>3, SaysMore
    <2>. QED
      BY <1>2, <2>2, <2>3, <2>4 DEF Ahead, AheadIn, Said
  <1>3. CASE ~(Starts(cli, cli') /\ cli'.turn = nextTurn /\ nextTurn' = nextTurn + 1)
    <2>1. \/ Keeps(cli, cli') \/ Says(cli, cli') \/ Pops(cli, cli') \/ Renewed(cli, cli')
          \/ Ends1(cli, cli') \/ Exits(cli, cli')
      BY <1>3, StepSaid, StillUp
    <2>. QED
      BY <1>1, <2>1, AheadBack DEF Ahead
  <1>. QED
    BY <1>2, <1>3

\* The end of a turn stays ahead until the pump reads it, or the process makes
\* way for another.
LEMMA StepForward ==
    ASSUME Reliable, TypeOK, TypeOK', HoldInv, ProcInv, QueueInv, SteadyInv, [Next]_vars, ~Open
    PROVE  \A t \in Turns : Ahead(t) => Ahead(t)' \/ (PumpFinished /\ Head(cli.q) = End(t))
  <1>1. cli \in CliType /\ cli' \in CliType
    BY DEF TypeOK
  <1>2. CASE Talks(cli, cli')
    BY <1>1, <1>2, TalkKeeps DEF Ahead
  <1>3. CASE Pops(cli, cli') /\ (PumpStarted \/ PumpFinished \/ PumpIdle \/ PumpLateIdle)
    BY <1>3, PopAhead
  <1>4. CASE PumpClosed
    BY <1>4, ClosedIsLast DEF PumpClosed, Record, Heard
  <1>5. CASE AttachBump \/ \E retryable, recorded \in BOOLEAN : OpenFails(retryable, recorded)
    <2>1. Keeps(cli, cli')
      BY <1>1, <1>5, CloseKeeps DEF AttachBump, OpenFails, world
    <2>. QED
      BY <1>2, <2>1 DEF Talks
  <1>. QED
    BY <1>2, <1>3, <1>4, <1>5, SteadyKinds

\* What an edit of the object leaves of its input and of its reason to close.
LEMMA InputKept ==
    ASSUME NEW l \in LiveType
    PROVE  /\ [l EXCEPT !.reason = TRUE].input = l.input /\ [l EXCEPT !.reg = FALSE].input = l.input
           /\ [l EXCEPT !.starting = FALSE].input = l.input /\ [l EXCEPT !.input = "open"].input = "open"
           /\ [l EXCEPT !.reg = FALSE, !.closed = TRUE].input = l.input
           /\ \A t : BeginTurn(l, t).input = "open"
           /\ [l EXCEPT !.took = TRUE].input = l.input
  BY DEF LiveType, BeginTurn

LEMMA ReasonKept ==
    ASSUME NEW l \in LiveType
    PROVE  /\ EndInput(l).reason = l.reason /\ Closed(l).reason = l.reason /\ [l EXCEPT !.reg = FALSE].reason = l.reason
           /\ [l EXCEPT !.starting = FALSE].reason = l.reason /\ [l EXCEPT !.input = "open"].reason = l.reason
           /\ [l EXCEPT !.reg = FALSE, !.closed = TRUE].reason = l.reason
           /\ \A t : BeginTurn(l, t).reason = l.reason
           /\ [l EXCEPT !.took = TRUE].reason = l.reason /\ \A b : [l EXCEPT !.dying = b].reason = l.reason
  BY DEF LiveType, BeginTurn, EndInput, Closed

\* An open input stays open until the turn's end is read, the process is gone, or
\* nothing of it was sent.
LEMMA StepInput ==
    ASSUME Reliable, TypeOK, HoldInv, SteadyInv, [Next]_vars, live.input = "open"
    PROVE  \/ live'.input = "open" \/ PumpFinished \/ PumpClosed \/ AttachBump
           \/ adm.pc = "sending" /\ adm'.pc = "none"
  <1>1. live \in LiveType
    BY DEF TypeOK
  <1>2. CASE live' = live
    BY <1>2
  <1>3. CASE UNCHANGED vars \/ Api \/ Cli
    BY <1>2, <1>3 DEF vars, Api, Deliver, Pause, Resume, Retire, Cli, CliAccept, CliIdle, CliMissesIdle,
             CliLateIdle, CliOwnTurn, CliDies, CliDeathReported, CliCloseCalled, CliExit, OrphanExits, CliFinish
  <1>4. CASE PassRead \/ Open \/ Look \/ Take
    BY <1>2, <1>4 DEF PassRead, Open, Look, Take
  <1>5. CASE PassAct \/ AttachWrite \/ AttachClosed \/ Send
    BY <1>1, <1>5, InputKept DEF PassAct, ClosesIdle, AttachWrite, AttachClosed, Send
  <1>6. CASE \E retryable, recorded \in BOOLEAN : OpenFails(retryable, recorded)
    BY <1>1, <1>6, InputKept DEF OpenFails
  <1>7. CASE SendFindsDead \/ \E code \in SendErrors : SendFails(code)
    <2>1. adm.pc = "sending" /\ Admitted
      BY <1>7 DEF SendFindsDead, SendFails, GaveUp
    <2>. QED
      BY <2>1, AdmSteps
  <1>8. CASE SendReturn
    <2>. DEFINE l == [live EXCEPT !.took = TRUE]
    <2>1. l \in LiveType /\ l.input = "open"
      BY <1>1 DEF LiveType
    <2>2. live' = l \/ live' = BeginTurn(l, adm.turn)
      BY <1>8 DEF SendReturn
    <2>. HIDE DEF l
    <2>. QED
      BY <2>1, <2>2, InputKept
  <1>9. CASE PumpStarted
    BY <1>1, <1>9, InputKept DEF PumpStarted
  <1>10. CASE PumpIdle \/ PumpLateIdle
    BY <1>2, <1>10 DEF PumpIdle, PumpLateIdle, EndsInput
  <1>11. CASE BackoffOver \/ IdleMissing \/ Release \/ PoolCloses \/ PoolReopens \/ RecheckSurvivor
    BY <1>1, <1>2, <1>11, InputKept DEF BackoffOver, IdleMissing, IdleIsMissing, EndsInput, Release, ClosesIdle,
             PoolCloses, PoolReopens, RecheckSurvivor
  <1>12. ~PumpUnrecorded /\ ~PumpClosedUnrecorded /\ ~IdleMissingUnrecorded /\ \A code : ~SendFailsUnrecorded(code)
    BY RuledOut DEF PumpUnrecorded, PumpClosedUnrecorded, IdleMissingUnrecorded, SendFailsUnrecorded
  <1>. QED
    BY <1>3, <1>4, <1>5, <1>6, <1>7, <1>8, <1>9, <1>10, <1>11, <1>12, RuledOut DEF Next, Admission, Pump, Timers, Life

\* A process is closed only while nothing of an input is under way.
LEMMA StepCloses ==
    ASSUME Reliable, TypeOK, HoldInv, SteadyInv, [Next]_vars
    PROVE  \/ (live'.reason => live.reason) /\ (cli'.state \in {"closing", "asked"} => cli'.state = cli.state)
           \/ ClosesIdle /\ ~Busy(live) /\ adm' = adm /\ adm.pc # "opening"
  <1>1. live \in LiveType /\ cli \in CliType /\ Popped.state = cli.state
    BY DEF TypeOK, Popped, CliType
  <1>2. CASE UNCHANGED <<live, cli>>
    BY <1>2
  <1>3. CASE Cli
    <2>1. live' = live
      BY <1>3 DEF Cli, CliAccept, CliIdle, CliMissesIdle,
             CliLateIdle, CliOwnTurn, CliDies, CliDeathReported, CliCloseCalled, CliExit, OrphanExits, CliFinish
    <2>2. CASE CliAccept \/ CliIdle \/ CliMissesIdle \/ CliLateIdle \/ OrphanExits
                  \/ \E end \in {"completed", "failed", "retry"} : CliFinish(end)
      <3>1. cli'.state = cli.state
        BY <1>1, <2>2 DEF CliAccept, CliIdle, CliMissesIdle, CliLateIdle, OrphanExits, CliFinish, CliType
      <3>. QED
        BY <2>1, <3>1
    <2>3. CASE CliDies \/ CliDeathReported \/ CliExit
      <3>1. cli'.state \in {"dead", "gone"}
        BY <1>1, <2>3 DEF CliDies, CliDeathReported, CliExit, CliType
      <3>. QED
        BY <2>1, <3>1
    <2>. QED
      BY <1>3, <2>2, <2>3, RuledOut DEF Cli
  <1>4. CASE UNCHANGED vars \/ Api \/ PassRead \/ Look \/ Take
    BY <1>2, <1>4 DEF vars, world, Api, Deliver, Pause, Resume, Retire, PassRead, Look, Take
  <1>5. CASE PassAct
    BY <1>2, <1>5 DEF PassAct, HoldInv
  <1>6. CASE AttachBump
    <2>1. CASE retired
      BY <1>2, <1>6, <2>1 DEF AttachBump, world
    <2>2. CASE ~retired
      BY <1>6, <2>2 DEF AttachBump, Opening, world
    <2>. QED
      BY <2>1, <2>2
  <1>7. CASE Open
    <2>1. NoCli \in CliType
      BY CliEdits, Parts
    <2>2. cli' = [NoCli EXCEPT !.state = "up", !.epoch = live.epoch] /\ live' = live
      BY <1>7 DEF Open
    <2>3. cli'.state = "up"
      BY <2>1, <2>2 DEF CliType
    <2>. QED
      BY <2>2, <2>3
  <1>8. CASE AttachWrite \/ AttachClosed \/ Send \/ \E retryable, recorded \in BOOLEAN : OpenFails(retryable, recorded)
    BY <1>1, <1>8, ReasonKept DEF AttachWrite, AttachClosed, Send, OpenFails, world
  <1>9. CASE SendFindsDead \/ \E code \in SendErrors : SendFails(code)
    <2>. DEFINE l == IF Unsent THEN EndInput(live) ELSE live
    <2>1. l \in LiveType /\ l.reason = live.reason
      BY <1>1, LiveEdits, ReasonKept
    <2>2. cli' = cli /\ \E b : live' = [l EXCEPT !.dying = b]
      BY <1>9 DEF SendFindsDead, SendFails, Unopened
    <2>. HIDE DEF l
    <2>. QED
      BY <2>1, <2>2, ReasonKept
  <1>10. CASE SendReturn
    <2>. DEFINE l == [live EXCEPT !.took = TRUE]
    <2>1. l \in LiveType /\ l.reason = live.reason
      BY <1>1 DEF LiveType
    <2>2. cli' = cli /\ (live' = l \/ live' = BeginTurn(l, adm.turn))
      BY <1>10 DEF SendReturn, world
    <2>. HIDE DEF l
    <2>. QED
      BY <2>1, <2>2, ReasonKept
  <1>11. CASE PumpStarted \/ PumpFinished \/ PumpIdle \/ PumpLateIdle \/ PumpClosed
    <2>1. cli' = Popped
      BY <1>11 DEF PumpStarted, PumpFinished, PumpIdle, PumpLateIdle, PumpClosed, Record
    <2>2. CASE PumpFinished
      BY <1>1, <2>1, <2>2 DEF PumpFinished, LiveType
    <2>3. CASE PumpStarted \/ PumpIdle \/ PumpLateIdle \/ PumpClosed
      <3>1. live'.reason = live.reason
        BY <1>1, <2>3, ReasonKept DEF PumpStarted, PumpIdle, PumpLateIdle, PumpClosed
      <3>. QED
        BY <1>1, <2>1, <3>1
    <2>. QED
      BY <1>11, <2>2, <2>3
  <1>12. CASE BackoffOver \/ PoolCloses \/ PoolReopens \/ RecheckSurvivor
    BY <1>2, <1>12 DEF BackoffOver, PoolCloses, PoolReopens, RecheckSurvivor, world
  <1>13. CASE IdleMissing
    BY <1>1, <1>13, ReasonKept DEF IdleMissing, world
  <1>14. CASE Release
    BY <1>14 DEF Release, Idle, StatusOf, Busy, Locked
  <1>15. ~PumpUnrecorded /\ ~PumpClosedUnrecorded /\ ~IdleMissingUnrecorded /\ \A code : ~SendFailsUnrecorded(code)
    BY RuledOut DEF PumpUnrecorded, PumpClosedUnrecorded, IdleMissingUnrecorded, SendFailsUnrecorded
  <1>. QED
    BY <1>3, <1>4, <1>5, <1>6, <1>7, <1>8, <1>9, <1>10, <1>11, <1>12, <1>13, <1>14, <1>15, RuledOut
       DEF Next, Admission, Pump, Timers, Life

\* A task that handed over its input records it; no other begins while an object
\* is busy.
LEMMA StepHands ==
    ASSUME Reliable, TypeOK, HoldInv, SteadyInv, [Next]_vars, adm.pc \in {"none"} \cup Handing
    PROVE  \/ adm' = adm \/ Take
           \/ adm'.pc = "take" /\ adm.pc = "accepted" /\ adm'.turn = adm.turn /\ adm'.ws = adm.ws
           \/ PassAct /\ adm.pc = "none" /\ (~live.reg \/ ~Busy(live))
  <1>. USE DEF Handing
  <1>1. CASE UNCHANGED vars \/ Api \/ PassRead \/ Cli \/ Pump \/ Timers
    BY <1>1 DEF vars, Api, Deliver, Pause, Resume, Retire, PassRead, Cli, CliAccept, CliIdle, CliMissesIdle, CliLateIdle,
                  CliOwnTurn, CliDies, CliDeathReported, CliCloseCalled, CliExit, OrphanExits, CliFinish,
                  Pump, PumpStarted, PumpFinished, PumpIdle, PumpLateIdle, PumpClosed, PumpUnrecorded,
                  PumpClosedUnrecorded, PumpDrain, Timers, BackoffOver, IdleMissing, IdleMissingUnrecorded,
                  Release, PoolCloses, PoolReopens, SettleStoreFailed
  <1>2. CASE Life
    BY <1>2, RuledOut DEF Life, RecheckSurvivor
  <1>3. CASE PassAct
    BY <1>3 DEF PassAct, HoldInv
  <1>4. CASE SendReturn
    <2>1. Go("take") /\ adm.pc = "accepted"
      BY <1>4 DEF SendReturn
    <2>. QED
      BY <2>1, AdmSteps DEF AdmStates
  <1>5. CASE AttachBump \/ Open \/ AttachWrite \/ AttachWriteFails \/ AttachClosed \/ Look \/ Send
             \/ SendFindsDead \/ (\E code \in SendErrors : SendFails(code))
             \/ (\E retryable, recorded \in BOOLEAN : OpenFails(retryable, recorded))
    BY <1>5 DEF AttachBump, Open, AttachWrite, AttachWriteFails, AttachClosed, Look, Send, SendFindsDead, SendFails, OpenFails
  <1>6. ~TakeStale /\ ~TakeFails /\ \A code : ~SendFailsUnrecorded(code)
    BY RuledOut DEF SendFailsUnrecorded
  <1>. QED
    BY <1>1, <1>2, <1>3, <1>4, <1>5, <1>6 DEF Next, Admission

\* An input is on its way to the CLI only after Send opened it.
LEMMA StepSends ==
    ASSUME TypeOK, [Next]_vars, adm'.pc = "sending"
    PROVE  adm.pc = "sending" \/ live'.input = "open"
  <1>1. CASE adm' = adm
    BY <1>1
  <1>2. CASE UNCHANGED vars \/ Api \/ PassRead \/ (Cli /\ ~CliAccept) \/ Pump \/ Timers
    <2>1. adm' = adm
      BY <1>2 DEF vars, Api, Deliver, Pause, Resume, Retire, PassRead, Cli, CliIdle, CliMissesIdle, CliLateIdle,
                  CliOwnTurn, CliDies, CliDeathReported, CliCloseCalled, CliExit, OrphanExits, CliFinish,
                  Pump, PumpStarted, PumpFinished, PumpIdle, PumpLateIdle, PumpClosed, PumpUnrecorded,
                  PumpClosedUnrecorded, PumpDrain, Timers, BackoffOver, IdleMissing, IdleMissingUnrecorded,
                  Release, PoolCloses, PoolReopens, SettleStoreFailed
    <2>. QED
      BY <1>1, <2>1
  <1>3. CASE CliAccept
    BY <1>3 DEF CliAccept, TypeOK, AdmType
  <1>4. CASE Life
    <2>1. adm' = adm \/ adm' = NoAdm
      BY <1>4 DEF Life, Shutdown, ShutdownDone, ServerCrash, Gone, Boot, RecheckSurvivor
    <2>. QED
      BY <1>1, <2>1, AdmSteps
  <1>5. CASE PassAct \/ AttachBump \/ Open \/ AttachWrite \/ AttachWriteFails \/ AttachClosed \/ Look \/ SendReturn
    <2>1. adm' = adm \/ adm'.pc # "sending"
      BY <1>5, AdmSteps, QueuedType DEF PassAct, AttachBump, Open, AttachWrite, AttachWriteFails, AttachClosed, Look,
                  SendReturn, AdmStates
    <2>. QED
      BY <1>1, <2>1
  <1>6. CASE Send
    <2>1. Admitted \/ live' = [live EXCEPT !.input = "open"]
      BY <1>6 DEF Send
    <2>2. [live EXCEPT !.input = "open"].input = "open"
      BY DEF TypeOK, LiveType
    <2>. QED
      BY <2>1, <2>2, AdmSteps
  <1>7. CASE \/ Take \/ TakeStale \/ TakeFails \/ SendFindsDead \/ \E code \in SendErrors : SendFails(code)
             \/ \E code \in SendErrors \cup {"process_died"} : SendFailsUnrecorded(code)
             \/ \E retryable, recorded \in BOOLEAN : OpenFails(retryable, recorded)
    <2>1. adm' = NoAdm
      BY <1>7, AdmSteps DEF Take, TakeStale, TakeFails, SendFindsDead, SendFails, SendFailsUnrecorded, GaveUp, OpenFails
    <2>. QED
      BY <2>1, AdmSteps
  <1>. QED
    BY <1>2, <1>3, <1>4, <1>5, <1>6, <1>7 DEF Next, Admission

\* No turn is interrupted.
LEMMA StepHow ==
    ASSUME Reliable, TypeOK, TypeOK', HoldInv, SteadyInv, NewestInv, [Next]_vars
    PROVE  \A t \in Turns : how'[t] # "interrupted"
  <1>1. /\ how \in [Turns -> Ends \cup {"none"}] /\ (cli.turn # NoTurn => cli.turn \in Turns /\ Ahead(cli.turn))
        /\ \A t \in Turns : how[t] # "interrupted"
    BY Parts DEF TypeOK, Ahead, AheadIn, SteadyInv
  <1>2. ASSUME NEW end, end # "interrupted", EndWith(end) PROVE \A t \in Turns : how'[t] # "interrupted"
    BY <1>1, <1>2 DEF EndWith
  <1>3. CASE CliExit
    <2>1. cli.turn = NoTurn
      BY <1>1, <1>3 DEF CliExit, NewestInv
    <2>. QED
      BY <1>1, <1>3, <2>1 DEF CliExit, EndWith
  <1>4. CASE CliDeathReported
    <2>1. CASE EndWith("crash")
      BY <1>2, <2>1
    <2>2. CASE live.reason /\ EndWith("interrupted")
      <3>1. cli.turn = NoTurn
        BY <1>1, <2>2 DEF NewestInv
      <3>. QED
        BY <1>1, <2>2, <3>1 DEF EndWith
    <2>. QED
      BY <1>4, <2>1, <2>2 DEF CliDeathReported
  <1>5. ASSUME NEW end \in {"completed", "failed", "retry"}, CliFinish(end) PROVE \A t \in Turns : how'[t] # "interrupted"
    BY <1>2, <1>5 DEF CliFinish
  <1>6. CASE UNCHANGED how
    BY <1>1, <1>6
  <1>. QED
    BY <1>3, <1>4, <1>5, <1>6, StepWorld, StillUp DEF CliAccept, CliOwnTurn

LEMMA StepSteady ==
    ASSUME Reliable, TypeOK, TypeOK', HoldInv, ProcInv, QueueInv, NumberInv, SteadyInv, NewestInv, [Next]_vars
    PROVE  SteadyInv'
  <1>1. live \in LiveType /\ cli \in CliType /\ up' = "up"
    BY StillUp DEF TypeOK
  <1>2. ~storeFailed' /\ Fenced' /\ ~live'.stale
    <2>1. ~storeFailed /\ Fenced /\ ~live.stale
      BY DEF SteadyInv
    <2>2. CASE Calm
      BY <2>1, <2>2 DEF Calm, Fenced
    <2>3. CASE AttachBump
      <3>1. CASE retired
        BY <2>1, <2>3, <3>1 DEF AttachBump, gates, Fenced
      <3>2. CASE ~retired
        BY <2>1, <2>3, <3>2 DEF AttachBump, Opening, gates, Fenced
      <3>. QED
        BY <3>1, <3>2
    <2>4. CASE Open
      BY <2>1, <2>4 DEF Open, gates, rows, Fenced
    <2>5. CASE PumpClosed
      <3>1. live'.stale = live.stale /\ live'.epoch = live.epoch
        BY <1>1, <2>5, LiveKeeps DEF PumpClosed
      <3>. QED
        BY <2>1, <2>5, <3>1 DEF PumpClosed, Fenced
    <2>6. ASSUME NEW a, NEW b, OpenFails(a, b) PROVE ~storeFailed' /\ Fenced' /\ ~live'.stale
      BY <1>1, <2>1, <2>6 DEF OpenFails, LiveType, Fenced
    <2>. QED
      BY <2>2, <2>3, <2>4, <2>5, <2>6, SteadyKinds
  <1>3. cli'.state # "asked" /\ (live'.reason => cli'.state # "up" /\ adm'.pc # "opening")
    <2>1. cli.state # "asked" /\ (live.reason => cli.state # "up" /\ adm.pc # "opening")
      BY DEF SteadyInv
    <2>2. CASE ClosesIdle /\ ~Busy(live) /\ adm' = adm /\ adm.pc # "opening"
      <3>1. cli'.state = "closing" \/ (cli' = cli /\ cli.state \notin Serving)
        BY <1>1, <2>2 DEF ClosesIdle, CliType
      <3>. QED
        BY <2>1, <2>2, <3>1 DEF Serving
    <2>3. CASE (live'.reason => live.reason) /\ (cli'.state \in {"closing", "asked"} => cli'.state = cli.state)
      <3>1. ASSUME live'.reason PROVE cli'.state # "up" /\ adm'.pc # "opening"
        <4>1. live.reason /\ cli.state # "up" /\ adm.pc # "opening" /\ ~Open
          BY <2>1, <2>3, <3>1 DEF Open
        <4>2. AttachBump => adm'.pc # "opening"
          <5>1. CASE retired
            BY <5>1, AdmSteps DEF AttachBump
          <5>2. CASE ~retired
            BY <3>1, <5>2 DEF AttachBump, Opening
          <5>. QED
            BY <5>1, <5>2
        <4>3. CASE Calm
          BY <4>1, <4>3 DEF Calm
        <4>4. CASE AttachBump \/ \E a, b \in BOOLEAN : OpenFails(a, b)
          <5>1. cli' = cli
            BY <4>4 DEF AttachBump, OpenFails, world
          <5>. QED
            BY <4>1, <4>2, <5>1, StepOpening
        <4>5. CASE PumpClosed
          <5>1. cli' = Popped /\ Popped.state = cli.state
            BY <1>1, <4>5 DEF PumpClosed, Record, Popped, CliType
          <5>. QED
            BY <4>1, <4>2, <5>1, StepOpening
        <4>. QED
          BY <4>1, <4>3, <4>4, <4>5, SteadyKinds
      <3>. QED
        BY <2>1, <2>3, <3>1
    <2>. QED
      BY <2>2, <2>3, StepCloses
  <1>4. \A t \in Turns : turn'[t].status # "interrupted"
    <2>1. CASE PumpFinished
      <3>. DEFINE s == Head(cli.q).turn
      <3>1. /\ s \in Turns /\ how[s] \in Ends /\ turn'[s].status = Outcome(how[s], live.reason).status
            /\ \A t \in Turns : t # s => turn'[t].status = turn[t].status
        BY <2>1, EndRead
      <3>2. Outcome(how[s], live.reason).status # "interrupted"
        BY <3>1, OutcomeOf DEF SteadyInv
      <3>. HIDE DEF s
      <3>. QED
        BY <3>1, <3>2 DEF SteadyInv
    <2>2. CASE ~PumpFinished
      BY <2>2, StepStatus, RuledOut DEF SteadyInv
    <2>. QED
      BY <2>1, <2>2
  <1>5. LastTurn' # NoTurn => live'.last.fate # "back"
    <2>1. CASE PumpFinished
      <3>1. PICK s \in Turns : how[s] \in Ends /\ live'.last = [turn |-> s, fate |-> Outcome(how[s], live.reason).fate]
        BY <2>1, EndRead
      <3>2. \A e \in Ends : \A r : e # "interrupted" => Outcome(e, r).fate # "back"
        BY DEF Outcome, Ends
      <3>3. Outcome(how[s], live.reason).fate # "back"
        BY <3>1, <3>2 DEF SteadyInv
      <3>. QED
        BY <3>1, <3>3
    <2>2. CASE ~PumpFinished
      BY <2>2, StepLastEnd DEF SteadyInv, LastTurn
    <2>. QED
      BY <2>1, <2>2
  <1>. QED
    BY <1>1, <1>2, <1>3, <1>4, <1>5, StepHow DEF SteadyInv

\* A turn that the pump read the end of has no other one.
LEMMA EndedIsPast ==
    ASSUME TypeOK, TypeOK', ProcInv, NumberInv, NewestInv, OrderInv', PumpFinished
    PROVE  \E t \in Turns :
              /\ Head(cli.q) = End(t) /\ Ahead(t) /\ ~Ahead(t)' /\ t = nextTurn - 1 /\ LastTurn' = t
              /\ adm.pc \in {"none"} \cup Handing
  <1>1. PICK t \in Turns : t = Head(cli.q).turn /\ t # cli.turn /\ live'.last.turn = t
    BY EndRead
  <1>2. IsEnd(Head(cli.q)) /\ Pops(cli, cli') /\ Attached /\ nextTurn' = nextTurn
    BY EndRead
  <1>3. cli \in CliType /\ Head(cli.q) \in Said(cli)
    BY <1>2, HeadSaid DEF TypeOK, Pops
  <1>4. Head(cli.q) = End(t)
    BY <1>1, <1>2, <1>3, SaidEvents, EventTypes DEF IsEnd
  <1>5. Ahead(t)
    BY <1>3, <1>4 DEF Ahead, AheadIn, Said
  <1>6. t = nextTurn - 1 /\ adm.pc \in {"none"} \cup Handing
    BY <1>5 DEF NewestInv
  <1>7. Attached'
    <2>1. live'.epoch = live.epoch /\ cli'.epoch = cli.epoch
      BY <1>2, PumpCalm DEF Calm
    <2>. QED
      BY <1>2, <2>1 DEF Attached
  <1>8. \A e \in Said(cli)' : ~IsEnd(e)
    <2>1. LastTurn' # NoTurn /\ LastTurn' = nextTurn' - 1
      BY <1>1, <1>2, <1>6 DEF LastTurn, Turns, NoTurn
    <2>. QED
      BY <1>7, <2>1 DEF OrderInv
  <1>9. cli'.turn # t
    BY <1>1, <1>2 DEF Pops
  <1>10. ~Ahead(t)'
    BY <1>8, <1>9 DEF Ahead, AheadIn, Said, IsEnd, End
  <1>. QED
    BY <1>1, <1>4, <1>5, <1>6, <1>10 DEF LastTurn

LEMMA StepNewest ==
    ASSUME Reliable, TypeOK, TypeOK', HoldInv, ProcInv, QueueInv, NumberInv, OrderInv', SteadyInv, NewestInv, [Next]_vars
    PROVE  NewestInv'
  <1>1. /\ live \in LiveType /\ cli \in CliType /\ cli' \in CliType /\ adm \in AdmType /\ nextTurn \in Nat
        /\ (cli.turn # NoTurn => cli.turn \in Turns /\ Ahead(cli.turn))
        /\ (adm.pc \in Handing => adm.turn \in Turns) /\ (adm'.pc \in Handing => adm'.turn \in Turns)
    BY Parts, StoreAssumption DEF TypeOK, Ahead, AheadIn, Handing
  <1>2. /\ ~storeFailed /\ Fenced /\ ~live.stale /\ cli.state # "asked"
        /\ live.reason => cli.state # "up" /\ adm.pc # "opening"
    BY DEF SteadyInv
  <1>3. CASE CliAccept
    <2>1. /\ adm.pc = "sending" /\ cli.state = "up" /\ cli.turn = NoTurn /\ \A t \in Turns : ~Ahead(t)
      BY <1>1, <1>2, <1>3 DEF CliAccept, Serving, NewestInv, Handing
    <2>2. /\ nextTurn \in Turns /\ nextTurn' = nextTurn + 1 /\ cli'.turn = nextTurn /\ cli'.state = "up"
          /\ adm'.pc = "accepted" /\ adm'.turn = cli'.turn /\ live' = live /\ turn' = turn
      BY <1>1, <1>3, <2>1 DEF CliAccept, CliType, AdmType, rows
    <2>3. live.input = "open" /\ ~live.reason /\ ~live.closed
      <3>1. Attached
        BY <2>1 DEF ProcInv, Handles
      <3>. QED
        BY <1>2, <2>1, <3>1 DEF NewestInv, ProcInv
    <2>4. \A t \in Turns : Ahead(t)' => t = nextTurn
      BY <2>1, StepBehind
    <2>5. turn[nextTurn].status = "none"
      BY <1>1, <2>2 DEF NumberInv
    <2>6. Ahead(adm.turn)'
      BY <2>2 DEF Ahead, AheadIn
    <2>7. nextTurn' - 1 = nextTurn
      BY <1>1, <2>2
    <2>. QED
      BY <2>2, <2>3, <2>4, <2>5, <2>6, <2>7 DEF NewestInv, Handing
  <1>4. CASE ~CliAccept
    <2>1. nextTurn' = nextTurn /\ ~Gone
      BY <1>4, NoOwnTurn, StillUp DEF Reliable
    <2>2. ASSUME NEW t \in Turns, Ahead(t)'
          PROVE  /\ t = nextTurn' - 1 /\ ~live'.closed /\ live'.input = "open" /\ ~live'.reason /\ cli'.state # "closing"
                 /\ turn'[t].status \in {"none", "running"}
                 /\ adm'.pc \in {"none"} \cup Handing
      <3>1. Ahead(t)
        BY <1>4, <2>2, StepBehind
      <3>2. /\ t = nextTurn - 1 /\ ~live.closed /\ live.input = "open" /\ ~live.reason /\ cli.state # "closing"
            /\ turn[t].status \in {"none", "running"}
            /\ adm.pc \in {"none"} \cup Handing
        BY <3>1 DEF NewestInv
      <3>3. ~PumpFinished
        BY <2>2, <3>2, EndedIsPast
      <3>4. ~PumpClosed
        BY <3>1, ClosedIsLast DEF PumpClosed, Record, Heard
      <3>5. ~AttachBump /\ ~Open /\ (\A a, b : ~OpenFails(a, b)) /\ adm.pc # "sending"
        BY <3>2 DEF AttachBump, Open, OpenFails, Handing
      <3>6. live'.input = "open"
        BY <3>2, <3>3, <3>4, <3>5, StepInput
      <3>7. ~live'.closed
        BY <3>2, <3>4, <3>5, SteadyKinds DEF Calm
      <3>8. ~live'.reason /\ cli'.state # "closing"
        BY <3>2, StepCloses DEF Busy
      <3>9. turn'[t].status \in {"none", "running"}
        BY <3>2, <3>3, StepStatus, RuledOut
      <3>10. adm'.pc \in {"none"} \cup Handing
        <4>1. live.reg /\ Busy(live)
          BY <1>2, <3>2 DEF ProcInv, Alive, Busy
        <4>2. Take => adm'.pc = "none"
          BY AdmSteps DEF Take
        <4>. QED
          BY <3>2, <4>1, <4>2, StepHands DEF Handing
      <3>. QED
        BY <2>1, <3>2, <3>6, <3>7, <3>8, <3>9, <3>10
    <2>3. ASSUME adm'.pc = "sending", cli'.state = "up", live'.input # "open"
          PROVE  FALSE
      <3>1. adm.pc = "sending"
        BY <2>3, StepSends
      <3>2. ~AttachBump /\ ~Open /\ (\A a, b : ~OpenFails(a, b)) /\ ~PumpFinished
        BY <3>1, EndedIsPast DEF AttachBump, Open, OpenFails, Handing
      <3>3. ~PumpClosed
        <4>1. PumpClosed => cli.state = "gone" /\ cli' = Popped /\ Popped.state = cli.state
          BY <1>1, ClosedIsLast DEF PumpClosed, Record, Heard, Popped, CliType
        <4>. QED
          BY <2>3, <4>1
      <3>4. cli.state = "up"
        BY <2>3, <3>2, <3>3, SteadyKinds DEF Calm
      <3>5. live.input = "open"
        BY <3>1, <3>4 DEF NewestInv
      <3>. QED
        BY <2>3, <3>2, <3>3, <3>5, StepInput
    <2>4. ASSUME adm'.pc \in Handing
          PROVE  adm'.turn = nextTurn' - 1 /\ (Ahead(adm.turn)' \/ LastTurn' = adm'.turn)
      <3>1. adm.pc \in Handing /\ adm'.turn = adm.turn
        BY <1>4, <2>4, StepTask DEF Holding, Handing
      <3>2. PICK t \in Turns : t = adm.turn
        BY <1>1, <3>1
      <3>3. t = nextTurn - 1 /\ (Ahead(t) \/ LastTurn = t)
        BY <3>1, <3>2 DEF NewestInv
      <3>4. ~Open /\ ~AttachBump
        BY <3>1 DEF Open, AttachBump, Handing
      <3>5. CASE PumpFinished
        BY <2>1, <3>1, <3>2, <3>3, <3>5, EndedIsPast
      <3>6. CASE ~PumpFinished
        <4>1. LastTurn' = LastTurn
          BY <2>1, <3>4, <3>6, StepLastEnd DEF LastTurn
        <4>2. Ahead(t) => Ahead(t)'
          BY <3>4, <3>6, StepForward
        <4>. QED
          BY <2>1, <3>1, <3>2, <3>3, <4>1, <4>2
      <3>. QED
        BY <3>5, <3>6
    <2>. QED
      BY <2>2, <2>3, <2>4 DEF NewestInv
  <1>. QED
    BY <1>3, <1>4

LEMMA InitSteady == ASSUME Init PROVE SteadyInv /\ NewestInv /\ AgainInv
  <1>1. live = NoLive /\ cli = NoCli /\ adm = NoAdm /\ up = "up" /\ ~storeFailed /\ epoch = 0
    BY DEF Init
  <1>2. /\ NoLive.closed /\ ~NoLive.stale /\ NoLive.epoch = 0 /\ NoLive.last.turn = NoTurn /\ ~NoLive.reason
        /\ NoCli.turn = NoTurn /\ NoCli.q = <<>> /\ NoCli.state = "none" /\ NoAdm.pc = "none"
    BY DEF NoLive, Opening, NoCli, NoAdm, NoEnd
  <1>3. \A t \in Turns : turn[t].status = "none" /\ how[t] = "none" /\ got[t] = {}
    BY DEF Init, NoRow
  <1>4. \A t \in Turns : ~Ahead(t)
    BY <1>1, <1>2 DEF Ahead, AheadIn, Turns, NoTurn
  <1>5. SteadyInv
    BY <1>1, <1>2, <1>3 DEF SteadyInv, Fenced, LastTurn
  <1>6. NewestInv
    BY <1>1, <1>2, <1>4 DEF NewestInv, Handing
  <1>7. AgainInv
    BY <1>3 DEF AgainInv, Sent
  <1>. QED
    BY <1>5, <1>6, <1>7

\* Whether a row waits after the end of a turn, or after a take.
LEMMA SettleState ==
    ASSUME NEW wk \in [Wakes -> WakeRow], NEW w \in Wakes, NEW t, NEW fate \in Fates, NEW ret
    PROVE  LET r == Settle(wk, t, fate, ret)[w]
           IN  \/ r = wk[w]
               \/ /\ w \in TakenBy(wk, t)
                  /\ r.state \in {"consumed", "dropped"} \/ (r.state = "queued" /\ fate # "consumed")
  <1>1. CASE fate = "consumed"
    BY <1>1 DEF Settle, Consume, WakeRow
  <1>2. CASE fate # "consumed"
    <2>1. PICK c \in BOOLEAN : c = (fate = "counted")
      OBVIOUS
    <2>2. Settle(wk, t, fate, ret)[w] = HandBack(wk, t, c, ret)[w]
      BY <1>2, <2>1 DEF Settle
    <2>3. \/ HandBack(wk, t, c, ret)[w] = wk[w]
          \/ w \in TakenBy(wk, t) /\ GivenBack(wk[w], HandBack(wk, t, c, ret)[w], c, ret)
      BY <2>1, HandBackRow
    <2>. QED
      BY <1>2, <2>2, <2>3 DEF GivenBack
  <1>. QED
    BY <1>1, <1>2

\* What take_wakes may leave, as row r, of the row of wake w.
TakenAs(wk, w, ws, t, st, last, r) ==
    /\ r.state = "absent" => wk[w].state = "absent"
    /\ r.state = "taken" => r = wk[w] \/ (w \in ws /\ r.turn = t)
    /\ r.state = "queued" =>
          \/ wk[w].state = "queued" /\ w \notin ws
          \/ st # "running" /\ FateOf(st, t, last) # "consumed" /\ (w \in ws \/ w \in TakenBy(wk, t))

LEMMA TakeState ==
    ASSUME NEW wk \in [Wakes -> WakeRow], NEW w \in Wakes, NEW ws, NEW t \in Turns, NEW st, NEW last, NEW ret
    PROVE  TakenAs(wk, w, ws, t, st, last, TakeWakes(wk, ws, t, st, last, ret)[w])
  <1>. USE DEF TakenAs
  <1>. DEFINE h(s) == Hand(wk, ws, t, s)
  <1>1. ASSUME NEW s \in {"taken", "consumed"}
        PROVE  /\ h(s)[w] = wk[w] \/ (w \in ws /\ h(s)[w].state = s /\ h(s)[w].turn = t)
               /\ h(s)[w].state = "queued" => wk[w].state = "queued" /\ w \notin ws
    <2>1. CASE w \in ws /\ wk[w].state = "queued"
      BY <2>1 DEF Hand, WakeRow
    <2>2. CASE ~(w \in ws /\ wk[w].state = "queued")
      BY <2>2 DEF Hand
    <2>. QED
      BY <2>1, <2>2
  <1>2. CASE st = "running"
    BY <1>1, <1>2 DEF TakeWakes
  <1>3. CASE st # "running" /\ FateOf(st, t, last) = "consumed"
    BY <1>1, <1>3 DEF TakeWakes
  <1>4. CASE st # "running" /\ FateOf(st, t, last) # "consumed"
    <2>1. PICK g : g = h("taken")
      OBVIOUS
    <2>2. g \in [Wakes -> WakeRow]
      <3>1. t \in TurnIds
        BY TurnIsId
      <3>2. \A r \in WakeRow : [r EXCEPT !.state = "taken", !.turn = t] \in WakeRow
        BY <3>1 DEF WakeRow, WakeStates
      <3>. QED
        BY <2>1, <3>2 DEF Hand
    <2>3. PICK c \in BOOLEAN : c = (FateOf(st, t, last) = "counted")
      OBVIOUS
    <2>4. TakeWakes(wk, ws, t, st, last, ret)[w] = HandBack(g, t, c, ret)[w]
      BY <1>4, <2>1, <2>3 DEF TakeWakes
    <2>5. \/ HandBack(g, t, c, ret)[w] = g[w]
          \/ w \in TakenBy(g, t) /\ HandBack(g, t, c, ret)[w].state \in {"dropped", "queued"}
      <3>1. \/ HandBack(g, t, c, ret)[w] = g[w]
            \/ w \in TakenBy(g, t) /\ GivenBack(g[w], HandBack(g, t, c, ret)[w], c, ret)
        BY <2>2, <2>3, HandBackRow
      <3>. QED
        BY <3>1 DEF GivenBack
    <2>6. /\ g[w] = wk[w] \/ (w \in ws /\ g[w].state = "taken" /\ g[w].turn = t)
          /\ g[w].state = "queued" => wk[w].state = "queued" /\ w \notin ws
      BY <1>1, <2>1
    <2>7. w \in TakenBy(g, t) => w \in ws \/ w \in TakenBy(wk, t)
      BY <2>6 DEF TakenBy
    <2>. HIDE DEF h
    <2>. QED
      BY <1>4, <2>4, <2>5, <2>6, <2>7
  <1>. QED
    BY <1>2, <1>3, <1>4

\* What a CLI received, and the failures of those turns, stay.
LEMMA StepSent ==
    ASSUME TypeOK, TypeOK', NumberInv, [Next]_vars
    PROVE  /\ \A t \in Turns : Again(t) => Again(t)'
           /\ ~CliAccept => got' = got
  <1>1. \A t \in Turns : how'[t] = how[t] \/ t = cli.turn
    BY WorldGrows
  <1>2. \A t \in Turns : t = cli.turn => how[t] = "none"
    BY DEF NumberInv, EndsIn, Turns, NoTurn
  <1>3. ~CliAccept => got' = got
    BY StepWorld DEF CliOwnTurn, CliDeathReported, CliExit, Gone, CliFinish
  <1>. QED
    BY <1>1, <1>2, <1>3 DEF Again

\* A take of an input whose turn is over finds that turn's end the last one: it
\* gives back what was sent only if the turn failed.
LEMMA LateTake ==
    ASSUME TypeOK, LastInv, SteadyInv, NewestInv, adm.pc = "take",
           NEW st, st = EnsureTurn(turn, adm.turn, live.epoch)[adm.turn].status, st # "running",
           FateOf(st, adm.turn, live.last) # "consumed"
    PROVE  Again(adm.turn)
  <1>1. adm.turn \in Turns /\ turn \in [Turns -> TurnRow] /\ live \in LiveType
    BY DEF TypeOK
  <1>2. turn[adm.turn].status \notin {"none", "running"}
    BY <1>1 DEF EnsureTurn, TurnRow
  <1>3. LastTurn = adm.turn
    BY <1>1, <1>2 DEF NewestInv, Handing
  <1>4. live.last.fate = "counted"
    <2>1. FateOf(st, adm.turn, live.last) = live.last.fate
      BY <1>3 DEF FateOf, LastTurn
    <2>2. live.last.fate \in Fates /\ live.last.fate # "back"
      BY <1>1, <1>3 DEF SteadyInv, LiveType, Turns, NoTurn
    <2>. QED
      BY <2>1, <2>2 DEF Fates
  <1>. QED
    BY <1>1, <1>3, <1>4 DEF LastInv, Again, Turns, NoTurn

LEMMA StepAgain ==
    ASSUME Reliable, TypeOK, TypeOK', HoldInv, ProcInv, QueueInv, NumberInv, LastInv, CountInv, SteadyInv, NewestInv,
           AgainInv, [Next]_vars
    PROVE  AgainInv'
  <1>1. /\ wake \in [Wakes -> WakeRow] /\ adm \in AdmType /\ got \in [Turns -> SUBSET Wakes] /\ nextTurn \in Nat
        /\ nextTurn' \in Nat /\ wake' \in [Wakes -> WakeRow]
    BY StoreAssumption DEF TypeOK
  <1>2. \A t \in Turns : Again(t) => Again(t)'
    BY StepSent
  <1>3. CASE CliAccept
    <2>1. /\ adm.pc = "sending" /\ cli.turn = NoTurn
      <3>1. cli.turn # NoTurn => cli.turn \in Turns /\ Ahead(cli.turn)
        BY Parts DEF Ahead, AheadIn
      <3>. QED
        BY <1>3, <3>1 DEF CliAccept, NewestInv, Handing
    <2>2. /\ nextTurn \in Turns /\ nextTurn' = nextTurn + 1
          /\ adm'.pc = "accepted" /\ adm'.turn = nextTurn /\ adm'.ws = adm.ws /\ wake' = wake
          /\ got' = [got EXCEPT ![nextTurn] = @ \cup adm.ws]
      <3>1. cli'.turn = nextTurn
        BY <1>3, <2>1 DEF CliAccept, TypeOK, CliType
      <3>. QED
        BY <1>1, <1>3, <2>1, <3>1 DEF CliAccept, AdmType, rows
    <2>3. got[nextTurn] = {}
      BY <1>1, <2>2 DEF AgainInv
    <2>4. \A w \in Wakes : \A t \in Sent(w)' : (t \in Sent(w) /\ t # nextTurn) \/ (t = nextTurn /\ w \in adm.ws)
      BY <1>1, <2>2, <2>3 DEF Sent
    <2>5. \A w, t : ~Pending(w, t)
      BY <2>1 DEF Pending, Handing
    <2>6. ASSUME NEW w \in adm.ws, NEW t \in Turns, t = nextTurn
          PROVE  Pending(w, t)'
      BY <2>2, <2>6 DEF Pending, Handing
    <2>7. ASSUME NEW w \in Wakes, NEW t \in Sent(w)'
          PROVE  /\ wake'[w].state \in {"absent", "queued"} => Again(t)' \/ Pending(w, t)'
                 /\ wake'[w].state = "taken" => Again(t)' \/ t = wake'[w].turn
                 /\ adm'.pc \in Holding /\ w \in adm'.ws => Again(t)' \/ Pending(w, t)'
                 /\ \A s \in Sent(w)' : s < t => Again(s)'
      <3>1. CASE t \in Sent(w) /\ t # nextTurn
        <4>1. /\ wake[w].state \in {"absent", "queued"} => Again(t)
              /\ wake[w].state = "taken" => Again(t) \/ t = wake[w].turn
              /\ w \in adm.ws => Again(t)
              /\ \A s \in Sent(w) : s < t => Again(s)
          BY <2>1, <2>5, <3>1 DEF AgainInv, Holding
        <4>2. t \in Turns
          BY <3>1 DEF Sent
        <4>3. ASSUME NEW s \in Sent(w)', s < t PROVE Again(s)'
          <5>1. s # nextTurn
            <6>1. t < nextTurn
              <7>1. t \in Nat /\ got[t] # {}
                BY <3>1, <4>2 DEF Sent, Turns
              <7>. QED
                BY <1>1, <4>2, <7>1 DEF AgainInv
            <6>. QED
              BY <1>1, <4>2, <4>3, <6>1 DEF Turns
          <5>2. s \in Sent(w) /\ s \in Turns
            BY <2>4, <4>3, <5>1 DEF Sent
          <5>. QED
            BY <1>2, <4>1, <4>3, <5>2
        <4>. QED
          BY <1>2, <2>2, <4>1, <4>2, <4>3
      <3>2. CASE t = nextTurn /\ w \in adm.ws
        <4>1. Pending(w, t)'
          BY <2>2, <2>6, <3>2
        <4>2. wake[w].state # "taken"
          BY <2>1, <3>2 DEF CountInv, Holding
        <4>3. ASSUME NEW s \in Sent(w)', s < t PROVE Again(s)'
          <5>1. s # nextTurn
            BY <1>1, <3>2, <4>3
          <5>2. s \in Sent(w) /\ s \in Turns
            BY <2>4, <4>3, <5>1 DEF Sent
          <5>3. Again(s)
            BY <2>1, <2>5, <3>2, <5>2 DEF AgainInv, Holding
          <5>. QED
            BY <1>2, <5>2, <5>3
        <4>. QED
          BY <2>2, <4>1, <4>2, <4>3
      <3>. QED
        BY <2>4, <2>7, <3>1, <3>2
    <2>8. \A t \in Turns : t >= nextTurn' => got'[t] = {}
      <3>1. \A t \in Turns : t >= nextTurn' => t # nextTurn /\ t >= nextTurn
        BY <1>1, <2>2 DEF Turns
      <3>. QED
        BY <1>1, <2>2, <3>1 DEF AgainInv
    <2>. QED
      BY <2>7, <2>8 DEF AgainInv
  <1>4. CASE ~CliAccept
    <2>1. got' = got /\ nextTurn' = nextTurn
      BY <1>4, StepSent, NoOwnTurn DEF Reliable
    <2>2. \A w \in Wakes : \A t \in Sent(w) : t \in Turns
      BY DEF Sent
    <2>3. SUFFICES ASSUME NEW w \in Wakes, NEW t \in Sent(w)
                   PROVE  /\ wake'[w].state \in {"absent", "queued"} => Again(t) \/ Pending(w, t)'
                          /\ wake'[w].state = "taken" => Again(t) \/ t = wake'[w].turn
                          /\ adm'.pc \in Holding /\ w \in adm'.ws => Again(t) \/ Pending(w, t)'
      <3>1. \A w \in Wakes : Sent(w)' = Sent(w)
        BY <2>1 DEF Sent
      <3>2. \A w \in Wakes : \A t \in Sent(w) : \A s \in Sent(w) : s < t => Again(s)'
        BY <1>2, <2>2 DEF AgainInv
      <3>. QED
        BY <1>2, <2>1, <2>2, <3>1, <3>2 DEF AgainInv
    <2>4. /\ wake[w].state \in {"absent", "queued"} => Again(t) \/ Pending(w, t)
          /\ wake[w].state = "taken" => Again(t) \/ t = wake[w].turn
          /\ adm.pc \in Holding /\ w \in adm.ws => Again(t) \/ Pending(w, t)
          /\ t \in Turns
      BY <2>2 DEF AgainInv
    <2>5. CASE Take
      <3>1. /\ adm.pc = "take" /\ adm'.pc = "none" /\ adm.turn \in Turns
        BY <2>5, AdmSteps DEF Take, TypeOK
      <3>2. PICK st : st = EnsureTurn(turn, adm.turn, live.epoch)[adm.turn].status
        OBVIOUS
      <3>3. wake' = TakeWakes(wake, adm.ws, adm.turn, st, live.last, retired)
        BY <2>5, <3>2 DEF Take, Took
      <3>11. PICK r : r = TakeWakes(wake, adm.ws, adm.turn, st, live.last, retired)[w]
        OBVIOUS
      <3>4. /\ r.state = "absent" => wake[w].state = "absent"
            /\ r.state = "taken" => r = wake[w] \/ (w \in adm.ws /\ r.turn = adm.turn)
            /\ r.state = "queued" =>
                  \/ wake[w].state = "queued" /\ w \notin adm.ws
                  \/ /\ st # "running" /\ FateOf(st, adm.turn, live.last) # "consumed"
                     /\ w \in adm.ws \/ w \in TakenBy(wake, adm.turn)
        <4>1. PICK last : last = live.last
          OBVIOUS
        <4>2. TakenAs(wake, w, adm.ws, adm.turn, st, last, TakeWakes(wake, adm.ws, adm.turn, st, last, retired)[w])
          BY <1>1, <3>1, TakeState
        <4>. QED
          BY <3>11, <4>1, <4>2 DEF TakenAs
      <3>5. wake'[w] = r
        BY <3>3, <3>11
      <3>6. Pending(w, t) => t = adm.turn /\ w \in adm.ws
        BY DEF Pending
      <3>7. w \in adm.ws => Again(t) \/ t = adm.turn
        BY <2>4, <3>1, <3>6 DEF Holding
      <3>8. ASSUME r.state = "absent" PROVE Again(t)
        <4>1. w \notin adm.ws
          BY <3>1, <3>4, <3>8 DEF CountInv, Holding
        <4>. QED
          BY <2>4, <3>4, <3>6, <3>8, <4>1
      <3>9. ASSUME r.state = "queued" PROVE Again(t)
        <4>1. CASE wake[w].state = "queued" /\ w \notin adm.ws
          BY <2>4, <3>6, <4>1
        <4>2. CASE /\ st # "running" /\ FateOf(st, adm.turn, live.last) # "consumed"
                   /\ w \in adm.ws \/ w \in TakenBy(wake, adm.turn)
          <5>1. Again(adm.turn)
            BY <3>1, <3>2, <4>2, LateTake
          <5>2. w \in TakenBy(wake, adm.turn) => Again(t) \/ t = adm.turn
            BY <2>4 DEF TakenBy
          <5>. QED
            BY <3>7, <4>2, <5>1, <5>2
        <4>. QED
          BY <3>4, <3>9, <4>1, <4>2
      <3>10. r.state = "taken" => Again(t) \/ t = r.turn
        BY <2>4, <3>4, <3>7
      <3>. QED
        BY <3>1, <3>5, <3>8, <3>9, <3>10 DEF Holding
    <2>6. CASE ~Take
      <3>1. Pending(w, t) => Pending(w, t)'
        BY <2>6, StepHands DEF Pending, Handing
      <3>2. /\ wake'[w].state \in {"absent", "queued"} => Again(t) \/ Pending(w, t)
            /\ wake'[w].state = "taken" => Again(t) \/ t = wake'[w].turn
        <4>1. CASE wake'[w] = wake[w]
          BY <2>4, <4>1
        <4>2. CASE wake'[w].state = "queued" /\ wake[w].state = "absent"
          BY <2>4, <4>2
        <4>3. CASE wake'[w].state \in {"moved", "dropped", "consumed"}
          BY <4>3
        <4>4. CASE PumpFinished
          <5>. DEFINE f == Outcome(how[Head(cli.q).turn], live.reason).fate
          <5>1. PICK s \in Turns : s = Head(cli.q).turn /\ how[s] \in Ends
            BY <4>4, EndRead
          <5>2. wake' = Settle(wake, s, f, retired)
            BY <4>4, <5>1 DEF PumpFinished
          <5>3. f \in Fates /\ (f # "consumed" => how[s] \in {"retry", "crash"})
            <6>1. how[s] # "interrupted"
              BY <5>1 DEF SteadyInv
            <6>. QED
              BY <5>1, <6>1 DEF Outcome, Ends, Fates
          <5>. HIDE DEF f
          <5>4. \/ wake'[w] = wake[w]
                \/ /\ w \in TakenBy(wake, s)
                   /\ wake'[w].state \in {"consumed", "dropped"} \/ (wake'[w].state = "queued" /\ f # "consumed")
            BY <1>1, <5>2, <5>3, SettleState
          <5>5. w \in TakenBy(wake, s) => Again(t) \/ t = s
            BY <2>4 DEF TakenBy
          <5>. QED
            BY <2>4, <5>3, <5>4, <5>5 DEF Again
        <4>5. CASE UNCHANGED wake
          BY <4>1, <4>5
        <4>6. ASSUME NEW v \in Wakes, Delivered(v)
              PROVE  wake'[w] = wake[w] \/ (wake'[w].state = "queued" /\ wake[w].state = "absent")
          BY <1>1, <4>6 DEF Delivered, Enqueue, WakeRow
        <4>7. ASSUME Recycled PROVE wake'[w] = wake[w] \/ wake'[w].state = "moved"
          BY <1>1, <4>7 DEF Recycled, MoveQueued, WakeRow
        <4>8. ASSUME Refused(adm.ws) PROVE wake'[w] = wake[w] \/ wake'[w].state = "dropped"
          BY <1>1, <4>8 DEF Refused, Drop, WakeRow
        <4>9. ~(adm.pc = "take" /\ adm'.pc = "none" /\ Handed(adm.ws, adm.turn))
          BY <2>6, StepHands DEF Handing
        <4>. QED
          BY <4>1, <4>2, <4>3, <4>4, <4>5, <4>6, <4>7, <4>8, <4>9, StepRows, RuledOut DEF PumpStarted
      <3>3. adm'.pc \in Holding /\ w \in adm'.ws => Again(t) \/ Pending(w, t)
        <4>1. w \in Queued(wake) => Again(t) \/ Pending(w, t)
          BY <2>4 DEF Queued
        <4>. QED
          BY <2>4, <4>1, StepTask
      <3>. QED
        BY <3>1, <3>2, <3>3
    <2>. QED
      BY <2>5, <2>6
  <1>. QED
    BY <1>3, <1>4

\* While the server runs and its store holds, a message goes to a second turn only
\* if the first one failed: a batch whose turn ends before send returns, or before
\* take_wakes is committed, is settled as that turn ended, and is not sent again.
THEOREM SentAgainIsFailed ==
    ASSUME Faults \cap {"crash", "shutdown", "store", "own"} = {}
    PROVE  Spec => []SentAgainOnlyAfterFailure
  <1>1. Reliable
    BY DEF Reliable
  <1>2. ASSUME TypeOK, TypeOK', CliInv, GiveUpInv, OrderInv', SteadyInv, NewestInv, AgainInv, [Next]_vars
        PROVE  (SteadyInv /\ NewestInv /\ AgainInv)'
    <2>1. SteadyInv'
      BY <1>1, <1>2, StepSteady DEF CliInv, GiveUpInv
    <2>2. NewestInv'
      BY <1>1, <1>2, StepNewest DEF CliInv, GiveUpInv
    <2>3. AgainInv'
      BY <1>1, <1>2, StepAgain DEF CliInv, GiveUpInv
    <2>. QED
      BY <2>1, <2>2, <2>3
  <1>3. ASSUME TypeOK, TypeOK', CliInv, CliInv', GiveUpInv, OrderInv, [Next]_vars PROVE OrderInv'
    BY <1>3, StepOrder DEF CliInv, GiveUpInv
  <1>4. AgainInv => SentAgainOnlyAfterFailure
    BY DEF AgainInv, SentAgainOnlyAfterFailure, Sent, Again
  <1>5. Init => OrderInv /\ SteadyInv /\ NewestInv /\ AgainInv
    BY InitShown, InitSteady
  <1>. QED
    BY <1>2, <1>3, <1>4, <1>5, TypeCorrect, CliCorrect, GiveUpCorrect, PTL DEF Spec

=============================================================================
