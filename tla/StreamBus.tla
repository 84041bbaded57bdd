----------------------------- MODULE StreamBus ------------------------------
(***************************************************************************)
(* Storm's live stream: how the store's events and the text an agent is    *)
(* still writing reach one client (stream/bus.py, stream/replay.py,        *)
(* stream/frames.py, stream/turns.py and the SSE writer `stream').         *)
(*                                                                         *)
(* The store announces each commit to the bus after it, in order.  The bus *)
(* folds it into frames and offers them to its subscribers' queues; live   *)
(* text it collects and flushes by a timer.  A client's stream subscribes  *)
(* first, replays the stored frames after the client's place page by page, *)
(* then goes live: the queue less what was replayed, a snapshot of what is *)
(* open, and what comes after.  Subscribers do not see each other, so one  *)
(* client is modelled; it connects again with the last id it got.          *)
(*                                                                         *)
(* Events of one session: its turns begin, record text blocks and end; a   *)
(* `note' stands for any other event.  Of a turn's blocks only the text is *)
(* modelled, and of text only its length, in deltas.                       *)
(***************************************************************************)
EXTENDS Integers, Sequences, FiniteSets, Functions

CONSTANTS
    QueueLimit,   \* QUEUE_LIMIT of stream/bus.py
    PageLimit,    \* PAGE_LIMIT of stream/replay.py
    Filters,      \* the filters a client may ask for
    MaxEvents,    \* bounds: events the store ever holds,
    MaxDeltas,    \*   deltas of one block,
    Faults,       \*   the faults and outside events that may happen,
    MaxFaults,    \*   and how many of them do (prunes apart)
    PruneDuring   \* when the moment that retention passes may fall: into a replay,
                  \*   between two events of a turn, or while a client is away that
                  \*   lost its connection inside the newest event

Classes    == {"turn", "block", "note"}
FaultKinds == {"drop", "prune", "stop", "crash"}

ASSUME StreamAssumption ==
    /\ QueueLimit \in Nat \ {0} /\ PageLimit \in Nat \ {0}
    /\ MaxEvents \in Nat /\ MaxDeltas \in Nat /\ MaxFaults \in Nat
    /\ Faults \subseteq FaultKinds /\ PruneDuring \subseteq {"replay", "turn", "inside"}
    /\ Filters # {} /\ Filters \subseteq [wants : SUBSET Classes, chat : BOOLEAN]

VARIABLES
    log,        \* the events committed, in order: seq is the index
    aged,       \* how many of them are older than RETENTION_S
    pruned,     \* the seqs the daily prune deleted
    processed,  \* the last seq the bus has handed on
    running,    \* the turn that those events leave running
    live,       \* the block that streams ahead of its record: is it shown, how
                \*   much the agent said, how much of that clients were sent
    closed,     \* the bus was closed (the server is stopping)
    filter,     \* what the client asked for
    sub,        \* the stream's queue (Subscriber)
    conn,       \* the task that serves the stream
    wire,       \* the frame it yielded last, until the client has it
    client,     \* what the client has
    faults

store  == <<log, aged, pruned>>
bus    == <<processed, running, live, closed>>
stream == <<sub, conn, wire>>
vars   == <<store, bus, filter, stream, client, faults>>

-----------------------------------------------------------------------------
(***************************************************************************)
(* Places, frames and filters (stream/frames.py).                          *)
(***************************************************************************)

\* After all of seq (part 0), or after its first `part' frames.
Point(seq, part) == [seq |-> seq, part |-> part]
Whole(seq)       == Point(seq, 0)
NoPoint          == Point(-1, 0)

\* A frame of a stored event has its seq and part (from 1); a live-only one has seq 0.
Frame(kind, turn, block, len) ==
    [kind |-> kind, seq |-> 0, part |-> 0, last |-> FALSE, turn |-> turn, block |-> block,
     len |-> len, blocks |-> {}]

Control(kind, place) == [Frame(kind, 0, 0, 0) EXCEPT !.seq = place.seq, !.part = place.part]

Stored(f) == f.seq > 0 /\ f.kind \notin {"slow", "gone"}

After(f) == Point(f.seq, IF f.last THEN 0 ELSE f.part)

Covers(p, f) ==
    /\ Stored(f)
    /\ f.seq < p.seq \/ (f.seq = p.seq /\ (p.part = 0 \/ f.part <= p.part))

ClassOf(f) == CASE f.kind \in {"begin", "end"}            -> "turn"
                [] f.kind \in {"open", "append", "close"} -> "block"
                [] OTHER                                  -> "note"

\* Snapshots are not filtered.  A filter on the chat leaves the notes out.
Matches(f) ==
    \/ f.kind = "snapshot"
    \/ ClassOf(f) \in filter.wants /\ ~(filter.chat /\ f.kind = "note")

WantsBlocks == "block" \in filter.wants

-----------------------------------------------------------------------------
(***************************************************************************)
(* Stored events to frames: the fold that the live stream and a replay     *)
(* share (stream/turns.py, stream/presenter.py).                           *)
(***************************************************************************)

Seqs == 1 .. Len(log)

Maximum(S) == CHOOSE n \in S : \A m \in S : m <= n

\* The elements of S, in the order of their keys.
InOrder(S, key) ==
    [n \in 1 .. Cardinality(S) |-> CHOOSE x \in S : Cardinality({y \in S : key[y] <= key[x]}) = n]

\* More work follows, or the turn ends: the text block that is still open, recorded
\* at `prev', finishes first, if the fold was given it.
Frames(i, seen) ==
    LET e     == log[i]
        own   == IF e.kind = "text" THEN Frame("open", e.turn, e.block, e.len) ELSE Frame(e.kind, e.turn, 0, 0)
        all   == IF e.prev \in seen
                 THEN <<Frame("close", e.turn, log[e.prev].block, log[e.prev].len), own>> ELSE <<own>>
    IN  [k \in 1 .. Len(all) |->
           [all[k] EXCEPT !.seq = i, !.part = k, !.last = (k = Len(all))]]

\* The turn the bus presents: its blocks so far, and the seq that recorded the open one.
NotRunning == [turn |-> 0, blocks |-> 0, open |-> 0]
Folded(i) == CASE log[i].kind = "begin" -> [turn |-> log[i].turn, blocks |-> 0, open |-> 0]
               [] log[i].kind = "text"  -> [running EXCEPT !.blocks = @ + 1, !.open = i]
               [] log[i].kind = "end"   -> NotRunning
               [] OTHER                 -> running

Running   == running.turn
NextBlock == running.blocks + 1

NoLive == [shown |-> FALSE, said |-> 0, sent |-> 0]

\* The running turn as its clients were last sent it.
OpenBlocks ==
    {[block |-> log[o].block, len |-> log[o].len] : o \in {running.open} \ {0}}
      \cup (IF live.shown THEN {[block |-> NextBlock, len |-> live.sent]} ELSE {})

Snapshot == [Frame("snapshot", Running, 0, 0) EXCEPT !.blocks = OpenBlocks]

-----------------------------------------------------------------------------
(***************************************************************************)
(* A subscriber's queue (Subscriber of stream/bus.py).                     *)
(***************************************************************************)

NoSub == [on |-> FALSE, queue |-> <<>>, live |-> FALSE, stale |-> FALSE, reset |-> FALSE,
          sent |-> Whole(0)]

\* What a queue keeps of itself, by the places kept.
Sifted(queue, places) ==
    LET order == InOrder(places, [i \in places |-> i])
    IN  [n \in DOMAIN order |-> queue[order[n]]]

OnlyStored(queue) == Sifted(queue, {i \in DOMAIN queue : Stored(queue[i])})

Ignores(s, f) ==
    ~s.on \/ s.reset \/ closed \/ ~Matches(f) \/ (~Stored(f) /\ (s.stale \/ ~s.live))

Full(s) == Len(s.queue) >= QueueLimit

\* A full queue loses its live frames; a stored frame that still does not fit ends
\* the stream.
SqueezeForgets(s, f) ==
    LET kept == OnlyStored(s.queue)
    IN  IF ~Stored(f) THEN [s EXCEPT !.queue = kept]
        ELSE IF Len(kept) >= QueueLimit THEN [s EXCEPT !.queue = <<>>, !.reset = TRUE]
        ELSE [s EXCEPT !.queue = Append(kept, f)]
SqueezeDrops(s, f) ==
    LET kept == OnlyStored(s.queue)
    IN  [s EXCEPT !.queue = IF Stored(f) /\ Len(kept) < QueueLimit THEN Append(kept, f) ELSE kept,
                  !.stale = TRUE]
Squeeze(s, f) ==
    LET kept  == OnlyStored(s.queue)
        stale == s.stale \/ Len(kept) < Len(s.queue)
    IN  IF ~Stored(f) THEN [s EXCEPT !.queue = kept, !.stale = TRUE]
        ELSE IF Len(kept) >= QueueLimit
             THEN [s EXCEPT !.queue = <<>>, !.stale = stale, !.reset = TRUE]
        ELSE [s EXCEPT !.queue = Append(kept, f), !.stale = stale]

Offer(s, f) ==
    CASE Ignores(s, f) -> s
      [] ~Ignores(s, f) /\ ~Full(s) -> [s EXCEPT !.queue = Append(@, f)]
      [] ~Ignores(s, f) /\ Full(s)  -> Squeeze(s, f)

\* An event gives one or two frames, and the flush before it one.
Publish(fs) ==
    \E one \in {IF Len(fs) >= 1 THEN Offer(sub, fs[1]) ELSE sub} :
    \E two \in {IF Len(fs) >= 2 THEN Offer(one, fs[2]) ELSE one} :
        sub' = IF Len(fs) >= 3 THEN Offer(two, fs[3]) ELSE two

\* What the client does not have yet of the queue, then what is open.
WentLive(s, upto) ==
    LET rest == Sifted(s.queue, {i \in DOMAIN s.queue : ~Covers(upto, s.queue[i])})
    IN  [s EXCEPT !.queue = IF WantsBlocks THEN Append(rest, Snapshot) ELSE rest,
                  !.sent = upto, !.live = TRUE]

-----------------------------------------------------------------------------
(***************************************************************************)
(* The agent and the store.                                                *)
(***************************************************************************)

\* The turn that the first n events leave running, and what the next one finishes.
TurnAt(n) ==
    LET marks == {i \in 1 .. n : log[i].kind \in {"begin", "end"}}
    IN  IF marks # {} /\ log[Maximum(marks)].kind = "begin" THEN log[Maximum(marks)].turn ELSE 0
TurnNow   == TurnAt(Len(log))
OpenNow   ==
    LET texts == {i \in Seqs : log[i].kind = "text" /\ log[i].turn = TurnNow}
    IN  IF texts = {} THEN 0 ELSE Maximum(texts)

\* The pump waits for the announcement of what it records.
PumpIsFree == \A i \in processed + 1 .. Len(log) : log[i].kind = "note"

Event(kind, turn, block, len) ==
    [kind |-> kind, turn |-> turn, block |-> block, len |-> len,
     prev |-> IF kind \in {"text", "end"} THEN OpenNow ELSE 0]

Commit(kind, turn, block, len) ==
    /\ Len(log) < MaxEvents
    /\ log' = Append(log, Event(kind, turn, block, len))
    /\ UNCHANGED <<aged, pruned, bus, filter, stream, client, faults>>

TurnBegins ==
    /\ TurnNow = 0 /\ PumpIsFree /\ ~closed
    /\ Commit("begin", Len(log) + 1, 0, 0)

\* The text is recorded as it was streamed; a runtime may not stream it at all.
TextRecorded ==
    /\ TurnNow # 0 /\ PumpIsFree /\ ~closed
    /\ Commit("text", TurnNow, NextBlock, IF live.said > 0 THEN live.said ELSE 1)

TurnEnds == TurnNow # 0 /\ PumpIsFree /\ ~closed /\ Commit("end", TurnNow, 0, 0)

Noted == Commit("note", 0, 0, 0)

\* A live-only piece of the block that follows.
Delta ==
    /\ Running # 0 /\ PumpIsFree /\ ~closed /\ live.said < MaxDeltas
    /\ live' = [live EXCEPT !.said = @ + 1, !.shown = TRUE]
    /\ Publish(IF live.shown THEN <<>> ELSE <<Frame("open", Running, NextBlock, 0)>>)
    /\ UNCHANGED <<store, processed, running, closed, filter, conn, wire, client, faults>>

Pending == IF live.said > live.sent
           THEN <<Frame("append", Running, NextBlock, live.said - live.sent)>> ELSE <<>>

\* The timer of the coalescing.
Flush ==
    /\ Pending # <<>> /\ ~closed
    /\ live' = [live EXCEPT !.sent = live.said]
    /\ Publish(Pending)
    /\ UNCHANGED <<store, processed, running, closed, filter, conn, wire, client, faults>>

\* Bus.committed: a turn's pending text goes out before its next stored event.
Announce ==
    /\ processed < Len(log)
    /\ LET i    == processed + 1
           turn == log[i].kind # "note"
       IN  /\ processed' = i /\ running' = Folded(i)
           /\ Publish((IF turn /\ Running # 0 THEN Pending ELSE <<>>) \o Frames(i, Seqs))
           /\ live' = IF log[i].kind \in {"text", "end"} THEN NoLive ELSE live
    /\ ~closed
    /\ UNCHANGED <<store, closed, filter, conn, wire, client, faults>>

Fault(kind) == kind \in Faults /\ faults < MaxFaults /\ faults' = faults + 1

Replaying == conn.at \in {"check", "age", "pages", "page"}

\* No event waits for its announcement, nor a frame for its client, for as long as
\* events are kept.
InFlight(to) ==
    LET frames == wire \o sub.queue \o conn.page
    IN  \E i \in DOMAIN frames : Stored(frames[i]) /\ frames[i].seq <= to

Prune(to) ==
    /\ "prune" \in Faults /\ ~closed
    /\ to \in aged + 1 .. processed
    /\ ~InFlight(to)
    /\ Replaying => "replay" \in PruneDuring
    /\ TurnAt(to) \notin {0, TurnNow} => "turn" \in PruneDuring
    /\ client.id.part # 0 /\ client.id.seq <= to => "inside" \in PruneDuring
    /\ aged' = to
    /\ pruned' = pruned \cup {i \in 1 .. to : /\ log[i].kind = "text"
                                              /\ log[i].turn # TurnNow /\ i # Len(log)}
    /\ UNCHANGED <<log, bus, filter, stream, client, faults>>

-----------------------------------------------------------------------------
(***************************************************************************)
(* The stream's task (`stream', `_catch_up' and Subscriber.frames).        *)
(***************************************************************************)

Idle == [at |-> "off", after |-> NoPoint, from |-> 0, upto |-> Whole(0), page |-> <<>>,
         more |-> FALSE]

\* The client connects, with the last id it has or, as a page that just loaded,
\* from now.
Connect ==
    /\ conn.at = "off" /\ ~closed
    /\ sub' = [NoSub EXCEPT !.on = TRUE]
    /\ conn' = [Idle EXCEPT !.at = IF client.id = NoPoint THEN "held" ELSE "check",
                            !.after = client.id, !.upto = Whole(processed)]
    /\ client' = IF client.id = NoPoint THEN [client EXCEPT !.base = processed, !.view = {}] ELSE client
    /\ UNCHANGED <<store, bus, filter, wire, faults>>

Kept == Seqs \ pruned

\* stale_point: the store never got there, or no longer has what came after.
Ahead == conn.after.seq > Len(log)
TooOld ==
    LET before == {i \in Kept : i <= conn.after.seq}
        first  == IF before # {} THEN {Maximum(before)} ELSE Kept \cap {1}
    IN  \A i \in first : i <= aged

Reset(kind, place) ==
    /\ wire' = <<Control(kind, place)>>
    /\ conn' = [Idle EXCEPT !.at = "over"]

Catching == [conn EXCEPT !.at = "pages", !.upto = conn.after,
                         !.from = IF conn.after.part = 0 THEN conn.after.seq ELSE conn.after.seq - 1]

CheckHead ==
    /\ conn.at = "check"
    /\ IF Ahead THEN Reset("gone", Whole(Len(log)))
       ELSE /\ conn' = IF conn.after.seq = Len(log) THEN Catching
                       ELSE [conn EXCEPT !.at = "age", !.from = Len(log)]
            /\ UNCHANGED wire
    /\ UNCHANGED <<store, bus, filter, sub, client, faults>>

CheckAge ==
    /\ conn.at = "age"
    /\ IF TooOld THEN Reset("gone", Whole(conn.from))
       ELSE conn' = Catching /\ UNCHANGED wire
    /\ UNCHANGED <<store, bus, filter, sub, client, faults>>

\* The stored events after `from' that the filter's chat allows, one page.
Rest == {i \in Kept : i > conn.from /\ ~(filter.chat /\ log[i].kind = "note")}
Page == {i \in Rest : Cardinality({j \in Rest : j < i}) < PageLimit}

\* Their frames; a turn met mid-way is folded from its own earlier events first.
PageFrames(page, seen) ==
    LET frames == UNION {Range(Frames(i, seen)) : i \in page}
        due    == {f \in frames : Matches(f) /\ ~Covers(conn.after, f)}
    IN  InOrder(due, [f \in due |-> 2 * f.seq + f.part])

ReadPage ==
    /\ conn.at = "pages"
    /\ conn' = [conn EXCEPT
         !.at = "page", !.page = PageFrames(Page, Kept), !.more = (Cardinality(Page) = PageLimit),
         !.from = IF Page = {} THEN @ ELSE Maximum(Page),
         !.upto = IF Page = {} THEN @ ELSE Whole(Maximum(Page))]
    /\ UNCHANGED <<store, bus, filter, sub, wire, client, faults>>

YieldReplayed ==
    /\ conn.at = "page" /\ conn.page # <<>> /\ wire = <<>>
    /\ wire' = <<Head(conn.page)>>
    /\ conn' = [conn EXCEPT !.page = Tail(@)]
    /\ UNCHANGED <<store, bus, filter, sub, client, faults>>

PageIsDone ==
    /\ conn.at = "page" /\ conn.page = <<>> /\ wire = <<>>
    /\ conn' = IF conn.more THEN [conn EXCEPT !.at = "pages"] ELSE [Idle EXCEPT !.at = "caught", !.upto = conn.upto]
    /\ UNCHANGED <<store, bus, filter, sub, wire, client, faults>>

\* Bus.caught_up: the snapshot must show the state after what was replayed.
CaughtUp ==
    /\ conn.at = "caught" /\ (processed >= conn.upto.seq \/ closed)
    /\ conn' = [conn EXCEPT !.at = "held"]
    /\ UNCHANGED <<store, bus, filter, sub, wire, client, faults>>

\* After asking for the held items, which commits may overtake.
GoLive ==
    /\ conn.at = "held"
    /\ IF closed THEN conn' = [Idle EXCEPT !.at = "over"] /\ UNCHANGED sub
       ELSE conn' = [Idle EXCEPT !.at = "live"] /\ sub' = WentLive(sub, conn.upto)
    /\ UNCHANGED <<store, bus, filter, wire, client, faults>>

YieldSlow ==
    /\ conn.at = "live" /\ wire = <<>> /\ sub.reset
    /\ Reset("slow", sub.sent)
    /\ UNCHANGED <<store, bus, filter, sub, client, faults>>

YieldNextUnmarked ==
    /\ conn.at = "live" /\ wire = <<>> /\ ~sub.reset /\ sub.queue # <<>>
    /\ sub' = [sub EXCEPT !.queue = Tail(@)] /\ wire' = <<Head(sub.queue)>>
    /\ UNCHANGED <<store, bus, filter, conn, client, faults>>
YieldNext ==
    /\ conn.at = "live" /\ wire = <<>> /\ ~sub.reset /\ sub.queue # <<>>
    /\ LET f == Head(sub.queue)
       IN  /\ sub' = [sub EXCEPT !.queue = Tail(@), !.sent = IF Stored(f) THEN After(f) ELSE @]
           /\ wire' = <<f>>
    /\ UNCHANGED <<store, bus, filter, conn, client, faults>>

\* Nothing is queued and live frames were dropped: a fresh snapshot is owed.
AskHeld ==
    /\ conn.at = "live" /\ wire = <<>> /\ ~sub.reset /\ sub.queue = <<>> /\ sub.stale
    /\ IF WantsBlocks THEN conn' = [conn EXCEPT !.at = "snap"] /\ UNCHANGED sub
       ELSE sub' = [sub EXCEPT !.stale = FALSE] /\ UNCHANGED conn
    /\ UNCHANGED <<store, bus, filter, wire, client, faults>>

YieldSnapshot ==
    /\ conn.at = "snap"
    /\ sub' = [sub EXCEPT !.stale = FALSE]
    /\ wire' = <<Snapshot>>
    /\ conn' = [conn EXCEPT !.at = "live"]
    /\ UNCHANGED <<store, bus, filter, client, faults>>

EndOfBus ==
    /\ conn.at = "live" /\ wire = <<>> /\ ~sub.reset /\ sub.queue = <<>> /\ ~sub.stale /\ closed
    /\ conn' = [conn EXCEPT !.at = "over"]
    /\ UNCHANGED <<store, bus, filter, sub, wire, client, faults>>

HangUp ==
    /\ conn.at = "over" /\ wire = <<>>
    /\ conn' = Idle /\ sub' = NoSub
    /\ UNCHANGED <<store, bus, filter, wire, client, faults>>

-----------------------------------------------------------------------------
(***************************************************************************)
(* The client: what a reader of the stream does with a frame.              *)
(***************************************************************************)

At(view, f)      == {b \in view : b.turn = f.turn /\ b.block = f.block}
Shown(f, isDone) == [turn |-> f.turn, block |-> f.block, len |-> f.len, done |-> isDone]

Apply(view, f) ==
    CASE f.kind = "open"     -> IF At(view, f) # {} THEN view ELSE view \cup {Shown(f, FALSE)}
      [] f.kind = "append"   -> (view \ At(view, f)) \cup {[b EXCEPT !.len = @ + f.len] : b \in At(view, f)}
      [] f.kind = "close"    -> (view \ At(view, f)) \cup {Shown(f, TRUE)}
      [] f.kind = "end"      -> {b \in view : b.done \/ b.turn # f.turn}
      [] f.kind = "snapshot" -> {b \in view : b.done \/ b.turn # f.turn}
                                  \cup {[turn |-> f.turn, block |-> o.block, len |-> o.len, done |-> FALSE] :
                                          o \in f.blocks}
      [] OTHER               -> view

Receive ==
    /\ wire # <<>>
    /\ LET f == Head(wire)
       IN  /\ client' = CASE f.kind = "slow" -> [client EXCEPT !.id = Point(f.seq, f.part)]
                          [] f.kind = "gone" -> [client EXCEPT !.id = Point(f.seq, f.part), !.view = {}]
                          [] OTHER -> [client EXCEPT !.id = IF Stored(f) THEN After(f) ELSE @,
                                                     !.view = Apply(@, f)]
    /\ wire' = <<>>
    /\ UNCHANGED <<store, bus, filter, sub, conn, faults>>

-----------------------------------------------------------------------------
(***************************************************************************)
(* What goes wrong around them.                                            *)
(***************************************************************************)

Gone == conn' = Idle /\ sub' = NoSub /\ wire' = <<>>

\* The connection is lost, and with it a frame on its way.
Drop ==
    /\ conn.at # "off" /\ Fault("drop")
    /\ Gone
    /\ UNCHANGED <<store, bus, filter, client>>

\* The server is told to stop: Bus.close.
Stop ==
    /\ ~closed /\ Fault("stop")
    /\ closed' = TRUE
    /\ UNCHANGED <<store, processed, running, live, filter, stream, client>>

\* It starts again, after a stop or a crash: recovery ends the turn that was
\* running before the new bus learns where the store is.
Restart ==
    /\ IF closed THEN UNCHANGED faults ELSE Fault("crash")
    /\ log' = IF TurnNow = 0 THEN log
              ELSE Append(log, Event("end", TurnNow, 0, 0))
    /\ processed' = Len(log')
    /\ running' = NotRunning /\ live' = NoLive /\ closed' = FALSE
    /\ Gone
    /\ UNCHANGED <<aged, pruned, filter, client>>

-----------------------------------------------------------------------------
Init ==
    /\ log = <<>> /\ aged = 0 /\ pruned = {}
    /\ processed = 0 /\ running = NotRunning /\ live = NoLive /\ closed = FALSE
    /\ filter \in Filters
    /\ sub = NoSub /\ conn = Idle /\ wire = <<>>
    /\ client = [id |-> NoPoint, base |-> 0, view |-> {}]
    /\ faults = 0

Agent  == TurnBegins \/ TextRecorded \/ TurnEnds \/ Noted \/ Delta
Task   == \/ CheckHead \/ CheckAge \/ ReadPage \/ YieldReplayed \/ PageIsDone \/ CaughtUp
          \/ GoLive \/ YieldSlow \/ YieldNext \/ AskHeld \/ YieldSnapshot \/ EndOfBus \/ HangUp
Around == Drop \/ Stop \/ Restart \/ \E to \in 0 .. MaxEvents : Prune(to)

Next == Agent \/ Flush \/ Announce \/ Task \/ Connect \/ Receive \/ Around

Spec == Init /\ [][Next]_vars

=============================================================================
