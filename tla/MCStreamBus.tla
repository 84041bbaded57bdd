---------------------------- MODULE MCStreamBus -----------------------------
(* StreamBus on small instances, and what its runs check.                   *)
EXTENDS StreamBus

Everything == [wants |-> Classes, chat |-> FALSE]
OneChat    == [wants |-> {"turn"}, chat |-> TRUE]
TwoFilters == {Everything, OneChat}

-----------------------------------------------------------------------------
(***************************************************************************)
(* The stored frames the client asked for, by their places.                *)
(***************************************************************************)

\* A text block's end is the first frame of the event that finishes it.
Wanted(i, part) ==
    CASE log[i].kind = "note"                -> "note" \in filter.wants /\ ~filter.chat
      [] log[i].prev # 0 /\ part = 1         -> WantsBlocks
      [] log[i].kind = "text"                -> WantsBlocks
      [] OTHER                               -> "turn" \in filter.wants

Parts(i) == IF log[i].prev # 0 THEN 1 .. 2 ELSE 1 .. 1

\* Their numbers, in the order of the stream: an event gives two at most.
Due == {n \in 1 .. 2 * Len(log) : \E i \in Seqs : \E part \in Parts(i) : Wanted(i, part) /\ n = 2 * i - 2 + part}

Position(p) == Cardinality({n \in Due : n <= 2 * p.seq - p.part})

Abstract == INSTANCE EventFeed WITH
    head <- Position(Whole(Len(log))),
    got  <- Position(IF client.id = NoPoint THEN Whole(client.base) ELSE client.id),
    told <- (client.id = NoPoint /\ conn.at = "off") \/ (wire # <<>> /\ wire[1].kind = "gone")

\* Each stored frame once and in order, through replays, pages, slow queues, lost
\* connections, prunes and restarts; or the client is told to load again.
Feed == Abstract!FSpec

\* What a client shows that gets these frames, one by one.
Shows(vw, fs) ==
    LET after[n \in 0 .. Len(fs)] == IF n = 0 THEN vw ELSE Apply(after[n - 1], fs[n])
    IN  after[Len(fs)]

Coming     == Shows(client.view, wire \o sub.queue)
Undone(vw) == {b \in vw : ~b.done}
AllOpen    == {[turn |-> Running, block |-> o.block, len |-> o.len, done |-> FALSE] : o \in OpenBlocks}

\* What the client shows of open blocks, once it has what is on its way to it, is
\* what the bus says is open: no update is lost, repeated or late.  A client that
\* lost live frames is due a snapshot first.
ViewIsWhole ==
    sub.live /\ conn.at = "live" /\ ~sub.stale /\ ~sub.reset /\ ~closed /\ {"turn", "block"} \subseteq filter.wants
    => Undone(Coming) = AllOpen

-----------------------------------------------------------------------------
(***************************************************************************)
(* Fairness: the loop runs what is due, the client reads and reconnects,   *)
(* a server told to stop is started again.                                 *)
(***************************************************************************)

LiveSpec ==
    /\ Spec
    /\ WF_vars(Announce) /\ WF_vars(Flush) /\ WF_vars(Task) /\ WF_vars(Connect) /\ WF_vars(Receive)
    /\ WF_vars(closed /\ Restart)

\* The client is brought up to date whenever events and faults pause for long enough.
UpToDate == Abstract!UpToDate

=============================================================================
