---------------------------- MODULE Inbox_proofs ----------------------------
(***************************************************************************)
(* What is proved of the connection and the inbox, for any things, stamps, *)
(* collectors and budgets: their types; that only a poll whose cursors     *)
(* were not saved records a thing again; that an event whose item was      *)
(* deleted is not reported by a later refresh; that the cursor over all    *)
(* events passes none that came in its time untold; that a key never has   *)
(* two items; that what a person marked done stays done until it is pruned.*)
(***************************************************************************)
EXTENDS Inbox, FiniteSetTheorems, TLAPS

-----------------------------------------------------------------------------
(***************************************************************************)
(* Types.                                                                  *)
(***************************************************************************)

\* The two pollers differ from whoever holds no lock.
LEMMA PollersDiffer == "tick" \in Pollers /\ "now" \in Pollers /\ Nobody \notin Pollers
  BY DEF Pollers, Nobody

\* What a collector adds is finite, so that the total stays a number.
LEMMA FreshIsFinite ==
    ASSUME NEW got \in SUBSET Things, NEW doc
    PROVE  Cardinality(Appended(FreshOf(doc, got))) \in Nat
  <1>1. Appended(FreshOf(doc, got)) \subseteq Things
    BY DEF Appended, FreshOf
  <1>. QED
    BY <1>1, CollectorsAreNumbered, FS_Subset, FS_CardinalityType

\* A budget that is spent from stays one.
LEMMA SpendType ==
    ASSUME budget \in [Kinds -> Nat], NEW kind \in Kinds, Spend(kind)
    PROVE  budget' \in [Kinds -> Nat]
  BY DEF Spend

\* The connection's kinds of occurrence are among those a run bounds.
LEMMA KindsOfPolls ==
    /\ {"restart", "remove", "configure", "fails", "polls"} \subseteq Kinds
    /\ Things \subseteq Kinds
  BY PollKinds

\* So are the inbox's.
LEMMA KindsOfInbox == {"overlap", "block", "update", "unreadable", "patch", "delete", "note", "age"} \subseteq Kinds
  BY InboxKinds

\* A step of the connection keeps its types.
LEMMA PollTypeStep ==
    ASSUME PollTypeOK, budget \in [Kinds -> Nat], PollNext
    PROVE  PollTypeOK' /\ budget' \in [Kinds -> Nat]
  <1>. USE PollersDiffer, KindsOfPolls DEF PollTypeOK, Free, history
  <1>1. ASSUME NEW p \in Pollers, Poll(p) PROVE PollTypeOK' /\ budget' \in [Kinds -> Nat]
    BY <1>1, SpendType DEF Poll, Locked, Goes, At
  <1>2. ASSUME NEW p \in Pollers, PollStep(p) PROVE PollTypeOK' /\ budget' \in [Kinds -> Nat]
    <2>1. CASE Acquire(p)
      BY <2>1 DEF Acquire, Locked, Goes
    <2>2. CASE GiveUp(p)
      BY <2>2 DEF GiveUp, Goes
    <2>3. CASE OpenFails(p)
      <3>1. saved' \in Doc
        <4>1. saved' = saved \/ saved' = [seen |-> saved.seen, total |-> saved.total, due |-> FALSE]
          BY <2>3 DEF OpenFails, UpdateState
        <4>2. [seen |-> saved.seen, total |-> saved.total, due |-> FALSE] \in Doc
          BY DEF Doc
        <4>. QED
          BY <4>1, <4>2
      <3>2. polls' \in [Pollers -> [pc : {"idle", "waiting", "open", "collect", "save"}, doc : Doc, at : Nat, new : Nat]]
        BY <2>3 DEF OpenFails, Ends, NoPoll, NoState, Doc
      <3>. QED
        BY <2>3, <3>1, <3>2, SpendType DEF OpenFails, Ends
    <2>4. CASE Open(p)
      BY <2>4 DEF Open, Doc
    <2>5. CASE RunCollector(p)
      <3>. DEFINE fresh == FreshOf(polls[p].doc, Listing(polls[p].at))
      <3>1. Cardinality(Appended(fresh)) \in Nat
        BY FreshIsFinite DEF Listing
      <3>2. lines' \in [Things -> Nat]
        BY <2>5 DEF RunCollector, Append_events
      <3>3. fresh \subseteq Things
        BY DEF FreshOf, Listing
      <3>4. polls' = [polls EXCEPT ![p].pc = NextCollector(p), ![p].at = @ + 1, ![p].doc.seen = @ \cup fresh,
                                   ![p].new = @ + Cardinality(Appended(fresh))]
        BY <2>5 DEF RunCollector
      <3>5. NextCollector(p) \in {"save", "collect"}
        BY DEF NextCollector
      <3>. HIDE DEF fresh
      <3>6. polls' \in [Pollers -> [pc : {"idle", "waiting", "open", "collect", "save"}, doc : Doc, at : Nat, new : Nat]]
        BY <3>1, <3>3, <3>4, <3>5 DEF Doc
      <3>. QED
        BY <2>5, <3>2, <3>6 DEF RunCollector, Free, history
    <2>6. CASE CollectorFails(p)
      <3>1. PICK written : Append_events(written) /\ unsaved' = unsaved + IF written = {} THEN 0 ELSE 1
        BY <2>6 DEF CollectorFails
      <3>2. lines' \in [Things -> Nat] /\ unsaved' \in Nat
        BY <3>1 DEF Append_events
      <3>3. polls' \in [Pollers -> [pc : {"idle", "waiting", "open", "collect", "save"}, doc : Doc, at : Nat, new : Nat]]
        BY <2>6 DEF CollectorFails, NextCollector
      <3>. QED
        BY <2>6, <3>2, <3>3, SpendType DEF CollectorFails
    <2>7. CASE SessionLost(p)
      BY <2>7, SpendType DEF SessionLost, Goes
    <2>8. CASE Save(p)
      BY <2>8 DEF Save, UpdateState, Ends, NoPoll, NoState, Doc
    <2>9. CASE SaveFails(p)
      BY <2>9, SpendType DEF SaveFails, Ends, NoPoll, NoState, Doc
    <2>. QED
      BY <1>2, <2>1, <2>2, <2>3, <2>4, <2>5, <2>6, <2>7, <2>8, <2>9 DEF PollStep
  <1>3. ASSUME NEW x \in Things, Arrives(x) PROVE PollTypeOK' /\ budget' \in [Kinds -> Nat]
    BY <1>3, SpendType DEF Arrives
  <1>4. CASE Elapse
    BY <1>4 DEF Elapse, Doc
  <1>5. CASE RemoveFolder
    BY <1>5, SpendType DEF RemoveFolder, NoState, Doc
  <1>6. ASSUME NEW to \in {"off", "on"}, WriteConfig(to) PROVE PollTypeOK' /\ budget' \in [Kinds -> Nat]
    BY <1>6, SpendType DEF WriteConfig
  <1>. QED
    BY <1>1, <1>2, <1>3, <1>4, <1>5, <1>6 DEF PollNext

\* A step that leaves the connection alone keeps its types.
LEMMA PollTypeStays == PollTypeOK /\ UNCHANGED pollVars => PollTypeOK'
  BY DEF PollTypeOK, pollVars

\* What a refresh does to its run yields a run.
LEMMA RunEdits ==
    ASSUME NEW run \in Run
    PROVE  /\ NoRun \in Run
           /\ \A f : [run EXCEPT !.left = run.left \ {f}] \in Run
           /\ \A K \in SUBSET Keys : [run EXCEPT !.report = run.report \cup K] \in Run
           /\ \A K \in SUBSET Keys : [run EXCEPT !.unwatched = run.unwatched \cup K] \in Run
           /\ \A f \in Cursors, n \in Nat : [run EXCEPT !.to[f] = n] \in Run
           /\ \A from \in [Cursors -> Nat], gone \in SUBSET Keys, left \in SUBSET Range(Feeders) :
                 [NoRun EXCEPT !.at = "reading", !.left = left, !.from = from, !.gone = gone] \in Run
  BY DEF Run, NoRun, Cursors

\* What the issues feeder adds to its run: issues, and the newest stamp it read.
LEMMA IssuesRead ==
    ASSUME TypeOK, NEW r \in Refreshers, FeedIssues(r)
    PROVE  \E report \in SUBSET Issues, unwatched \in SUBSET Issues, newest \in Nat :
              Feeds(r, "issues", [runs[r] EXCEPT !.report = @ \cup report, !.to["issues"] = newest,
                                                 !.unwatched = @ \cup unwatched])
  <1>1. PICK unreadable \in SUBSET Issues :
           \E newest \in {mirror[i].at : i \in Issues \ unreadable} \cup {0} :
              Feeds(r, "issues",
                 [runs[r] EXCEPT
                    !.report = @ \cup {i \in (Issues \ unreadable) \cap OpenIssues : mirror[i].at > runs[r].from["issues"]},
                    !.to["issues"] = newest,
                    !.unwatched = @ \cup IF unreadable = {} THEN Issues \ OpenIssues ELSE {}])
    BY DEF FeedIssues
  <1>. DEFINE report == {i \in (Issues \ unreadable) \cap OpenIssues : mirror[i].at > runs[r].from["issues"]}
              unwatched == IF unreadable = {} THEN Issues \ OpenIssues ELSE {}
              seen(newest) == [runs[r] EXCEPT !.report = @ \cup report, !.to["issues"] = newest,
                                              !.unwatched = @ \cup unwatched]
  <1>2. PICK newest \in {mirror[i].at : i \in Issues \ unreadable} \cup {0} : Feeds(r, "issues", seen(newest))
    BY <1>1
  <1>3. report \in SUBSET Issues /\ unwatched \in SUBSET Issues /\ newest \in Nat
    BY DEF OpenIssues, TypeOK
  <1>. HIDE DEF report, unwatched
  <1>. QED
    BY <1>2, <1>3

\* A step of a feeder, which adds to its run what its source holds.
LEMMA FeederType ==
    ASSUME TypeOK, NEW r \in Refreshers, FeedTodos(r) \/ FeedIssues(r) \/ FeedConnections(r)
    PROVE  TypeOK'
  <1>1. ASSUME NEW run \in Run, NEW f, Feeds(r, f, run) PROVE runs' \in [Refreshers -> Run]
    BY <1>1, RunEdits DEF Feeds, TypeOK
  <1>2. UNCHANGED <<pollVars, sources, items, cursors, world, ghosts>>
    BY DEF FeedTodos, FeedIssues, FeedConnections, Feeds
  <1>3. budget' \in [Kinds -> Nat]
    BY KindsOfInbox, SpendType DEF FeedTodos, FeedIssues, FeedConnections, Free, TypeOK
  <1>4. runs[r] \in Run /\ Cursors = {"issues", "connections"}
    BY DEF TypeOK, Cursors
  <1>5. runs' \in [Refreshers -> Run]
    <2>1. CASE FeedTodos(r)
      <3>. DEFINE told_ == [runs[r] EXCEPT !.report = runs[r].report \cup blocked]
      <3>1. told_ \in Run
        BY <1>4, RunEdits DEF TypeOK, Keys
      <3>2. [told_ EXCEPT !.unwatched = told_.unwatched \cup (Todos \ blocked)] \in Run
        BY <3>1, RunEdits DEF Keys
      <3>. QED
        BY <2>1, <3>2, <1>1, <1>4 DEF FeedTodos, Run
    <2>2. CASE FeedIssues(r)
      <3>1. PICK report \in SUBSET Issues, unwatched \in SUBSET Issues, newest \in Nat :
               Feeds(r, "issues", [runs[r] EXCEPT !.report = @ \cup report, !.to["issues"] = newest,
                                                  !.unwatched = @ \cup unwatched])
        BY <2>2, IssuesRead
      <3>2. [runs[r] EXCEPT !.report = @ \cup report, !.to["issues"] = newest, !.unwatched = @ \cup unwatched] \in Run
        BY <1>4 DEF Run, Keys
      <3>. QED
        BY <1>1, <3>1, <3>2
    <2>3. CASE FeedConnections(r)
      <3>1. StampsRead \subseteq Nat
        BY StampsArePositive DEF StampsRead, Recorded
      <3>. QED
        BY <2>3, <3>1, <1>1, <1>4 DEF FeedConnections, IsNewest, Recorded, Run, Keys
    <2>. QED
      BY <2>1, <2>2, <2>3
  <1>. QED
    BY <1>2, <1>3, <1>5, PollTypeStays DEF TypeOK, world, ghosts

\* A refresh that begins, and one that writes.
LEMMA RefreshType ==
    ASSUME TypeOK, NEW r \in Refreshers, Start(r) \/ ApplyResults(r)
    PROVE  TypeOK'
  <1>1. runs[r] \in Run /\ Cursors = {"issues", "connections"} /\ NoRun \in Run
    BY RunEdits DEF TypeOK, Cursors
  <1>2. CASE Start(r)
    <2>1. Gone \in SUBSET Keys
      BY DEF Gone, Keys
    <2>2. [NoRun EXCEPT !.at = "reading", !.left = sources, !.from = cursors, !.gone = Gone] \in Run
      BY <1>1, <2>1, RunEdits DEF TypeOK
    <2>3. runs' \in [Refreshers -> Run]
      BY <1>2, <2>2 DEF Start, TypeOK
    <2>4. UNCHANGED <<pollVars, sources, items, cursors, world, ghosts, budget>>
      BY <1>2 DEF Start, Free
    <2>. QED
      BY <2>3, <2>4, PollTypeStays DEF TypeOK, world, ghosts
  <1>3. CASE ApplyResults(r)
    <2>1. cursors' = [f \in DOMAIN cursors |-> Advanced(f, runs[r].to)] /\ told' = told \cup runs[r].report
      BY <1>3 DEF ApplyResults
    <2>2. cursors' \in [Cursors -> Nat] /\ told' \subseteq Keys
      BY <1>1, <2>1 DEF TypeOK, Advanced, Run
    <2>3. runs' \in [Refreshers -> Run]
      BY <1>1, <1>3 DEF ApplyResults, TypeOK
    <2>4. UNCHANGED <<pollVars, sources, world, recorded, late, dismissed, budget>>
      BY <1>3 DEF ApplyResults, Free
    <2>. QED
      BY <2>2, <2>3, <2>4, PollTypeStays DEF TypeOK, world
  <1>. QED
    BY <1>2, <1>3

\* What a person does, to the items alone.
LEMMA PersonType ==
    ASSUME TypeOK,
           \/ CreateItem
           \/ \E K \in SUBSET (Keys \cup {Note}), status \in {"new", "done"} : Patch(K, status)
           \/ \E k \in Keys \cup {Note} : DeleteItem(k) \/ Ages(k)
    PROVE  TypeOK'
  <1>1. UNCHANGED <<pollVars, sources, cursors, runs, world, told, recorded, late>>
    BY DEF CreateItem, Patch, DeleteItem, Ages, ghosts
  <1>2. budget' \in [Kinds -> Nat] /\ dismissed' \subseteq Keys
    BY KindsOfInbox, SpendType DEF CreateItem, Patch, DeleteItem, Ages, ghosts, TypeOK
  <1>. QED
    BY <1>1, <1>2, PollTypeStays DEF TypeOK, world

\* The workspace around.
LEMMA WorldType ==
    ASSUME TypeOK,
           \/ \E t \in Todos : TodoMoves(t)
           \/ \E i \in Issues, open \in BOOLEAN : IssueMoves(i, open)
           \/ \E x \in Things : Comes(x)
    PROVE  TypeOK'
  <1>1. UNCHANGED <<pollVars, sources, cursors, runs, ghosts>>
    BY DEF TodoMoves, IssueMoves, Comes
  <1>2. budget' \in [Kinds -> Nat]
    BY KindsOfInbox, SpendType DEF TodoMoves, IssueMoves, Comes, Free, TypeOK
  <1>3. blocked' \subseteq Todos /\ upcoming' \subseteq Upcoming /\ mirror' \in [Issues -> [open : BOOLEAN, at : Nat]]
    BY DEF TodoMoves, IssueMoves, Comes, TypeOK, IsNewest
  <1>. QED
    BY <1>1, <1>2, <1>3, PollTypeStays DEF TypeOK, ghosts

\* A restart ends the polls and the refreshes.
LEMMA RestartType == TypeOK /\ Restart => TypeOK'
  <1>. SUFFICES ASSUME TypeOK, Restart PROVE TypeOK'
    OBVIOUS
  <1>1. PollTypeOK'
    BY DEF Restart, PollsStop, PollTypeOK, NoPoll, NoState, Doc, TypeOK
  <1>2. runs' \in [Refreshers -> Run] /\ budget' \in [Kinds -> Nat]
    BY RunEdits, KindsOfPolls, SpendType DEF Restart, TypeOK, NoRun, Run
  <1>. QED
    BY <1>1, <1>2 DEF Restart, TypeOK, world, ghosts

\* A step of the connection.
LEMMA ConnectionType == TypeOK /\ Connection => TypeOK'
  BY PollTypeStep DEF TypeOK, Connection, world

\* Every state is of the declared types.
THEOREM TypeCorrect == Spec => []TypeOK
  <1>1. Init => TypeOK
    <2>. SUFFICES ASSUME Init PROVE TypeOK
      OBVIOUS
    <2>1. PollTypeOK /\ sources \subseteq Range(Feeders) /\ budget \in [Kinds -> Nat]
      BY MixesAreTyped, PollersDiffer DEF Init, PollInit, PollTypeOK, NoPoll, NoState, Doc
    <2>2. NoRun \in Run
      BY DEF NoRun, Run, Cursors
    <2>. QED
      BY <2>1, <2>2 DEF Init, TypeOK, Cursors
  <1>2. TypeOK /\ [Next]_vars => TypeOK'
    <2>1. TypeOK /\ UNCHANGED vars => TypeOK'
      BY PollTypeStays DEF vars, inboxVars, TypeOK
    <2>. QED
      BY <2>1, FeederType, RefreshType, PersonType, WorldType, RestartType, ConnectionType DEF Next
  <1>. QED
    BY <1>1, <1>2, PTL DEF Spec

-----------------------------------------------------------------------------
(***************************************************************************)
(* What is recorded more than once.                                        *)
(***************************************************************************)

\* A poll is past its lock exactly while its poller holds the lock.
Polling(p) == polls[p].pc \in {"open", "collect", "save"}
LockIsHeld == \A p \in Pollers : Polling(p) <=> holder = p

\* The folder holds nothing while it is gone.
GoneIsEmpty == config = "none" => \A x \in Things : lines[x] = 0

\* What was recorded since cursors were last lost is known: to the poll that
\* has read state.json, and to state.json while there is none.
RecordedIsKnown ==
    \A x \in Things : lines[x] > unsaved =>
        /\ \A p \in Pollers : Reads(p) => x \in polls[p].doc.seen
        /\ (\A p \in Pollers : ~Reads(p)) => x \in saved.seen

PollInv == LockIsHeld /\ GoneIsEmpty /\ RecordedIsKnown /\ RepeatsAreUnsaved

\* Two pollers are never past the lock at once.
LEMMA OnePoll ==
    ASSUME LockIsHeld, NEW p \in Pollers, NEW q \in Pollers, Polling(p), Polling(q)
    PROVE  p = q
  BY DEF LockIsHeld

\* The connection at its start.
LEMMA PollStarts == TypeOK /\ Init => PollInv
  BY PollersDiffer DEF Init, PollInit, NoPoll, NoState, PollInv, LockIsHeld, Polling, Reads, GoneIsEmpty, RecordedIsKnown,
                       RepeatsAreUnsaved

\* A step of a poller.
LEMMA PollerInv ==
    ASSUME TypeOK, PollInv, NEW p \in Pollers, Poll(p) \/ PollStep(p)
    PROVE  PollInv'
  <1>. USE PollersDiffer DEF PollInv, LockIsHeld, GoneIsEmpty, RecordedIsKnown, RepeatsAreUnsaved, Polling, Reads,
                             TypeOK, PollTypeOK, At, history
  <1>1. CASE Poll(p) \/ Acquire(p) \/ GiveUp(p)
    <2>1. UNCHANGED <<saved, lines, config, unsaved>>
      BY <1>1 DEF Poll, Acquire, GiveUp
    <2>2. /\ polls[p].pc \in {"idle", "waiting"}
          /\ \/ holder' = p /\ holder = Nobody /\ polls' = [polls EXCEPT ![p].pc = "open"]
             \/ holder' = holder /\ (polls' = [polls EXCEPT ![p].pc = "idle"] \/ polls' = [polls EXCEPT ![p].pc = "waiting"])
      BY <1>1 DEF Poll, Acquire, GiveUp, Locked, Goes
    <2>3. \A q \in Pollers \ {p} : polls'[q] = polls[q]
      BY <2>2
    <2>4. polls'[p].pc \in {"idle", "waiting", "open"} /\ (holder' = p <=> polls'[p].pc = "open")
      BY <2>2
    <2>5. \A q \in Pollers : Reads(q)' <=> Reads(q)
      BY <2>2, <2>3, <2>4
    <2>6. \A q \in Pollers : Reads(q) => polls'[q] = polls[q]
      BY <2>2, <2>3
    <2>7. RecordedIsKnown'
      BY <2>1, <2>5, <2>6
    <2>8. LockIsHeld'
      BY <2>2, <2>3, <2>4
    <2>. QED
      BY <2>1, <2>7, <2>8
  <1>2. CASE OpenFails(p)
    <2>1. polls' = [polls EXCEPT ![p] = NoPoll] /\ holder' = Nobody /\ UNCHANGED <<config, lines, unsaved>>
      BY <1>2 DEF OpenFails, Ends
    <2>2. saved'.seen = saved.seen /\ polls[p].pc = "open"
      BY <1>2 DEF OpenFails, UpdateState
    <2>. QED
      BY <2>1, <2>2 DEF NoPoll
  <1>3. CASE Open(p)
    BY <1>3 DEF Open
  <1>4. CASE RunCollector(p)
    <2>. DEFINE fresh == FreshOf(polls[p].doc, Listing(polls[p].at))
    <2>1. /\ polls[p].pc = "collect" /\ polls'[p].pc \in {"collect", "save"}
          /\ polls'[p].doc.seen = polls[p].doc.seen \cup fresh
          /\ \A q \in Pollers \ {p} : polls'[q] = polls[q]
          /\ UNCHANGED <<config, saved, holder, unsaved>>
      BY <1>4 DEF RunCollector, NextCollector
    <2>2. \A x \in Things : lines'[x] = lines[x] + IF x \in Appended(fresh) THEN 1 ELSE 0
      BY <1>4 DEF RunCollector, Append_events
    <2>3. Appended(fresh) \subseteq fresh /\ fresh \cap polls[p].doc.seen = {} /\ (config = "none" => Appended(fresh) = {})
      BY DEF Appended, FreshOf, Configured
    <2>. HIDE DEF fresh
    <2>4. \A q \in Pollers \ {p} : ~Reads(q)
      BY <2>1, OnePoll
    <2>5. \A x \in Things : x \in fresh => lines[x] <= unsaved
      BY <2>1, <2>3
    <2>6. LockIsHeld' /\ GoneIsEmpty'
      BY <2>1, <2>2, <2>3
    <2>7. RepeatsAreUnsaved'
      BY <2>1, <2>2, <2>3, <2>5
    <2>8. RecordedIsKnown'
      BY <2>1, <2>2, <2>3, <2>4
    <2>. QED
      BY <2>6, <2>7, <2>8
  <1>5. CASE CollectorFails(p)
    <2>. DEFINE fresh == FreshOf(polls[p].doc, Listing(polls[p].at))
    <2>1. PICK written \in SUBSET Appended(fresh) :
             Append_events(written) /\ unsaved' = unsaved + IF written = {} THEN 0 ELSE 1
      BY <1>5 DEF CollectorFails
    <2>2. /\ polls[p].pc = "collect" /\ polls'[p].pc \in {"collect", "save"} /\ polls'[p].doc = polls[p].doc
          /\ \A q \in Pollers \ {p} : polls'[q] = polls[q]
          /\ UNCHANGED <<config, saved, holder>>
      BY <1>5 DEF CollectorFails, NextCollector
    <2>3. \A x \in Things : lines'[x] = lines[x] + IF x \in Appended(written) THEN 1 ELSE 0
      BY <2>1 DEF Append_events
    <2>4. /\ Appended(written) \subseteq written /\ written \subseteq fresh
          /\ fresh \cap polls[p].doc.seen = {} /\ (config = "none" => Appended(written) = {})
      BY <2>1 DEF Appended, FreshOf, Configured
    <2>. HIDE DEF fresh
    <2>5. \A q \in Pollers \ {p} : ~Reads(q)
      BY <2>2, OnePoll
    <2>6. \A x \in Things : x \in written => lines[x] <= unsaved
      BY <2>2, <2>4
    <2>7. \A x \in Things : lines'[x] > unsaved' => lines[x] > unsaved
      BY <2>1, <2>3, <2>4, <2>6
    <2>8. LockIsHeld' /\ GoneIsEmpty'
      BY <2>2, <2>3, <2>4
    <2>9. RepeatsAreUnsaved'
      BY <2>1, <2>3, <2>4, <2>6
    <2>10. RecordedIsKnown'
      BY <2>2, <2>5, <2>7
    <2>. QED
      BY <2>8, <2>9, <2>10
  <1>6. CASE SessionLost(p)
    BY <1>6 DEF SessionLost, Goes
  <1>7. CASE Save(p)
    <2>1. /\ polls' = [polls EXCEPT ![p] = NoPoll] /\ holder' = Nobody /\ UNCHANGED <<config, lines, unsaved>>
          /\ polls[p].pc = "save"
      BY <1>7 DEF Save, Ends
    <2>2. config # "none" => saved'.seen = polls[p].doc.seen
      BY <1>7 DEF Save, UpdateState, Configured
    <2>. QED
      BY <2>1, <2>2 DEF NoPoll
  <1>8. CASE SaveFails(p)
    <2>1. /\ polls' = [polls EXCEPT ![p] = NoPoll] /\ holder' = Nobody /\ UNCHANGED <<config, lines, saved>>
          /\ unsaved' = unsaved + 1 /\ polls[p].pc = "save"
      BY <1>8 DEF SaveFails, Ends
    <2>2. \A x \in Things : ~(lines'[x] > unsaved')
      BY <2>1
    <2>. QED
      BY <2>1, <2>2 DEF NoPoll
  <1>. QED
    BY <1>1, <1>2, <1>3, <1>4, <1>5, <1>6, <1>7, <1>8 DEF PollStep

\* What happens around the pollers.
LEMMA AroundInv ==
    ASSUME TypeOK, PollInv,
           \/ \E x \in Things : Arrives(x)
           \/ Elapse \/ RemoveFolder
           \/ \E to \in {"off", "on"} : WriteConfig(to)
    PROVE  PollInv'
  <1>. USE DEF PollInv, LockIsHeld, GoneIsEmpty, RecordedIsKnown, RepeatsAreUnsaved, Polling, Reads, history
  <1>1. ASSUME NEW x \in Things, Arrives(x) PROVE PollInv'
    BY <1>1 DEF Arrives
  <1>2. CASE Elapse
    <2>1. saved'.seen = saved.seen
      BY <1>2 DEF Elapse, TypeOK, PollTypeOK, Doc
    <2>. QED
      BY <1>2, <2>1 DEF Elapse
  <1>3. CASE RemoveFolder
    BY <1>3 DEF RemoveFolder, TypeOK, PollTypeOK
  <1>4. ASSUME NEW to \in {"off", "on"}, WriteConfig(to) PROVE PollInv'
    BY <1>4 DEF WriteConfig
  <1>. QED
    BY <1>1, <1>2, <1>3, <1>4

\* A restart that cuts a poll off makes up for what that poll had appended.
LEMMA RestartInv == TypeOK /\ PollInv /\ Restart => PollInv'
  BY PollersDiffer DEF Restart, PollsStop, NoPoll, PollInv, LockIsHeld, GoneIsEmpty, RecordedIsKnown, RepeatsAreUnsaved,
                       Polling, Reads, TypeOK, PollTypeOK

\* The steps of the inbox leave the connection alone.
LEMMA InboxLeavesPolls == Next => Connection \/ Restart \/ UNCHANGED pollVars
  BY ZenonT(60) DEF Next, CreateItem, Start, FeedTodos, FeedIssues, FeedConnections, Feeds, ApplyResults, Patch, DeleteItem,
         Ages, TodoMoves, IssueMoves, Comes

\* What the pollers rely on holds throughout.
THEOREM PollsRely == Spec => []PollInv
  <1>1. TypeOK /\ PollInv /\ [Next]_vars => PollInv'
    <2>1. PollInv /\ UNCHANGED pollVars => PollInv'
      BY DEF PollInv, LockIsHeld, GoneIsEmpty, RecordedIsKnown, RepeatsAreUnsaved, Polling, Reads, pollVars
    <2>2. TypeOK /\ PollInv /\ Connection => PollInv'
      BY PollerInv, AroundInv DEF Connection, PollNext
    <2>. QED
      BY <2>1, <2>2, RestartInv, InboxLeavesPolls DEF vars
  <1>. QED
    BY <1>1, PollStarts, TypeCorrect, PTL DEF Spec

\* A thing is in events.jsonl once, and once more for each time at most that
\* appended events were left out of the saved cursors.
THEOREM RecordedOnceButForUnsaved == Spec => []RepeatsAreUnsaved
  BY PollsRely, PTL DEF PollInv

-----------------------------------------------------------------------------
(***************************************************************************)
(* The cursors of state.json and the events.                               *)
(***************************************************************************)

InFolder == {x \in Things : lines[x] > 0}

\* In a folder that was not made again under a poll: a seen key is a recorded
\* thing, and the totals count the recorded things while no cursors were lost.
SeenAndCounted ==
    ~replaced =>
        /\ config = "none" => saved.seen = {} /\ saved.total = 0
        /\ saved.seen \subseteq InFolder
        /\ unsaved = 0 /\ (\A p \in Pollers : ~Reads(p)) => saved.total = Cardinality(InFolder)
        /\ config # "none" =>
              \A p \in Pollers : Reads(p) =>
                 /\ polls[p].doc.seen \subseteq InFolder
                 /\ unsaved = 0 => polls[p].doc.total + polls[p].new = Cardinality(InFolder)

\* Things are finitely many, and a folder that holds none counts none.
LEMMA CountsAreFinite ==
    /\ \A S \in SUBSET Things : IsFiniteSet(S) /\ Cardinality(S) \in Nat
    /\ Cardinality({}) = 0
    /\ \A S, T \in SUBSET Things : S \cap T = {} => Cardinality(S \cup T) = Cardinality(S) + Cardinality(T)
  <1>1. \A S \in SUBSET Things : IsFiniteSet(S) /\ Cardinality(S) \in Nat
    BY CollectorsAreNumbered, FS_Subset, FS_CardinalityType
  <1>2. Cardinality({}) = 0
    BY FS_EmptySet
  <1>3. ASSUME NEW S \in SUBSET Things, NEW T \in SUBSET Things, S \cap T = {}
        PROVE  Cardinality(S \cup T) = Cardinality(S) + Cardinality(T)
    <2>1. Cardinality(S \cup T) = Cardinality(S) + Cardinality(T) - Cardinality(S \cap T)
      BY <1>1, FS_Union
    <2>2. S \cap T = {} /\ Cardinality(S) \in Nat /\ Cardinality(T) \in Nat
      BY <1>1, <1>3
    <2>3. Cardinality(S \cap T) = 0
      BY <1>2, <1>3
    <2>. QED
      BY <2>1, <2>2, <2>3
  <1>. QED
    BY <1>1, <1>2, <1>3

\* A collector's answer, the only step that records.
LEMMA CollectorCounts ==
    ASSUME TypeOK, PollInv, SeenAndCounted, NEW p \in Pollers, RunCollector(p)
    PROVE  SeenAndCounted'
  <1>. DEFINE fresh == FreshOf(polls[p].doc, Listing(polls[p].at))
  <1>1. /\ polls[p].pc = "collect" /\ polls'[p].pc \in {"collect", "save"}
        /\ polls'[p].doc.seen = polls[p].doc.seen \cup fresh /\ polls'[p].doc.total = polls[p].doc.total
        /\ polls'[p].new = polls[p].new + Cardinality(Appended(fresh))
        /\ \A q \in Pollers \ {p} : polls'[q] = polls[q]
        /\ UNCHANGED <<config, saved, holder, unsaved, replaced>>
    BY DEF RunCollector, NextCollector, At, history, TypeOK, PollTypeOK, Doc
  <1>2. fresh \subseteq Things /\ fresh \cap polls[p].doc.seen = {}
    BY DEF FreshOf, Listing, TypeOK, PollTypeOK
  <1>3. \A x \in Things : lines'[x] = lines[x] + IF x \in Appended(fresh) THEN 1 ELSE 0
    BY DEF RunCollector, Append_events
  <1>. HIDE DEF fresh
  <1>4. InFolder' = InFolder \cup Appended(fresh)
    BY <1>2, <1>3 DEF InFolder, Appended, TypeOK, PollTypeOK
  <1>5. \A q \in Pollers \ {p} : ~Reads(q) /\ ~Reads(q)'
    BY <1>1, OnePoll DEF Reads, Polling, PollInv
  <1>6. Reads(p) /\ Reads(p)'
    BY <1>1 DEF Reads
  <1>7. CASE config = "none"
    BY <1>1, <1>4, <1>6, <1>7 DEF SeenAndCounted, Appended, Configured
  <1>8. CASE config # "none"
    <2>1. Appended(fresh) = fresh
      BY <1>8 DEF Appended, Configured
    <2>2. ASSUME unsaved = 0 PROVE Cardinality(InFolder \cup fresh) = Cardinality(InFolder) + Cardinality(fresh)
      <3>1. InFolder \subseteq polls[p].doc.seen
        BY <1>6, <2>2 DEF InFolder, PollInv, RecordedIsKnown
      <3>. QED
        BY <1>2, <3>1, CountsAreFinite DEF InFolder
    <2>3. /\ polls[p].doc.total \in Nat /\ polls[p].new \in Nat /\ Cardinality(fresh) \in Nat
          /\ Cardinality(InFolder) \in Nat
      BY <1>2, CountsAreFinite DEF TypeOK, PollTypeOK, Doc, InFolder
    <2>. QED
      BY <1>1, <1>4, <1>5, <1>6, <1>8, <2>1, <2>2, <2>3 DEF SeenAndCounted
  <1>. QED
    BY <1>7, <1>8

\* Every other step of a poller.
LEMMA PollerCounts ==
    ASSUME TypeOK, PollInv, SeenAndCounted, NEW p \in Pollers, Poll(p) \/ PollStep(p)
    PROVE  SeenAndCounted'
  <1>1. CASE Poll(p) \/ Acquire(p) \/ GiveUp(p)
    <2>1. UNCHANGED <<saved, lines, config, unsaved, replaced>>
      BY <1>1 DEF Poll, Acquire, GiveUp, history
    <2>2. /\ polls[p].pc \in {"idle", "waiting"} /\ polls'[p].pc \in {"idle", "waiting", "open"}
          /\ \A q \in Pollers \ {p} : polls'[q] = polls[q]
      BY <1>1 DEF Poll, Acquire, GiveUp, Locked, Goes, At, TypeOK, PollTypeOK
    <2>3. \A q \in Pollers : (Reads(q)' <=> Reads(q)) /\ (Reads(q) => polls'[q] = polls[q])
      BY <2>2 DEF Reads
    <2>. QED
      BY <2>1, <2>3 DEF SeenAndCounted, InFolder
  <1>2. CASE OpenFails(p) \/ Open(p)
    <2>1. polls[p].pc = "open" /\ (\A q \in Pollers \ {p} : polls'[q] = polls[q]) /\ UNCHANGED <<config, lines, unsaved, replaced>>
      BY <1>2 DEF OpenFails, Open, Ends, At, history, TypeOK, PollTypeOK
    <2>2. saved'.seen = saved.seen /\ saved'.total = saved.total /\ saved.total \in Nat
      BY <1>2 DEF OpenFails, Open, UpdateState, TypeOK, PollTypeOK, Doc
    <2>3. \A q \in Pollers : ~Reads(q)
      BY <2>1, OnePoll DEF Reads, Polling, PollInv
    <2>4. (~Reads(p)') \/ (polls'[p].doc = saved /\ polls'[p].new = 0)
      BY <1>2 DEF OpenFails, Open, Ends, NoPoll, Reads, TypeOK, PollTypeOK
    <2>5. \A q \in Pollers \ {p} : ~Reads(q)'
      BY <2>1, <2>3 DEF Reads
    <2>6. InFolder' = InFolder
      BY <2>1 DEF InFolder
    <2>7. CASE replaced
      BY <2>1, <2>7 DEF SeenAndCounted
    <2>8. CASE ~replaced
      <3>1. /\ config = "none" => saved.seen = {} /\ saved.total = 0
            /\ saved.seen \subseteq InFolder
            /\ unsaved = 0 => saved.total = Cardinality(InFolder)
        BY <2>3, <2>8 DEF SeenAndCounted
      <3>2. \A q \in Pollers : Reads(q)' => polls'[q].doc = saved /\ polls'[q].new = 0
        BY <2>4, <2>5
      <3>. QED
        BY <2>1, <2>2, <2>6, <3>1, <3>2 DEF SeenAndCounted
    <2>. QED
      BY <2>7, <2>8
  <1>3. CASE CollectorFails(p) \/ SessionLost(p)
    <2>1. /\ polls[p].pc = "collect" /\ polls'[p].pc \in {"collect", "save"}
          /\ polls'[p].doc = polls[p].doc /\ polls'[p].new = polls[p].new
          /\ \A q \in Pollers \ {p} : polls'[q] = polls[q]
          /\ UNCHANGED <<saved, config, replaced>>
      BY <1>3 DEF CollectorFails, SessionLost, NextCollector, Goes, At, history, TypeOK, PollTypeOK
    <2>2. /\ InFolder \subseteq InFolder' /\ (config = "none" => InFolder' = InFolder)
          /\ unsaved' = 0 => unsaved = 0 /\ InFolder' = InFolder
      <3>1. CASE SessionLost(p)
        BY <3>1 DEF SessionLost, InFolder, history
      <3>2. CASE CollectorFails(p)
        <4>1. PICK written \in SUBSET Appended(FreshOf(polls[p].doc, Listing(polls[p].at))) :
                 Append_events(written) /\ unsaved' = unsaved + IF written = {} THEN 0 ELSE 1
          BY <3>2 DEF CollectorFails
        <4>2. Appended(written) \subseteq written /\ (config = "none" => Appended(written) = {})
          BY DEF Appended, Configured
        <4>3. \A x \in Things : lines'[x] = lines[x] + IF x \in Appended(written) THEN 1 ELSE 0
          BY <4>1 DEF Append_events
        <4>4. \A x \in Things : lines[x] \in Nat
          BY DEF TypeOK, PollTypeOK
        <4>5. InFolder \subseteq InFolder' /\ (Appended(written) = {} => InFolder' = InFolder)
          BY <4>3, <4>4 DEF InFolder
        <4>6. unsaved' = 0 => unsaved = 0 /\ written = {}
          BY <4>1 DEF TypeOK, PollTypeOK
        <4>. QED
          BY <4>2, <4>5, <4>6
      <3>. QED
        BY <1>3, <3>1, <3>2
    <2>3. \A q \in Pollers : (Reads(q)' <=> Reads(q)) /\ polls'[q].doc = polls[q].doc /\ polls'[q].new = polls[q].new
      BY <2>1 DEF Reads
    <2>. HIDE DEF InFolder
    <2>. QED
      BY <2>1, <2>2, <2>3 DEF SeenAndCounted
  <1>4. CASE Save(p)
    <2>1. /\ polls[p].pc = "save" /\ polls'[p].pc = "idle" /\ (\A q \in Pollers \ {p} : polls'[q] = polls[q])
          /\ UNCHANGED <<config, lines, unsaved, replaced>>
      BY <1>4 DEF Save, Ends, NoPoll, At, history, TypeOK, PollTypeOK
    <2>2. IF config = "none" THEN saved' = saved
          ELSE saved'.seen = polls[p].doc.seen /\ saved'.total = polls[p].doc.total + polls[p].new
      BY <1>4 DEF Save, UpdateState, Configured
    <2>3. \A q \in Pollers : ~Reads(q)'
      BY <2>1, OnePoll DEF Reads, Polling, PollInv
    <2>4. Reads(p)
      BY <2>1 DEF Reads
    <2>5. config = "none" => InFolder = {}
      BY DEF PollInv, GoneIsEmpty, InFolder
    <2>. QED
      BY <2>1, <2>2, <2>3, <2>4, <2>5, CountsAreFinite DEF SeenAndCounted, InFolder
  <1>5. CASE SaveFails(p)
    <2>1. /\ (\A q \in Pollers \ {p} : polls'[q] = polls[q]) /\ ~Reads(p)' /\ unsaved' # 0
          /\ UNCHANGED <<saved, config, lines, replaced>>
      BY <1>5 DEF SaveFails, Ends, NoPoll, Reads, TypeOK, PollTypeOK
    <2>. QED
      BY <2>1 DEF SeenAndCounted, InFolder, Reads
  <1>. QED
    BY <1>1, <1>2, <1>3, <1>4, <1>5, CollectorCounts DEF PollStep

\* What happens around the pollers.
LEMMA AroundCounts ==
    ASSUME TypeOK, PollInv, SeenAndCounted,
           \/ \E x \in Things : Arrives(x)
           \/ Elapse \/ RemoveFolder
           \/ \E to \in {"off", "on"} : WriteConfig(to)
    PROVE  SeenAndCounted'
  <1>1. ASSUME NEW x \in Things, Arrives(x) PROVE SeenAndCounted'
    BY <1>1 DEF Arrives, SeenAndCounted, InFolder, Reads, history
  <1>2. CASE Elapse
    <2>1. saved'.seen = saved.seen /\ saved'.total = saved.total
      BY <1>2 DEF Elapse, TypeOK, PollTypeOK, Doc
    <2>. QED
      BY <1>2, <2>1 DEF Elapse, SeenAndCounted, InFolder, Reads, history
  <1>3. CASE RemoveFolder
    <2>1. InFolder' = {} /\ saved' = NoState /\ config' = "none"
      BY <1>3 DEF RemoveFolder, InFolder
    <2>. QED
      BY <2>1, CountsAreFinite DEF SeenAndCounted, NoState
  <1>4. ASSUME NEW to \in {"off", "on"}, WriteConfig(to) PROVE SeenAndCounted'
    <2>1. UNCHANGED <<saved, lines, polls, unsaved>> /\ config' = to
          /\ (~replaced' => ~replaced /\ (config = "none" => \A p \in Pollers : ~Reads(p)))
      BY <1>4 DEF WriteConfig, Configured, Reads
    <2>. QED
      BY <2>1 DEF SeenAndCounted, InFolder, Reads
  <1>. QED
    BY <1>1, <1>2, <1>3, <1>4

\* Whatever fails in the middle of a poll, what the cursors call seen is in
\* the file; the total counts the file while no cursors were lost.
THEOREM EventsAreSeenAndCounted == Spec => []CursorsMatchEvents
  <1>1. TypeOK /\ Init => SeenAndCounted
    BY SMTT(30), CountsAreFinite, PollersDiffer DEF Init, PollInit, NoPoll, NoState, SeenAndCounted, InFolder, Reads
  <1>2. TypeOK /\ PollInv /\ SeenAndCounted /\ [Next]_vars => SeenAndCounted'
    <2>1. SeenAndCounted /\ UNCHANGED pollVars => SeenAndCounted'
      BY DEF SeenAndCounted, InFolder, Reads, pollVars
    <2>2. TypeOK /\ PollInv /\ SeenAndCounted /\ Connection => SeenAndCounted'
      BY PollerCounts, AroundCounts DEF Connection, PollNext
    <2>3. TypeOK /\ PollInv /\ SeenAndCounted /\ Restart => SeenAndCounted'
      BY DEF Restart, PollsStop, SeenAndCounted, InFolder, NoPoll, Reads, TypeOK, PollTypeOK
    <2>. QED
      BY <2>1, <2>2, <2>3, InboxLeavesPolls DEF vars
  <1>3. TypeOK /\ PollInv /\ SeenAndCounted => CursorsMatchEvents
    <2>1. PollInv /\ holder = Nobody => \A p \in Pollers : ~Reads(p)
      BY PollersDiffer DEF PollInv, LockIsHeld, Polling, Reads
    <2>. QED
      BY <2>1 DEF SeenAndCounted, CursorsMatchEvents, InFolder
  <1>. QED
    BY <1>1, <1>2, <1>3, TypeCorrect, PollsRely, PTL DEF Spec

-----------------------------------------------------------------------------
(***************************************************************************)
(* The cursor over all events.                                             *)
(***************************************************************************)

\* A cursor stands nowhere, or at an event that came and is not ahead.
Stands(n) == n = 0 \/ \E y \in recorded \ upcoming : StampOf[y] = n

Past == Things \ Upcoming
From(r) == runs[r].from["connections"]
To(r) == runs[r].to["connections"]

\* What came while the cursor, of the document or of a refresh, stood before
\* it was told of, is told of.
ToldUpTo(n, tells) == \A x \in Recorded \ late : n >= StampOf[x] => x \in tells

\* The document: its cursor is past every past event it told of.
DocInv ==
    /\ Stands(cursors["connections"])
    /\ ToldUpTo(cursors["connections"], told)
    /\ \A x \in Past \cap told : cursors["connections"] >= StampOf[x]

\* A refresh: it reports past events from its snapshot's cursor to its own.
RunInv(r) ==
    /\ Stands(From(r)) /\ Stands(To(r))
    /\ ToldUpTo(From(r), told)
    /\ ToldUpTo(To(r), told \cup runs[r].report)
    /\ From(r) <= cursors["connections"]
    /\ "connections" \in runs[r].left => runs[r].report \cap Things = {} /\ To(r) = 0
    /\ \A x \in Past \cap runs[r].report : From(r) < StampOf[x] /\ StampOf[x] <= To(r)
    /\ \A x \in runs[r].gone : x \in Past /\ StampOf[x] <= From(r)

\* What events.jsonl holds is among what ever came.
RecordedCame == Recorded \subseteq recorded

CursorInv == RecordedCame /\ DocInv /\ \A r \in Refreshers : RunInv(r)

\* Stamps are positive numbers.
LEMMA StampType == \A x \in Things : StampOf[x] \in Nat /\ StampOf[x] > 0
  BY StampsArePositive

\* A refresh that has not begun relies on nothing.
LEMMA NoRunInv ==
    ASSUME TypeOK, NEW r \in Refreshers, runs[r] = NoRun
    PROVE  RunInv(r)
  BY StampType DEF RunInv, NoRun, From, To, Stands, ToldUpTo, Recorded, Cursors, TypeOK

\* The start.
LEMMA CursorStarts == TypeOK /\ Init => CursorInv
  <1>. SUFFICES ASSUME TypeOK, Init PROVE CursorInv
    OBVIOUS
  <1>1. Recorded = {} /\ cursors["connections"] = 0 /\ told = {}
    BY DEF Init, PollInit, Recorded, Cursors
  <1>2. \A r \in Refreshers : runs[r] = NoRun
    BY DEF Init
  <1>. QED
    BY <1>1, <1>2, NoRunInv DEF CursorInv, DocInv, RecordedCame, Stands, ToldUpTo

\* Two inductive facts stay true while what they speak of only grows: the
\* events that came, those told of, those that came late; while nothing new
\* is in events.jsonl but what came late for the cursor.
LEMMA StandsStays ==
    ASSUME NEW n, Stands(n), recorded \subseteq recorded', upcoming' \subseteq upcoming
    PROVE  n = 0 \/ \E y \in recorded' \ upcoming' : StampOf[y] = n
  BY DEF Stands

LEMMA ToldStays ==
    ASSUME NEW n, NEW tells, NEW more, ToldUpTo(n, tells), tells \subseteq more, Recorded' \ late' \subseteq Recorded \ late
    PROVE  \A x \in Recorded' \ late' : n >= StampOf[x] => x \in more
  BY DEF ToldUpTo

\* A run that a step leaves alone keeps its facts.
LEMMA RunStays ==
    ASSUME NEW r \in Refreshers, RunInv(r), runs'[r] = runs[r], TypeOK, TypeOK',
           recorded \subseteq recorded', upcoming' \subseteq upcoming, told \subseteq told',
           Recorded' \ late' \subseteq Recorded \ late, cursors["connections"] <= cursors'["connections"]
    PROVE  RunInv(r)'
  <1>1. From(r)' = From(r) /\ To(r)' = To(r)
    BY DEF From, To
  <1>2. Stands(From(r))' /\ Stands(To(r))'
    BY <1>1, StandsStays DEF RunInv, Stands
  <1>3. ToldUpTo(From(r), told)'
    BY <1>1 DEF RunInv, ToldUpTo
  <1>4. ToldUpTo(To(r), told \cup runs[r].report)'
    BY <1>1 DEF RunInv, ToldUpTo
  <1>5. From(r)' <= cursors'["connections"]
    BY <1>1 DEF RunInv, TypeOK, Cursors, Run, From
  <1>. QED
    BY <1>1, <1>2, <1>3, <1>4, <1>5 DEF RunInv

\* So does the document.
LEMMA DocStays ==
    ASSUME DocInv, UNCHANGED <<cursors, told>>,
           recorded \subseteq recorded', upcoming' \subseteq upcoming, Recorded' \ late' \subseteq Recorded \ late
    PROVE  DocInv'
  BY StandsStays DEF DocInv, Stands, ToldUpTo

\* A step that leaves the connection alone leaves what is recorded.
LEMMA RecordedStays == UNCHANGED pollVars => Recorded' = Recorded
  BY DEF Recorded, Configured, pollVars

\* A refresh that begins has told of nothing yet.
LEMMA StartInv ==
    ASSUME TypeOK, TypeOK', CursorInv, NEW r \in Refreshers, Start(r)
    PROVE  CursorInv'
  <1>1. UNCHANGED <<pollVars, sources, items, cursors, world, ghosts>> /\ \A q \in Refreshers \ {r} : runs'[q] = runs[q]
    BY DEF Start, TypeOK
  <1>2. UNCHANGED <<cursors, recorded, late, told, upcoming>> /\ Recorded' = Recorded
    BY <1>1, RecordedStays DEF world, ghosts
  <1>3. RunInv(r)'
    <2>1. runs'[r] = [NoRun EXCEPT !.at = "reading", !.left = sources, !.from = cursors, !.gone = Gone]
      BY DEF Start, TypeOK
    <2>2. /\ runs'[r].from = cursors /\ runs'[r].to["connections"] = 0 /\ runs'[r].report = {} /\ runs'[r].gone = Gone
      BY <2>1 DEF NoRun, Cursors
    <2>3. \A x \in Gone : x \in Past /\ StampOf[x] <= cursors["connections"]
      BY StampType DEF CursorInv, DocInv, Gone, Past, TypeOK, Cursors
    <2>. QED
      BY <1>2, <2>2, <2>3, StampType DEF CursorInv, DocInv, RunInv, From, To, Stands, ToldUpTo, TypeOK, Cursors, Recorded
  <1>4. \A q \in Refreshers \ {r} : RunInv(q)'
    BY <1>1, <1>2, RunStays DEF CursorInv, TypeOK, Cursors
  <1>. QED
    BY <1>2, <1>3, <1>4, DocStays DEF CursorInv, RecordedCame

\* What the todos and the issues add to a run is none of the connection's.
LEMMA OtherFeedersInv ==
    ASSUME TypeOK, TypeOK', CursorInv, NEW r \in Refreshers, FeedTodos(r) \/ FeedIssues(r)
    PROVE  CursorInv'
  <1>1. UNCHANGED <<pollVars, sources, items, cursors, world, ghosts>> /\ \A q \in Refreshers \ {r} : runs'[q] = runs[q]
    BY DEF FeedTodos, FeedIssues, Feeds, TypeOK
  <1>2. UNCHANGED <<cursors, recorded, late, told, upcoming>> /\ Recorded' = Recorded
    BY <1>1, RecordedStays DEF world, ghosts
  <1>3. /\ runs'[r].from = runs[r].from /\ runs'[r].to["connections"] = runs[r].to["connections"]
        /\ runs'[r].gone = runs[r].gone
        /\ runs[r].report \subseteq runs'[r].report /\ runs'[r].report \cap Things = runs[r].report \cap Things
        /\ "connections" \in runs'[r].left => "connections" \in runs[r].left
    <2>0. runs[r] \in Run /\ r \in DOMAIN runs
      BY DEF TypeOK
    <2>1. CASE FeedTodos(r)
      <3>1. blocked \cap Things = {}
        BY KeysAreApart DEF TypeOK
      <3>. QED
        BY <2>0, <2>1, <3>1 DEF FeedTodos, Feeds, Run
    <2>2. CASE FeedIssues(r)
      <3>1. Issues \cap Things = {}
        BY KeysAreApart
      <3>2. PICK report \in SUBSET Issues, unwatched \in SUBSET Issues, newest \in Nat :
               Feeds(r, "issues", [runs[r] EXCEPT !.report = @ \cup report, !.to["issues"] = newest,
                                                  !.unwatched = @ \cup unwatched])
        BY <2>2, IssuesRead
      <3>. QED
        BY <2>0, <3>1, <3>2 DEF Feeds, Run, Cursors
    <2>. QED
      BY <2>1, <2>2
  <1>4. RunInv(r)'
    BY <1>2, <1>3 DEF CursorInv, RunInv, From, To, Stands, ToldUpTo, Recorded, Past
  <1>5. \A q \in Refreshers \ {r} : RunInv(q)'
    BY <1>1, <1>2, RunStays DEF CursorInv, TypeOK, Cursors
  <1>. QED
    BY <1>2, <1>4, <1>5, DocStays DEF CursorInv, RecordedCame

\* The events' feeder reports what its snapshot's cursor had not passed, and
\* stands at the newest that is not ahead.
LEMMA EventsFeederInv ==
    ASSUME TypeOK, TypeOK', CursorInv, NEW r \in Refreshers, FeedConnections(r)
    PROVE  CursorInv'
  <1>1. UNCHANGED <<pollVars, sources, items, cursors, world, ghosts>> /\ \A q \in Refreshers \ {r} : runs'[q] = runs[q]
    BY DEF FeedConnections, Feeds, TypeOK
  <1>2. UNCHANGED <<cursors, recorded, late, told, upcoming>> /\ Recorded' = Recorded
    BY <1>1, RecordedStays DEF world, ghosts
  <1>. DEFINE found == {x \in Recorded : StampOf[x] > From(r)}
  <1>3. PICK newest \in StampsRead :
           /\ IsNewest(newest, StampsRead)
           /\ runs'[r].from = runs[r].from /\ runs'[r].to["connections"] = newest /\ runs'[r].gone = runs[r].gone
           /\ runs'[r].report = runs[r].report \cup found /\ runs'[r].left = runs[r].left \ {"connections"}
    <2>1. runs[r] \in Run /\ r \in DOMAIN runs
      BY DEF TypeOK
    <2>2. PICK newest \in StampsRead :
             /\ IsNewest(newest, StampsRead)
             /\ Feeds(r, "connections", [runs[r] EXCEPT !.report = @ \cup found, !.to["connections"] = newest])
      BY DEF FeedConnections, From
    <2>. HIDE DEF found
    <2>. QED
      BY <2>1, <2>2 DEF Feeds, Run, Cursors
  <1>4. newest \in Nat /\ Stands(newest)' /\ \A x \in Recorded \ upcoming : StampOf[x] <= newest
    BY <1>2, <1>3, StampType DEF StampsRead, IsNewest, Stands, Recorded, CursorInv, RecordedCame
  <1>5. From(r) \in Nat /\ runs[r].report \cap Things = {} /\ To(r) = 0
    <2>1. From(r) \in Nat
      BY DEF From, TypeOK, Run, Cursors
    <2>2. "connections" \in runs[r].left
      BY DEF FeedConnections, Reading
    <2>. QED
      BY <2>1, <2>2 DEF CursorInv, RunInv
  <1>6. From(r)' = From(r) /\ To(r)' = newest
    BY <1>3 DEF From, To
  <1>7. ToldUpTo(newest, told \cup runs[r].report)'
    BY <1>2, <1>3, <1>5, StampType DEF CursorInv, RunInv, ToldUpTo, Recorded
  <1>8. \A x \in Past \cap runs'[r].report : From(r) < StampOf[x] /\ StampOf[x] <= newest
    BY <1>3, <1>4, <1>5 DEF Past, TypeOK, Recorded
  <1>9. RunInv(r)'
    BY <1>2, <1>3, <1>4, <1>6, <1>7, <1>8 DEF CursorInv, RunInv, Stands, ToldUpTo
  <1>10. \A q \in Refreshers \ {r} : RunInv(q)'
    BY <1>1, <1>2, RunStays DEF CursorInv, TypeOK, Cursors
  <1>. QED
    BY <1>2, <1>9, <1>10, DocStays DEF CursorInv, RecordedCame

\* The write: the document's cursor is the later of its own and the run's.
LEMMA ApplyInv ==
    ASSUME TypeOK, TypeOK', CursorInv, NEW r \in Refreshers, ApplyResults(r)
    PROVE  CursorInv'
  <1>1. /\ UNCHANGED <<pollVars, recorded, late, upcoming>> /\ told' = told \cup runs[r].report
        /\ runs'[r] = NoRun /\ \A q \in Refreshers \ {r} : runs'[q] = runs[q]
    BY DEF ApplyResults, TypeOK, world
  <1>2. Recorded' = Recorded
    BY <1>1, RecordedStays
  <1>3. To(r) \in Nat /\ cursors["connections"] \in Nat
    BY DEF To, TypeOK, Run, Cursors
  <1>4. cursors'["connections"] = IF To(r) > cursors["connections"] THEN To(r) ELSE cursors["connections"]
    BY DEF ApplyResults, Advanced, To, TypeOK, Cursors
  <1>5. Stands(cursors["connections"])'
    BY <1>1, <1>4 DEF CursorInv, DocInv, RunInv, Stands
  <1>6. ToldUpTo(cursors["connections"], told)'
    BY <1>1, <1>2, <1>4 DEF CursorInv, DocInv, RunInv, ToldUpTo
  <1>7. \A x \in Past \cap told' : cursors'["connections"] >= StampOf[x]
    BY <1>1, <1>3, <1>4, StampType DEF CursorInv, DocInv, RunInv, Past
  <1>8. \A q \in Refreshers \ {r} : RunInv(q)'
    BY <1>1, <1>2, <1>3, <1>4, RunStays DEF CursorInv
  <1>9. RunInv(r)'
    BY <1>1, NoRunInv, StampType DEF RunInv, NoRun, From, To, Stands, ToldUpTo, Recorded, Cursors, TypeOK
  <1>. QED
    BY <1>1, <1>2, <1>5, <1>6, <1>7, <1>8, <1>9 DEF CursorInv, DocInv, RecordedCame

\* What a person, the todos, the issues and the clock do leaves it all alone.
LEMMA OthersInv ==
    ASSUME TypeOK, TypeOK', CursorInv,
           UNCHANGED <<pollVars, cursors, runs, told, recorded, late>>, upcoming' \subseteq upcoming
    PROVE  CursorInv'
  <1>1. Recorded' = Recorded
    BY RecordedStays
  <1>2. \A q \in Refreshers : RunInv(q)'
    BY <1>1, RunStays DEF CursorInv, TypeOK, Cursors
  <1>. QED
    BY <1>1, <1>2, DocStays DEF CursorInv, RecordedCame

\* A restart ends the refreshes.
LEMMA RestartCursor ==
    ASSUME TypeOK, TypeOK', CursorInv, Restart
    PROVE  CursorInv'
  <1>1. Recorded' = Recorded /\ UNCHANGED <<cursors, told, recorded, late, upcoming>>
    BY DEF Restart, PollsStop, Recorded, Configured, world, ghosts
  <1>2. \A q \in Refreshers : RunInv(q)'
    BY <1>1, StampType DEF Restart, RunInv, NoRun, From, To, Stands, ToldUpTo, Recorded, Cursors, TypeOK
  <1>. QED
    BY <1>1, <1>2, DocStays DEF CursorInv, RecordedCame

\* What the connection records that a cursor has passed, came late.
LEMMA ConnectionCursor ==
    ASSUME TypeOK, TypeOK', PollInv, CursorInv, Connection
    PROVE  CursorInv'
  <1>1. UNCHANGED <<cursors, runs, told, upcoming>> /\ recorded \subseteq recorded' /\ late \subseteq late'
    BY DEF Connection, world
  <1>2. \A x \in Things : lines[x] \in Nat /\ lines'[x] \in Nat
    BY DEF TypeOK, PollTypeOK
  <1>3. \A x \in Recorded' : x \in Recorded \/ (lines[x] = 0 /\ lines'[x] > lines[x])
    BY <1>2 DEF Recorded, Configured, PollInv, GoneIsEmpty
  <1>4. RecordedCame'
    BY <1>1, <1>3 DEF CursorInv, RecordedCame, Connection, Recorded
  <1>5. ASSUME NEW n \in Nat, Stands(n), NEW tells, ToldUpTo(n, tells), NEW x \in Recorded' \ late', n >= StampOf[x]
        PROVE  x \in tells
    <2>1. CASE x \in Recorded
      BY <1>1, <1>5, <2>1 DEF ToldUpTo
    <2>2. CASE lines[x] = 0 /\ lines'[x] > lines[x]
      <3>1. x \in Things /\ n # 0
        BY <1>5, StampType DEF Recorded
      <3>2. PICK y \in recorded \ upcoming : StampOf[y] = n
        BY <1>5, <3>1 DEF Stands
      <3>3. x \in late'
        BY <1>5, <2>2, <3>1, <3>2 DEF Connection
      <3>. QED
        BY <1>5, <3>3
    <2>. QED
      BY <1>3, <2>1, <2>2
  <1>6. cursors["connections"] \in Nat /\ \A r \in Refreshers : From(r) \in Nat /\ To(r) \in Nat
    BY DEF TypeOK, Cursors, Run, From, To
  <1>7. DocInv'
    <2>1. Stands(cursors["connections"])'
      BY <1>1 DEF CursorInv, DocInv, Stands
    <2>2. ToldUpTo(cursors["connections"], told)'
      BY <1>1, <1>5, <1>6 DEF CursorInv, DocInv, ToldUpTo
    <2>. QED
      BY <1>1, <2>1, <2>2 DEF CursorInv, DocInv
  <1>8. ASSUME NEW r \in Refreshers PROVE RunInv(r)'
    <2>1. From(r)' = From(r) /\ To(r)' = To(r) /\ RunInv(r)
      BY <1>1 DEF From, To, CursorInv
    <2>2. Stands(From(r))' /\ Stands(To(r))'
      BY <1>1, <2>1 DEF RunInv, Stands
    <2>3. \A x \in Recorded' \ late' : From(r) >= StampOf[x] => x \in told
      BY <1>5, <1>6, <2>1 DEF RunInv
    <2>4. \A x \in Recorded' \ late' : To(r) >= StampOf[x] => x \in told \cup runs[r].report
      BY <1>5, <1>6, <2>1 DEF RunInv
    <2>. QED
      BY <1>1, <2>1, <2>2, <2>3, <2>4 DEF RunInv, ToldUpTo
  <1>. QED
    BY <1>4, <1>7, <1>8 DEF CursorInv

\* The cursors of the document and of the refreshes, throughout.
THEOREM CursorsRely == Spec => []CursorInv
  <1>1. TypeOK /\ TypeOK' /\ PollInv /\ CursorInv /\ [Next]_vars => CursorInv'
    <2>. SUFFICES ASSUME TypeOK, TypeOK', PollInv, CursorInv, [Next]_vars PROVE CursorInv'
      OBVIOUS
    <2>1. CASE CreateItem \/ (\E K \in SUBSET (Keys \cup {Note}), status \in {"new", "done"} : Patch(K, status))
               \/ (\E k \in Keys \cup {Note} : DeleteItem(k) \/ Ages(k))
      <3>1. UNCHANGED <<pollVars, cursors, runs, told, recorded, late, upcoming>>
        BY <2>1 DEF CreateItem, Patch, DeleteItem, Ages, world, ghosts
      <3>. QED
        BY <3>1, OthersInv
    <2>2. CASE (\E t \in Todos : TodoMoves(t)) \/ (\E i \in Issues, open \in BOOLEAN : IssueMoves(i, open))
               \/ (\E x \in Things : Comes(x))
      <3>1. UNCHANGED <<pollVars, cursors, runs, told, recorded, late>> /\ upcoming' \subseteq upcoming
        BY <2>2 DEF TodoMoves, IssueMoves, Comes, ghosts
      <3>. QED
        BY <3>1, OthersInv
    <2>3. CASE UNCHANGED vars
      <3>1. UNCHANGED <<pollVars, cursors, runs, told, recorded, late, upcoming>>
        BY <2>3 DEF vars, inboxVars
      <3>. QED
        BY <3>1, OthersInv
    <2>. QED
      BY <2>1, <2>2, <2>3, StartInv, OtherFeedersInv, EventsFeederInv, ApplyInv, RestartCursor, ConnectionCursor DEF Next
  <1>. QED
    BY <1>1, CursorStarts, TypeCorrect, PollsRely, PTL DEF Spec

\* The one cursor over all events never passes one that came in its time and
\* was not told of.
THEOREM NothingPassedUntold == Spec => []PassedIsTold
  <1>1. CursorInv => PassedIsTold
    BY DEF CursorInv, DocInv, ToldUpTo, PassedIsTold
  <1>. QED
    BY <1>1, CursorsRely, PTL

\* A refresh that begins after a past event's item was deleted does not report
\* that event.
THEOREM DeletedStaysDeleted == Spec => []DeletedIsNotReported
  <1>1. TypeOK /\ CursorInv => DeletedIsNotReported
    <2>. SUFFICES ASSUME TypeOK, CursorInv, NEW r \in Refreshers, NEW x \in runs[r].report \cap runs[r].gone PROVE FALSE
      BY DEF DeletedIsNotReported
    <2>1. From(r) \in Nat
      BY DEF From, TypeOK, Run, Cursors
    <2>2. x \in Past /\ StampOf[x] <= From(r) /\ From(r) < StampOf[x]
      BY DEF CursorInv, RunInv
    <2>. QED
      BY <2>1, <2>2, StampType DEF Past
  <1>. QED
    BY <1>1, CursorsRely, TypeCorrect, PTL

-----------------------------------------------------------------------------
(***************************************************************************)
(* What the inbox holds of each key.                                       *)
(***************************************************************************)

\* A key has no items, or one at the first place.
ItemKind == [status : {"new", "done"}, auto : BOOLEAN, old : BOOLEAN]
OfOneKey(its) == DOMAIN its \subseteq {1} /\ its \in [DOMAIN its -> ItemKind]

Keyed(doc) == DOMAIN doc = Keys \cup {Note} /\ \A k \in Keys : OfOneKey(doc[k])

\* What a person's done leaves of a key, and items that nothing prunes.
IsDismissed(its) == DOMAIN its # {} /\ \A n \in DOMAIN its : its[n].status = "done" /\ ~its[n].auto
IsRecent(its) == \A n \in DOMAIN its : ~its[n].old

\* A write after which what was dismissed is, and what was recent is.
Keeps(its, new) ==
    /\ OfOneKey(new)
    /\ IsRecent(its) => IsRecent(new)
    /\ IsRecent(its) /\ IsDismissed(its) => IsDismissed(new)

\* Where the last of a key's items is.
LEMMA LastOfKey ==
    ASSUME NEW its, OfOneKey(its)
    PROVE  Last(its) = IF DOMAIN its = {} THEN 0 ELSE 1
  <1>1. CASE DOMAIN its = {}
    <2>1. DOMAIN its \cup {0} = {0}
      BY <1>1
    <2>. QED
      BY <1>1, <2>1 DEF Last, Max
  <1>2. CASE DOMAIN its = {1}
    <2>1. DOMAIN its \cup {0} = {0, 1}
      BY <1>2
    <2>2. (CHOOSE x \in {0, 1} : \A y \in {0, 1} : x >= y) = 1
      OBVIOUS
    <2>. QED
      BY <1>2, <2>1, <2>2 DEF Last, Max
  <1>. QED
    BY <1>1, <1>2 DEF OfOneKey

\* What a feeder reports is appended when the key has no item, and put back
\* when a feeder had closed it.
LEMMA UpsertKeeps ==
    ASSUME NEW doc, Keyed(doc), NEW report, NEW k \in Keys
    PROVE  Upserted(doc, report)[k] = doc[k] \/ Keeps(doc[k], Upserted(doc, report)[k])
  <1>1. k \in DOMAIN doc /\ OfOneKey(doc[k])
    BY DEF Keyed
  <1>2. CASE k \notin report
    BY <1>1, <1>2 DEF Upserted
  <1>3. CASE k \in report /\ DOMAIN doc[k] = {}
    <2>1. Upserted(doc, report)[k] = With(doc[k], 1, Item("new"))
      BY <1>1, <1>3, LastOfKey DEF Upserted, AddItem
    <2>2. With(doc[k], 1, Item("new")) = [m \in {1} |-> Item("new")]
      BY <1>3 DEF With
    <2>3. Item("new") \in ItemKind /\ ~Item("new").old
      BY DEF Item, ItemKind
    <2>. QED
      BY <1>3, <2>1, <2>2, <2>3 DEF Keeps, OfOneKey, IsRecent, IsDismissed
  <1>4. CASE k \in report /\ DOMAIN doc[k] = {1} /\ doc[k][1].auto
    <2>1. Upserted(doc, report)[k] = With(doc[k], 1, Item("new"))
      BY <1>1, <1>4, LastOfKey DEF Upserted
    <2>2. With(doc[k], 1, Item("new")) = [m \in {1} |-> Item("new")]
      BY <1>4 DEF With
    <2>3. Item("new") \in ItemKind /\ ~Item("new").old
      BY DEF Item, ItemKind
    <2>. QED
      BY <1>4, <2>1, <2>2, <2>3 DEF Keeps, OfOneKey, IsRecent, IsDismissed
  <1>5. CASE k \in report /\ DOMAIN doc[k] = {1} /\ ~doc[k][1].auto
    BY <1>1, <1>5, LastOfKey DEF Upserted
  <1>. QED
    BY <1>1, <1>2, <1>3, <1>4, <1>5 DEF OfOneKey

\* The items of a key that the feeders no longer watch are closed.
LEMMA CloseKeeps ==
    ASSUME NEW doc, Keyed(doc), NEW unwatched, NEW k \in Keys
    PROVE  Keeps(doc[k], Closed(doc, unwatched)[k])
  <1>1. k \in DOMAIN doc /\ OfOneKey(doc[k])
    BY DEF Keyed
  <1>2. Closed(doc, unwatched)[k] =
           [i \in DOMAIN doc[k] |->
              IF k \in unwatched /\ doc[k][i].status # "done" THEN [doc[k][i] EXCEPT !.status = "done", !.auto = TRUE]
              ELSE doc[k][i]]
    BY <1>1 DEF Closed
  <1>3. \A i \in DOMAIN doc[k] :
           /\ [doc[k][i] EXCEPT !.status = "done", !.auto = TRUE] \in ItemKind
           /\ [doc[k][i] EXCEPT !.status = "done", !.auto = TRUE].old = doc[k][i].old
    BY <1>1 DEF OfOneKey, ItemKind
  <1>. DEFINE new == Closed(doc, unwatched)[k]
  <1>4. OfOneKey(new)
    <2>1. DOMAIN new = DOMAIN doc[k]
      BY <1>2
    <2>2. \A i \in DOMAIN doc[k] : new[i] \in ItemKind
      BY <1>1, <1>2, <1>3 DEF OfOneKey
    <2>3. new = [i \in DOMAIN new |-> new[i]]
      BY <1>2
    <2>. HIDE DEF new
    <2>. QED
      BY <1>1, <2>1, <2>2, <2>3 DEF OfOneKey
  <1>5. DOMAIN new = DOMAIN doc[k] /\ \A i \in DOMAIN doc[k] :
           /\ new[i].old = doc[k][i].old
           /\ doc[k][i].status = "done" => new[i] = doc[k][i]
    BY <1>2, <1>3
  <1>. HIDE DEF new
  <1>6. (IsRecent(doc[k]) => IsRecent(new)) /\ (IsDismissed(doc[k]) => IsDismissed(new))
    BY <1>5 DEF IsRecent, IsDismissed
  <1>. QED
    BY <1>4, <1>6 DEF Keeps, new

\* A write prunes what is done and old.
LEMMA RetainKeeps ==
    ASSUME NEW doc, Keyed(doc), NEW k \in Keys
    PROVE  /\ Keeps(doc[k], Retained(doc)[k])
           /\ Keyed(Retained(doc))
  <1>1. ASSUME NEW j \in Keys PROVE Keeps(doc[j], Retained(doc)[j])
    <2>1. j \in DOMAIN doc /\ OfOneKey(doc[j])
      BY DEF Keyed
    <2>. DEFINE S == {n \in DOMAIN doc[j] : Stays(doc[j][n])}
    <2>2. Retained(doc)[j] = [n \in S |-> doc[j][n]]
      BY <2>1 DEF Retained, Restrict
    <2>3. S \subseteq DOMAIN doc[j] /\ (IsRecent(doc[j]) => S = DOMAIN doc[j])
      BY DEF Stays, IsRecent
    <2>. HIDE DEF S
    <2>4. OfOneKey(Retained(doc)[j])
      BY <2>1, <2>2, <2>3 DEF OfOneKey
    <2>. QED
      BY <2>1, <2>2, <2>3, <2>4 DEF Keeps, IsRecent, IsDismissed
  <1>2. DOMAIN Retained(doc) = DOMAIN doc
    BY DEF Retained
  <1>. QED
    BY <1>1, <1>2 DEF Keyed, Keeps

\* A step's items of a key come from those it had.
LEMMA KeepsOn ==
    ASSUME NEW its, NEW mid, NEW new, Keeps(its, mid), Keeps(mid, new)
    PROVE  Keeps(its, new)
  BY DEF Keeps

LEMMA KeepsSame ==
    ASSUME NEW its, OfOneKey(its)
    PROVE  Keeps(its, its)
  BY DEF Keeps

\* A write of a document: pruned, or not made at all.
LEMMA WriteKeeps ==
    ASSUME Keyed(items), NEW doc, Keyed(doc), NEW changed \in BOOLEAN, Writes(doc, changed), ~changed => doc = items
    PROVE  Keyed(items)' /\ \A k \in Keys : Keeps(doc[k], items'[k])
  <1>1. CASE changed
    <2>1. items' = Retained(doc)
      BY <1>1 DEF Writes
    <2>2. \A k \in Keys : Keeps(doc[k], items'[k])
      BY <2>1, RetainKeeps
    <2>3. DOMAIN items' = Keys \cup {Note}
      BY <2>1 DEF Retained, Keyed
    <2>. QED
      BY <2>2, <2>3 DEF Keyed, Keeps
  <1>2. CASE ~changed
    <2>1. items' = items /\ doc = items
      BY <1>2 DEF Writes
    <2>2. \A k \in Keys : Keeps(doc[k], items'[k])
      BY <2>1, KeepsSame DEF Keyed
    <2>. QED
      BY <2>1, <2>2 DEF Keyed
  <1>. QED
    BY <1>1, <1>2

\* Marking an item is all a person does to it.
LEMMA MarkKeeps ==
    ASSUME NEW its, OfOneKey(its), NEW status \in {"new", "done"}, NEW new,
           new = [i \in DOMAIN its |-> SetStatus(its[i], status)]
    PROVE  /\ OfOneKey(new) /\ (IsRecent(its) => IsRecent(new))
           /\ status = "done" /\ DOMAIN its # {} => IsDismissed(new)
  <1>1. \A i \in DOMAIN its :
           /\ SetStatus(its[i], status) \in ItemKind
           /\ SetStatus(its[i], status).status = status /\ SetStatus(its[i], status).auto = FALSE
           /\ SetStatus(its[i], status).old = its[i].old
    BY DEF OfOneKey, ItemKind, SetStatus
  <1>. QED
    BY <1>1 DEF OfOneKey, IsRecent, IsDismissed

\* What a step makes of the items: keyed, and, where nothing ages, recent and
\* dismissed as they were.
ItemsInv == Keyed(items)
RecentInv == \A k \in Keys : IsRecent(items[k])
DismissedInv == \A k \in dismissed : IsDismissed(items[k])

\* A refresh's results.
LEMMA ApplyKeeps ==
    ASSUME ItemsInv, NEW r \in Refreshers, ApplyResults(r)
    PROVE  ItemsInv' /\ dismissed' = dismissed /\ \A k \in Keys : Keeps(items[k], items'[k])
  <1>. DEFINE up == Upserted(items, runs[r].report)
              doc == Closed(up, runs[r].unwatched)
  <1>1. \A k \in Keys : Keeps(items[k], up[k])
    BY UpsertKeeps, KeepsSame DEF ItemsInv, Keyed
  <1>2. Keyed(up)
    <2>1. DOMAIN up = Keys \cup {Note}
      BY DEF Upserted, ItemsInv, Keyed
    <2>. HIDE DEF up
    <2>. QED
      BY <1>1, <2>1 DEF Keyed, Keeps
  <1>. HIDE DEF up
  <1>3. \A k \in Keys : Keeps(up[k], doc[k])
    BY <1>2, CloseKeeps
  <1>4. Keyed(doc)
    <2>1. DOMAIN doc = Keys \cup {Note}
      BY <1>2 DEF Closed, Keyed
    <2>. HIDE DEF doc
    <2>. QED
      BY <1>3, <2>1 DEF Keyed, Keeps
  <1>. HIDE DEF doc
  <1>5. PICK changed \in BOOLEAN : Writes(doc, changed) /\ (~changed => doc = items)
    BY DEF ApplyResults, doc, up
  <1>6. ItemsInv' /\ \A k \in Keys : Keeps(doc[k], items'[k])
    BY <1>4, <1>5, WriteKeeps DEF ItemsInv
  <1>7. dismissed' = dismissed
    BY DEF ApplyResults
  <1>. QED
    BY <1>1, <1>3, <1>6, <1>7, KeepsOn

\* A person marks items.
LEMMA PatchKeeps ==
    ASSUME ItemsInv, NEW K \in SUBSET (Keys \cup {Note}), NEW status \in {"new", "done"}, Patch(K, status)
    PROVE  /\ ItemsInv'
           /\ \A k \in Keys : IsRecent(items[k]) => IsRecent(items'[k])
           /\ \A k \in Keys \ K : Keeps(items[k], items'[k])
           /\ status = "done" => \A k \in Keys \cap K : IsRecent(items[k]) => IsDismissed(items'[k])
  <1>. DEFINE doc == [k \in DOMAIN items |-> IF k \in K THEN [i \in DOMAIN items[k] |-> SetStatus(items[k][i], status)]
                                                       ELSE items[k]]
  <1>1. \A k \in Keys : k \in DOMAIN items /\ OfOneKey(items[k])
    BY DEF ItemsInv, Keyed
  <1>2. ASSUME NEW k \in Keys \cap K
        PROVE  /\ OfOneKey(doc[k]) /\ (IsRecent(items[k]) => IsRecent(doc[k]))
               /\ (status = "done" => IsDismissed(doc[k]))
    <2>1. doc[k] = [i \in DOMAIN items[k] |-> SetStatus(items[k][i], status)]
      BY <1>1
    <2>2. DOMAIN items[k] # {}
      BY DEF Patch
    <2>. HIDE DEF doc
    <2>. QED
      BY <1>1, <2>1, <2>2, MarkKeeps
  <1>3. \A k \in Keys \ K : doc[k] = items[k]
    BY <1>1
  <1>4. DOMAIN doc = Keys \cup {Note}
    BY DEF ItemsInv, Keyed
  <1>5. PICK changed \in BOOLEAN : Writes(doc, changed) /\ (~changed => doc = items)
    BY DEF Patch
  <1>. HIDE DEF doc
  <1>6. Keyed(doc)
    BY <1>1, <1>2, <1>3, <1>4 DEF Keyed
  <1>7. ItemsInv' /\ \A k \in Keys : Keeps(doc[k], items'[k])
    BY <1>5, <1>6, WriteKeeps DEF ItemsInv
  <1>8. \A k \in Keys : IsRecent(items[k]) => IsRecent(items'[k])
    BY <1>2, <1>3, <1>7 DEF Keeps
  <1>9. \A k \in Keys \ K : Keeps(items[k], items'[k])
    BY <1>3, <1>7
  <1>10. ASSUME status = "done", NEW k \in Keys \cap K, IsRecent(items[k]) PROVE IsDismissed(items'[k])
    BY <1>10, <1>2, <1>7 DEF Keeps
  <1>. QED
    BY <1>7, <1>8, <1>9, <1>10

\* A person deletes an item, or adds a note, which has no key.
LEMMA DeleteKeeps ==
    ASSUME ItemsInv, NEW k \in Keys \cup {Note}, DeleteItem(k)
    PROVE  /\ ItemsInv'
           /\ \A j \in Keys : IsRecent(items[j]) => IsRecent(items'[j])
           /\ \A j \in Keys \ {k} : Keeps(items[j], items'[j])
  <1>1. PICK n \in DOMAIN items[k] : Writes([items EXCEPT ![k] = Restrict(@, DOMAIN @ \ {n})], TRUE)
    BY DEF DeleteItem
  <1>. DEFINE doc == [items EXCEPT ![k] = Restrict(@, DOMAIN @ \ {n})]
  <1>2. DOMAIN doc = Keys \cup {Note} /\ \A j \in Keys \ {k} : doc[j] = items[j]
    BY DEF ItemsInv, Keyed
  <1>3. k \in Keys => OfOneKey(doc[k]) /\ (IsRecent(items[k]) => IsRecent(doc[k]))
    <2>. SUFFICES ASSUME k \in Keys PROVE OfOneKey(doc[k]) /\ (IsRecent(items[k]) => IsRecent(doc[k]))
      OBVIOUS
    <2>1. doc[k] = [i \in DOMAIN items[k] \ {n} |-> items[k][i]] /\ OfOneKey(items[k])
      BY DEF Restrict, ItemsInv, Keyed
    <2>. HIDE DEF doc
    <2>. QED
      BY <2>1 DEF OfOneKey, IsRecent
  <1>4. Writes(doc, TRUE)
    BY <1>1
  <1>. HIDE DEF doc
  <1>5. Keyed(doc)
    BY <1>2, <1>3 DEF Keyed, ItemsInv
  <1>6. ItemsInv' /\ \A j \in Keys : Keeps(doc[j], items'[j])
    BY <1>4, <1>5, WriteKeeps DEF ItemsInv
  <1>. QED
    BY <1>2, <1>3, <1>6 DEF Keeps

LEMMA NoteKeeps ==
    ASSUME ItemsInv, CreateItem
    PROVE  ItemsInv' /\ \A k \in Keys : Keeps(items[k], items'[k])
  <1>. DEFINE doc == [items EXCEPT ![Note] = AddItem(@, Item("new"))]
  <1>1. DOMAIN doc = Keys \cup {Note} /\ \A k \in Keys : doc[k] = items[k]
    BY KeysAreApart DEF ItemsInv, Keyed
  <1>2. Writes(doc, TRUE)
    BY DEF CreateItem
  <1>. HIDE DEF doc
  <1>3. Keyed(doc)
    BY <1>1 DEF Keyed, ItemsInv
  <1>. QED
    BY <1>1, <1>2, <1>3, WriteKeeps DEF ItemsInv

\* Thirty days pass over an item of a key.
LEMMA AgeKeeps ==
    ASSUME ItemsInv, NEW k \in Keys \cup {Note}, Ages(k)
    PROVE  ItemsInv' /\ \A j \in Keys \ {k} : items'[j] = items[j]
  <1>1. items' = [items EXCEPT ![k] = [i \in DOMAIN items[k] |-> [items[k][i] EXCEPT !.old = TRUE]]]
    BY DEF Ages
  <1>2. k \in Keys => OfOneKey([i \in DOMAIN items[k] |-> [items[k][i] EXCEPT !.old = TRUE]])
    <2>1. k \in Keys => \A i \in DOMAIN items[k] : items[k][i] \in ItemKind
      BY DEF ItemsInv, Keyed, OfOneKey
    <2>2. k \in Keys => \A i \in DOMAIN items[k] : [items[k][i] EXCEPT !.old = TRUE] \in ItemKind
      BY <2>1 DEF ItemKind
    <2>. QED
      BY <2>2 DEF ItemsInv, Keyed, OfOneKey
  <1>. QED
    BY <1>1, <1>2 DEF ItemsInv, Keyed

\* All other steps leave the items alone.
LEMMA OthersLeaveItems ==
    ASSUME \/ Connection \/ Restart \/ UNCHANGED vars
           \/ \E r \in Refreshers : Start(r) \/ FeedTodos(r) \/ FeedIssues(r) \/ FeedConnections(r)
           \/ \E t \in Todos : TodoMoves(t)
           \/ \E i \in Issues, open \in BOOLEAN : IssueMoves(i, open)
           \/ \E x \in Things : Comes(x)
    PROVE  UNCHANGED <<items, dismissed>>
  BY ZenonT(60) DEF Connection, Restart, vars, inboxVars, Start, FeedTodos, FeedIssues, FeedConnections, Feeds, TodoMoves, IssueMoves,
         Comes, ghosts

\* The items of a key, throughout.
THEOREM OneItemForEachKey == Spec => []OneItemPerKey
  <1>1. Init => ItemsInv
    <2>. SUFFICES ASSUME Init PROVE ItemsInv
      OBVIOUS
    <2>1. items = [k \in Keys \cup {Note} |-> NoItems]
      BY DEF Init
    <2>2. OfOneKey(NoItems)
      BY DEF OfOneKey, NoItems
    <2>. QED
      BY <2>1, <2>2 DEF ItemsInv, Keyed
  <1>2. ItemsInv /\ [Next]_vars => ItemsInv'
    <2>1. ItemsInv /\ UNCHANGED <<items, dismissed>> => ItemsInv'
      BY DEF ItemsInv, Keyed
    <2>. QED
      BY <2>1, OthersLeaveItems, ApplyKeeps, PatchKeeps, DeleteKeeps, NoteKeeps, AgeKeeps DEF Next
  <1>3. ItemsInv => OneItemPerKey
    BY DEF ItemsInv, Keyed, OfOneKey, OneItemPerKey
  <1>. QED
    BY <1>1, <1>2, <1>3, PTL DEF Spec

\* What holds while nothing with a key ages.
StickInv == ItemsInv /\ RecentInv /\ DismissedInv /\ dismissed \subseteq Keys

\* A step that keeps every key's items.
LEMMA StickStays ==
    ASSUME StickInv, ItemsInv', dismissed' \subseteq dismissed, \A k \in Keys : Keeps(items[k], items'[k])
    PROVE  StickInv'
  BY DEF StickInv, RecentInv, DismissedInv, Keeps

\* A person's done sticks: whichever feeder closed the item before or reports
\* it again, in any two refreshes, it has no open item until they touch it
\* again; as long as it does not age out of the document.
THEOREM DismissedStaysDone == Spec /\ [][\A k \in Keys : ~Ages(k)]_vars => []DoneSticks
  <1>1. Init => StickInv
    <2>. SUFFICES ASSUME Init PROVE StickInv
      OBVIOUS
    <2>1. items = [k \in Keys \cup {Note} |-> NoItems] /\ dismissed = {}
      BY DEF Init
    <2>2. OfOneKey(NoItems) /\ IsRecent(NoItems)
      BY DEF OfOneKey, IsRecent, NoItems
    <2>. QED
      BY <2>1, <2>2 DEF StickInv, ItemsInv, Keyed, RecentInv, DismissedInv
  <1>2. StickInv /\ [Next]_vars /\ [\A k \in Keys : ~Ages(k)]_vars => StickInv'
    <2>. SUFFICES ASSUME StickInv, [Next]_vars, [\A k \in Keys : ~Ages(k)]_vars PROVE StickInv'
      OBVIOUS
    <2>1. ItemsInv /\ \A k \in Keys : OfOneKey(items[k])
      BY DEF StickInv, ItemsInv, Keyed
    <2>2. ASSUME UNCHANGED <<items, dismissed>> PROVE StickInv'
      BY <2>2 DEF StickInv, ItemsInv, Keyed, RecentInv, DismissedInv
    <2>3. ASSUME NEW r \in Refreshers, ApplyResults(r) PROVE StickInv'
      BY <2>1, <2>3, ApplyKeeps, StickStays
    <2>4. ASSUME CreateItem PROVE StickInv'
      <3>1. dismissed' = dismissed
        BY <2>4 DEF CreateItem, ghosts
      <3>. QED
        BY <2>1, <2>4, <3>1, NoteKeeps, StickStays
    <2>5. ASSUME NEW K \in SUBSET (Keys \cup {Note}), NEW status \in {"new", "done"}, Patch(K, status) PROVE StickInv'
      <3>1. /\ ItemsInv'
            /\ \A k \in Keys : IsRecent(items[k]) => IsRecent(items'[k])
            /\ \A k \in Keys \ K : Keeps(items[k], items'[k])
            /\ status = "done" => \A k \in Keys \cap K : IsRecent(items[k]) => IsDismissed(items'[k])
        BY <2>1, <2>5, PatchKeeps
      <3>2. dismissed' = IF status = "done" THEN dismissed \cup (K \cap Keys) ELSE dismissed \ K
        BY <2>5 DEF Patch
      <3>. QED
        BY <3>1, <3>2 DEF StickInv, RecentInv, DismissedInv, Keeps
    <2>6. ASSUME NEW k \in Keys \cup {Note}, DeleteItem(k) PROVE StickInv'
      <3>1. /\ ItemsInv'
            /\ \A j \in Keys : IsRecent(items[j]) => IsRecent(items'[j])
            /\ \A j \in Keys \ {k} : Keeps(items[j], items'[j])
        BY <2>1, <2>6, DeleteKeeps
      <3>2. dismissed' = dismissed \ {k}
        BY <2>6 DEF DeleteItem
      <3>. QED
        BY <3>1, <3>2 DEF StickInv, RecentInv, DismissedInv, Keeps
    <2>7. ASSUME NEW k \in Keys \cup {Note}, Ages(k) PROVE StickInv'
      <3>1. CASE k \in Keys
        <4>1. UNCHANGED vars
          BY <2>7, <3>1
        <4>. QED
          BY <2>2, <4>1 DEF vars, inboxVars
      <3>2. CASE k \notin Keys
        <4>1. ItemsInv' /\ \A j \in Keys : items'[j] = items[j]
          BY <2>1, <2>7, <3>2, AgeKeeps
        <4>2. dismissed' = dismissed
          BY <2>7 DEF Ages, ghosts
        <4>. QED
          BY <2>1, <4>1, <4>2, KeepsSame, StickStays
      <3>. QED
        BY <3>1, <3>2
    <2>. QED
      BY <2>2, <2>3, <2>4, <2>5, <2>6, <2>7, OthersLeaveItems DEF Next
  <1>3. StickInv => DoneSticks
    BY DEF StickInv, DismissedInv, IsDismissed, DoneSticks, AllDone
  <1>. QED
    BY <1>1, <1>2, <1>3, PTL DEF Spec
=============================================================================
