-------------------------- MODULE StreamBus_proofs --------------------------
(***************************************************************************)
(* That the live stream gives its client the stored frames it asked for,   *)
(* each once and in order, or tells it that its place is gone: StreamBus   *)
(* implements EventFeed, for every log, queue, page and set of faults.     *)
(* And that the blocks the client shows as open are those that are open.   *)
(***************************************************************************)
EXTENDS MCStreamBus, FiniteSetTheorems, SequenceTheorems, WellFoundedInduction, TLAPS

-----------------------------------------------------------------------------
(***************************************************************************)
(* The log and its turns.                                                  *)
(***************************************************************************)

Marks == {"begin", "end"}

\* After n events, the turn that began with event t is still running.
Opens(lg, t, n) ==
    /\ t \in 1 .. n /\ lg[t].kind = "begin"
    /\ \A j \in t + 1 .. n : lg[j].kind \notin Marks

\* Every turn is named for its begin, every text is of the turn that is running, and
\* what an event finishes is a text of the turn that was running before it.
LogOf(lg) ==
    \A i \in 1 .. Len(lg) :
        /\ lg[i].kind \in {"begin", "text", "end", "note"}
        /\ lg[i].kind = "begin" => lg[i].turn = i
        /\ lg[i].kind \in {"begin", "note"} => lg[i].prev = 0
        /\ lg[i].kind = "text" => Opens(lg, lg[i].turn, i)
        /\ lg[i].prev # 0 => /\ lg[i].prev \in 1 .. i - 1 /\ lg[lg[i].prev].kind = "text"
                             /\ Opens(lg, lg[lg[i].prev].turn, i - 1)

\* What was pruned is the text of turns that ended, and nothing later needs it.
PrunedInv ==
    /\ aged \in 0 .. processed /\ processed \in 0 .. Len(log)
    /\ pruned \subseteq 1 .. aged
    /\ \A i \in pruned : log[i].kind = "text" /\ ~Opens(log, log[i].turn, Len(log))
    /\ \A i \in aged + 1 .. Len(log) : log[i].prev \notin pruned

-----------------------------------------------------------------------------
(***************************************************************************)
(* Places of a stream and the frames between them, by number.              *)
(***************************************************************************)

Num(f) == 2 * f.seq - 2 + f.part
Ord(p) == 2 * p.seq - p.part

\* A frame of the stream whose numbers are D.
IsFrame(D, f) ==
    /\ f.seq \in Nat /\ f.part \in {1, 2} /\ Num(f) \in D
    /\ f.last \in BOOLEAN /\ (f.part = 2 => f.last) /\ (f.last => f.part = 2 \/ 2 * f.seq \notin D)

\* Nothing is due after a, up to b.
Clear(D, a, b) == \A n \in D : ~(a < n /\ n <= b)

\* The stored frames of s are what is due after a, up to b.
Run(D, s, a, b) ==
    /\ \A x \in DOMAIN s : Stored(s[x]) => IsFrame(D, s[x]) /\ a < Num(s[x]) /\ Num(s[x]) <= b
    /\ \A x, y \in DOMAIN s : x < y /\ Stored(s[x]) /\ Stored(s[y]) => Num(s[x]) < Num(s[y])
    /\ \A n \in D : a < n /\ n <= b => \E x \in DOMAIN s : Stored(s[x]) /\ Num(s[x]) = n

Points == [seq : Nat, part : {0, 1}]
Known == [seq : 0 .. Len(log), part : {0, 1}]

\* Where the client is, and where it is once it has what is on its way to it.
Place == IF client.id = NoPoint THEN Whole(client.base) ELSE client.id
Soon == IF wire # <<>> /\ Stored(wire[1]) THEN After(wire[1]) ELSE Place

\* The client gets from where it is (soon) to p without another frame.
Reaches(p) ==
    /\ p \in Known /\ Ord(Soon) <= Ord(p) /\ Clear(Due, Ord(Soon), Ord(p))
    /\ p.part # 0 => p = Soon

-----------------------------------------------------------------------------
(***************************************************************************)
(* The invariant.                                                          *)
(***************************************************************************)

IsSeq(s) == \E S : s \in Seq(S)

IsSub(s) == s \in [on : {s.on}, queue : {s.queue}, live : {s.live}, stale : {s.stale}, reset : {s.reset}, sent : {s.sent}]
IsConn(c) == c \in [at : {c.at}, after : {c.after}, from : {c.from}, upto : {c.upto}, page : {c.page}, more : {c.more}]
IsClient(c) == c \in [id : {c.id}, base : {c.base}, view : {c.view}]

Shapes ==
    /\ IsSeq(log) /\ IsSeq(wire) /\ IsSub(sub) /\ IsSeq(sub.queue) /\ IsConn(conn) /\ IsSeq(conn.page)
    /\ IsClient(client)

Plain(s) == \A x \in DOMAIN s : s[x].kind \notin {"slow", "gone"}
Fresh(s, n) == \A x \in DOMAIN s : Stored(s[x]) => ~(s[x].seq <= n)

\* What retention may not have passed yet.
AgedInv ==
    /\ client.id.part # 0 => client.id.seq > aged
    /\ Fresh(wire, aged) /\ Fresh(sub.queue, aged) /\ Fresh(conn.page, aged)
    /\ conn.at \in {"pages", "page"} => conn.from >= aged

ClientInv ==
    /\ client.id \in Known \cup {NoPoint} /\ client.base \in 0 .. processed
    /\ client.id = NoPoint => conn.at \notin {"check", "age", "pages", "page", "caught"}

\* A frame on its way is the next one due; or a place to start again from.
WireInv ==
    /\ Len(wire) <= 1
    /\ wire # <<>> => conn.at \in {"page", "live", "over"}
    /\ wire # <<>> /\ Stored(wire[1]) =>
         IsFrame(Due, wire[1]) /\ Ord(Place) < Num(wire[1]) /\ Clear(Due, Ord(Place), Num(wire[1]) - 1)
    /\ wire # <<>> /\ wire[1].kind \in {"slow", "gone"} =>
         /\ conn.at = "over"
         /\ Point(wire[1].seq, wire[1].part) \in Known /\ Ord(Place) <= Ord(wire[1])
         /\ wire[1].kind = "slow" => Clear(Due, Ord(Place), Ord(wire[1]))
         /\ wire[1].part # 0 => Point(wire[1].seq, wire[1].part) = client.id

\* What of the log the replay read, and what of that the client has yet to get.
PageInv ==
    /\ conn.after \in Known /\ conn.upto \in Known /\ conn.from \in 0 .. Len(log)
    /\ \/ /\ conn.upto = conn.after /\ client.id = conn.after /\ wire = <<>> /\ conn.page = <<>>
          /\ conn.from = IF conn.after.part = 0 THEN conn.after.seq ELSE conn.after.seq - 1
       \/ conn.upto = Whole(conn.from) /\ conn.from >= conn.after.seq
    /\ Run(Due, conn.page, Ord(Soon), Ord(conn.upto)) /\ Ord(Soon) <= Ord(conn.upto)

ConnInv ==
    /\ conn.at \in {"off", "check", "age", "pages", "page", "caught", "held", "live", "snap", "over"}
    /\ conn.at # "off" => sub.on
    /\ conn.at # "page" => conn.page = <<>>
    /\ conn.at \in {"check", "age"} => conn.after = client.id
    /\ conn.at = "age" => conn.from \in client.id.seq .. Len(log)
    /\ conn.at \in {"pages", "page"} => PageInv
    /\ conn.at \in {"caught", "held"} => Reaches(conn.upto)
    /\ conn.at \in {"live", "snap"} => Reaches(sub.sent)
    /\ conn.at = "held" => processed >= conn.upto.seq \/ closed

\* The replay reads, or has read, all that comes before the queue.
Read == conn.at \in {"caught", "held"} \/ (conn.at = "page" /\ ~conn.more)

QueueInv ==
    /\ Plain(sub.queue) /\ Plain(conn.page)
    /\ conn.at \notin {"off", "over"} =>
         \E a \in Int :
            /\ a <= 2 * processed
            /\ sub.reset \/ Run(Due, sub.queue, a, 2 * processed)
            /\ Read => Clear(Due, Ord(conn.upto), a)
            /\ conn.at \in {"live", "snap"} => a = Ord(sub.sent)

FeedInv ==
    Shapes /\ LogOf(log) /\ PrunedInv /\ AgedInv /\ ClientInv /\ WireInv /\ ConnInv /\ QueueInv

-----------------------------------------------------------------------------
(***************************************************************************)
(* Numbers and orders.                                                     *)
(***************************************************************************)

Less == {ss \in Nat \X Nat : ss[1] < ss[2]}

\* A set of naturals that is not empty has a least element.
LEMMA Smallest ==
    ASSUME NEW T \in SUBSET Nat, T # {}
    PROVE  \E m \in T : \A n \in T : m <= n
  <1>1. IsWellFoundedOn(Less, Nat)
    <2>1. OpToRel(<, Nat) = Less
      BY DEF OpToRel, Less
    <2>. QED
      BY <2>1, NatLessThanWellFounded
  <1>2. PICK m \in T : \A n \in T : <<n, m>> \notin Less
    BY <1>1, WFMin
  <1>3. ASSUME NEW n \in T, n < m PROVE FALSE
    <2>1. <<n, m>> \in Nat \X Nat
      OBVIOUS
    <2>. QED
      BY <1>2, <1>3, <2>1 DEF Less
  <1>. QED
    BY <1>3

\* And a greatest one, when it is bounded.
LEMMA Greatest ==
    ASSUME NEW n \in Nat, NEW S \in SUBSET (0 .. n), S # {}
    PROVE  Maximum(S) \in S /\ \A m \in S : m <= Maximum(S)
  <1>. DEFINE T == {k \in Nat : n - k \in S}
  <1>1. \A m \in S : n - m \in T /\ n - (n - m) = m
    OBVIOUS
  <1>2. T # {}
    BY <1>1
  <1>3. PICK k \in T : \A j \in T : k <= j
    BY <1>2, Smallest
  <1>4. n - k \in S /\ \A m \in S : m <= n - k
    <2>1. ASSUME NEW m \in S PROVE m <= n - k
      <3>1. n - m \in T /\ m \in Int
        BY <1>1
      <3>2. k <= n - m
        BY <1>3, <3>1
      <3>. QED
        BY <3>1, <3>2
    <2>. QED
      BY <1>3, <2>1
  <1>. QED
    BY <1>4 DEF Maximum

\* The elements with a key up to k.
Below(S, key, k) == {y \in S : key[y] <= k}

LEMMA Ranks ==
    ASSUME NEW S, NEW b \in Nat, NEW key \in [S -> 1 .. b], \A x, y \in S : key[x] = key[y] => x = y
    PROVE  /\ IsFiniteSet(S) /\ Cardinality(S) \in Nat
           /\ \A x, y \in S : key[x] < key[y] => Cardinality(Below(S, key, key[x])) < Cardinality(Below(S, key, key[y]))
           /\ \A x \in S : Cardinality(Below(S, key, key[x])) \in 1 .. Cardinality(S)
           /\ \A n \in 1 .. Cardinality(S) : \E x \in S : Cardinality(Below(S, key, key[x])) = n
  <1>1. IsFiniteSet(S) /\ Cardinality(S) \in Nat
    <2>1. key \in Injection(S, 1 .. b)
      BY DEF Injection, IsInjective
    <2>. QED
      BY <2>1, FS_Interval, FS_Injection, FS_CardinalityType
  <1>2. \A k \in Nat : /\ IsFiniteSet(Below(S, key, k)) /\ Cardinality(Below(S, key, k)) \in Nat
                       /\ Cardinality(Below(S, key, k)) <= Cardinality(S)
    <2>. SUFFICES ASSUME NEW k \in Nat
                  PROVE  /\ IsFiniteSet(Below(S, key, k)) /\ Cardinality(Below(S, key, k)) \in Nat
                         /\ Cardinality(Below(S, key, k)) <= Cardinality(S)
      OBVIOUS
    <2>1. Below(S, key, k) \in SUBSET S
      BY DEF Below
    <2>. QED
      BY <1>1, <2>1, FS_Subset, FS_CardinalityType
  <1>3. ASSUME NEW x \in S, NEW y \in S, key[x] < key[y]
        PROVE  Cardinality(Below(S, key, key[x])) < Cardinality(Below(S, key, key[y]))
    <2>1. key[x] \in Nat /\ key[y] \in Nat
      OBVIOUS
    <2>2. Below(S, key, key[x]) \in SUBSET Below(S, key, key[y])
      BY <1>3 DEF Below
    <2>3. y \in Below(S, key, key[y]) /\ y \notin Below(S, key, key[x])
      BY <1>3 DEF Below
    <2>4. /\ Cardinality(Below(S, key, key[x])) <= Cardinality(Below(S, key, key[y]))
          /\ Cardinality(Below(S, key, key[x])) # Cardinality(Below(S, key, key[y]))
      BY <1>2, <2>1, <2>2, <2>3, FS_Subset
    <2>. QED
      BY <1>2, <2>1, <2>4
  <1>4. ASSUME NEW x \in S PROVE Cardinality(Below(S, key, key[x])) \in 1 .. Cardinality(S)
    <2>1. key[x] \in Nat /\ x \in Below(S, key, key[x])
      BY DEF Below
    <2>2. Cardinality(Below(S, key, key[x])) # 0
      BY <1>2, <2>1, FS_EmptySet
    <2>. QED
      BY <1>1, <1>2, <2>1, <2>2
  <1>5. ASSUME NEW n \in 1 .. Cardinality(S) PROVE \E x \in S : Cardinality(Below(S, key, key[x])) = n
    <2>. DEFINE T == {k \in Nat : Cardinality(Below(S, key, k)) >= n}
    <2>1. Below(S, key, b) = S /\ Below(S, key, 0) = {}
      BY DEF Below
    <2>2. b \in T
      BY <1>1, <2>1
    <2>3. PICK k \in T : \A j \in T : k <= j
      BY <2>2, Smallest
    <2>4. k # 0
      BY <1>5, <2>1, <2>3, FS_EmptySet
    <2>5. k - 1 \in Nat /\ k - 1 \notin T /\ Cardinality(Below(S, key, k - 1)) < n
      <3>1. k - 1 \in Nat /\ k - 1 \notin T
        BY <2>3, <2>4
      <3>. QED
        BY <1>2, <3>1
    <2>6. Below(S, key, k) = Below(S, key, k - 1) \cup {x \in S : key[x] = k}
      BY <2>3, <2>5 DEF Below
    <2>7. PICK x \in S : key[x] = k
      BY <1>2, <2>3, <2>5, <2>6
    <2>8. Below(S, key, k) = Below(S, key, k - 1) \cup {x} /\ x \notin Below(S, key, k - 1)
      <3>1. {y \in S : key[y] = k} = {x}
        BY <2>7
      <3>. QED
        BY <2>5, <2>6, <2>7, <3>1 DEF Below
    <2>9. Cardinality(Below(S, key, k)) = Cardinality(Below(S, key, k - 1)) + 1
      BY <1>2, <2>5, <2>8, FS_AddElement
    <2>. QED
      BY <1>2, <1>5, <2>3, <2>5, <2>7, <2>9
  <1>. QED
    BY <1>1, <1>3, <1>4, <1>5

\* Keys up to b, and what an order by them is.
Keyed(S, key, b) == key \in [S -> 1 .. b] /\ \A x, y \in S : key[x] = key[y] => x = y
Ordered(S, key, o) ==
    \E c \in Nat : /\ c = Cardinality(S) /\ o \in [1 .. c -> S]
                   /\ \A m, n \in 1 .. c : m < n => key[o[m]] < key[o[n]]
                   /\ \A x \in S : \E n \in 1 .. c : o[n] = x

\* InOrder: every element once, by their keys.
LEMMA InOrderFacts ==
    ASSUME NEW S, NEW b \in Nat, NEW key, Keyed(S, key, b)
    PROVE  Ordered(S, key, InOrder(S, key))
  <1>. key \in [S -> 1 .. b] /\ \A x, y \in S : key[x] = key[y] => x = y
    BY DEF Keyed
  <1>. DEFINE rank(x) == Cardinality(Below(S, key, key[x]))
              o == InOrder(S, key)
  <1>1. /\ Cardinality(S) \in Nat
        /\ \A x, y \in S : key[x] < key[y] => rank(x) < rank(y)
        /\ \A x \in S : rank(x) \in 1 .. Cardinality(S)
        /\ \A n \in 1 .. Cardinality(S) : \E x \in S : rank(x) = n
    BY Ranks
  <1>2. o = [n \in 1 .. Cardinality(S) |-> CHOOSE x \in S : rank(x) = n]
    BY DEF InOrder, Below
  <1>. HIDE DEF rank, o
  <1>3. \A n \in 1 .. Cardinality(S) : o[n] \in S /\ rank(o[n]) = n
    BY <1>1, <1>2
  <1>4. \A x \in S : key[x] \in Int
    OBVIOUS
  <1>5. \A x, y \in S : rank(x) = rank(y) => x = y
    <2>. SUFFICES ASSUME NEW x \in S, NEW y \in S, rank(x) = rank(y), x # y PROVE FALSE
      OBVIOUS
    <2>1. key[x] < key[y] \/ key[y] < key[x]
      BY <1>4
    <2>. QED
      BY <1>1, <2>1
  <1>6. ASSUME NEW m \in 1 .. Cardinality(S), NEW n \in 1 .. Cardinality(S), m < n PROVE key[o[m]] < key[o[n]]
    <2>1. key[o[n]] < key[o[m]] => rank(o[n]) < rank(o[m])
      BY <1>1, <1>3
    <2>2. key[o[n]] = key[o[m]] => o[n] = o[m]
      BY <1>3
    <2>. QED
      BY <1>3, <1>4, <1>6, <2>1, <2>2
  <1>7. \A x \in S : \E n \in 1 .. Cardinality(S) : o[n] = x
    BY <1>1, <1>3, <1>5
  <1>8. o \in [1 .. Cardinality(S) -> S]
    BY <1>2, <1>3
  <1>. QED
    BY <1>1, <1>6, <1>7, <1>8 DEF o, Ordered

-----------------------------------------------------------------------------
(***************************************************************************)
(* Sequences of frames that bring what is due from one number to another.  *)
(***************************************************************************)

LEMMA PlacesInOrder ==
    ASSUME NEW b \in Nat, NEW places \in SUBSET (1 .. b)
    PROVE  \E c \in Nat : \E h \in [1 .. c -> places] :
                /\ h = InOrder(places, [i \in places |-> i])
                /\ \A x, y \in 1 .. c : x < y => h[x] < h[y]
                /\ \A i \in places : \E n \in 1 .. c : h[n] = i
  <1>1. PICK key : key = [i \in places |-> i]
    OBVIOUS
  <1>2. (\A x \in places : key[x] = x) /\ Keyed(places, key, b)
    BY <1>1 DEF Keyed
  <1>3. Ordered(places, key, InOrder(places, key))
    BY <1>2, InOrderFacts
  <1>4. PICK o : o = InOrder(places, key)
    OBVIOUS
  <1>5. PICK k \in Nat : /\ o \in [1 .. k -> places]
                         /\ \A m, n \in 1 .. k : m < n => key[o[m]] < key[o[n]]
                         /\ \A x \in places : \E n \in 1 .. k : o[n] = x
    BY <1>3, <1>4 DEF Ordered
  <1>6. \A m, n \in 1 .. k : m < n => o[m] < o[n]
    BY <1>2, <1>5
  <1>. QED
    BY <1>1, <1>4, <1>5, <1>6

LEMMA SiftedFacts ==
    ASSUME NEW q, IsSeq(q), NEW places \in SUBSET DOMAIN q, NEW t, t = Sifted(q, places)
    PROVE  /\ IsSeq(t)
           /\ \E h \in [DOMAIN t -> places] :
                /\ \A n \in DOMAIN t : t[n] = q[h[n]]
                /\ \A m, n \in DOMAIN t : m < n => h[m] < h[n]
                /\ \A i \in places : \E n \in DOMAIN t : h[n] = i
  <1>1. PICK S : q \in Seq(S)
    BY DEF IsSeq
  <1>2. Len(q) \in Nat /\ DOMAIN q = 1 .. Len(q) /\ \A i \in DOMAIN q : q[i] \in S
    BY <1>1
  <1>3. PICK c \in Nat : \E h \in [1 .. c -> places] :
                /\ h = InOrder(places, [i \in places |-> i])
                /\ \A x, y \in 1 .. c : x < y => h[x] < h[y]
                /\ \A i \in places : \E n \in 1 .. c : h[n] = i
    <2>1. places \in SUBSET (1 .. Len(q)) /\ Len(q) \in Nat
      BY <1>2
    <2>. QED
      BY <2>1, PlacesInOrder
  <1>4. PICK g \in [1 .. c -> places] :
                /\ g = InOrder(places, [i \in places |-> i])
                /\ \A x, y \in 1 .. c : x < y => g[x] < g[y]
                /\ \A i \in places : \E n \in 1 .. c : g[n] = i
    BY <1>3
  <1>5. Sifted(q, places) = [n \in DOMAIN g |-> q[g[n]]]
    BY <1>4 DEF Sifted
  <1>7. DOMAIN t = 1 .. c /\ t \in [1 .. c -> S] /\ \A n \in 1 .. c : t[n] = q[g[n]]
    BY <1>2, <1>4, <1>5
  <1>8. IsSeq(t)
    <2>1. t \in Seq(S)
      BY <1>7, SeqDef
    <2>. QED
      BY <2>1 DEF IsSeq
  <1>9. /\ g \in [DOMAIN t -> places]
        /\ \A n \in DOMAIN t : t[n] = q[g[n]]
        /\ \A m, n \in DOMAIN t : m < n => g[m] < g[n]
        /\ \A i \in places : \E n \in DOMAIN t : g[n] = i
    BY <1>4, <1>7
  <1>. QED
    BY <1>8, <1>9

LEMMA AppendFacts ==
    ASSUME NEW s, IsSeq(s), NEW f
    PROVE  /\ IsSeq(Append(s, f)) /\ Len(s) \in Nat /\ DOMAIN s = 1 .. Len(s) /\ DOMAIN Append(s, f) = 1 .. Len(s) + 1
           /\ \A x \in 1 .. Len(s) : Append(s, f)[x] = s[x]
           /\ Append(s, f)[Len(s) + 1] = f
  <1>1. PICK S : s \in Seq(S)
    BY DEF IsSeq
  <1>2. s \in Seq(S \cup {f}) /\ f \in S \cup {f}
    BY <1>1
  <1>. QED
    BY <1>2 DEF IsSeq

LEMMA TailFacts ==
    ASSUME NEW s, IsSeq(s), s # <<>>
    PROVE  /\ IsSeq(Tail(s)) /\ Len(s) \in Nat \ {0} /\ DOMAIN s = 1 .. Len(s) /\ DOMAIN Tail(s) = 1 .. Len(s) - 1
           /\ \A x \in 1 .. Len(s) - 1 : Tail(s)[x] = s[x + 1]
           /\ Head(s) = s[1]
  <1>1. PICK S : s \in Seq(S)
    BY DEF IsSeq
  <1>. QED
    BY <1>1 DEF IsSeq

LEMMA EmptyFacts == IsSeq(<<>>) /\ DOMAIN <<>> = {}
  <1>1. <<>> \in Seq({})
    OBVIOUS
  <1>. QED
    BY <1>1 DEF IsSeq

LEMMA RunEmpty ==
    ASSUME NEW D, NEW a, NEW b, Clear(D, a, b)
    PROVE  Run(D, <<>>, a, b)
  BY EmptyFacts DEF Run, Clear

LEMMA RunAppend ==
    ASSUME NEW D \in SUBSET Nat, NEW s, IsSeq(s), NEW a \in Int, NEW b \in Int, NEW c \in Int, NEW f, Run(D, s, a, b),
           Stored(f), IsFrame(D, f), a <= b, b < Num(f), Num(f) <= c, \A n \in D : b < n /\ n <= c => n = Num(f)
    PROVE  Run(D, Append(s, f), a, c)
  <1>. DEFINE t == Append(s, f)
  <1>1. /\ DOMAIN s = 1 .. Len(s) /\ Len(s) \in Nat /\ DOMAIN t = 1 .. Len(s) + 1
        /\ \A x \in 1 .. Len(s) : t[x] = s[x]
        /\ t[Len(s) + 1] = f
    BY AppendFacts
  <1>. HIDE DEF t
  <1>2. \A g : IsFrame(D, g) => Num(g) \in Int
    BY DEF IsFrame, Num
  <1>3. \A x \in DOMAIN t : Stored(t[x]) => IsFrame(D, t[x]) /\ a < Num(t[x]) /\ Num(t[x]) <= c
    BY <1>1, <1>2 DEF Run
  <1>4. ASSUME NEW x \in DOMAIN t, NEW y \in DOMAIN t, x < y, Stored(t[x]), Stored(t[y]) PROVE Num(t[x]) < Num(t[y])
    <2>1. x \in 1 .. Len(s) /\ (y \in 1 .. Len(s) \/ y = Len(s) + 1)
      BY <1>1, <1>4
    <2>. QED
      BY <1>1, <1>2, <1>4, <2>1 DEF Run
  <1>5. ASSUME NEW n \in D, a < n, n <= c PROVE \E x \in DOMAIN t : Stored(t[x]) /\ Num(t[x]) = n
    <2>1. CASE n <= b
      BY <1>1, <1>5, <2>1 DEF Run
    <2>2. CASE b < n
      <3>1. n = Num(f)
        BY <1>5, <2>2
      <3>2. Len(s) + 1 \in DOMAIN t
        BY <1>1
      <3>. QED
        BY <1>1, <3>1, <3>2
    <2>. QED
      BY <1>5, <2>1, <2>2
  <1>. QED
    BY <1>3, <1>4, <1>5 DEF Run, t

LEMMA RunAppendLive ==
    ASSUME NEW D, NEW s, IsSeq(s), NEW a, NEW b, NEW f, Run(D, s, a, b), ~Stored(f)
    PROVE  Run(D, Append(s, f), a, b)
  <1>. DEFINE t == Append(s, f)
  <1>1. /\ DOMAIN s = 1 .. Len(s) /\ Len(s) \in Nat /\ DOMAIN t = 1 .. Len(s) + 1
        /\ \A x \in 1 .. Len(s) : t[x] = s[x]
        /\ t[Len(s) + 1] = f
    BY AppendFacts
  <1>. HIDE DEF t
  <1>2. \A x \in DOMAIN t : Stored(t[x]) => x \in DOMAIN s /\ t[x] = s[x]
    BY <1>1
  <1>3. \A x \in DOMAIN s : x \in DOMAIN t /\ t[x] = s[x]
    BY <1>1
  <1>. QED
    BY <1>2, <1>3 DEF Run, t

\* Past its last frame nothing is due.
LEMMA RunReaches ==
    ASSUME NEW D \in SUBSET Nat, NEW s, NEW a \in Int, NEW b \in Int, NEW c \in Int, Run(D, s, a, b), b <= c, Clear(D, b, c)
    PROVE  Run(D, s, a, c)
  <1>1. \A g : IsFrame(D, g) => Num(g) \in Int
    BY DEF IsFrame, Num
  <1>2. \A n \in D : a < n /\ n <= c => n <= b
    BY DEF Clear
  <1>3. \A x \in DOMAIN s : Stored(s[x]) => IsFrame(D, s[x]) /\ a < Num(s[x]) /\ Num(s[x]) <= c
    BY <1>1 DEF Run
  <1>. QED
    BY <1>2, <1>3 DEF Run

\* Its first frame is the next one due.
LEMMA RunHead ==
    ASSUME NEW D \in SUBSET Nat, NEW s, IsSeq(s), s # <<>>, NEW a \in Int, NEW b \in Int, Run(D, s, a, b), Stored(Head(s))
    PROVE  /\ IsFrame(D, Head(s)) /\ a < Num(Head(s)) /\ Num(Head(s)) <= b /\ Clear(D, a, Num(Head(s)) - 1)
           /\ Run(D, Tail(s), Num(Head(s)), b)
  <1>. DEFINE t == Tail(s)
  <1>1. /\ DOMAIN s = 1 .. Len(s) /\ Len(s) \in Nat \ {0} /\ DOMAIN t = 1 .. Len(s) - 1
        /\ \A x \in 1 .. Len(s) - 1 : t[x] = s[x + 1]
        /\ Head(s) = s[1]
    BY TailFacts
  <1>. HIDE DEF t
  <1>2. \A g : IsFrame(D, g) => Num(g) \in Int
    BY DEF IsFrame, Num
  <1>3. 1 \in DOMAIN s /\ \A x \in DOMAIN t : x + 1 \in DOMAIN s /\ 1 < x + 1 /\ t[x] = s[x + 1]
    BY <1>1
  <1>4. IsFrame(D, s[1]) /\ a < Num(s[1]) /\ Num(s[1]) <= b /\ Num(s[1]) \in Int
    BY <1>1, <1>2, <1>3 DEF Run
  <1>5. \A x \in DOMAIN t : Stored(t[x]) => IsFrame(D, t[x]) /\ Num(s[1]) < Num(t[x]) /\ Num(t[x]) <= b
    BY <1>1, <1>3 DEF Run
  <1>6. \A x, y \in DOMAIN t : x < y /\ Stored(t[x]) /\ Stored(t[y]) => Num(t[x]) < Num(t[y])
    <2>. SUFFICES ASSUME NEW x \in DOMAIN t, NEW y \in DOMAIN t, x < y, Stored(t[x]), Stored(t[y]) PROVE Num(t[x]) < Num(t[y])
      OBVIOUS
    <2>1. x + 1 < y + 1
      BY <1>1
    <2>. QED
      BY <1>3, <2>1 DEF Run
  <1>7. ASSUME NEW n \in D, a < n, n <= b
        PROVE  n = Num(s[1]) \/ (Num(s[1]) < n /\ \E x \in DOMAIN t : Stored(t[x]) /\ Num(t[x]) = n)
    <2>1. PICK x \in DOMAIN s : Stored(s[x]) /\ Num(s[x]) = n
      BY <1>7 DEF Run
    <2>2. CASE x = 1
      BY <2>1, <2>2
    <2>3. CASE x # 1
      <3>1. x - 1 \in DOMAIN t /\ t[x - 1] = s[x] /\ 1 < x
        BY <1>1, <2>3
      <3>2. Num(s[1]) < Num(s[x])
        BY <1>1, <1>3, <2>1, <3>1 DEF Run
      <3>. QED
        BY <2>1, <3>1, <3>2
    <2>. QED
      BY <2>2, <2>3
  <1>8. Clear(D, a, Num(s[1]) - 1)
    BY <1>4, <1>7 DEF Clear
  <1>9. \A n \in D : Num(s[1]) < n /\ n <= b => \E x \in DOMAIN t : Stored(t[x]) /\ Num(t[x]) = n
    BY <1>4, <1>7
  <1>. QED
    BY <1>1, <1>4, <1>5, <1>6, <1>8, <1>9 DEF Run, t

LEMMA RunHeadLive ==
    ASSUME NEW D, NEW s, IsSeq(s), s # <<>>, NEW a, NEW b, Run(D, s, a, b), ~Stored(Head(s))
    PROVE  Run(D, Tail(s), a, b)
  <1>. DEFINE t == Tail(s)
  <1>1. /\ DOMAIN s = 1 .. Len(s) /\ Len(s) \in Nat \ {0} /\ DOMAIN t = 1 .. Len(s) - 1
        /\ \A x \in 1 .. Len(s) - 1 : t[x] = s[x + 1]
        /\ Head(s) = s[1]
    BY TailFacts
  <1>. HIDE DEF t
  <1>2. \A x \in DOMAIN t : x + 1 \in DOMAIN s /\ t[x] = s[x + 1]
    BY <1>1
  <1>3. \A x \in DOMAIN s : Stored(s[x]) => x - 1 \in DOMAIN t /\ t[x - 1] = s[x]
    BY <1>1
  <1>4. \A x, y \in DOMAIN t : x < y => x + 1 < y + 1
    BY <1>1
  <1>5. \A x \in DOMAIN t : Stored(t[x]) => IsFrame(D, t[x]) /\ a < Num(t[x]) /\ Num(t[x]) <= b
    BY <1>2 DEF Run
  <1>6. \A x, y \in DOMAIN t : x < y /\ Stored(t[x]) /\ Stored(t[y]) => Num(t[x]) < Num(t[y])
    BY <1>2, <1>4 DEF Run
  <1>7. \A n \in D : a < n /\ n <= b => \E x \in DOMAIN t : Stored(t[x]) /\ Num(t[x]) = n
    BY <1>3 DEF Run
  <1>. QED
    BY <1>5, <1>6, <1>7 DEF Run, t

\* A client past a frame is past nothing else.
LEMMA AfterFrame ==
    ASSUME NEW D \in SUBSET Nat, NEW f, IsFrame(D, f)
    PROVE  /\ After(f) \in Points /\ Ord(After(f)) \in Int
           /\ Num(f) <= Ord(After(f)) /\ Clear(D, Num(f), Ord(After(f)))
           /\ After(f).seq = f.seq
  BY DEF IsFrame, After, Point, Points, Ord, Num, Clear

LEMMA RunStarts ==
    ASSUME NEW D \in SUBSET Nat, NEW s, NEW a \in Int, NEW b \in Int, NEW c \in Int, Run(D, s, a, b), a <= c, Clear(D, a, c)
    PROVE  Run(D, s, c, b)
  <1>1. \A g : IsFrame(D, g) => Num(g) \in D /\ Num(g) \in Int
    BY DEF IsFrame, Num
  <1>2. \A x \in DOMAIN s : Stored(s[x]) => IsFrame(D, s[x]) /\ c < Num(s[x]) /\ Num(s[x]) <= b
    BY <1>1 DEF Run, Clear
  <1>3. \A n \in D : c < n => a < n
    OBVIOUS
  <1>. QED
    BY <1>2, <1>3 DEF Run

\* What is left of a queue, from another number on.
LEMMA RunSifted ==
    ASSUME NEW D \in SUBSET Nat, NEW s, IsSeq(s), NEW a \in Int, NEW b \in Int, NEW c \in Int, Run(D, s, a, b), Clear(D, c, a),
           NEW places \in SUBSET DOMAIN s, \A x \in DOMAIN s : Stored(s[x]) => (x \in places <=> c < Num(s[x])),
           NEW t, t = Sifted(s, places)
    PROVE  Run(D, t, c, b)
  <1>1. PICK h \in [DOMAIN t -> places] :
                /\ \A n \in DOMAIN t : t[n] = s[h[n]]
                /\ \A m, n \in DOMAIN t : m < n => h[m] < h[n]
                /\ \A i \in places : \E n \in DOMAIN t : h[n] = i
    BY SiftedFacts
  <1>2. \A x \in DOMAIN t : h[x] \in DOMAIN s /\ h[x] \in places
    OBVIOUS
  <1>3. \A x \in DOMAIN t : Stored(t[x]) => IsFrame(D, t[x]) /\ c < Num(t[x]) /\ Num(t[x]) <= b
    BY <1>1, <1>2 DEF Run
  <1>4. \A x, y \in DOMAIN t : x < y /\ Stored(t[x]) /\ Stored(t[y]) => Num(t[x]) < Num(t[y])
    BY <1>1, <1>2 DEF Run
  <1>5. ASSUME NEW n \in D, c < n, n <= b PROVE \E x \in DOMAIN t : Stored(t[x]) /\ Num(t[x]) = n
    <2>1. a < n
      BY <1>5 DEF Clear
    <2>2. PICK y \in DOMAIN s : Stored(s[y]) /\ Num(s[y]) = n
      BY <1>5, <2>1 DEF Run
    <2>3. y \in places
      BY <1>5, <2>2
    <2>. QED
      BY <1>1, <2>2, <2>3
  <1>. QED
    BY <1>3, <1>4, <1>5 DEF Run

\* Numbers that come after those of the run do not change it.
LEMMA RunGrows ==
    ASSUME NEW D \in SUBSET Nat, NEW E \in SUBSET Nat, NEW m \in Nat, D \subseteq E, \A n \in E \ D : n > 2 * m
    PROVE  /\ \A s : \A a, b \in Int : b <= 2 * m => (Run(D, s, a, b) <=> Run(E, s, a, b))
           /\ \A a, b \in Int : b <= 2 * m => (Clear(D, a, b) <=> Clear(E, a, b))
           /\ \A f : f.seq <= m => (IsFrame(D, f) <=> IsFrame(E, f))
  <1>1. \A n \in E : n <= 2 * m => n \in D
    OBVIOUS
  <1>2. ASSUME NEW f, f.seq \in Nat, f.part \in {1, 2}, Num(f) <= 2 * m PROVE IsFrame(D, f) <=> IsFrame(E, f)
    <2>1. 2 * f.seq <= 2 * m /\ 2 * f.seq \in Nat
      BY <1>2 DEF Num
    <2>. QED
      BY <1>1, <1>2, <2>1 DEF IsFrame
  <1>3. \A f : f.seq <= m => (IsFrame(D, f) <=> IsFrame(E, f))
    <2>. SUFFICES ASSUME NEW f, f.seq <= m PROVE IsFrame(D, f) <=> IsFrame(E, f)
      OBVIOUS
    <2>1. CASE f.seq \in Nat /\ f.part \in {1, 2}
      <3>1. Num(f) <= 2 * m
        BY <2>1 DEF Num
      <3>. QED
        BY <1>2, <2>1, <3>1
    <2>2. CASE ~(f.seq \in Nat /\ f.part \in {1, 2})
      BY <2>2 DEF IsFrame
    <2>. QED
      BY <2>1, <2>2
  <1>4. ASSUME NEW f, NEW b \in Int, b <= 2 * m, Num(f) <= b PROVE IsFrame(D, f) <=> IsFrame(E, f)
    <2>1. CASE f.seq \in Nat /\ f.part \in {1, 2}
      <3>1. Num(f) <= 2 * m
        BY <1>4, <2>1 DEF Num
      <3>. QED
        BY <1>2, <2>1, <3>1
    <2>2. CASE ~(f.seq \in Nat /\ f.part \in {1, 2})
      BY <2>2 DEF IsFrame
    <2>. QED
      BY <2>1, <2>2
  <1>5. \A a, b \in Int : b <= 2 * m => (Clear(D, a, b) <=> Clear(E, a, b))
    BY <1>1 DEF Clear
  <1>6. ASSUME NEW s, NEW a \in Int, NEW b \in Int, b <= 2 * m PROVE Run(D, s, a, b) <=> Run(E, s, a, b)
    <2>1. \A x \in DOMAIN s : Num(s[x]) <= b => (IsFrame(D, s[x]) <=> IsFrame(E, s[x]))
      BY <1>4, <1>6
    <2>2. \A n \in E : n <= b => n \in D
      BY <1>1, <1>6
    <2>. QED
      BY <2>1, <2>2 DEF Run
  <1>. QED
    BY <1>3, <1>5, <1>6

-----------------------------------------------------------------------------
(***************************************************************************)
(* The log: what a commit, or a prune, leaves of it.                       *)
(***************************************************************************)

LEMMA TurnIsOpen ==
    ASSUME IsSeq(log), LogOf(log), NEW n \in 0 .. Len(log), NEW t, t # 0
    PROVE  TurnAt(n) = t <=> Opens(log, t, n)
  <1>. DEFINE marks == {i \in 1 .. n : log[i].kind \in Marks}
  <1>1. Len(log) \in Nat /\ n \in Nat
    BY DEF IsSeq
  <1>2. TurnAt(n) = IF marks # {} /\ log[Maximum(marks)].kind = "begin" THEN log[Maximum(marks)].turn ELSE 0
    BY DEF TurnAt, Marks
  <1>3. ASSUME TurnAt(n) = t PROVE Opens(log, t, n)
    <2>1. marks # {} /\ log[Maximum(marks)].kind = "begin" /\ log[Maximum(marks)].turn = t
      BY <1>2, <1>3
    <2>2. marks \in SUBSET (0 .. n)
      BY <1>1
    <2>3. Maximum(marks) \in marks /\ \A m \in marks : m <= Maximum(marks)
      BY <1>1, <2>1, <2>2, Greatest
    <2>4. Maximum(marks) = t
      BY <1>1, <2>1, <2>3 DEF LogOf
    <2>. QED
      BY <1>1, <2>1, <2>3, <2>4 DEF Opens
  <1>4. ASSUME Opens(log, t, n) PROVE TurnAt(n) = t
    <2>1. t \in marks /\ \A m \in marks : m <= t
      BY <1>1, <1>4 DEF Opens, Marks
    <2>2. marks \in SUBSET (0 .. n) /\ marks # {}
      BY <1>1, <2>1
    <2>3. Maximum(marks) \in marks /\ \A m \in marks : m <= Maximum(marks)
      BY <1>1, <2>2, Greatest
    <2>4. Maximum(marks) = t
      BY <1>1, <2>1, <2>3
    <2>5. t \in 1 .. Len(log) /\ log[t].kind = "begin"
      BY <1>1, <1>4 DEF Opens
    <2>6. log[t].turn = t
      BY <2>5 DEF LogOf
    <2>. QED
      BY <1>2, <2>2, <2>4, <2>5, <2>6
  <1>. QED
    BY <1>3, <1>4

LEMMA OpenIsText ==
    ASSUME IsSeq(log), OpenNow # 0
    PROVE  OpenNow \in 1 .. Len(log) /\ log[OpenNow].kind = "text" /\ log[OpenNow].turn = TurnNow
  <1>. DEFINE texts == {i \in Seqs : log[i].kind = "text" /\ log[i].turn = TurnNow}
  <1>1. Len(log) \in Nat
    BY DEF IsSeq
  <1>2. OpenNow = IF texts = {} THEN 0 ELSE Maximum(texts)
    BY DEF OpenNow
  <1>3. texts # {} /\ texts \in SUBSET (0 .. Len(log))
    BY <1>1, <1>2 DEF Seqs
  <1>4. Maximum(texts) \in texts
    BY <1>1, <1>3, Greatest
  <1>. QED
    BY <1>2, <1>3, <1>4 DEF Seqs

LEMMA OpensLater ==
    ASSUME NEW lg, IsSeq(lg), NEW e, NEW t, NEW n \in Int, n <= Len(lg)
    PROVE  Opens(Append(lg, e), t, n) <=> Opens(lg, t, n)
  <1>1. \A x \in 1 .. n : Append(lg, e)[x] = lg[x]
    BY AppendFacts
  <1>2. t \in 1 .. n => \A j \in t + 1 .. n : j \in 1 .. n
    OBVIOUS
  <1>. QED
    BY <1>1, <1>2 DEF Opens

\* What the code commits, from what the log holds.
Follows(e) ==
    /\ e.kind \in {"begin", "text", "end", "note"}
    /\ e.kind = "begin" => e.turn = Len(log) + 1
    /\ e.kind \in {"begin", "note"} => e.prev = 0
    /\ e.kind = "text" => e.turn = TurnNow
    /\ e.kind \in {"text", "end"} => TurnNow # 0 /\ e.prev = OpenNow

LEMMA CommitKeepsLog ==
    ASSUME IsSeq(log), LogOf(log), NEW e, Follows(e), log' = Append(log, e)
    PROVE  IsSeq(log') /\ Len(log') = Len(log) + 1 /\ LogOf(log')
  <1>1. /\ IsSeq(log') /\ Len(log) \in Nat /\ Len(log') = Len(log) + 1
        /\ \A x \in 1 .. Len(log) : log'[x] = log[x]
        /\ log'[Len(log) + 1] = e
    <2>1. IsSeq(log')
      BY AppendFacts
    <2>2. PICK S : log' \in Seq(S)
      BY <2>1 DEF IsSeq
    <2>. QED
      BY <2>1, <2>2, AppendFacts
  <1>2. \A t : \A n \in Int : n <= Len(log) => (Opens(log', t, n) <=> Opens(log, t, n))
    BY OpensLater
  <1>3. ASSUME TurnNow # 0 PROVE Opens(log, TurnNow, Len(log))
    BY <1>1, <1>3, TurnIsOpen DEF TurnNow
  <1>4. ASSUME NEW i \in 1 .. Len(log)
        PROVE  /\ log'[i].kind \in {"begin", "text", "end", "note"}
               /\ log'[i].kind = "begin" => log'[i].turn = i
               /\ log'[i].kind \in {"begin", "note"} => log'[i].prev = 0
               /\ log'[i].kind = "text" => Opens(log', log'[i].turn, i)
               /\ log'[i].prev # 0 => /\ log'[i].prev \in 1 .. i - 1 /\ log'[log'[i].prev].kind = "text"
                                      /\ Opens(log', log'[log'[i].prev].turn, i - 1)
    <2>1. /\ log[i].kind \in {"begin", "text", "end", "note"}
          /\ log[i].kind = "begin" => log[i].turn = i
          /\ log[i].kind \in {"begin", "note"} => log[i].prev = 0
          /\ log[i].kind = "text" => Opens(log, log[i].turn, i)
          /\ log[i].prev # 0 => /\ log[i].prev \in 1 .. i - 1 /\ log[log[i].prev].kind = "text"
                                /\ Opens(log, log[log[i].prev].turn, i - 1)
      BY DEF LogOf
    <2>2. i \in Int /\ i - 1 \in Int /\ i <= Len(log) /\ i - 1 <= Len(log) /\ log'[i] = log[i]
      BY <1>1
    <2>3. log[i].prev # 0 => log'[log[i].prev] = log[log[i].prev]
      BY <1>1, <2>1
    <2>. QED
      BY <1>2, <2>1, <2>2, <2>3
  <1>5. ASSUME NEW i \in 1 .. Len(log'), i \notin 1 .. Len(log)
        PROVE  /\ log'[i].kind \in {"begin", "text", "end", "note"}
               /\ log'[i].kind = "begin" => log'[i].turn = i
               /\ log'[i].kind \in {"begin", "note"} => log'[i].prev = 0
               /\ log'[i].kind = "text" => Opens(log', log'[i].turn, i)
               /\ log'[i].prev # 0 => /\ log'[i].prev \in 1 .. i - 1 /\ log'[log'[i].prev].kind = "text"
                                      /\ Opens(log', log'[log'[i].prev].turn, i - 1)
    <2>1. i = Len(log) + 1 /\ log'[i] = e /\ i - 1 = Len(log)
      BY <1>1, <1>5
    <2>2. e.kind = "text" => Opens(log', TurnNow, i)
      <3>1. e.kind = "text" => Opens(log', TurnNow, Len(log))
        BY <1>1, <1>2, <1>3 DEF Follows
      <3>2. e.kind = "text" => log'[i].kind \notin Marks
        BY <2>1 DEF Marks
      <3>. QED
        BY <1>1, <2>1, <3>1, <3>2 DEF Opens
    <2>3. e.prev # 0 => /\ e.prev = OpenNow /\ TurnNow # 0
      BY DEF Follows
    <2>4. e.prev # 0 => /\ e.prev \in 1 .. Len(log) /\ log[e.prev].kind = "text" /\ log[e.prev].turn = TurnNow
      BY <2>3, OpenIsText
    <2>5. e.prev # 0 => /\ log'[e.prev] = log[e.prev] /\ Opens(log', TurnNow, Len(log))
      BY <1>1, <1>2, <1>3, <2>3, <2>4
    <2>. QED
      BY <2>1, <2>2, <2>4, <2>5 DEF Follows
  <1>. QED
    BY <1>1, <1>4, <1>5 DEF LogOf

LEMMA CommitKeepsPruned ==
    ASSUME IsSeq(log), LogOf(log), PrunedInv, NEW e, Follows(e), log' = Append(log, e), aged' = aged, pruned' = pruned,
           processed' \in {processed, Len(log')}
    PROVE  PrunedInv'
  <1>1. /\ Len(log) \in Nat /\ Len(log') = Len(log) + 1 /\ IsSeq(log')
        /\ \A x \in 1 .. Len(log) : log'[x] = log[x]
        /\ log'[Len(log) + 1] = e
    BY CommitKeepsLog, AppendFacts
  <1>2. aged' \in 0 .. processed' /\ processed' \in 0 .. Len(log')
    BY <1>1 DEF PrunedInv
  <1>3. pruned \subseteq 1 .. Len(log)
    BY <1>1 DEF PrunedInv
  <1>4. ASSUME NEW i \in pruned PROVE log'[i].kind = "text" /\ ~Opens(log', log'[i].turn, Len(log'))
    <2>1. log'[i] = log[i] /\ log[i].kind = "text" /\ i \in 1 .. Len(log) /\ ~Opens(log, log[i].turn, Len(log))
      BY <1>1, <1>3 DEF PrunedInv
    <2>2. log[i].turn \in 1 .. Len(log)
      BY <1>1, <2>1 DEF LogOf, Opens
    <2>3. ~Opens(log', log[i].turn, Len(log))
      BY <1>1, <2>1, OpensLater
    <2>4. ~Opens(log', log[i].turn, Len(log) + 1)
      BY <1>1, <2>2, <2>3 DEF Opens
    <2>. QED
      BY <1>1, <2>1, <2>4
  <1>5. ASSUME NEW i \in aged + 1 .. Len(log') PROVE log'[i].prev \notin pruned
    <2>1. CASE i \in 1 .. Len(log)
      BY <1>1, <1>5, <2>1 DEF PrunedInv
    <2>2. CASE i = Len(log) + 1
      <3>. SUFFICES ASSUME e.prev \in pruned PROVE FALSE
        BY <1>1, <2>2
      <3>1. e.prev # 0
        BY <1>3
      <3>2. e.prev = OpenNow /\ TurnNow # 0
        BY <3>1 DEF Follows
      <3>3. log[e.prev].turn = TurnNow
        BY <3>1, <3>2, OpenIsText
      <3>4. Opens(log, TurnNow, Len(log))
        BY <1>1, <3>2, TurnIsOpen DEF TurnNow
      <3>. QED
        BY <3>3, <3>4 DEF PrunedInv
    <2>. QED
      BY <1>1, <1>5, <2>1, <2>2 DEF PrunedInv
  <1>. QED
    BY <1>1, <1>2, <1>4, <1>5 DEF PrunedInv

\* A prune, at a moment that falls between two events of no turn.
LEMMA PruneKeepsLog ==
    ASSUME IsSeq(log), LogOf(log), PrunedInv, NEW to \in aged + 1 .. processed, TurnAt(to) \in {0, TurnNow},
           aged' = to, log' = log, processed' = processed,
           pruned' = pruned \cup {i \in 1 .. to : /\ log[i].kind = "text"
                                                  /\ log[i].turn # TurnNow /\ i # Len(log)}
    PROVE  PrunedInv'
  <1>1. Len(log) \in Nat /\ aged \in Nat /\ processed \in Nat /\ aged < to /\ to <= processed /\ processed <= Len(log)
    BY DEF IsSeq, PrunedInv
  <1>2. \A t : t # 0 => (TurnNow = t <=> Opens(log, t, Len(log))) /\ (TurnAt(to) = t <=> Opens(log, t, to))
    BY <1>1, TurnIsOpen DEF TurnNow
  <1>3. \A i \in pruned' : i \in pruned \/ (i \in 1 .. to /\ log[i].kind = "text" /\ log[i].turn # TurnNow)
    OBVIOUS
  <1>4. ASSUME NEW i \in 1 .. Len(log), log[i].kind = "text" PROVE log[i].turn \in 1 .. i
    BY <1>1, <1>4 DEF LogOf, Opens
  <1>5. ASSUME NEW i \in pruned' PROVE i \in 1 .. to /\ log[i].kind = "text" /\ ~Opens(log, log[i].turn, Len(log))
    <2>1. CASE i \in pruned
      BY <1>1, <2>1 DEF PrunedInv
    <2>2. CASE i \notin pruned
      <3>1. i \in 1 .. to /\ log[i].kind = "text" /\ log[i].turn # TurnNow
        BY <1>3, <1>5, <2>2
      <3>2. log[i].turn # 0
        BY <1>1, <1>4, <3>1
      <3>. QED
        BY <1>2, <3>1, <3>2
    <2>. QED
      BY <2>1, <2>2
  <1>6. ASSUME NEW i \in to + 1 .. Len(log) PROVE log[i].prev \notin pruned'
    <2>. SUFFICES ASSUME log[i].prev \in pruned' PROVE FALSE
      OBVIOUS
    <2>1. PICK p \in 1 .. to : p = log[i].prev /\ log[p].kind = "text" /\ ~Opens(log, log[p].turn, Len(log))
      BY <1>5
    <2>2. i \in 1 .. Len(log) /\ p # 0 /\ i - 1 >= to
      BY <1>1
    <2>3. Opens(log, log[p].turn, i - 1) /\ log[p].turn \in 1 .. p
      BY <1>1, <1>4, <2>1, <2>2 DEF LogOf
    <2>4. Opens(log, log[p].turn, to)
      BY <1>1, <2>2, <2>3 DEF Opens
    <2>5. TurnAt(to) = log[p].turn /\ TurnAt(to) # 0
      BY <1>2, <2>3, <2>4
    <2>6. TurnNow = log[p].turn
      BY <2>5
    <2>. QED
      BY <1>2, <2>1, <2>5, <2>6
  <1>7. aged' \in 0 .. processed' /\ processed' \in 0 .. Len(log')
    BY <1>1
  <1>8. pruned' \subseteq 1 .. aged'
    BY <1>5
  <1>9. \A i \in pruned' : log'[i].kind = "text" /\ ~Opens(log', log'[i].turn, Len(log'))
    BY <1>5
  <1>10. \A i \in aged' + 1 .. Len(log') : log'[i].prev \notin pruned'
    BY <1>6
  <1>. QED
    BY <1>7, <1>8, <1>9, <1>10 DEF PrunedInv

-----------------------------------------------------------------------------
(***************************************************************************)
(* The frames of an event and their numbers.                               *)
(***************************************************************************)

LEMMA DueNumbers ==
    ASSUME IsSeq(log), LogOf(log)
    PROVE  /\ Due \in SUBSET Nat /\ \A n \in Due : n >= 1 /\ n <= 2 * Len(log)
           /\ \A i \in Seqs : \A k \in {1, 2} : 2 * i - 2 + k \in Due <=> k \in Parts(i) /\ Wanted(i, k)
           /\ \A n \in Due : \E i \in Seqs : \E k \in Parts(i) : Wanted(i, k) /\ n = 2 * i - 2 + k /\ k \in {1, 2}
  <1>1. Len(log) \in Nat
    BY DEF IsSeq
  <1>2. \A i : \A k \in Parts(i) : k \in {1, 2}
    BY DEF Parts
  <1>3. ASSUME NEW i \in Seqs, NEW k \in {1, 2} PROVE 2 * i - 2 + k \in Due <=> k \in Parts(i) /\ Wanted(i, k)
    <2>1. i \in 1 .. Len(log) /\ 2 * i - 2 + k \in 1 .. 2 * Len(log)
      BY <1>1, <1>3 DEF Seqs
    <2>2. ASSUME 2 * i - 2 + k \in Due PROVE k \in Parts(i) /\ Wanted(i, k)
      <3>1. PICK j \in Seqs : \E part \in Parts(j) : Wanted(j, part) /\ 2 * i - 2 + k = 2 * j - 2 + part
        BY <2>2 DEF Due
      <3>2. PICK part \in Parts(j) : Wanted(j, part) /\ 2 * i - 2 + k = 2 * j - 2 + part
        BY <3>1
      <3>3. part \in {1, 2} /\ j \in Int /\ i \in Int
        BY <1>2, <2>1, <3>1 DEF Seqs
      <3>4. j = i /\ part = k
        BY <1>3, <3>2, <3>3
      <3>. QED
        BY <3>2, <3>4
    <2>3. ASSUME k \in Parts(i), Wanted(i, k) PROVE 2 * i - 2 + k \in Due
      BY <1>3, <2>1, <2>3 DEF Due
    <2>. QED
      BY <2>2, <2>3
  <1>. QED
    BY <1>1, <1>2, <1>3 DEF Due

\* An event's frame k, of n.
Placed(f, i, k, n) == [f EXCEPT !.seq = i, !.part = k, !.last = (k = n)]

LEMMA FrameEdit ==
    ASSUME NEW kind, NEW turn, NEW block, NEW len, NEW seq, NEW part, NEW last, NEW blocks
    PROVE  /\ LET f == [Frame(kind, turn, block, len) EXCEPT !.seq = seq, !.part = part, !.last = last]
              IN  f.kind = kind /\ f.seq = seq /\ f.part = part /\ f.last = last
           /\ LET f == [Frame(kind, turn, block, len) EXCEPT !.seq = seq, !.part = part]
              IN  f.kind = kind /\ f.seq = seq /\ f.part = part
           /\ LET f == [Frame(kind, turn, block, len) EXCEPT !.blocks = blocks]
              IN  f.kind = kind /\ f.seq = 0 /\ f.part = 0
           /\ Frame(kind, turn, block, len).kind = kind /\ Frame(kind, turn, block, len).seq = 0
  <1>. DEFINE f == Frame(kind, turn, block, len)
  <1>1. f \in [kind : {kind}, seq : {0}, part : {0}, last : {FALSE}, turn : {turn}, block : {block}, len : {len}, blocks : {{}}]
    BY DEF Frame
  <1>2. f.kind = kind /\ f.seq = 0
    BY DEF Frame
  <1>. HIDE DEF f
  <1>3. LET g == [f EXCEPT !.seq = seq, !.part = part, !.last = last] IN  g.kind = kind /\ g.seq = seq /\ g.part = part /\ g.last = last
    BY <1>1
  <1>4. LET g == [f EXCEPT !.seq = seq, !.part = part] IN  g.kind = kind /\ g.seq = seq /\ g.part = part
    BY <1>1
  <1>5. LET g == [f EXCEPT !.blocks = blocks] IN g.kind = kind /\ g.seq = 0 /\ g.part = 0
    BY <1>1
  <1>. QED
    BY <1>2, <1>3, <1>4, <1>5 DEF f

\* What the fold gives of event i, when it is given what the event finishes.
LEMMA FrameFacts ==
    ASSUME IsSeq(log), LogOf(log), NEW i \in Seqs, NEW seen, log[i].prev \in seen <=> log[i].prev # 0,
           NEW fs, fs = Frames(i, seen)
    PROVE  /\ IsSeq(fs) /\ Len(fs) \in {1, 2} /\ DOMAIN fs = 1 .. Len(fs) /\ Parts(i) = 1 .. Len(fs)
           /\ \A k \in Parts(i) :
                /\ fs[k].seq = i /\ fs[k].part = k /\ fs[k].last = (k = Len(fs)) /\ Stored(fs[k])
                /\ fs[k].kind \notin {"slow", "gone"}
                /\ Matches(fs[k]) <=> Wanted(i, k)
  <1>. DEFINE e   == log[i]
              own == IF e.kind = "text" THEN Frame("open", e.turn, e.block, e.len) ELSE Frame(e.kind, e.turn, 0, 0)
              cls == Frame("close", e.turn, log[e.prev].block, log[e.prev].len)
              all == IF e.prev \in seen THEN <<cls, own>> ELSE <<own>>
  <1>1. Len(log) \in Nat /\ i \in 1 .. Len(log) /\ i > 0
    BY DEF IsSeq, Seqs
  <1>2. e.kind \in {"begin", "text", "end", "note"} /\ (e.kind \in {"begin", "note"} => e.prev = 0)
    BY <1>1 DEF LogOf
  <1>3. fs = [k \in 1 .. Len(all) |-> Placed(all[k], i, k, Len(all))]
    BY DEF Frames, Placed
  <1>4. \A a, b, c, d : \A k, n : /\ Placed(Frame(a, b, c, d), i, k, n).kind = a
                                  /\ Placed(Frame(a, b, c, d), i, k, n).seq = i
                                  /\ Placed(Frame(a, b, c, d), i, k, n).part = k
                                  /\ Placed(Frame(a, b, c, d), i, k, n).last = (k = n)
    BY FrameEdit DEF Placed
  <1>5. \E a, b, c, d : own = Frame(a, b, c, d) /\ a = IF e.kind = "text" THEN "open" ELSE e.kind
    OBVIOUS
  <1>6. \E b, c, d : cls = Frame("close", b, c, d)
    OBVIOUS
  <1>. HIDE DEF cls, own, e
  <1>7. \A k, n : /\ Placed(own, i, k, n).kind = (IF e.kind = "text" THEN "open" ELSE e.kind)
                  /\ Placed(own, i, k, n).seq = i /\ Placed(own, i, k, n).part = k /\ Placed(own, i, k, n).last = (k = n)
    BY <1>4, <1>5
  <1>8. \A k, n : /\ Placed(cls, i, k, n).kind = "close"
                  /\ Placed(cls, i, k, n).seq = i /\ Placed(cls, i, k, n).part = k /\ Placed(cls, i, k, n).last = (k = n)
    BY <1>4, <1>6
  <1>9. CASE e.prev # 0
    <2>1. all = <<cls, own>> /\ Len(all) = 2 /\ all[1] = cls /\ all[2] = own /\ e.kind \in {"text", "end"}
      BY <1>2, <1>9 DEF e
    <2>. HIDE DEF all
    <2>2. /\ fs = [k \in 1 .. 2 |-> Placed(all[k], i, k, 2)] /\ Parts(i) = 1 .. 2
      BY <1>3, <1>9, <2>1 DEF Parts, e
    <2>3. /\ fs[1] = Placed(cls, i, 1, 2)
          /\ fs[2] = Placed(own, i, 2, 2)
      BY <2>1, <2>2
    <2>4. /\ fs[1].kind = "close" /\ fs[1].seq = i /\ fs[1].part = 1 /\ fs[1].last = (1 = 2)
          /\ fs[2].kind = (IF e.kind = "text" THEN "open" ELSE e.kind) /\ fs[2].seq = i /\ fs[2].part = 2 /\ fs[2].last = (2 = 2)
      BY <1>7, <1>8, <2>1, <2>3
    <2>5. IsSeq(fs) /\ Len(fs) = 2 /\ DOMAIN fs = 1 .. 2
      <3>1. PICK S : S = {fs[1], fs[2]}
        OBVIOUS
      <3>2. fs \in [1 .. 2 -> S]
        BY <2>2, <3>1
      <3>3. fs \in Seq(S)
        BY <3>2, SeqDef
      <3>. QED
        BY <3>2, <3>3 DEF IsSeq
    <2>6. Stored(fs[1]) /\ Stored(fs[2])
      BY <1>1, <2>1, <2>4 DEF Stored
    <2>7. Matches(fs[1]) <=> Wanted(i, 1)
      BY <1>2, <1>9, <2>1, <2>4 DEF Matches, ClassOf, Wanted, WantsBlocks, e
    <2>8. Matches(fs[2]) <=> Wanted(i, 2)
      BY <1>2, <1>9, <2>1, <2>4 DEF Matches, ClassOf, Wanted, WantsBlocks, e
    <2>9. fs[1].kind \notin {"slow", "gone"} /\ fs[2].kind \notin {"slow", "gone"}
      BY <2>1, <2>4
    <2>. QED
      BY <2>2, <2>4, <2>5, <2>6, <2>7, <2>8, <2>9
  <1>10. CASE e.prev = 0
    <2>1. all = <<own>> /\ Len(all) = 1 /\ all[1] = own
      BY <1>2, <1>10 DEF e
    <2>. HIDE DEF all
    <2>2. /\ fs = [k \in 1 .. 1 |-> Placed(all[k], i, k, 1)] /\ Parts(i) = 1 .. 1
      BY <1>3, <1>10, <2>1 DEF Parts, e
    <2>3. fs[1] = Placed(own, i, 1, 1)
      BY <2>1, <2>2
    <2>4. /\ fs[1].kind = (IF e.kind = "text" THEN "open" ELSE e.kind) /\ fs[1].seq = i /\ fs[1].part = 1 /\ fs[1].last = (1 = 1)
      BY <1>7, <2>1, <2>3
    <2>5. IsSeq(fs) /\ Len(fs) = 1 /\ DOMAIN fs = 1 .. 1
      <3>1. PICK S : S = {fs[1]}
        OBVIOUS
      <3>2. fs \in [1 .. 1 -> S]
        BY <2>2, <3>1
      <3>3. fs \in Seq(S)
        BY <3>2, SeqDef
      <3>. QED
        BY <3>2, <3>3 DEF IsSeq
    <2>6. Stored(fs[1])
      BY <1>1, <1>2, <2>4 DEF Stored
    <2>7. Matches(fs[1]) <=> Wanted(i, 1)
      BY <1>2, <1>10, <2>1, <2>4 DEF Matches, ClassOf, Wanted, WantsBlocks, e
    <2>9. fs[1].kind \notin {"slow", "gone"}
      BY <1>2, <2>1, <2>4
    <2>. QED
      BY <2>2, <2>4, <2>5, <2>6, <2>7, <2>9
  <1>. QED
    BY <1>9, <1>10 DEF e

\* The frames a client asks for are those with a number that is due.
LEMMA FrameIsDue ==
    ASSUME IsSeq(log), LogOf(log), NEW i \in Seqs, NEW seen, log[i].prev \in seen <=> log[i].prev # 0,
           NEW fs, fs = Frames(i, seen), NEW k \in Parts(i)
    PROVE  /\ Num(fs[k]) = 2 * i - 2 + k /\ (Matches(fs[k]) <=> Num(fs[k]) \in Due)
           /\ Matches(fs[k]) => IsFrame(Due, fs[k])
  <1>1. /\ Parts(i) = 1 .. Len(fs) /\ Len(fs) \in {1, 2}
        /\ fs[k].seq = i /\ fs[k].part = k /\ fs[k].last = (k = Len(fs)) /\ (Matches(fs[k]) <=> Wanted(i, k))
    BY FrameFacts
  <1>2. i \in Nat /\ i >= 1
    BY DEF IsSeq, Seqs
  <1>3. k \in {1, 2} /\ (k = 2 => Len(fs) = 2) /\ (Len(fs) = 1 => 2 \notin Parts(i))
    <2>1. CASE Len(fs) = 1
      BY <1>1, <2>1
    <2>2. CASE Len(fs) = 2
      BY <1>1, <2>2
    <2>. QED
      BY <1>1, <2>1, <2>2
  <1>4. /\ 2 * i - 2 + k \in Due <=> k \in Parts(i) /\ Wanted(i, k)
        /\ 2 * i - 2 + 2 \in Due <=> 2 \in Parts(i) /\ Wanted(i, 2)
    BY <1>3, DueNumbers
  <1>5. 2 * i - 2 + 2 = 2 * i
    BY <1>2
  <1>6. Num(fs[k]) = 2 * i - 2 + k
    BY <1>1, <1>2 DEF Num
  <1>7. fs[k].last \in BOOLEAN /\ (fs[k].part = 2 => fs[k].last) /\ (fs[k].last => fs[k].part = 2 \/ 2 * i \notin Due)
    BY <1>1, <1>3, <1>4, <1>5
  <1>. QED
    BY <1>1, <1>2, <1>3, <1>4, <1>6, <1>7 DEF IsFrame

\* A commit adds numbers after all the others.
LEMMA DueGrows ==
    ASSUME IsSeq(log), LogOf(log), NEW e, Follows(e), log' = Append(log, e), filter' = filter
    PROVE  Due' \in SUBSET Nat /\ Due \subseteq Due' /\ (\A n \in Due' \ Due : n > 2 * Len(log)) /\ (\A n \in Due' : n <= 2 * Len(log'))
  <1>1. /\ Len(log) \in Nat /\ Len(log') = Len(log) + 1
        /\ \A x \in 1 .. Len(log) : log'[x] = log[x]
    BY CommitKeepsLog, AppendFacts
  <1>2. \A i \in Seqs : i \in Seqs' /\ Parts(i)' = Parts(i) /\ \A k : Wanted(i, k)' <=> Wanted(i, k)
    BY <1>1 DEF Seqs, Parts, Wanted, WantsBlocks
  <1>3. \A n \in Due : n \in Due'
    BY <1>1, <1>2 DEF Due
  <1>4. ASSUME NEW n \in Due', n \notin Due PROVE n > 2 * Len(log)
    <2>1. PICK i \in Seqs' : \E k \in Parts(i)' : Wanted(i, k)' /\ n = 2 * i - 2 + k
      BY <1>4 DEF Due
    <2>2. PICK k \in Parts(i)' : Wanted(i, k)' /\ n = 2 * i - 2 + k
      BY <2>1
    <2>3. k \in {1, 2} /\ i \in Int /\ n \in 1 .. 2 * Len(log')
      BY <1>4, <2>2 DEF Parts, Seqs, Due
    <2>4. CASE i \in Seqs
      <3>1. n \in 1 .. 2 * Len(log)
        BY <1>1, <2>2, <2>3, <2>4 DEF Seqs
      <3>. QED
        BY <1>2, <1>4, <2>2, <2>4, <3>1 DEF Due
    <2>5. CASE i \notin Seqs
      BY <1>1, <2>1, <2>2, <2>3, <2>5 DEF Seqs
    <2>. QED
      BY <2>4, <2>5
  <1>. QED
    BY <1>1, <1>3, <1>4 DEF Due

-----------------------------------------------------------------------------
(***************************************************************************)
(* A subscriber's queue.                                                   *)
(***************************************************************************)

\* A queue that is not reset brings what is due after a, up to b.
Brings(s, a, b) == s.reset \/ Run(Due, s.queue, a, b)

\* What an offer leaves alone.
Keeps(s, t) ==
    /\ IsSub(t) /\ IsSeq(t.queue) /\ t.on = s.on /\ t.sent = s.sent
    /\ Plain(s.queue) => Plain(t.queue)

LEMMA SiftedKeeps ==
    ASSUME NEW q, IsSeq(q), NEW places \in SUBSET DOMAIN q, NEW t, t = Sifted(q, places)
    PROVE  IsSeq(t) /\ (Plain(q) => Plain(t)) /\ \A n : Fresh(q, n) => Fresh(t, n)
  <1>1. IsSeq(t) /\ \E h \in [DOMAIN t -> places] : \A n \in DOMAIN t : t[n] = q[h[n]]
    BY SiftedFacts
  <1>2. PICK g \in [DOMAIN t -> places] : \A n \in DOMAIN t : t[n] = q[g[n]]
    BY <1>1
  <1>3. \A n \in DOMAIN t : g[n] \in DOMAIN q
    OBVIOUS
  <1>. QED
    BY <1>1, <1>2, <1>3 DEF Plain, Fresh

LEMMA OnlyStoredFacts ==
    ASSUME NEW q, IsSeq(q), NEW t, t = OnlyStored(q), IsSeq(log), LogOf(log)
    PROVE  /\ IsSeq(t) /\ (Plain(q) => Plain(t)) /\ (\A n : Fresh(q, n) => Fresh(t, n))
           /\ \A a, b \in Int : Run(Due, q, a, b) => Run(Due, t, a, b)
  <1>. DEFINE places == {i \in DOMAIN q : Stored(q[i])}
  <1>1. places \in SUBSET DOMAIN q /\ t = Sifted(q, places)
    BY DEF OnlyStored
  <1>2. ASSUME NEW a \in Int, NEW b \in Int, Run(Due, q, a, b) PROVE Run(Due, t, a, b)
    <2>1. Clear(Due, a, a)
      BY DueNumbers DEF Clear
    <2>2. \A x \in DOMAIN q : Stored(q[x]) => (x \in places <=> a < Num(q[x]))
      BY <1>2 DEF Run
    <2>3. Due \in SUBSET Nat
      BY DueNumbers
    <2>. HIDE DEF places
    <2>. QED
      BY <1>1, <1>2, <2>1, <2>2, <2>3, RunSifted
  <1>3. IsSeq(t) /\ (Plain(q) => Plain(t)) /\ \A n : Fresh(q, n) => Fresh(t, n)
    <2>. HIDE DEF places
    <2>. QED
      BY <1>1, SiftedKeeps
  <1>. QED
    BY <1>2, <1>3

LEMMA AppendKeeps ==
    ASSUME NEW q, IsSeq(q), NEW f, f.kind \notin {"slow", "gone"}
    PROVE  /\ IsSeq(Append(q, f)) /\ (Plain(q) => Plain(Append(q, f)))
           /\ \A n : Fresh(q, n) /\ (Stored(f) => ~(f.seq <= n)) => Fresh(Append(q, f), n)
  <1>1. /\ IsSeq(Append(q, f)) /\ Len(q) \in Nat /\ DOMAIN q = 1 .. Len(q) /\ DOMAIN Append(q, f) = 1 .. Len(q) + 1
        /\ \A x \in 1 .. Len(q) : Append(q, f)[x] = q[x]
        /\ Append(q, f)[Len(q) + 1] = f
    BY AppendFacts
  <1>2. \A x \in DOMAIN Append(q, f) : (x \in DOMAIN q /\ Append(q, f)[x] = q[x]) \/ Append(q, f)[x] = f
    BY <1>1
  <1>. QED
    BY <1>1, <1>2 DEF Plain, Fresh

\* The ways an offer goes.
LEMMA OfferCases ==
    ASSUME NEW s, IsSub(s), NEW f, NEW t, t = Offer(s, f), NEW kept, kept = OnlyStored(s.queue)
    PROVE  /\ IsSub(t) /\ t.on = s.on /\ t.sent = s.sent
           /\ \/ Ignores(s, f) /\ t = s
              \/ ~Ignores(s, f) /\ t.queue = Append(s.queue, f) /\ t.reset = s.reset
              \/ ~Ignores(s, f) /\ ~Stored(f) /\ t.queue = kept /\ t.reset = s.reset
              \/ ~Ignores(s, f) /\ Stored(f) /\ t.queue = <<>> /\ t.reset
              \/ ~Ignores(s, f) /\ Stored(f) /\ t.queue = Append(kept, f) /\ t.reset = s.reset
  <1>1. CASE Ignores(s, f)
    BY <1>1 DEF Offer
  <1>2. CASE ~Ignores(s, f) /\ ~Full(s)
    <2>1. t = [s EXCEPT !.queue = Append(s.queue, f)]
      BY <1>2 DEF Offer
    <2>2. IsSub(t) /\ t.on = s.on /\ t.sent = s.sent /\ t.queue = Append(s.queue, f) /\ t.reset = s.reset
      BY <2>1 DEF IsSub
    <2>. QED
      BY <1>2, <2>2
  <1>3. CASE ~Ignores(s, f) /\ Full(s)
    <2>1. t = Squeeze(s, f)
      BY <1>3 DEF Offer
    <2>2. CASE ~Stored(f)
      <3>1. t = [s EXCEPT !.queue = kept, !.stale = TRUE]
        BY <2>1, <2>2 DEF Squeeze
      <3>2. IsSub(t) /\ t.on = s.on /\ t.sent = s.sent /\ t.queue = kept /\ t.reset = s.reset
        BY <3>1 DEF IsSub
      <3>. QED
        BY <1>3, <2>2, <3>2
    <2>3. CASE Stored(f) /\ Len(kept) >= QueueLimit
      <3>1. PICK stale : t = [s EXCEPT !.queue = <<>>, !.stale = stale, !.reset = TRUE]
        BY <2>1, <2>3 DEF Squeeze
      <3>2. IsSub(t) /\ t.on = s.on /\ t.sent = s.sent /\ t.queue = <<>> /\ t.reset = TRUE
        BY <3>1 DEF IsSub
      <3>. QED
        BY <1>3, <2>3, <3>2
    <2>4. CASE Stored(f) /\ ~(Len(kept) >= QueueLimit)
      <3>1. PICK stale : t = [s EXCEPT !.queue = Append(kept, f), !.stale = stale]
        BY <2>1, <2>4 DEF Squeeze
      <3>2. IsSub(t) /\ t.on = s.on /\ t.sent = s.sent /\ t.queue = Append(kept, f) /\ t.reset = s.reset
        BY <3>1 DEF IsSub
      <3>. QED
        BY <1>3, <2>4, <3>2
    <2>. QED
      BY <2>2, <2>3, <2>4
  <1>. QED
    BY <1>1, <1>2, <1>3

LEMMA OfferKeeps ==
    ASSUME NEW s, IsSub(s), IsSeq(s.queue), NEW f, f.kind \notin {"slow", "gone"}, NEW t, t = Offer(s, f), IsSeq(log), LogOf(log)
    PROVE  Keeps(s, t) /\ \A n : Fresh(s.queue, n) /\ (Stored(f) => ~(f.seq <= n)) => Fresh(t.queue, n)
  <1>1. PICK kept : kept = OnlyStored(s.queue)
    OBVIOUS
  <1>2. /\ IsSub(t) /\ t.on = s.on /\ t.sent = s.sent
        /\ \/ t = s
           \/ t.queue = Append(s.queue, f)
           \/ t.queue = kept
           \/ t.queue = <<>>
           \/ t.queue = Append(kept, f)
    BY <1>1, OfferCases
  <1>3. IsSeq(kept) /\ (Plain(s.queue) => Plain(kept)) /\ \A n : Fresh(s.queue, n) => Fresh(kept, n)
    BY <1>1, OnlyStoredFacts
  <1>4. IsSeq(<<>>) /\ Plain(<<>>) /\ \A n : Fresh(<<>>, n)
    BY EmptyFacts DEF Plain, Fresh
  <1>5. /\ IsSeq(Append(kept, f)) /\ (Plain(kept) => Plain(Append(kept, f)))
        /\ \A n : Fresh(kept, n) /\ (Stored(f) => ~(f.seq <= n)) => Fresh(Append(kept, f), n)
    BY <1>3, AppendKeeps
  <1>6. /\ IsSeq(Append(s.queue, f)) /\ (Plain(s.queue) => Plain(Append(s.queue, f)))
        /\ \A n : Fresh(s.queue, n) /\ (Stored(f) => ~(f.seq <= n)) => Fresh(Append(s.queue, f), n)
    BY AppendKeeps
  <1>. QED
    BY <1>2, <1>3, <1>4, <1>5, <1>6 DEF Keeps

LEMMA OfferLive ==
    ASSUME NEW s, IsSub(s), IsSeq(s.queue), NEW f, ~Stored(f), NEW t, t = Offer(s, f), IsSeq(log), LogOf(log),
           NEW a \in Int, NEW b \in Int, Brings(s, a, b)
    PROVE  Brings(t, a, b)
  <1>1. PICK kept : kept = OnlyStored(s.queue)
    OBVIOUS
  <1>2. \/ t = s
        \/ t.queue = Append(s.queue, f) /\ t.reset = s.reset
        \/ t.queue = kept /\ t.reset = s.reset
    BY <1>1, OfferCases
  <1>3. Run(Due, s.queue, a, b) => Run(Due, kept, a, b)
    BY <1>1, OnlyStoredFacts
  <1>4. Run(Due, s.queue, a, b) => Run(Due, Append(s.queue, f), a, b)
    BY RunAppendLive
  <1>. QED
    BY <1>2, <1>3, <1>4 DEF Brings

\* A stored frame that comes next, up to c, if the client asked for it.
ComesNext(f, b, c) ==
    /\ Matches(f) => /\ IsFrame(Due, f) /\ b < Num(f) /\ Num(f) <= c
                     /\ \A n \in Due : b < n /\ n <= c => n = Num(f)
    /\ ~Matches(f) => Clear(Due, b, c)

LEMMA OfferStored ==
    ASSUME NEW s, IsSub(s), IsSeq(s.queue), NEW f, Stored(f), NEW t, t = Offer(s, f), IsSeq(log), LogOf(log), ~closed, s.on,
           NEW a \in Int, NEW b \in Int, NEW c \in Int, a <= b, b <= c, Brings(s, a, b),
           ComesNext(f, b, c)
    PROVE  Brings(t, a, c)
  <1>. /\ Matches(f) => /\ IsFrame(Due, f) /\ b < Num(f) /\ Num(f) <= c
                        /\ \A n \in Due : b < n /\ n <= c => n = Num(f)
       /\ ~Matches(f) => Clear(Due, b, c)
    BY DEF ComesNext
  <1>1. PICK kept : kept = OnlyStored(s.queue)
    OBVIOUS
  <1>2. \/ Ignores(s, f) /\ t = s
        \/ ~Ignores(s, f) /\ t.queue = Append(s.queue, f) /\ t.reset = s.reset
        \/ t.reset
        \/ ~Ignores(s, f) /\ t.queue = Append(kept, f) /\ t.reset = s.reset
    BY <1>1, OfferCases
  <1>3. IsSeq(kept) /\ (Run(Due, s.queue, a, b) => Run(Due, kept, a, b))
    BY <1>1, OnlyStoredFacts
  <1>4. Due \in SUBSET Nat
    BY DueNumbers
  <1>5. CASE t.reset
    BY <1>5 DEF Brings
  <1>6. CASE Ignores(s, f) /\ t = s
    <2>1. s.reset \/ ~Matches(f)
      BY <1>6 DEF Ignores
    <2>2. CASE s.reset
      BY <1>6, <2>2 DEF Brings
    <2>3. CASE ~s.reset /\ ~Matches(f)
      <3>1. Run(Due, s.queue, a, b) /\ Clear(Due, b, c)
        BY <2>3 DEF Brings
      <3>2. Run(Due, s.queue, a, c)
        BY <1>4, <3>1, RunReaches
      <3>. QED
        BY <1>6, <3>2 DEF Brings
    <2>. QED
      BY <2>1, <2>2, <2>3
  <1>7. CASE ~Ignores(s, f) /\ t.queue = Append(s.queue, f)
    <2>1. Run(Due, s.queue, a, b) /\ Matches(f)
      BY <1>7 DEF Brings, Ignores
    <2>2. Run(Due, Append(s.queue, f), a, c)
      BY <1>4, <2>1, RunAppend
    <2>. QED
      BY <1>7, <2>2 DEF Brings
  <1>8. CASE ~Ignores(s, f) /\ t.queue = Append(kept, f)
    <2>1. Run(Due, kept, a, b) /\ Matches(f)
      BY <1>3, <1>8 DEF Brings, Ignores
    <2>2. Run(Due, Append(kept, f), a, c)
      BY <1>3, <1>4, <2>1, RunAppend
    <2>. QED
      BY <1>8, <2>2 DEF Brings
  <1>. QED
    BY <1>2, <1>5, <1>6, <1>7, <1>8

\* A live-only frame, or none.
LiveOnly(fs) == fs = <<>> \/ \E f : fs = <<f>> /\ ~Stored(f) /\ f.kind \notin {"slow", "gone"}

LEMMA LiveFrames ==
    ASSUME NEW kind, kind \notin {"slow", "gone"}, NEW turn, NEW block, NEW len, NEW blocks
    PROVE  LiveOnly(<<Frame(kind, turn, block, len)>>) /\ LiveOnly(<<>>)
  <1>1. Frame(kind, turn, block, len).kind = kind /\ Frame(kind, turn, block, len).seq = 0
    BY FrameEdit
  <1>2. ~Stored(Frame(kind, turn, block, len))
    BY <1>1 DEF Stored
  <1>. QED
    BY <1>1, <1>2 DEF LiveOnly

LEMMA PublishLive ==
    ASSUME IsSub(sub), IsSeq(sub.queue), IsSeq(log), LogOf(log), NEW fs, LiveOnly(fs), Publish(fs)
    PROVE  /\ Keeps(sub, sub') /\ \A n : Fresh(sub.queue, n) => Fresh(sub'.queue, n)
           /\ \A a, b \in Int : Brings(sub, a, b) => Brings(sub', a, b)
  <1>1. PICK one : one = IF Len(fs) >= 1 THEN Offer(sub, fs[1]) ELSE sub
    OBVIOUS
  <1>2. PICK two : two = IF Len(fs) >= 2 THEN Offer(one, fs[2]) ELSE one
    OBVIOUS
  <1>3. sub' = IF Len(fs) >= 3 THEN Offer(two, fs[3]) ELSE two
    BY <1>1, <1>2 DEF Publish
  <1>4. CASE fs = <<>>
    <2>1. sub' = sub
      BY <1>1, <1>2, <1>3, <1>4
    <2>. QED
      BY <2>1 DEF Keeps
  <1>5. CASE fs # <<>>
    <2>1. PICK f : fs = <<f>> /\ ~Stored(f) /\ f.kind \notin {"slow", "gone"}
      BY <1>5 DEF LiveOnly
    <2>2. sub' = Offer(sub, f)
      BY <1>1, <1>2, <1>3, <2>1
    <2>3. Keeps(sub, sub') /\ \A n : Fresh(sub.queue, n) /\ (Stored(f) => ~(f.seq <= n)) => Fresh(sub'.queue, n)
      BY <2>1, <2>2, OfferKeeps
    <2>4. \A a, b \in Int : Brings(sub, a, b) => Brings(sub', a, b)
      BY <2>1, <2>2, OfferLive
    <2>. QED
      BY <2>1, <2>3, <2>4
  <1>. QED
    BY <1>4, <1>5

\* What is pending goes out before the event's frames.
LEMMA PublishParts ==
    ASSUME NEW ls, LiveOnly(ls), NEW fs, IsSeq(fs), Len(fs) \in {1, 2}, Publish(ls \o fs)
    PROVE  \E s0, s1 : /\ (ls = <<>> /\ s0 = sub) \/ (\E f : ls = <<f>> /\ s0 = Offer(sub, f))
                       /\ s1 = Offer(s0, fs[1])
                       /\ sub' = IF Len(fs) = 2 THEN Offer(s1, fs[2]) ELSE s1
  <1>. DEFINE gs == ls \o fs
  <1>1. PICK one : one = IF Len(gs) >= 1 THEN Offer(sub, gs[1]) ELSE sub
    OBVIOUS
  <1>2. PICK two : two = IF Len(gs) >= 2 THEN Offer(one, gs[2]) ELSE one
    OBVIOUS
  <1>3. sub' = IF Len(gs) >= 3 THEN Offer(two, gs[3]) ELSE two
    BY <1>1, <1>2 DEF Publish
  <1>4. PICK S : fs \in Seq(S)
    BY DEF IsSeq
  <1>5. CASE ls = <<>>
    <2>1. gs = fs
      BY <1>4, <1>5
    <2>2. one = Offer(sub, fs[1]) /\ sub' = IF Len(fs) = 2 THEN Offer(one, fs[2]) ELSE one
      BY <1>1, <1>2, <1>3, <2>1
    <2>. QED
      BY <1>5, <2>2
  <1>6. CASE ls # <<>>
    <2>1. PICK f : ls = <<f>>
      BY <1>6 DEF LiveOnly
    <2>2. ls \in Seq({f}) /\ Len(ls) = 1 /\ ls[1] = f
      BY <2>1
    <2>3. ls \in Seq(S \cup {f}) /\ fs \in Seq(S \cup {f})
      BY <1>4, <2>2
    <2>4. Len(gs) = 1 + Len(fs) /\ gs[1] = f /\ gs[2] = fs[1] /\ (Len(fs) = 2 => gs[3] = fs[2])
      <3>1. Len(gs) = 1 + Len(fs) /\ \A x \in 1 .. 1 + Len(fs) : gs[x] = IF x <= 1 THEN ls[x] ELSE fs[x - 1]
        <4>1. /\ Len(ls \o fs) = Len(ls) + Len(fs)
              /\ \A x \in 1 .. Len(ls) + Len(fs) : (ls \o fs)[x] = IF x <= Len(ls) THEN ls[x] ELSE fs[x - Len(ls)]
          BY <2>3, ConcatProperties
        <4>. QED
          BY <2>2, <4>1
      <3>. HIDE DEF gs
      <3>2. CASE Len(fs) = 1
        BY <2>2, <3>1, <3>2
      <3>3. CASE Len(fs) = 2
        BY <2>2, <3>1, <3>3
      <3>. QED
        BY <3>2, <3>3
    <2>5. one = Offer(sub, f) /\ two = Offer(one, fs[1]) /\ sub' = IF Len(fs) = 2 THEN Offer(two, fs[2]) ELSE two
      BY <1>1, <1>2, <1>3, <2>4
    <2>. QED
      BY <2>1, <2>5
  <1>. QED
    BY <1>5, <1>6

\* A subscriber takes the frames of the event that is announced.
LEMMA PublishEvent ==
    ASSUME Shapes, LogOf(log), PrunedInv, NEW i \in Seqs, i = processed + 1, ~closed,
           NEW ls, LiveOnly(ls), Publish(ls \o Frames(i, Seqs))
    PROVE  /\ Keeps(sub, sub') /\ (Fresh(sub.queue, aged) => Fresh(sub'.queue, aged))
           /\ sub.on => \A a \in Int : a <= 2 * processed /\ Brings(sub, a, 2 * processed) => Brings(sub', a, 2 * i)
  <1>. DEFINE fs == Frames(i, Seqs)
  <1>1. IsSub(sub) /\ IsSeq(sub.queue) /\ IsSeq(log)
    BY DEF Shapes
  <1>2. Len(log) \in Nat /\ i \in 1 .. Len(log) /\ processed \in Nat /\ aged \in Nat /\ aged < i
    BY <1>1 DEF IsSeq, Seqs, PrunedInv
  <1>3. log[i].prev \in Seqs <=> log[i].prev # 0
    BY <1>2 DEF LogOf, Seqs
  <1>4. /\ IsSeq(fs) /\ Len(fs) \in {1, 2} /\ Parts(i) = 1 .. Len(fs)
        /\ \A k \in Parts(i) : fs[k].seq = i /\ Stored(fs[k]) /\ fs[k].kind \notin {"slow", "gone"}
    BY <1>1, <1>3, FrameFacts
  <1>5. \A k \in Parts(i) : /\ Num(fs[k]) = 2 * i - 2 + k /\ (Matches(fs[k]) <=> Num(fs[k]) \in Due)
                            /\ Matches(fs[k]) => IsFrame(Due, fs[k])
    BY <1>1, <1>3, FrameIsDue
  <1>. HIDE DEF fs
  <1>6. Due \in SUBSET Nat /\ \A k \in {1, 2} : 2 * i - 2 + k \in Due => k \in Parts(i)
    BY <1>1, DueNumbers
  <1>7. PICK s0, s1 : /\ (ls = <<>> /\ s0 = sub) \/ (\E f : ls = <<f>> /\ s0 = Offer(sub, f))
                      /\ s1 = Offer(s0, fs[1])
                      /\ sub' = IF Len(fs) = 2 THEN Offer(s1, fs[2]) ELSE s1
    BY <1>4, PublishParts DEF fs
  <1>8. /\ Keeps(sub, s0) /\ (\A n : Fresh(sub.queue, n) => Fresh(s0.queue, n))
        /\ \A a, b \in Int : Brings(sub, a, b) => Brings(s0, a, b)
    <2>1. CASE s0 = sub
      BY <1>1, <2>1 DEF Keeps
    <2>2. CASE s0 # sub
      <3>1. PICK f : ls = <<f>> /\ s0 = Offer(sub, f)
        BY <1>7, <2>2
      <3>2. ls # <<>> /\ ls[1] = f
        BY <3>1
      <3>3. ~Stored(f) /\ f.kind \notin {"slow", "gone"}
        BY <3>2 DEF LiveOnly
      <3>. QED
        BY <1>1, <3>1, <3>3, OfferKeeps, OfferLive
    <2>. QED
      BY <2>1, <2>2
  <1>9. IsSub(s0) /\ IsSeq(s0.queue) /\ s0.on = sub.on
    BY <1>8 DEF Keeps
  <1>10. 1 \in Parts(i) /\ (Len(fs) = 2 => 2 \in Parts(i)) /\ (Len(fs) = 1 => 2 \notin Parts(i))
    <2>1. CASE Len(fs) = 1
      BY <1>4, <2>1
    <2>2. CASE Len(fs) = 2
      BY <1>4, <2>2
    <2>. QED
      BY <1>4, <2>1, <2>2
  <1>11. Keeps(s0, s1) /\ \A n : Fresh(s0.queue, n) /\ (Stored(fs[1]) => ~(fs[1].seq <= n)) => Fresh(s1.queue, n)
    BY <1>1, <1>4, <1>7, <1>9, <1>10, OfferKeeps
  <1>12. IsSub(s1) /\ IsSeq(s1.queue) /\ s1.on = sub.on
    BY <1>9, <1>11 DEF Keeps
  <1>13. ASSUME NEW a \in Int, a <= 2 * processed, Brings(sub, a, 2 * processed), sub.on, NEW c \in Int, 2 * i - 1 <= c, c <= 2 * i,
                c = 2 * i => 2 \notin Parts(i)
         PROVE  Brings(s1, a, c)
    <2>1. Brings(s0, a, 2 * processed) /\ s0.on
      BY <1>2, <1>8, <1>9, <1>13
    <2>2. \A n \in Due : 2 * processed < n /\ n <= c => n = 2 * i - 1
      <3>. SUFFICES ASSUME NEW n \in Due, 2 * processed < n, n <= c, n # 2 * i - 1 PROVE FALSE
        OBVIOUS
      <3>1. n = 2 * i - 2 + 2 /\ c = 2 * i
        BY <1>2, <1>6, <1>13
      <3>. QED
        BY <1>6, <1>13, <3>1
    <2>3. Num(fs[1]) = 2 * i - 1 /\ (Matches(fs[1]) <=> 2 * i - 1 \in Due) /\ (Matches(fs[1]) => IsFrame(Due, fs[1]))
      BY <1>2, <1>5, <1>10
    <2>4. ComesNext(fs[1], 2 * processed, c)
      BY <1>2, <1>13, <2>2, <2>3 DEF Clear, ComesNext
    <2>5. 2 * processed \in Int /\ 2 * processed <= c
      BY <1>2, <1>13
    <2>6. Stored(fs[1])
      BY <1>4, <1>10
    <2>. QED
      BY <1>1, <1>7, <1>9, <1>13, <2>1, <2>4, <2>5, <2>6, OfferStored
  <1>14. CASE Len(fs) = 1
    <2>1. sub' = s1
      BY <1>7, <1>14
    <2>2. Fresh(sub.queue, aged) => Fresh(s1.queue, aged)
      BY <1>2, <1>4, <1>8, <1>10, <1>11
    <2>3. Keeps(sub, s1)
      BY <1>8, <1>11 DEF Keeps
    <2>4. sub.on => \A a \in Int : a <= 2 * processed /\ Brings(sub, a, 2 * processed) => Brings(s1, a, 2 * i)
      BY <1>2, <1>10, <1>13, <1>14
    <2>. QED
      BY <2>1, <2>2, <2>3, <2>4
  <1>15. CASE Len(fs) = 2
    <2>1. sub' = Offer(s1, fs[2])
      BY <1>7, <1>15
    <2>2. Keeps(s1, sub') /\ \A n : Fresh(s1.queue, n) /\ (Stored(fs[2]) => ~(fs[2].seq <= n)) => Fresh(sub'.queue, n)
      BY <1>1, <1>4, <1>10, <1>12, <1>15, <2>1, OfferKeeps
    <2>3. Keeps(sub, sub')
      BY <1>8, <1>11, <2>2 DEF Keeps
    <2>4. Fresh(sub.queue, aged) => Fresh(sub'.queue, aged)
      BY <1>2, <1>4, <1>8, <1>10, <1>11, <1>15, <2>2
    <2>5. ASSUME NEW a \in Int, a <= 2 * processed, Brings(sub, a, 2 * processed), sub.on
          PROVE  Brings(sub', a, 2 * i)
      <3>1. 2 * i - 1 \in Int /\ 2 * i \in Int /\ a <= 2 * i - 1 /\ 2 * i - 1 <= 2 * i
        BY <1>2, <2>5
      <3>2. Brings(s1, a, 2 * i - 1) /\ s1.on
        BY <1>2, <1>12, <1>13, <2>5, <3>1
      <3>3. Num(fs[2]) = 2 * i /\ (Matches(fs[2]) <=> 2 * i \in Due) /\ (Matches(fs[2]) => IsFrame(Due, fs[2]))
        BY <1>2, <1>5, <1>10, <1>15
      <3>4. \A n \in Due : 2 * i - 1 < n /\ n <= 2 * i => n = 2 * i
        BY <1>2, <1>6
      <3>5. ComesNext(fs[2], 2 * i - 1, 2 * i)
        BY <1>2, <3>3, <3>4 DEF Clear, ComesNext
      <3>6. Stored(fs[2])
        BY <1>4, <1>10, <1>15
      <3>. QED
        BY <1>1, <1>12, <2>1, <3>1, <3>2, <3>5, <3>6, OfferStored
    <2>. QED
      BY <2>3, <2>4, <2>5
  <1>. QED
    BY <1>4, <1>14, <1>15

-----------------------------------------------------------------------------
(***************************************************************************)
(* The invariant, step by step.                                            *)
(***************************************************************************)

LEMMA SameLog ==
    ASSUME log' = log, filter' = filter
    PROVE  Due' = Due /\ Known' = Known
  BY DEF Due, Known, Seqs, Parts, Wanted, WantsBlocks

LEMMA KnownPlaces ==
    ASSUME IsSeq(log), NEW p \in Known
    PROVE  p \in Points /\ p.seq \in Nat /\ p.part \in {0, 1} /\ Ord(p) \in Int /\ Ord(p) <= 2 * Len(log) /\ p # NoPoint
  <1>1. Len(log) \in Nat
    BY DEF IsSeq
  <1>. QED
    BY <1>1 DEF Known, Points, Ord, NoPoint, Point

\* Where the client is, and will be.
LEMMA ClientPlaces ==
    ASSUME FeedInv
    PROVE  /\ Place \in Known /\ Soon \in Known /\ Ord(Place) <= Ord(Soon) /\ (wire = <<>> => Soon = Place)
           /\ Ord(Place) \in Int /\ Ord(Soon) \in Int /\ Ord(Soon) <= 2 * Len(log)
           /\ Due \in SUBSET Nat /\ (\A n \in Due : n <= 2 * Len(log)) /\ Len(log) \in Nat
           /\ wire # <<>> /\ Stored(wire[1]) =>
                 /\ Num(wire[1]) \in Int /\ Num(wire[1]) <= 2 * Len(log) /\ wire[1].seq \in 1 .. Len(log)
                 /\ Soon = After(wire[1]) /\ Soon.seq = wire[1].seq
                 /\ Num(wire[1]) <= Ord(Soon) /\ Clear(Due, Num(wire[1]), Ord(Soon))
  <1>1. IsSeq(log) /\ LogOf(log) /\ Len(log) \in Nat
    BY DEF FeedInv, Shapes, IsSeq
  <1>2. Due \in SUBSET Nat /\ \A n \in Due : n <= 2 * Len(log)
    BY <1>1, DueNumbers
  <1>3. Place \in Known
    BY <1>1 DEF FeedInv, ClientInv, PrunedInv, Place, Known, Whole, Point
  <1>4. CASE wire # <<>> /\ Stored(wire[1])
    <2>1. IsFrame(Due, wire[1]) /\ Ord(Place) < Num(wire[1])
      BY <1>4 DEF FeedInv, WireInv
    <2>2. Num(wire[1]) \in Int /\ Num(wire[1]) <= 2 * Len(log) /\ wire[1].seq \in 1 .. Len(log)
      <3>1. wire[1].seq \in Nat /\ wire[1].seq > 0 /\ wire[1].part \in {1, 2} /\ Num(wire[1]) \in Due
        BY <1>4, <2>1 DEF IsFrame, Stored
      <3>2. Num(wire[1]) = 2 * wire[1].seq - 2 + wire[1].part /\ Num(wire[1]) <= 2 * Len(log)
        BY <1>2, <3>1 DEF Num
      <3>. QED
        BY <1>1, <3>1, <3>2
    <2>3. Soon = After(wire[1])
      BY <1>4 DEF Soon
    <2>4. /\ After(wire[1]) \in Points /\ Num(wire[1]) <= Ord(After(wire[1])) /\ Ord(After(wire[1])) \in Int
          /\ Clear(Due, Num(wire[1]), Ord(After(wire[1]))) /\ After(wire[1]).seq = wire[1].seq
      BY <1>2, <2>1, AfterFrame
    <2>5. Soon \in Known /\ Soon.seq = wire[1].seq
      BY <2>2, <2>3, <2>4 DEF Points, Known
    <2>. QED
      BY <1>1, <1>2, <1>3, <1>4, <2>1, <2>2, <2>3, <2>4, <2>5, KnownPlaces
  <1>5. CASE ~(wire # <<>> /\ Stored(wire[1]))
    <2>1. Soon = Place
      BY <1>5 DEF Soon
    <2>. QED
      BY <1>1, <1>2, <1>3, <1>5, <2>1, KnownPlaces
  <1>. QED
    BY <1>4, <1>5

LEMMA InitFeed ==
    ASSUME Init
    PROVE  FeedInv
  <1>1. IsSeq(<<>>) /\ DOMAIN <<>> = {} /\ Len(<<>>) = 0
    BY EmptyFacts
  <1>2. /\ sub \in [on : {FALSE}, queue : {<<>>}, live : {FALSE}, stale : {FALSE}, reset : {FALSE}, sent : {Whole(0)}]
        /\ conn \in [at : {"off"}, after : {NoPoint}, from : {0}, upto : {Whole(0)}, page : {<<>>}, more : {FALSE}]
        /\ client \in [id : {NoPoint}, base : {0}, view : {{}}]
    BY DEF Init, NoSub, Idle
  <1>3. Shapes
    BY <1>1, <1>2 DEF Init, Shapes, IsSub, IsConn, IsClient
  <1>4. LogOf(log) /\ PrunedInv
    BY <1>1 DEF Init, LogOf, PrunedInv
  <1>5. AgedInv /\ ClientInv /\ WireInv
    BY <1>1, <1>2 DEF Init, AgedInv, ClientInv, WireInv, Fresh, NoPoint, Point
  <1>6. ConnInv /\ QueueInv
    BY <1>1, <1>2 DEF Init, ConnInv, QueueInv, Plain
  <1>. QED
    BY <1>3, <1>4, <1>5, <1>6 DEF FeedInv

\* What the stream and its client hold, the log only having grown.
LEMMA CommitKeeps ==
    ASSUME FeedInv, NEW e, Follows(e), log' = Append(log, e), UNCHANGED <<aged, pruned, bus, filter, stream, client>>
    PROVE  FeedInv'
  <1>1. Shapes /\ IsSeq(log) /\ LogOf(log) /\ PrunedInv /\ AgedInv /\ ClientInv /\ WireInv /\ ConnInv /\ QueueInv
    BY DEF FeedInv, Shapes
  <1>2. /\ aged' = aged /\ pruned' = pruned /\ processed' = processed /\ closed' = closed /\ filter' = filter
        /\ sub' = sub /\ conn' = conn /\ wire' = wire /\ client' = client
    BY DEF bus, stream
  <1>3. IsSeq(log') /\ Len(log') = Len(log) + 1 /\ LogOf(log') /\ PrunedInv' /\ Len(log) \in Nat
    BY <1>1, <1>2, CommitKeepsLog, CommitKeepsPruned, ClientPlaces
  <1>4. Due' \in SUBSET Nat /\ Due \subseteq Due' /\ \A n \in Due' \ Due : n > 2 * Len(log)
    BY <1>1, <1>2, DueGrows
  <1>5. PICK D : D = Due'
    OBVIOUS
  <1>6. /\ \A s : \A a, b \in Int : b <= 2 * Len(log) => (Run(Due, s, a, b) <=> Run(Due', s, a, b))
        /\ \A a, b \in Int : b <= 2 * Len(log) => (Clear(Due, a, b) <=> Clear(Due', a, b))
        /\ \A f : f.seq <= Len(log) => (IsFrame(Due, f) <=> IsFrame(Due', f))
    <2>1. D \in SUBSET Nat /\ Due \subseteq D /\ (\A n \in D \ Due : n > 2 * Len(log)) /\ Due \in SUBSET Nat
      BY <1>4, <1>5, ClientPlaces
    <2>2. /\ \A s : \A a, b \in Int : b <= 2 * Len(log) => (Run(Due, s, a, b) <=> Run(D, s, a, b))
          /\ \A a, b \in Int : b <= 2 * Len(log) => (Clear(Due, a, b) <=> Clear(D, a, b))
          /\ \A f : f.seq <= Len(log) => (IsFrame(Due, f) <=> IsFrame(D, f))
      BY <1>3, <2>1, RunGrows
    <2>. QED
      BY <1>5, <2>2
  <1>7. Place' = Place /\ Soon' = Soon
    BY <1>2 DEF Place, Soon
  <1>8. \A p : p \in Known => p \in Known' /\ Ord(p) \in Int /\ Ord(p) <= 2 * Len(log)
    <2>1. \A p : p \in Known => p \in Known'
      BY <1>3 DEF Known
    <2>. QED
      BY <1>1, <2>1, KnownPlaces
  <1>9. /\ Place \in Known /\ Soon \in Known /\ Ord(Place) \in Int /\ Ord(Soon) \in Int
        /\ wire # <<>> /\ Stored(wire[1]) =>
              Num(wire[1]) \in Int /\ Num(wire[1]) <= 2 * Len(log) /\ wire[1].seq \in 1 .. Len(log)
    BY ClientPlaces
  <1>10. Shapes' /\ AgedInv' /\ ClientInv'
    BY <1>1, <1>2, <1>3, <1>8 DEF Shapes, AgedInv, ClientInv
  <1>11. WireInv'
    <2>1. wire # <<>> /\ Stored(wire[1]) => IsFrame(Due', wire[1]) /\ Clear(Due', Ord(Place), Num(wire[1]) - 1)
      BY <1>1, <1>3, <1>6, <1>9 DEF WireInv
    <2>2. wire # <<>> /\ wire[1].kind \in {"slow", "gone"} =>
             Ord(wire[1]) = Ord(Point(wire[1].seq, wire[1].part)) /\ Ord(wire[1]) \in Int /\ Ord(wire[1]) <= 2 * Len(log)
      <3>1. Ord(wire[1]) = Ord(Point(wire[1].seq, wire[1].part))
        BY DEF Ord, Point
      <3>. QED
        BY <1>1, <1>8, <3>1 DEF WireInv
    <2>. QED
      BY <1>1, <1>2, <1>6, <1>7, <1>8, <1>9, <2>1, <2>2 DEF WireInv
  <1>12. ASSUME NEW p, Reaches(p) PROVE p \in Known' /\ Ord(Soon') <= Ord(p) /\ Clear(Due', Ord(Soon'), Ord(p)) /\ (p.part # 0 => p = Soon')
    BY <1>6, <1>7, <1>8, <1>9, <1>12 DEF Reaches
  <1>13. ASSUME PageInv PROVE PageInv'
    <2>1. Run(Due', conn.page, Ord(Soon), Ord(conn.upto))
      BY <1>6, <1>8, <1>9, <1>13 DEF PageInv
    <2>. QED
      BY <1>2, <1>3, <1>7, <1>8, <1>13, <2>1 DEF PageInv
  <1>14. ConnInv'
    <2>1. conn.at = "age" => conn.from \in client.id.seq .. Len(log')
      BY <1>1, <1>3 DEF ConnInv, ClientInv, Known, NoPoint, Point
    <2>. QED
      BY <1>1, <1>2, <1>12, <1>13, <2>1 DEF ConnInv, Reaches
  <1>15. QueueInv'
    <2>1. CASE conn.at \in {"off", "over"}
      BY <1>1, <1>2, <2>1 DEF QueueInv
    <2>2. CASE conn.at \notin {"off", "over"}
      <3>1. PICK a \in Int :
            /\ a <= 2 * processed
            /\ sub.reset \/ Run(Due, sub.queue, a, 2 * processed)
            /\ Read => Clear(Due, Ord(conn.upto), a)
            /\ conn.at \in {"live", "snap"} => a = Ord(sub.sent)
        BY <1>1, <2>2 DEF QueueInv
      <3>2. 2 * processed \in Int /\ 2 * processed <= 2 * Len(log) /\ a <= 2 * Len(log)
        BY <1>1, <1>3, <3>1 DEF PrunedInv
      <3>3. Read => Ord(conn.upto) \in Int
        BY <1>1, <1>8 DEF Read, ConnInv, PageInv, Reaches
      <3>4. Read' <=> Read
        BY <1>2 DEF Read
      <3>5. sub.reset \/ Run(Due', sub.queue, a, 2 * processed)
        BY <1>6, <3>1, <3>2
      <3>6. Read => Clear(Due', Ord(conn.upto), a)
        BY <1>6, <3>1, <3>2, <3>3
      <3>. QED
        BY <1>1, <1>2, <2>2, <3>1, <3>4, <3>5, <3>6 DEF QueueInv
    <2>. QED
      BY <2>1, <2>2
  <1>. QED
    BY <1>3, <1>10, <1>11, <1>14, <1>15 DEF FeedInv

\* The bus hands on what it has, to a subscriber that takes it.
LEMMA BusKeeps ==
    ASSUME FeedInv, UNCHANGED <<log, aged, pruned, closed, filter, conn, wire, client>>,
           processed' \in processed .. Len(log), Keeps(sub, sub'), Fresh(sub.queue, aged) => Fresh(sub'.queue, aged),
           sub.on => \A a \in Int : a <= 2 * processed /\ Brings(sub, a, 2 * processed) => Brings(sub', a, 2 * processed')
    PROVE  FeedInv'
  <1>1. Shapes /\ LogOf(log) /\ PrunedInv /\ AgedInv /\ ClientInv /\ WireInv /\ ConnInv /\ QueueInv
    BY DEF FeedInv
  <1>2. Due' = Due /\ Known' = Known
    BY SameLog
  <1>3. Place' = Place /\ Soon' = Soon
    BY DEF Place, Soon
  <1>4. IsSub(sub') /\ IsSeq(sub'.queue) /\ sub'.on = sub.on /\ sub'.sent = sub.sent /\ (Plain(sub.queue) => Plain(sub'.queue))
    BY DEF Keeps
  <1>5. Len(log) \in Nat /\ processed \in Nat /\ processed' \in Nat /\ processed <= processed' /\ processed' <= Len(log)
    BY <1>1, ClientPlaces DEF PrunedInv
  <1>6. Shapes' /\ AgedInv' /\ ClientInv' /\ PrunedInv'
    BY <1>1, <1>2, <1>4, <1>5 DEF Shapes, AgedInv, ClientInv, PrunedInv
  <1>7. WireInv'
    BY <1>1, <1>2, <1>3 DEF WireInv
  <1>8. PageInv => PageInv'
    BY <1>2, <1>3 DEF PageInv
  <1>9. \A p : Reaches(p) => p \in Known' /\ Ord(Soon') <= Ord(p) /\ Clear(Due', Ord(Soon'), Ord(p)) /\ (p.part # 0 => p = Soon')
    BY <1>2, <1>3 DEF Reaches
  <1>10. ConnInv'
    <2>1. conn.at = "held" => processed' >= conn.upto.seq \/ closed
      BY <1>1, <1>5 DEF ConnInv, Reaches, Known
    <2>. QED
      BY <1>1, <1>4, <1>8, <1>9, <2>1 DEF ConnInv, Reaches
  <1>11. QueueInv'
    <2>1. CASE conn.at \in {"off", "over"}
      BY <1>1, <1>4, <2>1 DEF QueueInv
    <2>2. CASE conn.at \notin {"off", "over"}
      <3>1. PICK a \in Int :
            /\ a <= 2 * processed
            /\ sub.reset \/ Run(Due, sub.queue, a, 2 * processed)
            /\ Read => Clear(Due, Ord(conn.upto), a)
            /\ conn.at \in {"live", "snap"} => a = Ord(sub.sent)
        BY <1>1, <2>2 DEF QueueInv
      <3>2. a <= 2 * processed'
        BY <1>5, <3>1
      <3>3. Brings(sub', a, 2 * processed')
        BY <1>1, <2>2, <3>1 DEF Brings, ConnInv
      <3>4. Read' <=> Read
        BY DEF Read
      <3>5. sub'.reset \/ Run(Due', sub'.queue, a, 2 * processed')
        BY <1>2, <3>3 DEF Brings
      <3>. QED
        BY <1>1, <1>2, <1>4, <2>2, <3>1, <3>2, <3>4, <3>5 DEF QueueInv
    <2>. QED
      BY <2>1, <2>2
  <1>. QED
    BY <1>1, <1>6, <1>7, <1>10, <1>11 DEF FeedInv

LEMMA DeltaKeeps ==
    ASSUME FeedInv, Delta \/ Flush
    PROVE  FeedInv'
  <1>1. UNCHANGED <<log, aged, pruned, processed, closed, filter, conn, wire, client>>
    BY DEF Delta, Flush, store
  <1>2. \E fs : LiveOnly(fs) /\ Publish(fs)
    <2>1. CASE Delta
      <3>1. LiveOnly(IF live.shown THEN <<>> ELSE <<Frame("open", Running, NextBlock, 0)>>)
        BY LiveFrames
      <3>. QED
        BY <2>1, <3>1 DEF Delta
    <2>2. CASE Flush
      <3>1. LiveOnly(Pending)
        BY LiveFrames DEF Pending
      <3>. QED
        BY <2>2, <3>1 DEF Flush
    <2>. QED
      BY <2>1, <2>2
  <1>3. IsSub(sub) /\ IsSeq(sub.queue) /\ IsSeq(log) /\ LogOf(log) /\ processed \in Nat /\ Len(log) \in Nat /\ processed <= Len(log)
    BY ClientPlaces DEF FeedInv, Shapes, PrunedInv
  <1>4. /\ Keeps(sub, sub') /\ \A n : Fresh(sub.queue, n) => Fresh(sub'.queue, n)
        /\ \A a, b \in Int : Brings(sub, a, b) => Brings(sub', a, b)
    BY <1>2, <1>3, PublishLive
  <1>5. 2 * processed \in Int /\ processed' \in processed .. Len(log)
    BY <1>1, <1>3
  <1>. QED
    BY <1>1, <1>4, <1>5, BusKeeps

LEMMA AnnounceKeeps ==
    ASSUME FeedInv, Announce
    PROVE  FeedInv'
  <1>1. UNCHANGED <<log, aged, pruned, closed, filter, conn, wire, client>> /\ ~closed
    BY DEF Announce, store
  <1>2. Len(log) \in Nat /\ processed \in Nat /\ processed < Len(log) /\ Shapes /\ LogOf(log) /\ PrunedInv
    BY ClientPlaces DEF Announce, FeedInv, PrunedInv
  <1>3. PICK i : i = processed + 1
    OBVIOUS
  <1>4. i \in Seqs /\ processed' = i /\ processed' \in processed .. Len(log)
    BY <1>2, <1>3 DEF Announce, Seqs
  <1>5. \E ls : LiveOnly(ls) /\ Publish(ls \o Frames(i, Seqs))
    <2>1. LiveOnly(Pending) /\ LiveOnly(<<>>)
      BY LiveFrames DEF Pending
    <2>2. Publish((IF log[i].kind # "note" /\ Running # 0 THEN Pending ELSE <<>>) \o Frames(i, Seqs))
      BY <1>3 DEF Announce
    <2>. QED
      BY <2>1, <2>2
  <1>6. /\ Keeps(sub, sub') /\ (Fresh(sub.queue, aged) => Fresh(sub'.queue, aged))
        /\ sub.on => \A a \in Int : a <= 2 * processed /\ Brings(sub, a, 2 * processed) => Brings(sub', a, 2 * i)
    BY <1>1, <1>2, <1>3, <1>4, <1>5, PublishEvent
  <1>. QED
    BY <1>1, <1>4, <1>6, BusKeeps

Within(s, t) == \A x \in DOMAIN s : \E y \in DOMAIN t : t[y] = s[x]

LEMMA ConcatParts ==
    ASSUME NEW s, IsSeq(s), NEW t, IsSeq(t), NEW r, r = s \o t
    PROVE  IsSeq(r) /\ Within(s, r) /\ Within(t, r)
  <1>1. PICK S : s \in Seq(S)
    BY DEF IsSeq
  <1>2. PICK T : t \in Seq(T)
    BY DEF IsSeq
  <1>3. s \in Seq(S \cup T) /\ t \in Seq(S \cup T)
    BY <1>1, <1>2
  <1>4. /\ s \o t \in Seq(S \cup T) /\ Len(s \o t) = Len(s) + Len(t)
        /\ \A i \in 1 .. Len(s) + Len(t) : (s \o t)[i] = IF i <= Len(s) THEN s[i] ELSE t[i - Len(s)]
    BY <1>3, ConcatProperties
  <1>6. /\ Len(s) \in Nat /\ Len(t) \in Nat /\ DOMAIN s = 1 .. Len(s) /\ DOMAIN t = 1 .. Len(t)
        /\ DOMAIN r = 1 .. Len(s) + Len(t) /\ IsSeq(r)
        /\ \A i \in 1 .. Len(s) + Len(t) : r[i] = IF i <= Len(s) THEN s[i] ELSE t[i - Len(s)]
    BY <1>3, <1>4 DEF IsSeq
  <1>7. \A x \in DOMAIN s : x \in DOMAIN r /\ r[x] = s[x]
    BY <1>6
  <1>8. \A x \in DOMAIN t : x + Len(s) \in DOMAIN r /\ r[x + Len(s)] = t[x]
    BY <1>6
  <1>. QED
    BY <1>6, <1>7, <1>8 DEF Within

LEMMA NotInFlight ==
    ASSUME Shapes, NEW to, ~InFlight(to)
    PROVE  Fresh(wire, to) /\ Fresh(sub.queue, to) /\ Fresh(conn.page, to)
  <1>1. PICK h : h = wire \o sub.queue
    OBVIOUS
  <1>2. PICK r : r = h \o conn.page
    OBVIOUS
  <1>3. IsSeq(wire) /\ IsSeq(sub.queue) /\ IsSeq(conn.page)
    BY DEF Shapes
  <1>4. IsSeq(h) /\ Within(wire, h) /\ Within(sub.queue, h)
    BY <1>1, <1>3, ConcatParts
  <1>5. Within(h, r) /\ Within(conn.page, r)
    BY <1>2, <1>3, <1>4, ConcatParts
  <1>6. \A y \in DOMAIN r : ~(Stored(r[y]) /\ r[y].seq <= to)
    BY <1>1, <1>2 DEF InFlight
  <1>7. \A y \in DOMAIN h : ~(Stored(h[y]) /\ h[y].seq <= to)
    BY <1>5, <1>6 DEF Within
  <1>8. Fresh(wire, to)
    BY <1>4, <1>7 DEF Fresh, Within
  <1>9. Fresh(sub.queue, to)
    BY <1>4, <1>7 DEF Fresh, Within
  <1>10. Fresh(conn.page, to)
    BY <1>5, <1>6 DEF Fresh, Within
  <1>. QED
    BY <1>8, <1>9, <1>10

LEMMA PruneKeeps ==
    ASSUME PruneDuring = {}, FeedInv, NEW to, Prune(to)
    PROVE  FeedInv'
  <1>1. Shapes /\ LogOf(log) /\ PrunedInv /\ AgedInv /\ ClientInv /\ WireInv /\ ConnInv /\ QueueInv
    BY DEF FeedInv
  <1>2. UNCHANGED <<log, processed, closed, filter, sub, conn, wire, client>>
    BY DEF Prune, bus, stream
  <1>3. /\ to \in aged + 1 .. processed /\ ~InFlight(to) /\ ~Replaying /\ TurnAt(to) \in {0, TurnNow}
        /\ ~(client.id.part # 0 /\ client.id.seq <= to) /\ aged' = to
        /\ pruned' = pruned \cup {i \in 1 .. to : /\ log[i].kind = "text"
                                                  /\ log[i].turn # TurnNow /\ i # Len(log)}
    BY DEF Prune
  <1>4. PrunedInv'
    BY <1>1, <1>2, <1>3, PruneKeepsLog DEF Shapes
  <1>5. Due' = Due /\ Known' = Known
    BY <1>2, SameLog
  <1>6. Place' = Place /\ Soon' = Soon
    BY <1>2 DEF Place, Soon
  <1>7. AgedInv'
    <2>1. Fresh(wire, to) /\ Fresh(sub.queue, to) /\ Fresh(conn.page, to)
      BY <1>1, <1>3, NotInFlight
    <2>2. conn.at \notin {"pages", "page"}
      BY <1>3 DEF Replaying
    <2>3. client.id.part # 0 => client.id.seq > to
      <3>1. client.id.seq \in Int /\ to \in Int
        BY <1>1, <1>3, ClientPlaces DEF ClientInv, Known, NoPoint, Point, PrunedInv
      <3>. QED
        BY <1>3, <3>1
    <2>. QED
      BY <1>2, <1>3, <2>1, <2>2, <2>3 DEF AgedInv
  <1>8. Shapes' /\ ClientInv' /\ WireInv'
    BY <1>1, <1>2, <1>5, <1>6 DEF Shapes, ClientInv, WireInv
  <1>9. PageInv => PageInv'
    BY <1>2, <1>5, <1>6 DEF PageInv
  <1>10. ConnInv'
    BY <1>1, <1>2, <1>5, <1>6, <1>9 DEF ConnInv, Reaches
  <1>11. QueueInv'
    <2>1. Read' <=> Read
      BY <1>2 DEF Read
    <2>. QED
      BY <1>1, <1>2, <1>5, <2>1 DEF QueueInv
  <1>. QED
    BY <1>1, <1>2, <1>4, <1>7, <1>8, <1>10, <1>11 DEF FeedInv

LEMMA CommitActions ==
    ASSUME FeedInv, TurnBegins \/ TextRecorded \/ TurnEnds \/ Noted
    PROVE  /\ \E e : Follows(e) /\ log' = Append(log, e)
           /\ UNCHANGED <<aged, pruned, bus, filter, stream, client>>
  <1>1. Len(log) \in Nat
    BY ClientPlaces
  <1>2. CASE TurnBegins
    <2>1. Follows(Event("begin", Len(log) + 1, 0, 0))
      BY DEF Follows, Event
    <2>. QED
      BY <1>2, <2>1 DEF TurnBegins, Commit
  <1>3. CASE TextRecorded
    <2>1. \A len : Follows(Event("text", TurnNow, NextBlock, len))
      BY <1>3 DEF Follows, Event, TextRecorded
    <2>. QED
      BY <1>3, <2>1 DEF TextRecorded, Commit
  <1>4. CASE TurnEnds
    <2>1. Follows(Event("end", TurnNow, 0, 0))
      BY <1>4 DEF Follows, Event, TurnEnds
    <2>. QED
      BY <1>4, <2>1 DEF TurnEnds, Commit
  <1>5. CASE Noted
    <2>1. Follows(Event("note", 0, 0, 0))
      BY DEF Follows, Event
    <2>. QED
      BY <1>5, <2>1 DEF Noted, Commit
  <1>. QED
    BY <1>2, <1>3, <1>4, <1>5

LEMMA EmptySeqs == IsSeq(<<>>) /\ Plain(<<>>) /\ \A n : Fresh(<<>>, n)
  BY EmptyFacts DEF Plain, Fresh

LEMMA IdleFacts ==
    /\ IsConn(Idle) /\ Idle.at = "off" /\ Idle.page = <<>>
    /\ IsSub(NoSub) /\ NoSub.queue = <<>>
  BY DEF IsConn, Idle, IsSub, NoSub

LEMMA SubStarts == LET s == [NoSub EXCEPT !.on = TRUE] IN IsSub(s) /\ s.on /\ s.queue = <<>>
  BY IdleFacts DEF IsSub

\* The stream is over: what is left is the client's place in the log.
LEMMA GoneKeeps ==
    ASSUME FeedInv, Gone, UNCHANGED <<aged, pruned, filter, client>>, processed' \in {processed, Len(log')},
           log' = log \/ \E e : Follows(e) /\ log' = Append(log, e)
    PROVE  FeedInv'
  <1>1. Shapes /\ IsSeq(log) /\ LogOf(log) /\ PrunedInv /\ AgedInv /\ ClientInv /\ Len(log) \in Nat
    BY ClientPlaces DEF FeedInv, Shapes
  <1>2. conn' = Idle /\ sub' = NoSub /\ wire' = <<>>
    BY DEF Gone
  <1>3. IsSeq(log') /\ LogOf(log') /\ PrunedInv' /\ Len(log') \in Nat /\ Len(log) <= Len(log')
    <2>1. CASE log' = log
      BY <1>1, <2>1 DEF PrunedInv
    <2>2. CASE log' # log
      <3>1. PICK e : Follows(e) /\ log' = Append(log, e)
        BY <2>2
      <3>. QED
        BY <1>1, <3>1, CommitKeepsLog, CommitKeepsPruned
    <2>. QED
      BY <2>1, <2>2
  <1>4. Shapes'
    BY <1>1, <1>2, <1>3, EmptySeqs, IdleFacts DEF Shapes
  <1>5. AgedInv'
    BY <1>1, <1>2, EmptySeqs, IdleFacts DEF AgedInv
  <1>6. ClientInv'
    <2>1. client.id \in Known' \cup {NoPoint}
      BY <1>1, <1>3 DEF ClientInv, Known
    <2>2. client.base \in 0 .. processed'
      BY <1>1, <1>3 DEF ClientInv, PrunedInv
    <2>. QED
      BY <1>2, <2>1, <2>2, IdleFacts DEF ClientInv
  <1>7. WireInv'
    BY <1>2, EmptyFacts DEF WireInv
  <1>8. ConnInv' /\ QueueInv'
    BY <1>2, EmptySeqs, IdleFacts DEF ConnInv, QueueInv
  <1>. QED
    BY <1>3, <1>4, <1>5, <1>6, <1>7, <1>8 DEF FeedInv

LEMMA GoneActions ==
    ASSUME FeedInv, Drop \/ Restart \/ HangUp
    PROVE  /\ Gone /\ UNCHANGED <<aged, pruned, filter, client>> /\ processed' \in {processed, Len(log')}
           /\ log' = log \/ \E e : Follows(e) /\ log' = Append(log, e)
  <1>1. CASE Drop
    BY <1>1 DEF Drop, Gone, store, bus
  <1>2. CASE HangUp
    BY <1>2 DEF HangUp, Gone, store, bus
  <1>3. CASE Restart
    <2>1. TurnNow # 0 => Follows(Event("end", TurnNow, 0, 0))
      BY DEF Follows, Event
    <2>. QED
      BY <1>3, <2>1 DEF Restart
  <1>. QED
    BY <1>1, <1>2, <1>3

LEMMA StopKeeps ==
    ASSUME FeedInv, Stop
    PROVE  FeedInv'
  <1>1. UNCHANGED <<log, aged, pruned, processed, filter, sub, conn, wire, client>> /\ closed'
    BY DEF Stop, store, stream
  <1>2. Due' = Due /\ Known' = Known /\ Place' = Place /\ Soon' = Soon
    BY <1>1, SameLog DEF Place, Soon
  <1>3. (PageInv <=> PageInv') /\ (Read' <=> Read)
    BY <1>1, <1>2 DEF PageInv, Read
  <1>. QED
    BY <1>1, <1>2, <1>3 DEF FeedInv, Shapes, PrunedInv, AgedInv, ClientInv, WireInv, ConnInv, QueueInv, Reaches

LEMMA ConnectKeeps ==
    ASSUME FeedInv, Connect
    PROVE  FeedInv'
  <1>1. /\ Shapes /\ IsSeq(log) /\ LogOf(log) /\ PrunedInv /\ AgedInv /\ ClientInv /\ WireInv /\ ConnInv
        /\ Len(log) \in Nat
    BY ClientPlaces DEF FeedInv, Shapes
  <1>2. UNCHANGED <<log, aged, pruned, processed, closed, filter, wire>> /\ conn.at = "off" /\ wire = <<>>
    <2>1. UNCHANGED <<store, bus, filter, wire>> /\ conn.at = "off"
      BY DEF Connect
    <2>. QED
      BY <1>1, <2>1 DEF store, bus, WireInv
  <1>3. processed \in Nat /\ processed \in 0 .. Len(log) /\ Due \in SUBSET Nat
    BY <1>1, ClientPlaces DEF PrunedInv
  <1>4. /\ IsConn(conn') /\ conn'.at = (IF client.id = NoPoint THEN "held" ELSE "check")
        /\ conn'.after = client.id /\ conn'.upto = Whole(processed) /\ conn'.page = <<>>
        /\ IsSub(sub') /\ sub'.on /\ sub'.queue = <<>>
    <2>1. PICK at : at = IF client.id = NoPoint THEN "held" ELSE "check"
      OBVIOUS
    <2>2. conn' = [Idle EXCEPT !.at = at, !.after = client.id, !.upto = Whole(processed)]
      BY <2>1 DEF Connect
    <2>3. IsConn(conn') /\ conn'.at = at /\ conn'.after = client.id /\ conn'.upto = Whole(processed) /\ conn'.page = <<>>
      BY <2>2, IdleFacts DEF IsConn
    <2>4. sub' = [NoSub EXCEPT !.on = TRUE]
      BY DEF Connect
    <2>5. IsSub(sub') /\ sub'.on /\ sub'.queue = <<>>
      BY <2>4, SubStarts
    <2>. QED
      BY <2>1, <2>3, <2>5
  <1>5. /\ IsClient(client') /\ client'.id = client.id
        /\ client'.base = IF client.id = NoPoint THEN processed ELSE client.base
    <2>1. CASE client.id = NoPoint
      <3>1. client' = [client EXCEPT !.base = processed, !.view = {}]
        BY <2>1 DEF Connect
      <3>. QED
        BY <1>1, <2>1, <3>1 DEF Shapes, IsClient
    <2>2. CASE client.id # NoPoint
      BY <1>1, <2>2 DEF Connect, Shapes
    <2>. QED
      BY <2>1, <2>2
  <1>6. Due' = Due /\ Known' = Known
    BY <1>2, SameLog
  <1>7. Shapes' /\ PrunedInv' /\ ClientInv'
    BY <1>1, <1>2, <1>3, <1>4, <1>5, <1>6, EmptySeqs DEF Shapes, PrunedInv, ClientInv
  <1>8. AgedInv'
    BY <1>1, <1>2, <1>4, <1>5, EmptySeqs DEF AgedInv
  <1>9. WireInv'
    BY <1>2, EmptyFacts DEF WireInv
  <1>10. client.id = NoPoint => Soon' = Whole(processed) /\ Reaches(conn.upto)'
    <2>1. Soon' = Place'
      BY <1>2 DEF Soon
    <2>2. client.id = NoPoint => Place' = Whole(processed)
      BY <1>5 DEF Place
    <2>3. Whole(processed) \in Known /\ Whole(processed).part = 0 /\ Ord(Whole(processed)) = 2 * processed
      BY <1>3 DEF Known, Whole, Point, Ord
    <2>4. Clear(Due, 2 * processed, 2 * processed)
      BY <1>3 DEF Clear
    <2>. QED
      BY <1>3, <1>4, <1>6, <2>1, <2>2, <2>3, <2>4 DEF Reaches
  <1>11. ConnInv'
    <2>1. processed >= Whole(processed).seq
      BY <1>3 DEF Whole, Point
    <2>. QED
      BY <1>2, <1>4, <1>5, <1>10, <2>1 DEF ConnInv
  <1>12. QueueInv'
    <2>1. Run(Due, <<>>, 2 * processed, 2 * processed) /\ Clear(Due, 2 * processed, 2 * processed)
      <3>1. Clear(Due, 2 * processed, 2 * processed)
        BY <1>3 DEF Clear
      <3>. QED
        BY <3>1, RunEmpty
    <2>2. Ord(Whole(processed)) = 2 * processed /\ 2 * processed \in Int
      BY <1>3 DEF Whole, Point, Ord
    <2>3. conn'.at \notin {"live", "snap"}
      BY <1>4
    <2>4. /\ 2 * processed <= 2 * processed
          /\ Run(Due', sub'.queue, 2 * processed, 2 * processed')
          /\ Clear(Due', Ord(conn'.upto), 2 * processed)
      BY <1>2, <1>3, <1>4, <1>6, <2>1, <2>2
    <2>. QED
      BY <1>2, <1>4, <2>2, <2>3, <2>4, EmptySeqs DEF QueueInv
  <1>. QED
    BY <1>1, <1>2, <1>7, <1>8, <1>9, <1>11, <1>12 DEF FeedInv

\* What a frame does to the client's place.
LEMMA Received ==
    ASSUME FeedInv, Receive
    PROVE  /\ wire # <<>> /\ wire' = <<>> /\ UNCHANGED <<log, aged, pruned, processed, closed, filter, sub, conn>>
           /\ IsClient(client') /\ client'.base = client.base
           /\ \/ wire[1].kind \in {"slow", "gone"} /\ client'.id = Point(wire[1].seq, wire[1].part)
              \/ wire[1].kind \notin {"slow", "gone"} /\ Stored(wire[1]) /\ client'.id = After(wire[1])
              \/ wire[1].kind \notin {"slow", "gone"} /\ ~Stored(wire[1]) /\ client'.id = client.id
  <1>1. wire # <<>> /\ wire' = <<>> /\ UNCHANGED <<log, aged, pruned, processed, closed, filter, sub, conn>>
    BY DEF Receive, store, bus
  <1>2. PICK f : f = wire[1]
    OBVIOUS
  <1>3. Head(wire) = f
    BY <1>1, <1>2, TailFacts DEF FeedInv, Shapes
  <1>4. client' = CASE f.kind = "slow" -> [client EXCEPT !.id = Point(f.seq, f.part)]
                    [] f.kind = "gone" -> [client EXCEPT !.id = Point(f.seq, f.part), !.view = {}]
                    [] OTHER -> [client EXCEPT !.id = IF Stored(f) THEN After(f) ELSE client.id,
                                               !.view = Apply(client.view, f)]
    BY <1>3 DEF Receive
  <1>5. IsClient(client)
    BY DEF FeedInv, Shapes
  <1>6. CASE f.kind = "slow"
    <2>1. client' = [client EXCEPT !.id = Point(f.seq, f.part)]
      BY <1>4, <1>6
    <2>2. IsClient(client') /\ client'.base = client.base /\ client'.id = Point(f.seq, f.part)
      BY <1>5, <2>1 DEF IsClient
    <2>. QED
      BY <1>1, <1>2, <1>6, <2>2
  <1>7. CASE f.kind = "gone"
    <2>1. client' = [client EXCEPT !.id = Point(f.seq, f.part), !.view = {}]
      BY <1>4, <1>7
    <2>2. IsClient(client') /\ client'.base = client.base /\ client'.id = Point(f.seq, f.part)
      BY <1>5, <2>1 DEF IsClient
    <2>. QED
      BY <1>1, <1>2, <1>7, <2>2
  <1>8. CASE f.kind \notin {"slow", "gone"}
    <2>1. PICK v, j : client' = [client EXCEPT !.id = j, !.view = v] /\ j = IF Stored(f) THEN After(f) ELSE client.id
      BY <1>4, <1>8
    <2>2. IsClient(client') /\ client'.base = client.base /\ client'.id = j
      BY <1>5, <2>1 DEF IsClient
    <2>. QED
      BY <1>1, <1>2, <1>8, <2>1, <2>2
  <1>. QED
    BY <1>6, <1>7, <1>8

LEMMA ReceiveKeeps ==
    ASSUME FeedInv, Receive
    PROVE  FeedInv'
  <1>1. Shapes /\ IsSeq(log) /\ LogOf(log) /\ PrunedInv /\ AgedInv /\ ClientInv /\ WireInv /\ ConnInv /\ QueueInv
    BY DEF FeedInv, Shapes
  <1>2. /\ wire # <<>> /\ wire' = <<>> /\ UNCHANGED <<log, aged, pruned, processed, closed, filter, sub, conn>>
        /\ IsClient(client') /\ client'.base = client.base
    BY Received
  <1>3. Due' = Due /\ Known' = Known
    BY <1>2, SameLog
  <1>4. conn.at \in {"page", "live", "over"}
    BY <1>1, <1>2 DEF WireInv
  <1>5. /\ client'.id \in Known \cup {NoPoint} /\ (client'.id = NoPoint => client.id = NoPoint)
        /\ client'.id.part # 0 => client'.id.seq > aged
        /\ conn.at # "over" => Soon' = Soon
    <2>1. CASE wire[1].kind \in {"slow", "gone"}
      <3>1. client'.id = Point(wire[1].seq, wire[1].part) /\ Point(wire[1].seq, wire[1].part) \in Known /\ conn.at = "over"
        BY <1>1, <1>2, <2>1, Received DEF WireInv
      <3>2. client'.id # NoPoint /\ client'.id.part = wire[1].part
        BY <1>1, <3>1, KnownPlaces DEF Point
      <3>3. wire[1].part # 0 => client'.id = client.id
        BY <1>1, <1>2, <2>1, <3>1 DEF WireInv
      <3>. QED
        BY <1>1, <3>1, <3>2, <3>3 DEF AgedInv
    <2>2. CASE wire[1].kind \notin {"slow", "gone"} /\ Stored(wire[1])
      <3>1. client'.id = After(wire[1])
        BY <2>2, Received
      <3>2. Soon = After(wire[1]) /\ Soon \in Known /\ Soon.seq = wire[1].seq /\ wire[1].seq \in Nat
        BY <1>2, <2>2, ClientPlaces
      <3>3. client'.id # NoPoint
        BY <1>1, <3>1, <3>2, KnownPlaces
      <3>4. Soon' = Soon
        BY <1>2, <3>1, <3>2, <3>3 DEF Soon, Place
      <3>5. wire[1].seq > aged
        <4>1. 1 \in DOMAIN wire
          BY <1>1, <1>2, TailFacts DEF Shapes
        <4>2. ~(wire[1].seq <= aged) /\ aged \in Int
          BY <1>1, <2>2, <4>1 DEF AgedInv, Fresh, PrunedInv
        <4>. QED
          BY <3>2, <4>2
      <3>. QED
        BY <3>1, <3>2, <3>3, <3>4, <3>5
    <2>3. CASE wire[1].kind \notin {"slow", "gone"} /\ ~Stored(wire[1])
      <3>1. client'.id = client.id
        BY <2>3, Received
      <3>2. Soon' = Soon
        BY <1>2, <2>3, <3>1 DEF Soon, Place
      <3>. QED
        BY <1>1, <3>1, <3>2 DEF ClientInv, AgedInv
    <2>. QED
      BY <2>1, <2>2, <2>3
  <1>6. Shapes' /\ PrunedInv'
    BY <1>1, <1>2, EmptySeqs DEF Shapes, PrunedInv
  <1>7. AgedInv' /\ ClientInv'
    BY <1>1, <1>2, <1>3, <1>5, EmptySeqs DEF AgedInv, ClientInv
  <1>8. WireInv'
    BY <1>2, EmptyFacts DEF WireInv
  <1>9. conn.at = "page" => PageInv'
    <2>. SUFFICES ASSUME conn.at = "page" PROVE PageInv'
      OBVIOUS
    <2>1. PageInv /\ Soon' = Soon
      BY <1>1, <1>5 DEF ConnInv
    <2>. QED
      BY <1>2, <1>3, <2>1 DEF PageInv
  <1>10. ConnInv'
    BY <1>1, <1>2, <1>3, <1>4, <1>5, <1>9 DEF ConnInv, Reaches
  <1>11. QueueInv'
    <2>1. Read' <=> Read
      BY <1>2 DEF Read
    <2>. QED
      BY <1>1, <1>2, <1>3, <2>1 DEF QueueInv
  <1>. QED
    BY <1>1, <1>2, <1>6, <1>7, <1>8, <1>10, <1>11 DEF FeedInv

\* The stream's task leaves the store, the bus and the client alone.
LEMMA TaskKeeps ==
    ASSUME FeedInv, UNCHANGED <<store, bus, filter, client>>
    PROVE  /\ UNCHANGED <<log, aged, pruned, processed, closed, filter, client>>
           /\ Due' = Due /\ Known' = Known /\ Place' = Place
           /\ IsSub(sub') /\ IsSeq(sub'.queue) /\ IsConn(conn') /\ IsSeq(conn'.page) /\ IsSeq(wire') => Shapes'
           /\ client.id = NoPoint => conn.at \notin {"check", "age", "pages", "page", "caught"}
           /\ (client.id = NoPoint => conn'.at \notin {"check", "age", "pages", "page", "caught"}) => ClientInv'
           /\ Shapes' /\ ClientInv' /\ AgedInv' /\ WireInv' /\ ConnInv' /\ QueueInv' => FeedInv'
  <1>1. UNCHANGED <<log, aged, pruned, processed, closed, filter, client>>
    BY DEF store, bus
  <1>2. Due' = Due /\ Known' = Known /\ Place' = Place
    BY <1>1, SameLog DEF Place
  <1>. QED
    BY <1>1, <1>2 DEF FeedInv, Shapes, ClientInv, PrunedInv

\* One frame on its way.
LEMMA OneFrame ==
    ASSUME NEW f
    PROVE  IsSeq(<<f>>) /\ <<f>> # <<>> /\ Len(<<f>>) = 1 /\ <<f>>[1] = f /\ DOMAIN <<f>> = {1}
  <1>1. <<f>> \in Seq({f}) /\ Len(<<f>>) = 1 /\ <<f>>[1] = f
    OBVIOUS
  <1>2. DOMAIN <<f>> = 1 .. 1 /\ 1 .. 1 = {1}
    OBVIOUS
  <1>3. IsSeq(<<f>>)
    BY <1>1 DEF IsSeq
  <1>4. <<f>> # <<>>
    BY <1>1, EmptyFacts
  <1>. QED
    BY <1>1, <1>2, <1>3, <1>4

LEMMA CatchingKeeps ==
    ASSUME FeedInv, UNCHANGED <<store, bus, filter, client, sub, wire>>, conn.at \in {"check", "age"}, conn' = Catching,
           conn.after.part = 0 => conn.after.seq >= aged
    PROVE  FeedInv'
  <1>1. Shapes /\ IsSeq(log) /\ LogOf(log) /\ PrunedInv /\ AgedInv /\ ClientInv /\ WireInv /\ ConnInv /\ QueueInv
    BY DEF FeedInv, Shapes
  <1>2. /\ UNCHANGED <<log, aged, pruned, processed, closed, filter, client>> /\ Due' = Due /\ Known' = Known /\ Place' = Place
        /\ Soon' = Soon
    BY TaskKeeps DEF Soon
  <1>3. /\ IsConn(conn') /\ conn'.at = "pages" /\ conn'.after = conn.after /\ conn'.upto = conn.after /\ conn'.page = conn.page
        /\ conn'.from = IF conn.after.part = 0 THEN conn.after.seq ELSE conn.after.seq - 1
    BY <1>1 DEF Catching, Shapes, IsConn
  <1>4. /\ client.id # NoPoint /\ client.id \in Known /\ conn.after = client.id /\ conn.page = <<>> /\ wire = <<>>
        /\ Soon = client.id
    BY <1>1 DEF ClientInv, ConnInv, WireInv, Soon, Place
  <1>5. aged \in Nat /\ aged <= Len(log) /\ Len(log) \in Nat /\ Due \in SUBSET Nat
    BY <1>1, ClientPlaces DEF PrunedInv
  <1>6. conn.after.seq \in 0 .. Len(log) /\ conn.after.part \in {0, 1} /\ Ord(conn.after) \in Int
    BY <1>1, <1>4, KnownPlaces DEF Known
  <1>7. conn'.from \in 0 .. Len(log) /\ conn'.from >= aged
    BY <1>1, <1>3, <1>4, <1>5, <1>6 DEF AgedInv
  <1>8. Run(Due, <<>>, Ord(conn.after), Ord(conn.after))
    <2>1. Clear(Due, Ord(conn.after), Ord(conn.after))
      BY <1>5, <1>6 DEF Clear
    <2>. QED
      BY <2>1, RunEmpty
  <1>9. PageInv'
    BY <1>2, <1>3, <1>4, <1>6, <1>7, <1>8 DEF PageInv
  <1>10. Shapes' /\ ClientInv' /\ AgedInv' /\ WireInv'
    BY <1>1, <1>2, <1>3, <1>4, <1>7, TaskKeeps DEF Shapes, AgedInv, WireInv
  <1>11. ConnInv'
    BY <1>1, <1>2, <1>3, <1>4, <1>9 DEF ConnInv
  <1>12. QueueInv'
    <2>1. ~Read'
      BY <1>3 DEF Read
    <2>. QED
      BY <1>1, <1>2, <1>3, <2>1 DEF QueueInv
  <1>. QED
    BY <1>10, <1>11, <1>12, TaskKeeps

LEMMA CheckHeadKeeps ==
    ASSUME FeedInv, CheckHead
    PROVE  FeedInv'
  <1>1. Shapes /\ IsSeq(log) /\ LogOf(log) /\ PrunedInv /\ AgedInv /\ ClientInv /\ WireInv /\ ConnInv /\ QueueInv
    BY DEF FeedInv, Shapes
  <1>2. conn.at = "check" /\ UNCHANGED <<store, bus, filter, client, sub>>
    BY DEF CheckHead
  <1>3. client.id # NoPoint /\ client.id \in Known /\ conn.after = client.id /\ conn.page = <<>>
    BY <1>1, <1>2 DEF ClientInv, ConnInv
  <1>4. aged \in Nat /\ aged <= Len(log) /\ Len(log) \in Nat
    BY <1>1, ClientPlaces DEF PrunedInv
  <1>5. conn.after.seq \in 0 .. Len(log)
    BY <1>1, <1>3 DEF Known
  <1>6. ~Ahead
    BY <1>4, <1>5 DEF Ahead
  <1>7. wire' = wire
    BY <1>6 DEF CheckHead
  <1>8. CASE conn.after.seq = Len(log)
    <2>1. conn' = Catching
      BY <1>6, <1>8 DEF CheckHead
    <2>. QED
      BY <1>2, <1>4, <1>7, <1>8, <2>1, CatchingKeeps
  <1>9. CASE conn.after.seq # Len(log)
    <2>1. conn' = [conn EXCEPT !.at = "age", !.from = Len(log)]
      BY <1>6, <1>9 DEF CheckHead
    <2>2. IsConn(conn') /\ conn'.at = "age" /\ conn'.from = Len(log) /\ conn'.after = conn.after /\ conn'.page = conn.page
      BY <1>1, <2>1 DEF Shapes, IsConn
    <2>3. /\ UNCHANGED <<log, aged, pruned, processed, closed, filter, client>> /\ Due' = Due /\ Known' = Known /\ Place' = Place
          /\ Soon' = Soon
      BY <1>2, <1>7, TaskKeeps DEF Soon
    <2>4. Shapes' /\ ClientInv' /\ AgedInv' /\ WireInv'
      BY <1>1, <1>2, <1>3, <1>7, <2>2, <2>3, TaskKeeps DEF Shapes, AgedInv, WireInv
    <2>5. ConnInv'
      BY <1>1, <1>2, <1>3, <1>4, <1>5, <2>2, <2>3 DEF ConnInv
    <2>6. QueueInv'
      <3>1. ~Read' /\ ~Read
        BY <1>2, <2>2 DEF Read
      <3>. QED
        BY <1>1, <1>2, <2>2, <2>3, <3>1 DEF QueueInv
    <2>. QED
      BY <1>2, <2>4, <2>5, <2>6, TaskKeeps
  <1>. QED
    BY <1>8, <1>9

\* The client is told to start again from p.
LEMMA ResetKeeps ==
    ASSUME FeedInv, NEW kind \in {"slow", "gone"}, NEW p \in Known, Reset(kind, p), UNCHANGED <<store, bus, filter, client, sub>>,
           conn.at # "off", Ord(Place) <= Ord(p), kind = "slow" => Clear(Due, Ord(Place), Ord(p)), p.part # 0 => p = client.id
    PROVE  FeedInv'
  <1>1. Shapes /\ IsSeq(log) /\ LogOf(log) /\ PrunedInv /\ AgedInv /\ ClientInv /\ WireInv /\ ConnInv /\ QueueInv
    BY DEF FeedInv, Shapes
  <1>2. UNCHANGED <<log, aged, pruned, processed, closed, filter, client>> /\ Due' = Due /\ Known' = Known /\ Place' = Place
    BY TaskKeeps
  <1>3. PICK f : f = Control(kind, p)
    OBVIOUS
  <1>4. f.kind = kind /\ f.seq = p.seq /\ f.part = p.part
    <2>1. f = [Frame(kind, 0, 0, 0) EXCEPT !.seq = p.seq, !.part = p.part]
      BY <1>3 DEF Control
    <2>. QED
      BY <2>1, FrameEdit
  <1>5. ~Stored(f) /\ Point(f.seq, f.part) = p /\ Ord(f) = Ord(p)
    BY <1>4 DEF Stored, Point, Ord, Known
  <1>6. wire' = <<f>> /\ conn' = [Idle EXCEPT !.at = "over"]
    BY <1>3 DEF Reset
  <1>7. IsConn(conn') /\ conn'.at = "over" /\ conn'.page = <<>>
    BY <1>6, IdleFacts DEF IsConn
  <1>8. IsSeq(wire') /\ wire' # <<>> /\ Len(wire') = 1 /\ wire'[1] = f /\ DOMAIN wire' = {1}
    BY <1>6, OneFrame
  <1>9. Shapes' /\ ClientInv'
    BY <1>1, <1>7, <1>8, EmptySeqs, TaskKeeps DEF Shapes
  <1>10. AgedInv'
    <2>1. Fresh(wire', aged)
      BY <1>5, <1>8 DEF Fresh
    <2>. QED
      BY <1>1, <1>2, <1>7, <2>1, EmptySeqs DEF AgedInv
  <1>11. WireInv'
    BY <1>2, <1>4, <1>5, <1>7, <1>8 DEF WireInv
  <1>12. ConnInv' /\ QueueInv'
    BY <1>1, <1>7, EmptySeqs DEF ConnInv, QueueInv
  <1>. QED
    BY <1>9, <1>10, <1>11, <1>12, TaskKeeps

LEMMA CheckAgeKeeps ==
    ASSUME FeedInv, CheckAge
    PROVE  FeedInv'
  <1>1. Shapes /\ IsSeq(log) /\ LogOf(log) /\ PrunedInv /\ AgedInv /\ ClientInv /\ WireInv /\ ConnInv /\ QueueInv
    BY DEF FeedInv, Shapes
  <1>2. conn.at = "age" /\ UNCHANGED <<store, bus, filter, client, sub>>
    BY DEF CheckAge
  <1>3. client.id # NoPoint /\ client.id \in Known /\ conn.after = client.id /\ conn.from \in client.id.seq .. Len(log)
    BY <1>1, <1>2 DEF ClientInv, ConnInv
  <1>4. aged \in Nat /\ aged <= Len(log) /\ Len(log) \in Nat
    BY <1>1, ClientPlaces DEF PrunedInv
  <1>5. client.id.seq \in 0 .. Len(log) /\ client.id.part \in {0, 1} /\ Place = client.id
    BY <1>1, <1>3 DEF Known, Place
  <1>6. CASE TooOld
    <2>1. Reset("gone", Whole(conn.from))
      BY <1>6 DEF CheckAge
    <2>2. Whole(conn.from) \in Known /\ Whole(conn.from).part = 0 /\ Ord(Place) <= Ord(Whole(conn.from))
      BY <1>3, <1>4, <1>5 DEF Whole, Point, Known, Ord
    <2>. QED
      BY <1>2, <2>1, <2>2, ResetKeeps
  <1>7. CASE ~TooOld
    <2>1. conn' = Catching /\ wire' = wire
      BY <1>7 DEF CheckAge
    <2>2. conn.after.seq >= aged
      <3>. DEFINE before == {i \in Kept : i <= conn.after.seq}
                  first == IF before # {} THEN {Maximum(before)} ELSE Kept \cap {1}
      <3>1. PICK i \in first : ~(i <= aged)
        BY <1>7 DEF TooOld
      <3>2. CASE before # {}
        <4>1. before \in SUBSET (0 .. Len(log))
          BY DEF Kept, Seqs
        <4>2. Maximum(before) \in before
          BY <1>4, <3>2, <4>1, Greatest
        <4>3. i = Maximum(before)
          BY <3>1, <3>2
        <4>4. i <= conn.after.seq /\ i \in 0 .. Len(log)
          BY <4>1, <4>2, <4>3
        <4>. QED
          BY <1>3, <1>4, <1>5, <3>1, <4>4
      <3>3. CASE before = {}
        <4>1. i = 1
          BY <3>1, <3>3
        <4>. QED
          BY <1>3, <1>4, <1>5, <3>1, <4>1
      <3>. QED
        BY <3>2, <3>3
    <2>. QED
      BY <1>2, <2>1, <2>2, CatchingKeeps
  <1>. QED
    BY <1>6, <1>7

LEMMA YieldSlowKeeps ==
    ASSUME FeedInv, YieldSlow
    PROVE  FeedInv'
  <1>1. IsSeq(log) /\ ClientInv /\ WireInv /\ ConnInv
    BY DEF FeedInv, Shapes
  <1>2. conn.at = "live" /\ wire = <<>> /\ Reset("slow", sub.sent) /\ UNCHANGED <<store, bus, filter, client, sub>>
    BY DEF YieldSlow
  <1>3. Reaches(sub.sent) /\ Soon = Place
    BY <1>1, <1>2, ClientPlaces DEF ConnInv
  <1>4. sub.sent \in Known /\ Ord(Place) <= Ord(sub.sent) /\ Clear(Due, Ord(Place), Ord(sub.sent)) /\ (sub.sent.part # 0 => sub.sent = Place)
    BY <1>3 DEF Reaches
  <1>5. Place.part # 0 => Place = client.id
    BY DEF Place, Whole, Point
  <1>. QED
    BY <1>2, <1>4, <1>5, ResetKeeps

\* A client past a frame that comes by event m is not past event m.
LEMMA AfterBy ==
    ASSUME NEW D \in SUBSET Nat, NEW f, IsFrame(D, f), NEW m \in Nat, Num(f) <= 2 * m
    PROVE  Ord(After(f)) <= 2 * m /\ f.seq <= m
  <1>1. f.seq \in Nat /\ f.part \in {1, 2} /\ f.last \in BOOLEAN /\ 2 * f.seq - 2 + f.part <= 2 * m
    BY DEF IsFrame, Num
  <1>2. f.seq <= m
    BY <1>1
  <1>3. Ord(After(f)) = 2 * f.seq - (IF f.last THEN 0 ELSE f.part)
    BY DEF After, Ord, Point
  <1>. QED
    BY <1>1, <1>2, <1>3

\* The next frame goes on its way.
LEMMA NextFrame ==
    ASSUME FeedInv, NEW f, wire' = <<f>>, wire = <<>>, UNCHANGED <<store, bus, filter, client>>,
           f.kind \notin {"slow", "gone"}, Stored(f) => ~(f.seq <= aged), conn'.at \in {"page", "live"},
           Stored(f) => IsFrame(Due, f) /\ Ord(Place) < Num(f) /\ Clear(Due, Ord(Place), Num(f) - 1)
    PROVE  /\ IsSeq(wire') /\ Fresh(wire', aged) /\ WireInv'
           /\ Soon' = IF Stored(f) THEN After(f) ELSE Place
           /\ Stored(f) => After(f) \in Known /\ Ord(After(f)) \in Int /\ Num(f) \in Int /\ Clear(Due, Num(f), Ord(After(f)))
  <1>1. Due' = Due /\ Known' = Known /\ Place' = Place
    BY TaskKeeps
  <1>2. IsSeq(wire') /\ wire' # <<>> /\ Len(wire') = 1 /\ wire'[1] = f /\ DOMAIN wire' = {1}
    BY OneFrame
  <1>3. Fresh(wire', aged)
    BY <1>2 DEF Fresh
  <1>4. WireInv'
    BY <1>1, <1>2 DEF WireInv
  <1>5. Soon' = IF Stored(f) THEN After(f) ELSE Place
    BY <1>1, <1>2 DEF Soon
  <1>6. ASSUME Stored(f) PROVE After(f) \in Known /\ Ord(After(f)) \in Int /\ Num(f) \in Int /\ Clear(Due, Num(f), Ord(After(f)))
    <2>1. Due \in SUBSET Nat /\ Len(log) \in Nat /\ Num(f) <= 2 * Len(log) /\ Num(f) \in Int
      BY <1>6, ClientPlaces DEF IsFrame
    <2>2. After(f) \in Points /\ Ord(After(f)) \in Int /\ Clear(Due, Num(f), Ord(After(f))) /\ After(f).seq = f.seq
      BY <1>6, <2>1, AfterFrame
    <2>3. f.seq <= Len(log)
      BY <1>6, <2>1, AfterBy
    <2>. QED
      BY <2>1, <2>2, <2>3 DEF Points, Known
  <1>. QED
    BY <1>2, <1>3, <1>4, <1>5, <1>6

LEMMA TailKeeps ==
    ASSUME NEW s, IsSeq(s), s # <<>>, NEW n
    PROVE  /\ IsSeq(Tail(s)) /\ (Plain(s) => Plain(Tail(s)) /\ Head(s).kind \notin {"slow", "gone"})
           /\ Fresh(s, n) => Fresh(Tail(s), n) /\ (Stored(Head(s)) => ~(Head(s).seq <= n))
  <1>1. /\ IsSeq(Tail(s)) /\ Len(s) \in Nat \ {0} /\ DOMAIN s = 1 .. Len(s) /\ DOMAIN Tail(s) = 1 .. Len(s) - 1
        /\ \A x \in 1 .. Len(s) - 1 : Tail(s)[x] = s[x + 1]
        /\ Head(s) = s[1]
    BY TailFacts
  <1>2. 1 \in DOMAIN s /\ \A x \in DOMAIN Tail(s) : x + 1 \in DOMAIN s /\ Tail(s)[x] = s[x + 1]
    BY <1>1
  <1>. QED
    BY <1>1, <1>2 DEF Plain, Fresh

LEMMA YieldReplayedKeeps ==
    ASSUME FeedInv, YieldReplayed
    PROVE  FeedInv'
  <1>1. Shapes /\ IsSeq(log) /\ LogOf(log) /\ PrunedInv /\ AgedInv /\ ClientInv /\ WireInv /\ ConnInv /\ QueueInv
    BY DEF FeedInv, Shapes
  <1>2. /\ conn.at = "page" /\ conn.page # <<>> /\ wire = <<>> /\ wire' = <<Head(conn.page)>>
        /\ conn' = [conn EXCEPT !.page = Tail(conn.page)] /\ sub' = sub /\ UNCHANGED <<store, bus, filter, client>>
    BY DEF YieldReplayed
  <1>3. /\ UNCHANGED <<log, aged, pruned, processed, closed, filter, client>> /\ Due' = Due /\ Known' = Known /\ Place' = Place
    BY <1>2, TaskKeeps
  <1>4. PICK f : f = Head(conn.page)
    OBVIOUS
  <1>5. /\ IsConn(conn') /\ conn'.at = "page" /\ conn'.page = Tail(conn.page) /\ conn'.from = conn.from /\ conn'.upto = conn.upto
        /\ conn'.after = conn.after /\ conn'.more = conn.more
    BY <1>1, <1>2 DEF Shapes, IsConn
  <1>6. /\ PageInv /\ conn.upto = Whole(conn.from) /\ conn.from >= conn.after.seq /\ conn.from \in 0 .. Len(log) /\ Soon = Place
        /\ Run(Due, conn.page, Ord(Place), Ord(conn.upto)) /\ Ord(Place) <= Ord(conn.upto)
    BY <1>1, <1>2, ClientPlaces DEF ConnInv, PageInv
  <1>7. Ord(conn.upto) = 2 * conn.from /\ conn.from \in Nat /\ Ord(Place) \in Int /\ Due \in SUBSET Nat
    BY <1>6, ClientPlaces DEF Whole, Point, Ord
  <1>8. /\ IsSeq(Tail(conn.page)) /\ Plain(Tail(conn.page)) /\ f.kind \notin {"slow", "gone"}
        /\ Fresh(Tail(conn.page), aged) /\ (Stored(f) => ~(f.seq <= aged))
    BY <1>1, <1>2, <1>4, TailKeeps DEF Shapes, QueueInv, AgedInv
  <1>9. Stored(f) => /\ IsFrame(Due, f) /\ Ord(Place) < Num(f) /\ Num(f) <= 2 * conn.from /\ Clear(Due, Ord(Place), Num(f) - 1)
                     /\ Run(Due, Tail(conn.page), Num(f), 2 * conn.from)
    <2>1. 2 * conn.from \in Int /\ IsSeq(conn.page) /\ Run(Due, conn.page, Ord(Place), 2 * conn.from)
      BY <1>1, <1>6, <1>7 DEF Shapes
    <2>. QED
      BY <1>2, <1>4, <1>7, <2>1, RunHead
  <1>10. ~Stored(f) => Run(Due, Tail(conn.page), Ord(Place), 2 * conn.from)
    <2>1. IsSeq(conn.page) /\ Run(Due, conn.page, Ord(Place), 2 * conn.from)
      BY <1>1, <1>6, <1>7 DEF Shapes
    <2>. QED
      BY <1>2, <1>4, <2>1, RunHeadLive
  <1>11. /\ IsSeq(wire') /\ Fresh(wire', aged) /\ WireInv'
         /\ Soon' = IF Stored(f) THEN After(f) ELSE Place
         /\ Stored(f) => After(f) \in Known /\ Ord(After(f)) \in Int /\ Num(f) \in Int /\ Clear(Due, Num(f), Ord(After(f)))
    BY <1>2, <1>4, <1>5, <1>8, <1>9, NextFrame
  <1>12. Run(Due, Tail(conn.page), Ord(Soon'), 2 * conn.from) /\ Ord(Soon') <= 2 * conn.from
    <2>1. CASE Stored(f)
      <3>1. Num(f) <= Ord(After(f)) /\ Ord(After(f)) <= 2 * conn.from
        BY <1>7, <1>9, <2>1, AfterFrame, AfterBy
      <3>2. 2 * conn.from \in Int /\ IsSeq(Tail(conn.page))
        BY <1>7, <1>8
      <3>3. Run(Due, Tail(conn.page), Ord(After(f)), 2 * conn.from)
        BY <1>7, <1>9, <1>11, <2>1, <3>1, <3>2, RunStarts
      <3>. QED
        BY <1>11, <2>1, <3>1, <3>3
    <2>2. CASE ~Stored(f)
      BY <1>6, <1>7, <1>10, <1>11, <2>2
    <2>. QED
      BY <2>1, <2>2
  <1>13. PageInv'
    BY <1>3, <1>5, <1>6, <1>7, <1>12 DEF PageInv
  <1>14. Shapes' /\ ClientInv'
    BY <1>1, <1>2, <1>5, <1>8, <1>11, TaskKeeps DEF Shapes
  <1>15. AgedInv'
    BY <1>1, <1>2, <1>3, <1>5, <1>8, <1>11 DEF AgedInv
  <1>16. ConnInv'
    BY <1>1, <1>2, <1>3, <1>5, <1>13 DEF ConnInv
  <1>17. QueueInv'
    <2>1. Read' <=> Read
      BY <1>2, <1>5 DEF Read
    <2>. QED
      BY <1>1, <1>2, <1>3, <1>5, <1>8, <2>1 DEF QueueInv
  <1>. QED
    BY <1>2, <1>11, <1>14, <1>15, <1>16, <1>17, TaskKeeps

LEMMA PageIsDoneKeeps ==
    ASSUME FeedInv, PageIsDone
    PROVE  FeedInv'
  <1>1. Shapes /\ IsSeq(log) /\ LogOf(log) /\ PrunedInv /\ AgedInv /\ ClientInv /\ WireInv /\ ConnInv /\ QueueInv
    BY DEF FeedInv, Shapes
  <1>2. conn.at = "page" /\ conn.page = <<>> /\ wire = <<>> /\ sub' = sub /\ wire' = wire /\ UNCHANGED <<store, bus, filter, client>>
    BY DEF PageIsDone
  <1>3. /\ UNCHANGED <<log, aged, pruned, processed, closed, filter, client>> /\ Due' = Due /\ Known' = Known /\ Place' = Place
        /\ Soon' = Soon
    BY <1>2, TaskKeeps DEF Soon
  <1>4. PageInv /\ Soon = Place /\ client.id # NoPoint /\ Place = client.id
    BY <1>1, <1>2, ClientPlaces DEF ConnInv, ClientInv, Place
  <1>5. CASE conn.more
    <2>1. conn' = [conn EXCEPT !.at = "pages"]
      BY <1>5 DEF PageIsDone
    <2>2. /\ IsConn(conn') /\ conn'.at = "pages" /\ conn'.page = conn.page /\ conn'.from = conn.from /\ conn'.upto = conn.upto
          /\ conn'.after = conn.after
      BY <1>1, <2>1 DEF Shapes, IsConn
    <2>3. PageInv'
      BY <1>2, <1>3, <1>4, <2>2 DEF PageInv
    <2>4. Shapes' /\ ClientInv' /\ AgedInv' /\ WireInv'
      BY <1>1, <1>2, <1>3, <1>4, <2>2, TaskKeeps DEF Shapes, AgedInv, WireInv
    <2>5. ConnInv'
      BY <1>1, <1>2, <1>3, <2>2, <2>3 DEF ConnInv
    <2>6. QueueInv'
      <3>1. ~Read'
        BY <2>2 DEF Read
      <3>. QED
        BY <1>1, <1>2, <1>3, <2>2, <3>1 DEF QueueInv
    <2>. QED
      BY <1>2, <2>4, <2>5, <2>6, TaskKeeps
  <1>6. CASE ~conn.more
    <2>1. conn' = [Idle EXCEPT !.at = "caught", !.upto = conn.upto]
      BY <1>6 DEF PageIsDone
    <2>2. IsConn(conn') /\ conn'.at = "caught" /\ conn'.page = <<>> /\ conn'.upto = conn.upto
      BY <2>1, IdleFacts DEF IsConn
    <2>3. Reaches(conn.upto)
      <3>1. Clear(Due, Ord(Soon), Ord(conn.upto))
        BY <1>2, <1>4, EmptyFacts DEF PageInv, Run, Clear
      <3>2. conn.upto.part # 0 => conn.upto = Soon
        BY <1>4 DEF PageInv, Whole, Point
      <3>. QED
        BY <1>4, <3>1, <3>2 DEF PageInv, Reaches
    <2>4. Shapes' /\ ClientInv' /\ AgedInv' /\ WireInv'
      BY <1>1, <1>2, <1>3, <1>4, <2>2, TaskKeeps DEF Shapes, AgedInv, WireInv
    <2>5. ConnInv'
      BY <1>1, <1>2, <1>3, <2>2, <2>3 DEF ConnInv, Reaches
    <2>6. QueueInv'
      <3>1. Read
        BY <1>2, <1>6 DEF Read
      <3>. QED
        BY <1>1, <1>2, <1>3, <2>2, <3>1 DEF QueueInv
    <2>. QED
      BY <1>2, <2>4, <2>5, <2>6, TaskKeeps
  <1>. QED
    BY <1>5, <1>6

\* Steps that only move the task on.
LEMMA StepsKeep ==
    ASSUME FeedInv, CaughtUp \/ EndOfBus \/ (AskHeld /\ WantsBlocks)
    PROVE  FeedInv'
  <1>1. Shapes /\ IsSeq(log) /\ LogOf(log) /\ PrunedInv /\ AgedInv /\ ClientInv /\ WireInv /\ ConnInv /\ QueueInv
    BY DEF FeedInv, Shapes
  <1>2. PICK at : /\ conn' = [conn EXCEPT !.at = at] /\ sub' = sub /\ wire' = wire /\ UNCHANGED <<store, bus, filter, client>>
                  /\ \/ conn.at = "caught" /\ at = "held" /\ (processed >= conn.upto.seq \/ closed)
                     \/ conn.at = "live" /\ at \in {"over", "snap"} /\ wire = <<>>
    BY DEF CaughtUp, EndOfBus, AskHeld
  <1>3. /\ UNCHANGED <<log, aged, pruned, processed, closed, filter, client>> /\ Due' = Due /\ Known' = Known /\ Place' = Place
        /\ Soon' = Soon
    BY <1>2, TaskKeeps DEF Soon
  <1>4. /\ IsConn(conn') /\ conn'.at = at /\ conn'.page = conn.page /\ conn'.upto = conn.upto
    BY <1>1, <1>2 DEF Shapes, IsConn
  <1>5. wire = <<>>
    BY <1>1, <1>2 DEF WireInv
  <1>6. Shapes' /\ ClientInv' /\ AgedInv' /\ WireInv'
    BY <1>1, <1>2, <1>3, <1>4, <1>5, TaskKeeps DEF Shapes, AgedInv, WireInv
  <1>7. ConnInv'
    BY <1>1, <1>2, <1>3, <1>4 DEF ConnInv, Reaches
  <1>8. QueueInv'
    <2>1. Read' => Read
      BY <1>2, <1>4 DEF Read
    <2>. QED
      BY <1>1, <1>2, <1>3, <1>4, <2>1 DEF QueueInv
  <1>. QED
    BY <1>2, <1>6, <1>7, <1>8, TaskKeeps

LEMMA SettleKeeps ==
    ASSUME FeedInv, AskHeld, ~WantsBlocks
    PROVE  FeedInv'
  <1>1. Shapes /\ IsSeq(log) /\ LogOf(log) /\ PrunedInv /\ AgedInv /\ ClientInv /\ WireInv /\ ConnInv /\ QueueInv
    BY DEF FeedInv, Shapes
  <1>2. /\ sub' = [sub EXCEPT !.stale = FALSE] /\ conn' = conn /\ wire' = wire /\ UNCHANGED <<store, bus, filter, client>>
    BY DEF AskHeld
  <1>3. /\ UNCHANGED <<log, aged, pruned, processed, closed, filter, client>> /\ Due' = Due /\ Known' = Known /\ Place' = Place
        /\ Soon' = Soon
    BY <1>2, TaskKeeps DEF Soon
  <1>4. IsSub(sub') /\ sub'.on = sub.on /\ sub'.queue = sub.queue /\ sub'.reset = sub.reset /\ sub'.sent = sub.sent
    BY <1>1, <1>2 DEF Shapes, IsSub
  <1>5. Shapes' /\ ClientInv' /\ AgedInv' /\ WireInv'
    BY <1>1, <1>2, <1>3, <1>4, TaskKeeps DEF Shapes, AgedInv, WireInv, ClientInv
  <1>6. (PageInv => PageInv') /\ (Read' <=> Read)
    BY <1>2, <1>3 DEF PageInv, Read
  <1>7. ConnInv'
    BY <1>1, <1>2, <1>3, <1>4, <1>6 DEF ConnInv, Reaches
  <1>8. QueueInv'
    BY <1>1, <1>2, <1>3, <1>4, <1>6 DEF QueueInv
  <1>. QED
    BY <1>2, <1>5, <1>7, <1>8, TaskKeeps

LEMMA YieldSnapshotKeeps ==
    ASSUME FeedInv, YieldSnapshot
    PROVE  FeedInv'
  <1>1. Shapes /\ IsSeq(log) /\ LogOf(log) /\ PrunedInv /\ AgedInv /\ ClientInv /\ WireInv /\ ConnInv /\ QueueInv
    BY DEF FeedInv, Shapes
  <1>2. /\ conn.at = "snap" /\ sub' = [sub EXCEPT !.stale = FALSE] /\ conn' = [conn EXCEPT !.at = "live"] /\ wire' = <<Snapshot>>
        /\ UNCHANGED <<store, bus, filter, client>>
    BY DEF YieldSnapshot
  <1>3. UNCHANGED <<log, aged, pruned, processed, closed, filter, client>> /\ Due' = Due /\ Known' = Known /\ Place' = Place
    BY <1>2, TaskKeeps
  <1>4. IsSub(sub') /\ sub'.on = sub.on /\ sub'.queue = sub.queue /\ sub'.reset = sub.reset /\ sub'.sent = sub.sent
    BY <1>1, <1>2 DEF Shapes, IsSub
  <1>5. IsConn(conn') /\ conn'.at = "live" /\ conn'.page = conn.page /\ conn'.upto = conn.upto
    BY <1>1, <1>2 DEF Shapes, IsConn
  <1>6. wire = <<>> /\ Soon = Place
    BY <1>1, <1>2, ClientPlaces DEF WireInv
  <1>7. Snapshot.kind = "snapshot" /\ Snapshot.seq = 0 /\ ~Stored(Snapshot)
    BY FrameEdit DEF Snapshot, Stored
  <1>8. IsSeq(wire') /\ Fresh(wire', aged) /\ WireInv' /\ Soon' = Place
    BY <1>2, <1>5, <1>6, <1>7, NextFrame
  <1>9. Shapes' /\ ClientInv' /\ AgedInv'
    BY <1>1, <1>2, <1>3, <1>4, <1>5, <1>8, TaskKeeps DEF Shapes, AgedInv
  <1>10. ConnInv'
    BY <1>1, <1>2, <1>3, <1>4, <1>5, <1>6, <1>8 DEF ConnInv, Reaches
  <1>11. QueueInv'
    <2>1. ~Read'
      BY <1>5 DEF Read
    <2>. QED
      BY <1>1, <1>2, <1>3, <1>4, <1>5, <2>1 DEF QueueInv
  <1>. QED
    BY <1>2, <1>8, <1>9, <1>10, <1>11, TaskKeeps

\* What a place covers, by numbers.
LEMMA CoversBy ==
    ASSUME NEW D, NEW f, IsFrame(D, f), Stored(f), NEW p \in Points
    PROVE  ~Covers(p, f) <=> Ord(p) < Num(f)
  <1>1. f.seq \in Nat /\ f.part \in {1, 2} /\ p.seq \in Nat /\ p.part \in {0, 1}
    BY DEF IsFrame, Points
  <1>2. f.seq < p.seq \/ f.seq = p.seq \/ f.seq > p.seq
    BY <1>1
  <1>. QED
    BY <1>1, <1>2 DEF Covers, Ord, Num

LEMMA WentLiveFacts ==
    ASSUME IsSub(sub), NEW p, NEW s, s = WentLive(sub, p), NEW t,
           t = Sifted(sub.queue, {i \in DOMAIN sub.queue : ~Covers(p, sub.queue[i])})
    PROVE  /\ IsSub(s) /\ s.on = sub.on /\ s.reset = sub.reset /\ s.sent = p
           /\ s.queue = IF WantsBlocks THEN Append(t, Snapshot) ELSE t
  <1>1. PICK q : q = IF WantsBlocks THEN Append(t, Snapshot) ELSE t
    OBVIOUS
  <1>2. s = [sub EXCEPT !.queue = q, !.sent = p, !.live = TRUE]
    BY <1>1 DEF WentLive
  <1>. QED
    BY <1>1, <1>2 DEF IsSub

LEMMA GoLiveKeeps ==
    ASSUME FeedInv, GoLive
    PROVE  FeedInv'
  <1>1. Shapes /\ IsSeq(log) /\ LogOf(log) /\ PrunedInv /\ AgedInv /\ ClientInv /\ WireInv /\ ConnInv /\ QueueInv
    BY DEF FeedInv, Shapes
  <1>2. conn.at = "held" /\ wire' = wire /\ UNCHANGED <<store, bus, filter, client>>
    BY DEF GoLive
  <1>3. /\ UNCHANGED <<log, aged, pruned, processed, closed, filter, client>> /\ Due' = Due /\ Known' = Known /\ Place' = Place
        /\ Soon' = Soon
    BY <1>2, TaskKeeps DEF Soon
  <1>4. PICK at : conn' = [Idle EXCEPT !.at = at] /\ at = IF closed THEN "over" ELSE "live"
    BY DEF GoLive
  <1>5. IsConn(conn') /\ conn'.at = at /\ conn'.page = <<>>
    BY <1>4, IdleFacts DEF IsConn
  <1>6. wire = <<>> /\ sub.on /\ Reaches(conn.upto)
    BY <1>1, <1>2 DEF WireInv, ConnInv
  <1>7. CASE closed
    <2>1. sub' = sub /\ at = "over"
      BY <1>4, <1>7 DEF GoLive
    <2>2. Shapes' /\ ClientInv' /\ AgedInv' /\ WireInv'
      BY <1>1, <1>2, <1>3, <1>5, <1>6, <2>1, EmptySeqs, TaskKeeps DEF Shapes, AgedInv, WireInv
    <2>3. ConnInv' /\ QueueInv'
      BY <1>1, <1>5, <1>6, <2>1, EmptySeqs DEF ConnInv, QueueInv
    <2>. QED
      BY <1>2, <2>2, <2>3, TaskKeeps
  <1>8. CASE ~closed
    <2>. DEFINE places == {i \in DOMAIN sub.queue : ~Covers(conn.upto, sub.queue[i])}
    <2>1. sub' = WentLive(sub, conn.upto) /\ at = "live"
      BY <1>4, <1>8 DEF GoLive
    <2>2. PICK t : t = Sifted(sub.queue, places)
      OBVIOUS
    <2>3. /\ IsSub(sub') /\ sub'.on = sub.on /\ sub'.reset = sub.reset /\ sub'.sent = conn.upto
          /\ sub'.queue = IF WantsBlocks THEN Append(t, Snapshot) ELSE t
      BY <1>1, <2>1, <2>2, WentLiveFacts DEF Shapes
    <2>4. IsSeq(t) /\ Plain(t) /\ Fresh(t, aged)
      <3>1. places \in SUBSET DOMAIN sub.queue
        OBVIOUS
      <3>. HIDE DEF places
      <3>2. IsSeq(t) /\ (Plain(sub.queue) => Plain(t)) /\ \A n : Fresh(sub.queue, n) => Fresh(t, n)
        BY <1>1, <2>2, <3>1, SiftedKeeps DEF Shapes
      <3>. QED
        BY <1>1, <3>2 DEF QueueInv, AgedInv
    <2>5. Snapshot.kind = "snapshot" /\ ~Stored(Snapshot)
      BY FrameEdit DEF Snapshot, Stored
    <2>6. /\ IsSeq(Append(t, Snapshot)) /\ (Plain(t) => Plain(Append(t, Snapshot)))
          /\ \A n : Fresh(t, n) /\ (Stored(Snapshot) => ~(Snapshot.seq <= n)) => Fresh(Append(t, Snapshot), n)
      BY <2>4, <2>5, AppendKeeps
    <2>7. IsSeq(sub'.queue) /\ Plain(sub'.queue) /\ Fresh(sub'.queue, aged)
      BY <2>3, <2>4, <2>5, <2>6
    <2>8. /\ conn.upto \in Known /\ conn.upto \in Points /\ Ord(conn.upto) \in Int /\ Ord(conn.upto) <= 2 * processed
          /\ Due \in SUBSET Nat /\ processed \in Nat
      <3>1. processed \in Nat
        BY <1>1, ClientPlaces DEF PrunedInv
      <3>2. conn.upto \in Known /\ processed >= conn.upto.seq
        BY <1>1, <1>2, <1>6, <1>8 DEF ConnInv, Reaches
      <3>3. conn.upto \in Points /\ conn.upto.seq \in Nat /\ conn.upto.part \in {0, 1} /\ Ord(conn.upto) \in Int
        BY <1>1, <3>2, KnownPlaces
      <3>4. Ord(conn.upto) <= 2 * processed
        BY <3>1, <3>2, <3>3 DEF Ord
      <3>. QED
        BY <3>1, <3>2, <3>3, <3>4, ClientPlaces
    <2>9. sub.reset \/ Run(Due, t, Ord(conn.upto), 2 * processed)
      <3>. SUFFICES ASSUME ~sub.reset PROVE Run(Due, t, Ord(conn.upto), 2 * processed)
        OBVIOUS
      <3>1. Read
        BY <1>2 DEF Read
      <3>2. PICK a \in Int : Run(Due, sub.queue, a, 2 * processed) /\ Clear(Due, Ord(conn.upto), a)
        BY <1>1, <1>2, <3>1 DEF QueueInv
      <3>3. \A x \in DOMAIN sub.queue : Stored(sub.queue[x]) => (x \in places <=> Ord(conn.upto) < Num(sub.queue[x]))
        BY <2>8, <3>2, CoversBy DEF Run
      <3>4. places \in SUBSET DOMAIN sub.queue /\ IsSeq(sub.queue) /\ 2 * processed \in Int
        BY <1>1, <2>8 DEF Shapes
      <3>. HIDE DEF places
      <3>. QED
        BY <2>2, <2>8, <3>2, <3>3, <3>4, RunSifted
    <2>10. sub'.reset \/ Run(Due, sub'.queue, Ord(conn.upto), 2 * processed)
      <3>1. Run(Due, t, Ord(conn.upto), 2 * processed) => Run(Due, Append(t, Snapshot), Ord(conn.upto), 2 * processed)
        BY <2>4, <2>5, RunAppendLive
      <3>. QED
        BY <2>3, <2>9, <3>1
    <2>. HIDE DEF places
    <2>11. Shapes' /\ ClientInv' /\ AgedInv' /\ WireInv'
      BY <1>1, <1>2, <1>3, <1>5, <1>6, <2>1, <2>3, <2>7, EmptySeqs, TaskKeeps DEF Shapes, AgedInv, WireInv
    <2>12. ConnInv'
      BY <1>3, <1>5, <1>6, <2>1, <2>3 DEF ConnInv, Reaches
    <2>13. QueueInv'
      <3>1. ~Read'
        BY <1>5, <2>1 DEF Read
      <3>. QED
        BY <1>3, <1>5, <2>3, <2>7, <2>8, <2>10, <3>1, EmptySeqs DEF QueueInv
    <2>. QED
      BY <1>2, <2>11, <2>12, <2>13, TaskKeeps
  <1>. QED
    BY <1>7, <1>8

LEMMA YieldNextKeeps ==
    ASSUME FeedInv, YieldNext
    PROVE  FeedInv'
  <1>1. Shapes /\ IsSeq(log) /\ LogOf(log) /\ PrunedInv /\ AgedInv /\ ClientInv /\ WireInv /\ ConnInv /\ QueueInv
    BY DEF FeedInv, Shapes
  <1>2. /\ conn.at = "live" /\ wire = <<>> /\ ~sub.reset /\ sub.queue # <<>>
        /\ conn' = conn /\ UNCHANGED <<store, bus, filter, client>>
    BY DEF YieldNext
  <1>3. PICK f : f = Head(sub.queue)
    OBVIOUS
  <1>4. wire' = <<f>>
    BY <1>3 DEF YieldNext
  <1>5. PICK p : p = (IF Stored(f) THEN After(f) ELSE sub.sent) /\ sub' = [sub EXCEPT !.queue = Tail(sub.queue), !.sent = p]
    BY <1>3 DEF YieldNext
  <1>6. IsSub(sub') /\ sub'.on = sub.on /\ sub'.queue = Tail(sub.queue) /\ sub'.reset = sub.reset /\ sub'.sent = p
    BY <1>1, <1>5 DEF Shapes, IsSub
  <1>7. UNCHANGED <<log, aged, pruned, processed, closed, filter, client>> /\ Due' = Due /\ Known' = Known /\ Place' = Place
    BY <1>2, TaskKeeps
  <1>8. /\ Reaches(sub.sent) /\ Soon = Place /\ Ord(Place) \in Int /\ Due \in SUBSET Nat /\ processed \in Nat
        /\ sub.sent \in Known /\ Ord(sub.sent) \in Int /\ Ord(Place) <= Ord(sub.sent) /\ Clear(Due, Ord(Place), Ord(sub.sent))
    <2>1. Reaches(sub.sent) /\ Soon = Place /\ Ord(Place) \in Int /\ Due \in SUBSET Nat /\ processed \in Nat
      BY <1>1, <1>2, ClientPlaces DEF ConnInv, PrunedInv
    <2>2. sub.sent \in Known /\ Ord(Place) <= Ord(sub.sent) /\ Clear(Due, Ord(Place), Ord(sub.sent))
      BY <2>1 DEF Reaches
    <2>. QED
      BY <1>1, <2>1, <2>2, KnownPlaces
  <1>9. IsSeq(sub.queue) /\ 2 * processed \in Int /\ Run(Due, sub.queue, Ord(sub.sent), 2 * processed) /\ Ord(sub.sent) <= 2 * processed
    BY <1>1, <1>2, <1>8 DEF Shapes, QueueInv
  <1>10. /\ IsSeq(Tail(sub.queue)) /\ Plain(Tail(sub.queue)) /\ f.kind \notin {"slow", "gone"}
         /\ Fresh(Tail(sub.queue), aged) /\ (Stored(f) => ~(f.seq <= aged))
    BY <1>1, <1>2, <1>3, TailKeeps DEF Shapes, QueueInv, AgedInv
  <1>11. Stored(f) => /\ IsFrame(Due, f) /\ Ord(sub.sent) < Num(f) /\ Num(f) <= 2 * processed /\ Clear(Due, Ord(sub.sent), Num(f) - 1)
                      /\ Run(Due, Tail(sub.queue), Num(f), 2 * processed)
    BY <1>2, <1>3, <1>8, <1>9, RunHead
  <1>12. ~Stored(f) => Run(Due, Tail(sub.queue), Ord(sub.sent), 2 * processed)
    BY <1>2, <1>3, <1>9, RunHeadLive
  <1>13. Stored(f) => Ord(Place) < Num(f) /\ Clear(Due, Ord(Place), Num(f) - 1)
    <2>1. \A n \in Due : n \in Int
      BY <1>8
    <2>2. Stored(f) => Num(f) \in Int
      BY <1>11 DEF IsFrame, Num
    <2>. QED
      BY <1>8, <1>11, <2>1, <2>2 DEF Clear
  <1>14. /\ IsSeq(wire') /\ Fresh(wire', aged) /\ WireInv'
         /\ Soon' = IF Stored(f) THEN After(f) ELSE Place
         /\ Stored(f) => After(f) \in Known /\ Ord(After(f)) \in Int /\ Num(f) \in Int /\ Clear(Due, Num(f), Ord(After(f)))
    BY <1>2, <1>4, <1>10, <1>11, <1>13, NextFrame
  <1>15. p \in Known /\ Ord(p) \in Int /\ Ord(p) <= 2 * processed /\ Run(Due, Tail(sub.queue), Ord(p), 2 * processed) /\ Reaches(p)'
    <2>1. CASE Stored(f)
      <3>1. p = After(f) /\ Soon' = p /\ p \in Known /\ Ord(p) \in Int
        BY <1>5, <1>14, <2>1
      <3>2. Num(f) <= Ord(p) /\ Ord(p) <= 2 * processed
        BY <1>8, <1>11, <2>1, <3>1, AfterFrame, AfterBy
      <3>3. IsSeq(Tail(sub.queue)) /\ Clear(Due, Num(f), Ord(p))
        BY <1>10, <1>14, <2>1, <3>1
      <3>4. Run(Due, Tail(sub.queue), Ord(p), 2 * processed)
        BY <1>8, <1>9, <1>11, <1>14, <2>1, <3>1, <3>2, <3>3, RunStarts
      <3>5. Clear(Due, Ord(p), Ord(p))
        BY <1>8, <3>1 DEF Clear
      <3>6. \E q : q = p /\ q \in Known' /\ Soon' = q /\ Ord(Soon') <= Ord(q) /\ Clear(Due', Ord(Soon'), Ord(q))
        BY <1>7, <3>1, <3>5
      <3>. QED
        BY <1>7, <3>1, <3>2, <3>4, <3>5 DEF Reaches
    <2>2. CASE ~Stored(f)
      <3>1. p = sub.sent /\ Soon' = Soon
        BY <1>5, <1>8, <1>14, <2>2
      <3>2. Reaches(p)'
        BY <1>7, <1>8, <3>1 DEF Reaches
      <3>. QED
        BY <1>8, <1>9, <1>12, <2>2, <3>1, <3>2
    <2>. QED
      BY <2>1, <2>2
  <1>16. Shapes' /\ ClientInv'
    BY <1>1, <1>2, <1>6, <1>10, <1>14, TaskKeeps DEF Shapes
  <1>17. AgedInv'
    BY <1>1, <1>2, <1>6, <1>7, <1>10, <1>14 DEF AgedInv
  <1>18. ConnInv'
    BY <1>1, <1>2, <1>6, <1>15 DEF ConnInv
  <1>19. QueueInv'
    <2>1. ~Read'
      BY <1>2 DEF Read
    <2>. QED
      BY <1>1, <1>2, <1>6, <1>7, <1>10, <1>15, <2>1 DEF QueueInv
  <1>. QED
    BY <1>2, <1>14, <1>16, <1>17, <1>18, <1>19, TaskKeeps

-----------------------------------------------------------------------------
(***************************************************************************)
(* A page of the replay.                                                   *)
(***************************************************************************)

\* The first l elements of R.
First(R, l) == {i \in R : Cardinality({j \in R : j < i}) < l}

IsFirst(P, R, l) ==
    /\ P \in SUBSET R /\ (\A i \in R : \A m \in P : i <= m => i \in P)
    /\ Cardinality(P) # l => P = R

LEMMA FirstFacts ==
    ASSUME NEW n \in Nat, NEW R \in SUBSET (1 .. n), NEW l \in Nat \ {0}, NEW P, P = First(R, l)
    PROVE  IsFirst(P, R, l)
  <1>. DEFINE Under(i) == {j \in R : j < i}
  <1>1. IsFiniteSet(R) /\ \A Q \in SUBSET R : IsFiniteSet(Q) /\ Cardinality(Q) \in Nat
    <2>1. IsFiniteSet(1 .. n)
      BY FS_Interval
    <2>2. IsFiniteSet(R)
      BY <2>1, FS_Subset
    <2>. QED
      BY <2>2, FS_Subset, FS_CardinalityType
  <1>2. P \in SUBSET R /\ P = {i \in R : Cardinality(Under(i)) < l}
    BY DEF First
  <1>3. \A i \in R : \A m \in R : i <= m => Cardinality(Under(i)) <= Cardinality(Under(m))
    <2>. SUFFICES ASSUME NEW i \in R, NEW m \in R, i <= m PROVE Cardinality(Under(i)) <= Cardinality(Under(m))
      OBVIOUS
    <2>1. i \in Int /\ m \in Int /\ \A j \in R : j \in Int
      OBVIOUS
    <2>2. \A j \in R : j < i => j < m
      BY <2>1
    <2>3. Under(i) \in SUBSET Under(m) /\ Under(m) \in SUBSET R
      BY <2>2
    <2>. QED
      BY <1>1, <2>3, FS_Subset
  <1>4. \A i \in R : Under(i) \in SUBSET R
    OBVIOUS
  <1>5. \A i \in R : \A m \in P : i <= m => i \in P
    <2>. SUFFICES ASSUME NEW i \in R, NEW m \in P, i <= m PROVE i \in P
      OBVIOUS
    <2>1. Cardinality(Under(i)) \in Nat /\ Cardinality(Under(m)) \in Nat
      BY <1>1, <1>2, <1>4
    <2>2. Cardinality(Under(i)) <= Cardinality(Under(m))
      BY <1>2, <1>3
    <2>. QED
      BY <1>2, <2>1, <2>2
  <1>6. Cardinality(P) <= l
    <2>1. CASE P = {}
      BY <2>1, FS_EmptySet
    <2>2. CASE P # {}
      <3>1. \A j \in P : j \in R /\ j \in 0 .. n /\ j \in Int
        BY <1>2
      <3>2. PICK m : m \in P /\ \A j \in P : j <= m
        <4>1. P \in SUBSET (0 .. n)
          BY <3>1
        <4>. QED
          BY <2>2, <4>1, Greatest
      <3>3. P \ {m} \in SUBSET Under(m) /\ Under(m) \in SUBSET R /\ P \ {m} \in SUBSET R
        <4>1. \A j \in P \ {m} : j \in R /\ j < m
          BY <3>1, <3>2
        <4>. QED
          BY <4>1
      <3>4. Cardinality(P \ {m}) <= Cardinality(Under(m)) /\ Cardinality(Under(m)) < l
        BY <1>1, <1>2, <3>2, <3>3, FS_Subset
      <3>5. Cardinality(P) = Cardinality(P \ {m}) + 1
        <4>1. IsFiniteSet(P) /\ Cardinality(P) \in Nat
          BY <1>1, <1>2
        <4>2. Cardinality(P \ {m}) = Cardinality(P) - 1
          BY <3>2, <4>1, FS_RemoveElement
        <4>. QED
          BY <4>1, <4>2
      <3>. QED
        BY <1>1, <3>3, <3>4, <3>5
    <2>. QED
      BY <2>1, <2>2
  <1>7. ASSUME P # R PROVE Cardinality(P) >= l
    <2>1. R \ P # {} /\ \A j \in R : j \in Nat
      BY <1>2, <1>7
    <2>5. R \ P \in SUBSET Nat
      BY <2>1
    <2>2. PICK i \in R \ P : \A j \in R \ P : i <= j
      BY <2>1, <2>5, Smallest
    <2>3. Under(i) = P
      <3>1. ASSUME NEW j \in Under(i) PROVE j \in P
        BY <2>2, <3>1
      <3>2. ASSUME NEW j \in P PROVE j \in Under(i)
        BY <1>2, <1>5, <2>2, <3>2
      <3>. QED
        BY <3>1, <3>2
    <2>4. ~(Cardinality(P) < l) /\ Cardinality(P) \in Nat
      BY <1>1, <1>2, <2>2, <2>3
    <2>. QED
      BY <2>4
  <1>8. Cardinality(P) # l => P = R
    <2>1. Cardinality(P) \in Nat
      BY <1>1, <1>2
    <2>. QED
      BY <1>6, <1>7, <2>1
  <1>. QED
    BY <1>2, <1>5, <1>8 DEF IsFirst

LEMMA RunEarlier ==
    ASSUME NEW D \in SUBSET Nat, NEW s, NEW a \in Int, NEW b \in Int, NEW c \in Int, Run(D, s, c, b), a <= c, Clear(D, a, c)
    PROVE  Run(D, s, a, b)
  <1>1. \A g : IsFrame(D, g) => Num(g) \in Int
    BY DEF IsFrame, Num
  <1>2. \A x \in DOMAIN s : Stored(s[x]) => IsFrame(D, s[x]) /\ a < Num(s[x]) /\ Num(s[x]) <= b
    BY <1>1 DEF Run
  <1>3. \A n \in D : a < n => c < n
    BY DEF Clear
  <1>. QED
    BY <1>2, <1>3 DEF Run

\* What the replay has to read after `from', and what of that the client has.
LEMMA ReplayPlaces ==
    ASSUME FeedInv, conn.at = "pages"
    PROVE  /\ wire = <<>> /\ conn.page = <<>> /\ Soon = Place /\ PageInv /\ Due \in SUBSET Nat /\ Len(log) \in Nat
           /\ Ord(Place) \in Int /\ Ord(conn.upto) \in Int /\ Ord(Place) <= Ord(conn.upto) /\ Clear(Due, Ord(Place), Ord(conn.upto))
           /\ conn.from \in Nat /\ conn.from >= aged /\ aged \in Nat /\ conn.from + 1 >= conn.after.seq
           /\ Ord(conn.upto) >= 2 * conn.from
           /\ \A i \in Seqs : i > conn.from => i \in Kept /\ (log[i].prev \in Kept <=> log[i].prev # 0)
           /\ \A f : IsFrame(Due, f) /\ Stored(f) /\ f.seq > conn.from => (~Covers(conn.after, f) <=> Ord(conn.upto) < Num(f))
  <1>1. Shapes /\ IsSeq(log) /\ LogOf(log) /\ PrunedInv /\ AgedInv /\ WireInv /\ ConnInv
    BY DEF FeedInv, Shapes
  <1>2. wire = <<>> /\ conn.page = <<>> /\ PageInv /\ conn.from >= aged
    BY <1>1 DEF WireInv, ConnInv, AgedInv
  <1>3. Soon = Place /\ Due \in SUBSET Nat /\ Len(log) \in Nat /\ Ord(Place) \in Int
    BY <1>2, ClientPlaces
  <1>4. conn.upto \in Known /\ conn.after \in Known /\ conn.from \in Nat /\ aged \in Nat /\ Ord(conn.upto) \in Int
    BY <1>1, <1>2, <1>3, KnownPlaces DEF PageInv, PrunedInv
  <1>5. Ord(Place) <= Ord(conn.upto) /\ Clear(Due, Ord(Place), Ord(conn.upto))
    BY <1>2, <1>3, EmptyFacts DEF PageInv, Run, Clear
  <1>6. conn.after \in Points /\ conn.after.seq \in Nat /\ conn.after.part \in {0, 1} /\ Ord(conn.after) = 2 * conn.after.seq - conn.after.part
    BY <1>1, <1>4, KnownPlaces DEF Ord
  <1>7. \/ conn.upto = conn.after /\ conn.from = IF conn.after.part = 0 THEN conn.after.seq ELSE conn.after.seq - 1
        \/ Ord(conn.upto) = 2 * conn.from /\ conn.from >= conn.after.seq
    BY <1>2, <1>4 DEF PageInv, Ord, Whole, Point
  <1>8. conn.from + 1 >= conn.after.seq /\ Ord(conn.upto) >= 2 * conn.from
    BY <1>4, <1>6, <1>7
  <1>9. ASSUME NEW i \in Seqs, i > conn.from PROVE i \in Kept /\ (log[i].prev \in Kept <=> log[i].prev # 0)
    <2>1. i \in aged + 1 .. Len(log) /\ i \in 1 .. Len(log)
      BY <1>2, <1>3, <1>4, <1>9 DEF Seqs
    <2>2. i \notin pruned /\ log[i].prev \notin pruned
      BY <1>1, <2>1 DEF PrunedInv
    <2>3. log[i].prev # 0 => log[i].prev \in Seqs
      BY <1>1, <1>3, <2>1 DEF LogOf, Seqs
    <2>. QED
      BY <1>9, <2>2, <2>3 DEF Kept, Seqs
  <1>10. ASSUME NEW f, IsFrame(Due, f), Stored(f), f.seq > conn.from PROVE ~Covers(conn.after, f) <=> Ord(conn.upto) < Num(f)
    <2>1. ~Covers(conn.after, f) <=> Ord(conn.after) < Num(f)
      BY <1>6, <1>10, CoversBy
    <2>2. f.seq \in Nat /\ f.part \in {1, 2} /\ Num(f) = 2 * f.seq - 2 + f.part
      BY <1>10 DEF IsFrame, Num
    <2>3. CASE conn.upto = conn.after
      BY <2>1, <2>3
    <2>4. CASE Ord(conn.upto) = 2 * conn.from /\ conn.from >= conn.after.seq
      BY <1>4, <1>6, <1>10, <2>1, <2>2, <2>4
    <2>. QED
      BY <1>7, <2>3, <2>4
  <1>. QED
    BY <1>2, <1>3, <1>4, <1>5, <1>8, <1>9, <1>10

\* What is due after `from' is of the events left to read.
LEMMA DueIsLeft ==
    ASSUME FeedInv, conn.at = "pages", NEW n \in Due, n > Ord(conn.upto)
    PROVE  \E i \in Rest : \E k \in Parts(i) : i \in Seqs /\ i > conn.from /\ k \in {1, 2} /\ n = 2 * i - 2 + k
  <1>1. PICK i \in Seqs : \E k \in Parts(i) : Wanted(i, k) /\ n = 2 * i - 2 + k /\ k \in {1, 2}
    BY DueNumbers DEF FeedInv, Shapes
  <1>2. PICK k \in Parts(i) : Wanted(i, k) /\ n = 2 * i - 2 + k /\ k \in {1, 2}
    BY <1>1
  <1>3. i > conn.from
    <2>1. i \in Int /\ conn.from \in Nat /\ Ord(conn.upto) \in Int /\ Ord(conn.upto) >= 2 * conn.from
      BY <1>1, ReplayPlaces DEF Seqs
    <2>. QED
      BY <1>2, <2>1
  <1>4. i \in Kept
    BY <1>1, <1>3, ReplayPlaces
  <1>5. ~(filter.chat /\ log[i].kind = "note")
    <2>1. log[i].kind = "note" => log[i].prev = 0
      BY <1>1 DEF FeedInv, LogOf, Seqs
    <2>2. log[i].kind = "note" => ~filter.chat
      BY <1>2, <2>1 DEF Wanted
    <2>. QED
      BY <2>2
  <1>6. i \in Rest
    BY <1>3, <1>4, <1>5 DEF Rest
  <1>. QED
    BY <1>1, <1>2, <1>3, <1>6

LEMMA PageOfRest ==
    ASSUME FeedInv, conn.at = "pages"
    PROVE  /\ Page \in SUBSET Rest /\ (\A i \in Rest : \A m \in Page : i <= m => i \in Page)
           /\ Cardinality(Page) # PageLimit => Page = Rest
           /\ Rest \in SUBSET (1 .. Len(log)) /\ \A i \in Rest : i \in Seqs /\ i > conn.from
  <1>1. Len(log) \in Nat /\ Rest \in SUBSET (1 .. Len(log)) /\ \A i \in Rest : i \in Seqs /\ i > conn.from
    BY ReplayPlaces DEF Rest, Kept, Seqs
  <1>2. PageLimit \in Nat \ {0}
    BY StreamAssumption
  <1>3. Page = First(Rest, PageLimit)
    BY DEF Page, First
  <1>4. IsFirst(Page, Rest, PageLimit)
    BY <1>1, <1>2, <1>3, FirstFacts
  <1>. QED
    BY <1>1, <1>4 DEF IsFirst

\* A page brings what is due from the replay's place on, up to w.
LEMMA PageRuns ==
    ASSUME FeedInv, conn.at = "pages", NEW w \in Int, NEW page,
           page = PageFrames(Page, Kept),
           IF Page = {} THEN w = Ord(conn.upto) ELSE w = 2 * Maximum(Page)
    PROVE  /\ IsSeq(page) /\ Plain(page) /\ Fresh(page, aged) /\ Run(Due, page, Ord(conn.upto), w)
           /\ Page = {} => page = <<>>
           /\ \A x \in DOMAIN page : Stored(page[x]) /\ \E i \in Page : \E k \in Parts(i) : page[x] = Frames(i, Kept)[k]
  <1>. DEFINE frames == UNION {Range(Frames(i, Kept)) : i \in Page}
              S == {f \in frames : Matches(f) /\ ~Covers(conn.after, f)}
              u == Ord(conn.upto)
              b == 2 * Len(log) + 2
  <1>1. IsSeq(log) /\ LogOf(log) /\ Len(log) \in Nat /\ u \in Int /\ Due \in SUBSET Nat /\ aged \in Nat /\ conn.from \in Nat /\ conn.from >= aged
    BY ReplayPlaces DEF FeedInv, Shapes
  <1>2. \A i \in Page : i \in Rest /\ i \in Seqs /\ i \in Int /\ i > conn.from /\ i <= Len(log) /\ i >= 1 /\ (log[i].prev \in Kept <=> log[i].prev # 0)
    <2>1. \A i \in Page : i \in Rest /\ i \in Seqs /\ i > conn.from
      BY PageOfRest
    <2>. QED
      BY <1>1, <2>1, ReplayPlaces DEF Seqs
  <1>3. ASSUME NEW i \in Page, NEW k \in Parts(i)
        PROVE  /\ Frames(i, Kept)[k] \in frames /\ k \in {1, 2}
               /\ Num(Frames(i, Kept)[k]) = 2 * i - 2 + k /\ (Matches(Frames(i, Kept)[k]) <=> 2 * i - 2 + k \in Due)
               /\ (Matches(Frames(i, Kept)[k]) => IsFrame(Due, Frames(i, Kept)[k])) /\ Stored(Frames(i, Kept)[k])
               /\ Frames(i, Kept)[k].seq = i /\ Frames(i, Kept)[k].part = k
               /\ Frames(i, Kept)[k].kind \notin {"slow", "gone"}
    <2>1. PICK fs : fs = Frames(i, Kept)
      OBVIOUS
    <2>2. i \in Seqs /\ (log[i].prev \in Kept <=> log[i].prev # 0)
      BY <1>2
    <2>3. /\ DOMAIN fs = 1 .. Len(fs) /\ Parts(i) = 1 .. Len(fs) /\ fs[k].seq = i /\ fs[k].part = k /\ Stored(fs[k])
          /\ fs[k].kind \notin {"slow", "gone"}
      BY <1>1, <2>1, <2>2, FrameFacts
    <2>4. Num(fs[k]) = 2 * i - 2 + k /\ (Matches(fs[k]) <=> Num(fs[k]) \in Due) /\ (Matches(fs[k]) => IsFrame(Due, fs[k]))
      BY <1>1, <2>1, <2>2, FrameIsDue
    <2>5. fs[k] \in Range(fs)
      BY <2>3 DEF Range
    <2>6. k \in {1, 2}
      BY DEF Parts
    <2>7. fs[k] \in frames
      BY <2>1, <2>5
    <2>. QED
      BY <2>1, <2>3, <2>4, <2>6, <2>7
  <1>4. ASSUME NEW f \in frames PROVE \E i \in Page : \E k \in Parts(i) : f = Frames(i, Kept)[k]
    <2>1. PICK i \in Page : f \in Range(Frames(i, Kept))
      OBVIOUS
    <2>2. PICK fs : fs = Frames(i, Kept)
      OBVIOUS
    <2>3. DOMAIN fs = Parts(i)
      <3>1. i \in Seqs /\ (log[i].prev \in Kept <=> log[i].prev # 0)
        BY <1>2
      <3>2. DOMAIN fs = 1 .. Len(fs) /\ Parts(i) = 1 .. Len(fs)
        BY <1>1, <2>2, <3>1, FrameFacts
      <3>. QED
        BY <3>2
    <2>4. PICK k \in DOMAIN fs : f = fs[k]
      BY <2>1, <2>2 DEF Range
    <2>. QED
      BY <2>2, <2>3, <2>4
  <1>5. \A f \in frames : Matches(f) => IsFrame(Due, f) /\ Stored(f) /\ f.seq \in Page /\ f.seq > conn.from /\ f.kind \notin {"slow", "gone"}
    BY <1>2, <1>3, <1>4
  <1>6. \A f \in S : /\ IsFrame(Due, f) /\ Stored(f) /\ f.seq \in Page /\ f.kind \notin {"slow", "gone"} /\ ~(f.seq <= aged)
                     /\ u < Num(f) /\ Num(f) <= w /\ Num(f) \in Int
    <2>. SUFFICES ASSUME NEW f \in S
                  PROVE  /\ IsFrame(Due, f) /\ Stored(f) /\ f.seq \in Page /\ f.kind \notin {"slow", "gone"} /\ ~(f.seq <= aged)
                         /\ u < Num(f) /\ Num(f) <= w /\ Num(f) \in Int
      OBVIOUS
    <2>1. f \in frames /\ Matches(f) /\ ~Covers(conn.after, f)
      OBVIOUS
    <2>2. IsFrame(Due, f) /\ Stored(f) /\ f.seq \in Page /\ f.seq > conn.from /\ f.kind \notin {"slow", "gone"}
      BY <1>5, <2>1
    <2>3. u < Num(f)
      BY <2>1, <2>2, ReplayPlaces
    <2>4. f.seq <= Maximum(Page) /\ Maximum(Page) \in Int
      <3>1. Page \in SUBSET (0 .. Len(log)) /\ Page # {}
        BY <1>2, <2>2
      <3>2. Maximum(Page) \in Page /\ \A m \in Page : m <= Maximum(Page)
        BY <1>1, <3>1, Greatest
      <3>. QED
        BY <1>2, <2>2, <3>2
    <2>5. f.seq \in Nat /\ f.part \in {1, 2} /\ Num(f) = 2 * f.seq - 2 + f.part
      BY <2>2 DEF IsFrame, Num
    <2>6. Page # {} /\ w = 2 * Maximum(Page)
      BY <2>2
    <2>7. ~(f.seq <= aged)
      BY <1>1, <2>2, <2>5
    <2>. QED
      BY <2>2, <2>3, <2>4, <2>5, <2>6, <2>7
  <1>7. ASSUME NEW n \in Due, u < n, n <= w PROVE \E f \in S : Num(f) = n
    <2>1. PICK i \in Rest : \E k \in Parts(i) : i \in Seqs /\ i > conn.from /\ k \in {1, 2} /\ n = 2 * i - 2 + k
      BY <1>7, DueIsLeft
    <2>2. PICK k \in Parts(i) : i \in Seqs /\ i > conn.from /\ k \in {1, 2} /\ n = 2 * i - 2 + k
      BY <2>1
    <2>3. Page # {}
      BY <1>1, <1>7
    <2>4. Maximum(Page) \in Page
      <3>1. Page \in SUBSET (0 .. Len(log))
        BY <1>2
      <3>. QED
        BY <1>1, <2>3, <3>1, Greatest
    <2>5. i <= Maximum(Page)
      <3>1. i \in Int /\ Maximum(Page) \in Int
        BY <1>2, <2>2, <2>4 DEF Seqs
      <3>2. 2 * i - 2 + k <= 2 * Maximum(Page)
        BY <1>7, <2>2, <2>3
      <3>. QED
        BY <2>2, <3>1, <3>2
    <2>6. i \in Page
      BY <2>4, <2>5, PageOfRest
    <2>7. PICK f : f = Frames(i, Kept)[k]
      OBVIOUS
    <2>8. f \in frames /\ Num(f) = n /\ Matches(f) /\ IsFrame(Due, f) /\ Stored(f) /\ f.seq = i
      BY <1>3, <2>2, <2>6, <2>7
    <2>9. ~Covers(conn.after, f)
      BY <1>7, <2>2, <2>8, ReplayPlaces
    <2>. QED
      BY <2>8, <2>9
  <1>8. \A f, g \in S : Num(f) = Num(g) => f = g
    <2>. SUFFICES ASSUME NEW f \in S, NEW g \in S, Num(f) = Num(g) PROVE f = g
      OBVIOUS
    <2>1. PICK i \in Page : \E k \in Parts(i) : f = Frames(i, Kept)[k]
      BY <1>4
    <2>2. PICK k \in Parts(i) : f = Frames(i, Kept)[k]
      BY <2>1
    <2>3. PICK j \in Page : \E m \in Parts(j) : g = Frames(j, Kept)[m]
      BY <1>4
    <2>4. PICK m \in Parts(j) : g = Frames(j, Kept)[m]
      BY <2>3
    <2>5. k \in {1, 2} /\ m \in {1, 2} /\ Num(f) = 2 * i - 2 + k /\ Num(g) = 2 * j - 2 + m
      BY <1>3, <2>2, <2>4
    <2>6. i \in Int /\ j \in Int
      BY <1>2
    <2>7. i = j /\ k = m
      <3>1. 2 * i - 2 + k = 2 * j - 2 + m
        BY <2>5
      <3>. HIDE DEF frames, S, u, b
      <3>2. CASE k = m
        BY <2>5, <2>6, <3>1, <3>2
      <3>3. CASE k # m
        <4>1. k - m \in {1, -1}
          BY <2>5, <3>3
        <4>2. 2 * (j - i) = k - m
          BY <2>5, <2>6, <3>1
        <4>. QED
          BY <2>6, <4>1, <4>2
      <3>. QED
        BY <3>2, <3>3
    <2>. QED
      BY <2>2, <2>4, <2>7
  <1>9. page = InOrder(S, [f \in S |-> 2 * f.seq + f.part])
    BY DEF PageFrames
  <1>. HIDE DEF frames, S, u
  <1>10. PICK key : key = [f \in S |-> 2 * f.seq + f.part]
    OBVIOUS
  <1>11. \A f \in S : key[f] = Num(f) + 2 /\ key[f] \in 1 .. b
    <2>. SUFFICES ASSUME NEW f \in S PROVE key[f] = Num(f) + 2 /\ key[f] \in 1 .. b
      OBVIOUS
    <2>1. f.seq \in Nat /\ f.part \in {1, 2} /\ Num(f) = 2 * f.seq - 2 + f.part /\ f.seq \in Page
      BY <1>6 DEF IsFrame, Num
    <2>2. key[f] = 2 * f.seq + f.part
      BY <1>10
    <2>. QED
      BY <1>1, <1>2, <2>1, <2>2
  <1>12. Keyed(S, key, b)
    <2>1. \A f, g \in S : key[f] = key[g] => f = g
      BY <1>6, <1>8, <1>11
    <2>2. key \in [S -> 1 .. b]
      BY <1>10, <1>11
    <2>. QED
      BY <2>1, <2>2 DEF Keyed
  <1>13. Ordered(S, key, page)
    <2>1. b \in Nat
      BY <1>1
    <2>. HIDE DEF b
    <2>. QED
      BY <1>9, <1>10, <1>12, <2>1, InOrderFacts
  <1>14. PICK c \in Nat : /\ c = Cardinality(S) /\ page \in [1 .. c -> S]
                          /\ \A m, n \in 1 .. c : m < n => key[page[m]] < key[page[n]]
                          /\ \A x \in S : \E n \in 1 .. c : page[n] = x
    BY <1>13 DEF Ordered
  <1>15. IsSeq(page) /\ DOMAIN page = 1 .. c /\ \A x \in DOMAIN page : page[x] \in S
    <2>1. page \in Seq(S)
      BY <1>14, SeqDef
    <2>. QED
      BY <1>14, <2>1 DEF IsSeq
  <1>16. Plain(page) /\ Fresh(page, aged)
    BY <1>6, <1>15 DEF Plain, Fresh
  <1>17. Run(Due, page, u, w)
    <2>1. \A x \in DOMAIN page : Stored(page[x]) => IsFrame(Due, page[x]) /\ u < Num(page[x]) /\ Num(page[x]) <= w
      BY <1>6, <1>15
    <2>2. ASSUME NEW x \in DOMAIN page, NEW y \in DOMAIN page, x < y PROVE Num(page[x]) < Num(page[y])
      <3>1. page[x] \in S /\ page[y] \in S
        BY <1>15
      <3>2. key[page[x]] < key[page[y]]
        BY <1>14, <1>15, <2>2
      <3>3. key[page[x]] = Num(page[x]) + 2 /\ key[page[y]] = Num(page[y]) + 2 /\ Num(page[x]) \in Int /\ Num(page[y]) \in Int
        BY <1>6, <1>11, <3>1
      <3>. QED
        BY <3>2, <3>3
    <2>3. ASSUME NEW n \in Due, u < n, n <= w PROVE \E x \in DOMAIN page : Stored(page[x]) /\ Num(page[x]) = n
      <3>1. PICK f \in S : Num(f) = n
        BY <1>7, <2>3
      <3>2. PICK x \in 1 .. c : page[x] = f
        BY <1>14
      <3>. QED
        BY <1>6, <1>15, <3>1, <3>2
    <2>. QED
      BY <2>1, <2>2, <2>3 DEF Run
  <1>18. Page = {} => page = <<>>
    <2>. SUFFICES ASSUME Page = {} PROVE page = <<>>
      OBVIOUS
    <2>1. S = {}
      BY <1>6
    <2>2. c = 0
      BY <1>14, <2>1, FS_EmptySet
    <2>3. page \in Seq({}) /\ Len(page) = 0
      BY <1>14, <2>1, <2>2, SeqDef
    <2>. QED
      BY <2>3
  <1>19. \A x \in DOMAIN page : Stored(page[x]) /\ \E i \in Page : \E k \in Parts(i) : page[x] = Frames(i, Kept)[k]
    <2>1. \A f \in S : f \in frames
      BY DEF S
    <2>. QED
      BY <1>4, <1>6, <1>15, <2>1
  <1>. QED
    BY <1>15, <1>16, <1>17, <1>18, <1>19 DEF u

LEMMA ReadPageKeeps ==
    ASSUME FeedInv, ReadPage
    PROVE  FeedInv'
  <1>1. Shapes /\ IsSeq(log) /\ LogOf(log) /\ PrunedInv /\ AgedInv /\ ClientInv /\ WireInv /\ ConnInv /\ QueueInv
    BY DEF FeedInv, Shapes
  <1>2. conn.at = "pages" /\ sub' = sub /\ wire' = wire /\ UNCHANGED <<store, bus, filter, client>>
    BY DEF ReadPage
  <1>3. /\ UNCHANGED <<log, aged, pruned, processed, closed, filter, client>> /\ Due' = Due /\ Known' = Known /\ Place' = Place
        /\ Soon' = Soon
    BY <1>2, TaskKeeps DEF Soon
  <1>4. /\ wire = <<>> /\ conn.page = <<>> /\ Soon = Place /\ PageInv /\ Due \in SUBSET Nat /\ Len(log) \in Nat
        /\ Ord(Place) \in Int /\ Ord(conn.upto) \in Int /\ Ord(Place) <= Ord(conn.upto) /\ Clear(Due, Ord(Place), Ord(conn.upto))
        /\ conn.from \in Nat /\ conn.from >= aged /\ aged \in Nat /\ conn.from + 1 >= conn.after.seq
        /\ Ord(conn.upto) >= 2 * conn.from
    BY <1>2, ReplayPlaces
  <1>5. PICK page, more, from, upto :
           /\ page = PageFrames(Page, Kept) /\ more = (Cardinality(Page) = PageLimit)
           /\ from = (IF Page = {} THEN conn.from ELSE Maximum(Page))
           /\ upto = (IF Page = {} THEN conn.upto ELSE Whole(Maximum(Page)))
    OBVIOUS
  <1>6. conn' = [conn EXCEPT !.at = "page", !.page = page, !.more = more, !.from = from, !.upto = upto]
    BY <1>5 DEF ReadPage
  <1>7. /\ IsConn(conn') /\ conn'.at = "page" /\ conn'.page = page /\ conn'.from = from /\ conn'.upto = upto
        /\ conn'.after = conn.after /\ conn'.more = more
    BY <1>1, <1>6 DEF Shapes, IsConn
  <1>8. Page # {} => /\ Maximum(Page) \in Page /\ Maximum(Page) \in conn.from + 1 .. Len(log)
                     /\ \A i \in Page : i <= Maximum(Page)
    <2>1. Page \in SUBSET Rest /\ Rest \in SUBSET (1 .. Len(log)) /\ \A i \in Rest : i \in Seqs /\ i > conn.from
      BY <1>2, PageOfRest
    <2>2. \A i \in Page : i \in conn.from + 1 .. Len(log) /\ i \in 0 .. Len(log)
      BY <1>4, <2>1
    <2>3. Page \in SUBSET (0 .. Len(log))
      BY <2>2
    <2>. QED
      BY <1>4, <2>2, <2>3, Greatest
  <1>9. PICK w \in Int : w = Ord(upto) /\ (IF Page = {} THEN w = Ord(conn.upto) ELSE w = 2 * Maximum(Page))
    <2>1. CASE Page = {}
      BY <1>4, <1>5, <2>1
    <2>2. CASE Page # {}
      <3>1. Ord(upto) = 2 * Maximum(Page) /\ Maximum(Page) \in Int
        BY <1>4, <1>5, <1>8, <2>2 DEF Ord, Whole, Point
      <3>2. 2 * Maximum(Page) \in Int
        BY <3>1
      <3>. QED
        BY <2>2, <3>1, <3>2
    <2>. QED
      BY <2>1, <2>2
  <1>10. /\ IsSeq(page) /\ Plain(page) /\ Fresh(page, aged) /\ Run(Due, page, Ord(conn.upto), w)
         /\ Page = {} => page = <<>>
    BY <1>2, <1>5, <1>9, PageRuns
  <1>11. Ord(conn.upto) <= w /\ from \in 0 .. Len(log) /\ from >= aged /\ upto \in Known
    <2>1. CASE Page = {}
      BY <1>1, <1>4, <1>5, <1>9, <2>1 DEF PageInv
    <2>2. CASE Page # {}
      <3>1. Maximum(Page) \in 0 .. Len(log) /\ Maximum(Page) >= conn.from + 1
        BY <1>4, <1>8, <2>2
      <3>2. Ord(conn.upto) <= 2 * conn.from + 1
        <4>1. conn.upto = conn.after \/ conn.upto = Whole(conn.from)
          BY <1>4 DEF PageInv
        <4>2. CASE conn.upto = Whole(conn.from)
          BY <1>4, <4>2 DEF Ord, Whole, Point
        <4>3. CASE conn.upto = conn.after /\ conn.upto # Whole(conn.from)
          <5>1. conn.after.seq \in Nat /\ conn.after.part \in {0, 1} /\ Ord(conn.upto) = 2 * conn.after.seq - conn.after.part
            BY <1>1, <1>4, <4>3, KnownPlaces DEF PageInv, Ord
          <5>2. conn.from = IF conn.after.part = 0 THEN conn.after.seq ELSE conn.after.seq - 1
            BY <1>4, <4>3 DEF PageInv
          <5>. QED
            BY <5>1, <5>2
        <4>. QED
          BY <4>1, <4>2, <4>3
      <3>3. upto \in Known
        BY <1>5, <2>2, <3>1 DEF Known, Whole, Point
      <3>. QED
        BY SMTT(30), <1>4, <1>5, <1>9, <2>2, <3>1, <3>2, <3>3
    <2>. QED
      BY <2>1, <2>2
  <1>12. Run(Due, page, Ord(Soon), Ord(upto)) /\ Ord(Soon) <= Ord(upto)
    <2>1. Run(Due, page, Ord(Place), w)
      BY <1>4, <1>10, RunEarlier
    <2>. QED
      BY <1>4, <1>9, <1>11, <2>1
  <1>13. PageInv'
    <2>1. CASE Page = {}
      BY <1>3, <1>4, <1>5, <1>7, <1>10, <1>11, <1>12, <2>1, <1>2 DEF PageInv
    <2>2. CASE Page # {}
      <3>1. upto = Whole(from) /\ from >= conn.after.seq
        <4>1. conn.after.seq \in Int
          BY <1>1, <1>4, KnownPlaces DEF PageInv
        <4>. QED
          BY <1>4, <1>5, <1>8, <2>2, <4>1
      <3>. QED
        BY <1>3, <1>4, <1>7, <1>11, <1>12, <3>1 DEF PageInv
    <2>. QED
      BY <2>1, <2>2
  <1>14. Shapes' /\ ClientInv'
    BY <1>1, <1>2, <1>7, <1>10, TaskKeeps DEF Shapes
  <1>15. AgedInv' /\ WireInv'
    BY <1>1, <1>2, <1>3, <1>4, <1>7, <1>10, <1>11 DEF AgedInv, WireInv
  <1>16. ConnInv'
    BY <1>1, <1>2, <1>3, <1>7, <1>13 DEF ConnInv
  <1>17. QueueInv'
    <2>1. PICK a \in Int : a <= 2 * processed /\ (sub.reset \/ Run(Due, sub.queue, a, 2 * processed))
      BY <1>1, <1>2 DEF QueueInv
    <2>2. ~more => \A n \in Due : ~(w < n)
      <3>. SUFFICES ASSUME ~more, NEW n \in Due, w < n PROVE FALSE
        OBVIOUS
      <3>1. Page = Rest
        BY <1>2, <1>5, PageOfRest
      <3>2. n > Ord(conn.upto) /\ n \in Int
        BY <1>4, <1>11
      <3>3. PICK i \in Rest : \E k \in Parts(i) : i \in Seqs /\ i > conn.from /\ k \in {1, 2} /\ n = 2 * i - 2 + k
        BY <1>2, <3>2, DueIsLeft
      <3>4. i <= Maximum(Page) /\ i \in Int /\ Maximum(Page) \in Int /\ n <= 2 * i
        BY <1>8, <3>1, <3>3 DEF Seqs
      <3>. QED
        BY <1>9, <3>1, <3>2, <3>3, <3>4
    <2>3. Read' => Clear(Due, Ord(upto), a)
      BY <1>7, <1>9, <2>2 DEF Read, Clear
    <2>. QED
      BY <1>1, <1>2, <1>3, <1>7, <1>10, <2>1, <2>3 DEF QueueInv
  <1>. QED
    BY <1>2, <1>14, <1>15, <1>16, <1>17, TaskKeeps

\* Every step keeps the invariant, as long as no prune falls where it may not.
LEMMA NextKeeps ==
    ASSUME PruneDuring = {}, FeedInv, [Next]_vars
    PROVE  FeedInv'
  <1>1. CASE TurnBegins \/ TextRecorded \/ TurnEnds \/ Noted
    <2>1. PICK e : Follows(e) /\ log' = Append(log, e)
      BY <1>1, CommitActions
    <2>2. UNCHANGED <<aged, pruned, bus, filter, stream, client>>
      BY <1>1, CommitActions
    <2>. QED
      BY <2>1, <2>2, CommitKeeps
  <1>2. CASE Delta \/ Flush
    BY <1>2, DeltaKeeps
  <1>3. CASE Announce
    BY <1>3, AnnounceKeeps
  <1>4. CASE CheckHead \/ CheckAge
    BY <1>4, CheckHeadKeeps, CheckAgeKeeps
  <1>5. CASE ReadPage \/ YieldReplayed \/ PageIsDone
    BY <1>5, ReadPageKeeps, YieldReplayedKeeps, PageIsDoneKeeps
  <1>6. CASE CaughtUp \/ EndOfBus \/ AskHeld
    BY <1>6, StepsKeep, SettleKeeps
  <1>7. CASE GoLive \/ YieldSlow \/ YieldNext \/ YieldSnapshot
    BY <1>7, GoLiveKeeps, YieldSlowKeeps, YieldNextKeeps, YieldSnapshotKeeps
  <1>8. CASE Drop \/ Restart \/ HangUp
    BY <1>8, GoneActions, GoneKeeps
  <1>9. CASE Connect \/ Receive \/ Stop
    BY <1>9, ConnectKeeps, ReceiveKeeps, StopKeeps
  <1>10. CASE \E to \in 0 .. MaxEvents : Prune(to)
    BY <1>10, PruneKeeps
  <1>11. CASE UNCHANGED vars
    <2>1. /\ log' = log /\ aged' = aged /\ pruned' = pruned /\ processed' = processed /\ closed' = closed /\ filter' = filter
          /\ sub' = sub /\ conn' = conn /\ wire' = wire /\ client' = client
      BY <1>11 DEF vars, store, bus, stream
    <2>2. Due' = Due /\ Known' = Known
      BY <2>1, SameLog
    <2>3. (Shapes => Shapes') /\ (PrunedInv => PrunedInv') /\ (AgedInv => AgedInv') /\ (ClientInv => ClientInv')
      BY <2>1, <2>2 DEF Shapes, PrunedInv, AgedInv, ClientInv
    <2>4. Place' = Place /\ Soon' = Soon
      BY <2>1 DEF Place, Soon
    <2>5. WireInv => WireInv'
      BY <2>1, <2>2, <2>4 DEF WireInv
    <2>6. ConnInv => ConnInv'
      BY <2>1, <2>2, <2>4 DEF ConnInv, PageInv, Reaches
    <2>7. QueueInv => QueueInv'
      <3>1. Read' <=> Read
        BY <2>1 DEF Read
      <3>. QED
        BY <2>1, <2>2, <3>1 DEF QueueInv
    <2>. QED
      BY <2>1, <2>3, <2>5, <2>6, <2>7 DEF FeedInv
  <1>. QED
    BY <1>1, <1>2, <1>3, <1>4, <1>5, <1>6, <1>7, <1>8, <1>9, <1>10, <1>11 DEF Next, Agent, Task, Around

-----------------------------------------------------------------------------
(***************************************************************************)
(* The stream is a feed: what the client is past only ever goes on by one. *)
(***************************************************************************)

Past(D, a) == {n \in D : n <= a}

LEMMA PastFacts ==
    ASSUME NEW m \in Nat, NEW D \in SUBSET (1 .. m), NEW a \in Int, NEW b \in Int, a <= b
    PROVE  /\ Cardinality(Past(D, a)) \in Nat /\ Cardinality(Past(D, b)) \in Nat
           /\ Cardinality(Past(D, a)) <= Cardinality(Past(D, b))
           /\ Clear(D, a, b) => Cardinality(Past(D, a)) = Cardinality(Past(D, b))
           /\ \A n \in D : a < n /\ n <= b /\ Clear(D, a, n - 1) /\ Clear(D, n, b) =>
                 Cardinality(Past(D, b)) = Cardinality(Past(D, a)) + 1
  <1>1. IsFiniteSet(D)
    <2>1. IsFiniteSet(1 .. m)
      BY FS_Interval
    <2>. QED
      BY <2>1, FS_Subset
  <1>2. \A n \in D : n \in Int /\ (n <= a => n <= b)
    OBVIOUS
  <1>3. Past(D, a) \in SUBSET Past(D, b) /\ Past(D, b) \in SUBSET D /\ Past(D, a) \in SUBSET D
    BY <1>2 DEF Past
  <1>4. /\ IsFiniteSet(Past(D, a)) /\ IsFiniteSet(Past(D, b))
        /\ Cardinality(Past(D, a)) \in Nat /\ Cardinality(Past(D, b)) \in Nat
        /\ Cardinality(Past(D, a)) <= Cardinality(Past(D, b))
    BY <1>1, <1>3, FS_Subset, FS_CardinalityType
  <1>5. Clear(D, a, b) => Past(D, a) = Past(D, b)
    <2>1. Clear(D, a, b) => \A n \in D : n <= b => n <= a
      BY <1>2 DEF Clear
    <2>. QED
      BY <1>2, <2>1 DEF Past
  <1>6. ASSUME NEW n \in D, a < n, n <= b, Clear(D, a, n - 1), Clear(D, n, b)
        PROVE  Cardinality(Past(D, b)) = Cardinality(Past(D, a)) + 1
    <2>1. \A k \in D : k <= b <=> k <= a \/ k = n
      <3>1. \A k \in D : a < k /\ k <= n - 1 => FALSE
        BY <1>6 DEF Clear
      <3>2. \A k \in D : n < k /\ k <= b => FALSE
        BY <1>6 DEF Clear
      <3>. QED
        BY <1>2, <1>6, <3>1, <3>2
    <2>2. Past(D, b) = Past(D, a) \cup {n} /\ n \notin Past(D, a)
      <3>1. ~(n <= a)
        BY <1>2, <1>6
      <3>. QED
        BY <1>6, <2>1, <3>1 DEF Past
    <2>. QED
      BY <1>4, <2>2, FS_AddElement
  <1>. QED
    BY <1>4, <1>5, <1>6

\* What the abstract feed sees of a state.
Total == Position(Whole(Len(log)))
Got   == Position(Place)
Told  == (client.id = NoPoint /\ conn.at = "off") \/ (wire # <<>> /\ wire[1].kind = "gone")

LEMMA Positions ==
    ASSUME IsSeq(log), LogOf(log), NEW p \in Known
    PROVE  /\ Position(p) = Cardinality(Past(Due, Ord(p))) /\ Position(p) \in Nat
           /\ Total = Cardinality(Past(Due, 2 * Len(log))) /\ Total \in Nat /\ Position(p) <= Total
  <1>1. Len(log) \in Nat /\ Due \in SUBSET (1 .. 2 * Len(log)) /\ 2 * Len(log) \in Nat
    BY DEF IsSeq, Due
  <1>2. Ord(p) \in Int /\ Ord(p) <= 2 * Len(log)
    BY KnownPlaces
  <1>3. Position(p) = Cardinality(Past(Due, Ord(p)))
    BY DEF Position, Past, Ord
  <1>4. Total = Cardinality(Past(Due, 2 * Len(log)))
    <2>1. Ord(Whole(Len(log))) = 2 * Len(log)
      BY <1>1 DEF Ord, Whole, Point
    <2>2. Total = Cardinality(Past(Due, Ord(Whole(Len(log)))))
      BY DEF Total, Position, Past, Ord
    <2>. QED
      BY <2>1, <2>2
  <1>5. /\ Cardinality(Past(Due, Ord(p))) \in Nat /\ Cardinality(Past(Due, 2 * Len(log))) \in Nat
        /\ Cardinality(Past(Due, Ord(p))) <= Cardinality(Past(Due, 2 * Len(log)))
    <2>1. 2 * Len(log) \in Int
      BY <1>1
    <2>. QED
      BY <1>1, <1>2, <2>1, PastFacts
  <1>. QED
    BY <1>3, <1>4, <1>5

LEMMA GotFacts == FeedInv => Got \in Nat /\ Total \in Nat /\ Got <= Total
  <1>. SUFFICES ASSUME FeedInv PROVE Got \in Nat /\ Total \in Nat /\ Got <= Total
    OBVIOUS
  <1>1. Place \in Known /\ IsSeq(log) /\ LogOf(log)
    BY ClientPlaces DEF FeedInv, Shapes
  <1>. QED
    BY <1>1, Positions DEF Got

LEMMA GotLater == FeedInv' => (Got \in Nat /\ Total \in Nat /\ Got <= Total)'
  BY GotFacts, PTL

\* A step that the feed allows.
LEMMA FeedAllows ==
    ASSUME FeedInv, FeedInv', Total' >= Total,
           \/ Got' = Got
           \/ ~Told /\ ~Told' /\ Got' = Got + 1 /\ Total' = Total
           \/ Told /\ ~Told' /\ Got <= Got'
    PROVE  Abstract!FNext
  <1>1. Got \in Nat /\ Total \in Nat /\ Got <= Total
    BY GotFacts
  <1>2. Got' \in Nat /\ Total' \in Nat /\ Got' <= Total'
    BY GotLater
  <1>3. Told \in BOOLEAN /\ Told' \in BOOLEAN
    BY DEF Told
  <1>. DEFINE h == Position(Whole(Len(log)))
              g == Position(IF client.id = NoPoint THEN Whole(client.base) ELSE client.id)
              t == (client.id = NoPoint /\ conn.at = "off") \/ (wire # <<>> /\ wire[1].kind = "gone")
  <1>4. h = Total /\ g = Got /\ t = Told /\ h' = Total' /\ g' = Got' /\ t' = Told'
    BY DEF Total, Got, Told, Place
  <1>5. Abstract!FNext <=> \/ h' >= h /\ g' = g /\ t' = t
                           \/ ~t /\ g < h /\ g' = g + 1 /\ h' = h /\ t' = t
                           \/ h' >= h /\ t' = TRUE /\ g' \in g .. h'
                           \/ t /\ h' >= h /\ t' = FALSE /\ g' \in g .. h'
    BY DEF Abstract!FNext, Abstract!Happen, Abstract!Get, Abstract!Tell, Abstract!Start, Abstract!Grow
  <1>. HIDE DEF h, g, t
  <1>6. CASE Got' = Got
    <2>1. CASE Told' = Told
      BY <1>4, <1>5, <1>6, <2>1
    <2>2. CASE Told' # Told
      <3>1. Told' = TRUE \/ (Told /\ Told' = FALSE)
        BY <1>3, <2>2
      <3>2. Got' \in Got .. Total'
        BY <1>1, <1>2, <1>6
      <3>. QED
        BY <1>4, <1>5, <3>1, <3>2
    <2>. QED
      BY <2>1, <2>2
  <1>7. CASE ~Told /\ ~Told' /\ Got' = Got + 1 /\ Total' = Total
    <2>1. Got < Total
      BY <1>1, <1>2, <1>7
    <2>2. Told' = Told
      BY <1>3, <1>7
    <2>. QED
      BY <1>4, <1>5, <1>7, <2>1, <2>2
  <1>8. CASE Told /\ ~Told' /\ Got <= Got'
    <2>1. Got' \in Got .. Total' /\ Told' = FALSE
      BY <1>1, <1>2, <1>3, <1>8
    <2>. QED
      BY <1>4, <1>5, <1>8, <2>1
  <1>. QED
    BY <1>6, <1>7, <1>8

\* A step that leaves the client where it is, the log the same or longer.
LEMMA StayAllowed ==
    ASSUME FeedInv, FeedInv', Place' = Place, filter' = filter, log' = log \/ \E e : Follows(e) /\ log' = Append(log, e)
    PROVE  Abstract!FNext
  <1>1. IsSeq(log) /\ LogOf(log) /\ Len(log) \in Nat /\ Place \in Known /\ IsSeq(log') /\ LogOf(log')
    BY ClientPlaces DEF FeedInv, Shapes
  <1>2. CASE log' = log
    <2>1. Due' = Due
      BY <1>2, SameLog
    <2>2. Got' = Got /\ Total' = Total /\ Total \in Nat
      BY <1>2, <2>1, GotFacts DEF Got, Total, Position
    <2>. QED
      BY <2>2, FeedAllows
  <1>3. CASE log' # log
    <2>1. PICK e : Follows(e) /\ log' = Append(log, e)
      BY <1>3
    <2>2. Due' \in SUBSET Nat /\ Due \subseteq Due' /\ (\A n \in Due' \ Due : n > 2 * Len(log)) /\ (\A n \in Due' : n <= 2 * Len(log'))
      BY <1>1, <2>1, DueGrows
    <2>3. Ord(Place) \in Int /\ Ord(Place) <= 2 * Len(log) /\ Len(log') = Len(log) + 1 /\ Place \in Known'
      BY <1>1, <2>1, KnownPlaces, CommitKeepsLog DEF Known
    <2>4. PICK D : D = Due'
      OBVIOUS
    <2>5. Past(D, Ord(Place)) = Past(Due, Ord(Place)) /\ Past(D, 2 * Len(log)) = Past(Due, 2 * Len(log))
      <3>1. \A n \in D : n <= 2 * Len(log) => n \in Due
        BY <1>1, <2>2, <2>4
      <3>2. \A n \in D : n <= Ord(Place) => n <= 2 * Len(log)
        BY <1>1, <2>2, <2>3, <2>4
      <3>. QED
        BY <2>2, <2>4, <3>1, <3>2 DEF Past
    <2>6. /\ Got = Cardinality(Past(Due, Ord(Place))) /\ Total = Cardinality(Past(Due, 2 * Len(log)))
      BY <1>1, Positions DEF Got
    <2>7. Got' = Cardinality(Past(D, Ord(Place))) /\ Total' = Cardinality(Past(D, 2 * Len(log')))
      <3>1. Got' = Cardinality(Past(D, Ord(Place)))
        BY <2>4 DEF Got, Position, Past, Ord
      <3>2. Total' = Cardinality(Past(D, 2 * Len(log')))
        <4>1. 2 * Whole(Len(log')).seq - Whole(Len(log')).part = 2 * Len(log')
          BY <1>1, <2>3 DEF Whole, Point
        <4>2. Total' = Cardinality({n \in D : n <= 2 * Whole(Len(log')).seq - Whole(Len(log')).part})
          BY <2>4 DEF Total, Position
        <4>. QED
          BY <4>1, <4>2 DEF Past
      <3>. QED
        BY <3>1, <3>2
    <2>8. Cardinality(Past(D, 2 * Len(log))) <= Cardinality(Past(D, 2 * Len(log')))
      <3>1. 2 * Len(log) \in Int /\ 2 * Len(log') \in Int /\ 2 * Len(log) <= 2 * Len(log') /\ 2 * Len(log') \in Nat
        BY <1>1, <2>3
      <3>2. D \in SUBSET (1 .. 2 * Len(log'))
        BY <2>4 DEF Due
      <3>. QED
        BY <3>1, <3>2, PastFacts
    <2>. QED
      BY <2>5, <2>6, <2>7, <2>8, FeedAllows
  <1>. QED
    BY <1>2, <1>3

\* A page that just loaded starts from now.
LEMMA ConnectAllowed ==
    ASSUME FeedInv, FeedInv', Connect
    PROVE  Abstract!FNext
  <1>1. conn.at = "off" /\ UNCHANGED <<log, processed, filter, wire>> /\ wire = <<>>
    BY DEF Connect, store, bus, FeedInv, WireInv
  <1>2. CASE client.id # NoPoint
    <2>1. client' = client
      BY <1>2 DEF Connect
    <2>. QED
      BY <1>1, <2>1, StayAllowed DEF Place
  <1>3. CASE client.id = NoPoint
    <2>1. client' = [client EXCEPT !.base = processed, !.view = {}]
      BY <1>3 DEF Connect
    <2>2. client'.id = NoPoint /\ client'.base = processed
      BY <1>3, <2>1 DEF FeedInv, Shapes, IsClient
    <2>3. conn'.at = "held"
      <3>1. conn' = [Idle EXCEPT !.at = "held", !.after = client.id, !.upto = Whole(processed)]
        BY <1>3 DEF Connect
      <3>. QED
        BY <3>1, IdleFacts DEF IsConn
    <2>4. Told /\ ~Told'
      BY <1>1, <1>3, <2>3 DEF Told
    <2>5. Place = Whole(client.base) /\ Place' = Whole(processed)
      BY <1>3, <2>2 DEF Place
    <2>6. /\ IsSeq(log) /\ LogOf(log) /\ Len(log) \in Nat /\ Place \in Known /\ Due' = Due /\ Len(log') = Len(log)
          /\ client.base \in Nat /\ processed \in 0 .. Len(log) /\ client.base <= processed
      BY <1>1, ClientPlaces, SameLog DEF FeedInv, Shapes, ClientInv, PrunedInv
    <2>7. Whole(processed) \in Known
      BY <2>6 DEF Known, Whole, Point
    <2>8. /\ Got = Cardinality(Past(Due, Ord(Whole(client.base)))) /\ Position(Whole(processed)) = Cardinality(Past(Due, Ord(Whole(processed))))
          /\ Total \in Nat
      BY <2>5, <2>6, <2>7, Positions DEF Got
    <2>9. Got' = Position(Whole(processed)) /\ Total' = Total
      BY <1>1, <2>5, <2>6 DEF Got, Total, Position
    <2>10. Got <= Got'
      <3>1. Ord(Whole(client.base)) = 2 * client.base /\ Ord(Whole(processed)) = 2 * processed
        BY <2>6 DEF Ord, Whole, Point
      <3>2. 2 * client.base \in Int /\ 2 * processed \in Int /\ 2 * client.base <= 2 * processed /\ 2 * Len(log) \in Nat
        BY <2>6
      <3>3. Due \in SUBSET (1 .. 2 * Len(log))
        BY DEF Due
      <3>4. Cardinality(Past(Due, 2 * client.base)) <= Cardinality(Past(Due, 2 * processed))
        BY <3>2, <3>3, PastFacts
      <3>. QED
        BY <2>8, <2>9, <3>1, <3>4
    <2>. QED
      BY <2>4, <2>8, <2>9, <2>10, FeedAllows
  <1>. QED
    BY <1>2, <1>3

\* A frame that arrives is the next one the client asked for, or tells it its place.
LEMMA ReceiveAllowed ==
    ASSUME FeedInv, FeedInv', Receive
    PROVE  Abstract!FNext
  <1>1. /\ wire # <<>> /\ wire' = <<>> /\ UNCHANGED <<log, aged, pruned, processed, closed, filter, sub, conn>>
        /\ client'.base = client.base
    BY Received
  <1>2. /\ Place \in Known /\ Ord(Place) \in Int /\ Due \in SUBSET Nat /\ Len(log) \in Nat /\ IsSeq(log) /\ LogOf(log)
        /\ Due' = Due /\ Known' = Known
    BY <1>1, ClientPlaces, SameLog DEF FeedInv, Shapes
  <1>3. conn.at \in {"page", "live", "over"} /\ conn'.at = conn.at /\ WireInv
    BY <1>1 DEF FeedInv, WireInv
  <1>4. ~Told' /\ (Told <=> wire[1].kind = "gone")
    BY <1>1, <1>3 DEF Told
  <1>5. Total' = Total /\ Total \in Nat
    BY <1>1, <1>2, GotFacts DEF Total, Position
  <1>6. 2 * Len(log) \in Nat /\ Due \in SUBSET (1 .. 2 * Len(log))
    BY <1>2 DEF Due
  <1>7. ASSUME NEW p \in Known, client'.id = p
        PROVE  Place' = p /\ Got = Cardinality(Past(Due, Ord(Place))) /\ Got' = Cardinality(Past(Due, Ord(p))) /\ Ord(p) \in Int
    <2>1. p # NoPoint /\ Ord(p) \in Int
      BY <1>2, KnownPlaces
    <2>2. Place' = p
      BY <1>7, <2>1 DEF Place
    <2>3. Got' = Position(p)
      BY <1>2, <2>2 DEF Got, Position
    <2>4. Got = Cardinality(Past(Due, Ord(Place)))
      BY <1>2, Positions DEF Got
    <2>5. Position(p) = Cardinality(Past(Due, Ord(p)))
      BY <1>2, Positions
    <2>. QED
      BY <2>1, <2>2, <2>3, <2>4, <2>5
  <1>8. CASE wire[1].kind \in {"slow", "gone"}
    <2>1. PICK p : p = Point(wire[1].seq, wire[1].part)
      OBVIOUS
    <2>2. p \in Known /\ client'.id = p /\ Ord(p) = Ord(wire[1])
      BY <1>1, <1>3, <1>8, <2>1, Received DEF WireInv, Ord, Point
    <2>3. Ord(Place) <= Ord(p) /\ (wire[1].kind = "slow" => Clear(Due, Ord(Place), Ord(p)))
      BY <1>1, <1>3, <1>8, <2>2 DEF WireInv
    <2>4. Got = Cardinality(Past(Due, Ord(Place))) /\ Got' = Cardinality(Past(Due, Ord(p))) /\ Ord(p) \in Int
      BY <1>7, <2>2
    <2>5. /\ Cardinality(Past(Due, Ord(Place))) <= Cardinality(Past(Due, Ord(p)))
          /\ Clear(Due, Ord(Place), Ord(p)) => Cardinality(Past(Due, Ord(Place))) = Cardinality(Past(Due, Ord(p)))
      BY <1>2, <1>6, <2>3, <2>4, PastFacts
    <2>6. Got <= Got' /\ (wire[1].kind = "slow" => Got' = Got)
      BY <2>3, <2>4, <2>5
    <2>7. wire[1].kind = "slow" \/ Told
      BY <1>4, <1>8
    <2>. QED
      BY <1>4, <1>5, <2>6, <2>7, FeedAllows
  <1>9. CASE wire[1].kind \notin {"slow", "gone"} /\ Stored(wire[1])
    <2>1. PICK f : f = wire[1]
      OBVIOUS
    <2>2. client'.id = After(f) /\ After(f) \in Known
      BY <1>1, <1>9, <2>1, Received, ClientPlaces
    <2>3. IsFrame(Due, f) /\ Ord(Place) < Num(f) /\ Clear(Due, Ord(Place), Num(f) - 1)
      BY <1>1, <1>3, <1>9, <2>1 DEF WireInv
    <2>4. Num(f) <= Ord(After(f)) /\ Clear(Due, Num(f), Ord(After(f))) /\ Num(f) \in Due /\ Num(f) \in Int
      BY <1>1, <1>9, <2>1, <2>2, <2>3, ClientPlaces DEF IsFrame
    <2>5. Got = Cardinality(Past(Due, Ord(Place))) /\ Got' = Cardinality(Past(Due, Ord(After(f)))) /\ Ord(After(f)) \in Int
      BY <1>7, <2>2
    <2>6. Ord(Place) <= Ord(After(f))
      BY <1>2, <2>3, <2>4, <2>5
    <2>7. Got' = Got + 1
      <3>1. PICK a \in Int, b \in Int, n \in Due : a = Ord(Place) /\ b = Ord(After(f)) /\ n = Num(f)
        BY <1>2, <2>4, <2>5
      <3>2. a <= b /\ a < n /\ n <= b /\ Clear(Due, a, n - 1) /\ Clear(Due, n, b)
        BY <2>3, <2>4, <2>6, <3>1
      <3>3. \A k \in Due : a < k /\ k <= b /\ Clear(Due, a, k - 1) /\ Clear(Due, k, b) =>
               Cardinality(Past(Due, b)) = Cardinality(Past(Due, a)) + 1
        BY <1>6, <3>2, PastFacts
      <3>. QED
        BY <2>5, <3>1, <3>2, <3>3
    <2>8. ~Told
      BY <1>4, <1>9
    <2>. QED
      BY <1>4, <1>5, <2>7, <2>8, FeedAllows
  <1>10. CASE wire[1].kind \notin {"slow", "gone"} /\ ~Stored(wire[1])
    <2>1. client'.id = client.id
      BY <1>10, Received
    <2>. QED
      BY <1>1, <2>1, StayAllowed DEF Place
  <1>. QED
    BY <1>8, <1>9, <1>10

LEMMA InitAllowed ==
    ASSUME Init
    PROVE  Abstract!FInit
  <1>1. FeedInv
    BY InitFeed
  <1>2. Due = {}
    <2>1. Len(log) = 0
      BY EmptyFacts DEF Init
    <2>. QED
      BY <2>1 DEF Due, Seqs
  <1>3. \A p : Position(p) = 0
    BY <1>2, FS_EmptySet DEF Position
  <1>4. client.id = NoPoint /\ conn.at = "off"
    <2>1. conn = Idle /\ client = [id |-> NoPoint, base |-> 0, view |-> {}]
      BY DEF Init
    <2>. QED
      BY <2>1, IdleFacts
  <1>. QED
    BY <1>3, <1>4 DEF Abstract!FInit

\* Which steps touch the client: all the others leave it where it is.
LEMMA StepsAllowed ==
    ASSUME FeedInv, FeedInv', [Next]_vars
    PROVE  Abstract!FNext
  <1>1. CASE Connect \/ Receive
    BY <1>1, ConnectAllowed, ReceiveAllowed
  <1>2. CASE ~(Connect \/ Receive)
    <2>1. client' = client /\ filter' = filter
      BY <1>2 DEF Next, Agent, Task, Around, TurnBegins, TextRecorded, TurnEnds, Noted, Commit, Delta, Flush, Announce, CheckHead,
                  CheckAge, ReadPage, YieldReplayed, PageIsDone, CaughtUp, GoLive, YieldSlow, YieldNext, AskHeld, YieldSnapshot,
                  EndOfBus, HangUp, Drop, Stop, Restart, Prune, vars
    <2>2. log' = log \/ \E e : Follows(e) /\ log' = Append(log, e)
      <3>1. CASE TurnBegins \/ TextRecorded \/ TurnEnds \/ Noted
        BY <3>1, CommitActions
      <3>2. CASE Drop \/ Restart \/ HangUp
        BY <3>2, GoneActions
      <3>3. CASE ~(TurnBegins \/ TextRecorded \/ TurnEnds \/ Noted \/ Drop \/ Restart \/ HangUp)
        BY <1>2, <3>3 DEF Next, Agent, Task, Around, Delta, Flush, Announce, CheckHead, CheckAge, ReadPage, YieldReplayed, PageIsDone,
                          CaughtUp, GoLive, YieldSlow, YieldNext, AskHeld, YieldSnapshot, EndOfBus, Stop, Prune, vars, store
      <3>. QED
        BY <3>1, <3>2, <3>3
    <2>3. Place' = Place
      BY <2>1 DEF Place
    <2>. QED
      BY <2>1, <2>2, <2>3, StayAllowed
  <1>. QED
    BY <1>1, <1>2

\* What is due, what is on its way and where the client is always fit together, so
\* long as retention passes only what no stream is about to need (stream/bus.py,
\* stream/replay.py).
THEOREM StreamFits ==
    ASSUME PruneDuring = {}
    PROVE  Spec => []FeedInv
  <1>1. Init => FeedInv
    BY InitFeed
  <1>2. FeedInv /\ [Next]_vars => FeedInv'
    BY NextKeeps
  <1>. QED
    BY <1>1, <1>2, PTL DEF Spec

\* The stream gives its client the stored frames it asked for, each once and in
\* order, over pages, slow queues, lost connections and restarts; or tells it that
\* its place is gone (stream/bus.py, stream/replay.py, the SSE writer).
THEOREM StreamIsFeed ==
    ASSUME PruneDuring = {}
    PROVE  Spec => Feed
  <1>1. Init => Abstract!FInit
    BY InitAllowed
  <1>2. FeedInv /\ FeedInv' /\ [Next]_vars => Abstract!FNext
    BY StepsAllowed
  <1>3. Spec => []FeedInv
    BY StreamFits
  <1>. QED
    BY <1>1, <1>2, <1>3, PTL DEF Spec, Feed, Abstract!FSpec

-----------------------------------------------------------------------------
(***************************************************************************)
(* What the client shows.                                                  *)
(***************************************************************************)

\* What comes before a begin and an end, and that a turn's blocks are numbered.
TurnsOf(lg) ==
    \A i \in 1 .. Len(lg) :
        /\ lg[i].kind = "begin" => \A t \in 1 .. i - 1 : ~Opens(lg, t, i - 1)
        /\ lg[i].kind = "end" => Opens(lg, lg[i].turn, i - 1)
        /\ lg[i].kind = "text" =>
             \A j \in 1 .. i - 1 :
                lg[j].kind = "text" /\ lg[j].turn = lg[i].turn => lg[j].block < lg[i].block /\ j <= lg[i].prev
        /\ lg[i].block \in Nat /\ lg[i].len \in Nat

\* What the bus presents of the turn that runs after `processed', and what is
\* recorded of it and not announced yet.
Presents ==
    /\ running \in [turn : Nat, blocks : Nat, open : Nat]
    /\ live \in [shown : BOOLEAN, said : Nat, sent : Nat]
    /\ live.sent <= live.said /\ (live.shown => live.said > 0) /\ (~live.shown => live = NoLive)
    /\ Running = 0 => running.open = 0 /\ ~live.shown /\ \A t \in Seqs : ~Opens(log, t, processed)
    /\ Running # 0 => Opens(log, Running, processed)
    /\ running.open # 0 =>
         running.open \in 1 .. processed /\ log[running.open].kind = "text" /\ log[running.open].turn = Running
    /\ \A i \in 1 .. processed :
         log[i].kind = "text" /\ log[i].turn = Running => i <= running.open /\ log[i].block <= running.blocks

Waits ==
    \A i \in processed + 1 .. Len(log) :
        /\ \A j \in processed + 1 .. Len(log) : log[i].kind # "note" /\ log[j].kind # "note" => i = j
        /\ log[i].kind = "begin" => Running = 0
        /\ log[i].kind \in {"text", "end"} => log[i].turn = Running /\ log[i].prev = running.open
        /\ log[i].kind = "text" => log[i].block = NextBlock /\ (live.shown => log[i].len = live.said)

\* The number of an event's own frame.
Own(i) == IF log[i].prev # 0 THEN 2 * i ELSE 2 * i - 1

\* By the number n of the stream: a turn has not ended, has begun; a block was closed.
Unended(t, n) == \A j \in Seqs : log[j].kind = "end" /\ log[j].turn = t => n < Own(j)
Begun(t, n)   == t \in Seqs /\ log[t].kind = "begin" /\ (2 * t - 1 <= n \/ t <= processed)
ClosedBy(b, n)  == \E k \in Seqs : /\ log[k].prev # 0 /\ 2 * k - 1 <= n
                                 /\ log[k].turn = b.turn /\ log[log[k].prev].block = b.block

IsBlock(b) == b \in [turn : {b.turn}, block : {b.block}, len : {b.len}, done : BOOLEAN]

\* A view of one who has the stream up to number n.
Fits(vw, n) ==
    \A b \in vw : /\ IsBlock(b)
                  /\ b.done => ClosedBy(b, n)
                  /\ ~b.done => Begun(b.turn, n) /\ Unended(b.turn, n)

\* A stored frame says what its event does.
Says(f) ==
    /\ f.seq \in Seqs /\ f.part \in {1, 2} /\ f.turn = log[f.seq].turn
    /\ IF log[f.seq].prev # 0 /\ f.part = 1
       THEN f.kind = "close" /\ f.block = log[log[f.seq].prev].block
       ELSE /\ Num(f) = Own(f.seq)
            /\ f.kind = IF log[f.seq].kind = "text" THEN "open" ELSE log[f.seq].kind
            /\ log[f.seq].kind = "text" => f.block = log[f.seq].block /\ f.len = log[f.seq].len
Truthful(s) == \A x \in DOMAIN s : Stored(s[x]) => Says(s[x])

\* A live-only frame is about a turn that has not ended by number n.
Speaks(f, n) ==
    /\ f.kind \in {"open", "append", "snapshot"}
    /\ (f.kind = "snapshot" /\ f.blocks = {}) \/ (Begun(f.turn, n) /\ Unended(f.turn, n))
\* So it is in a queue, where the stored frames before it come first.
LiveInTurn(s, n) ==
    \A x \in DOMAIN s : ~Stored(s[x]) =>
        /\ Speaks(s[x], n)
        /\ \A y \in 1 .. x - 1 : Stored(s[y]) => Speaks(s[x], Num(s[y]))

AllStored(s) == \A x \in DOMAIN s : Stored(s[x])

AsksAll == {"turn", "block"} \subseteq filter.wants

FramesInv ==
    /\ Truthful(wire) /\ Truthful(sub.queue) /\ Truthful(conn.page)
    /\ wire # <<>> /\ ~Stored(wire[1]) /\ wire[1].kind \notin {"slow", "gone"} => Speaks(wire[1], Ord(Place))
    /\ conn.at = "live" /\ ~sub.reset => LiveInTurn(sub.queue, Ord(Soon))

PhaseInv ==
    /\ conn.at \in {"live", "snap"} => sub.live
    /\ conn.at \in {"off", "check", "age", "pages", "page", "caught", "held"} => ~sub.live
    /\ conn.at = "snap" => sub.stale /\ wire = <<>>
    /\ ~sub.live \/ conn.at = "snap" => AllStored(sub.queue)
    /\ AllStored(conn.page)

\* A view that shows what is open, and else what was closed.
Complete(vw) ==
    /\ Undone(vw) = AllOpen
    /\ \A b \in vw : IsBlock(b) /\ (b.done => ClosedBy(b, 2 * processed))

WholeInv ==
    conn.at = "live" /\ ~sub.stale /\ ~sub.reset /\ ~closed => Complete(Coming)

AgentInv  == TurnsOf(log) /\ Presents /\ Waits
StreamInv == Fits(client.view, Ord(Place)) /\ FramesInv /\ PhaseInv /\ WholeInv
ViewInv   == AgentInv /\ (AsksAll => StreamInv)

-----------------------------------------------------------------------------
(***************************************************************************)
(* What a view becomes, frame by frame.                                    *)
(***************************************************************************)

\* h gives the view after each of the first n frames of s.
Steps(vw, s, n, h) ==
    /\ h = [x \in 0 .. n |-> h[x]] /\ h[0] = vw
    /\ \A x \in 1 .. n : h[x] = Apply(h[x - 1], s[x])

LEMMA StepsExist ==
    ASSUME NEW vw, NEW s, IsSeq(s)
    PROVE  \E h : Steps(vw, s, Len(s), h)
  <1> DEFINE bad == {n \in 0 .. Len(s) : ~\E h : Steps(vw, s, n, h)}
  <1>1. Len(s) \in Nat
    BY DEF IsSeq
  <1>2. ASSUME bad # {}
        PROVE  FALSE
    <2>0. bad \in SUBSET Nat
      BY <1>1
    <2> HIDE DEF bad
    <2>1. PICK m \in bad : \A n \in bad : m <= n
      BY <1>2, <2>0, Smallest
    <2> USE DEF bad
    <2>2. m \in Nat /\ m <= Len(s) /\ ~\E h : Steps(vw, s, m, h)
      BY <1>1
    <2>3. m # 0
      <3> DEFINE h == [x \in 0 .. 0 |-> vw]
      <3>1. Steps(vw, s, 0, h)
        BY DEF Steps
      <3>. QED
        BY <2>2, <3>1
    <2>4. m - 1 \in 0 .. Len(s) /\ m - 1 \notin bad
      BY <1>1, <2>1, <2>2, <2>3
    <2>5. PICK g : Steps(vw, s, m - 1, g)
      BY <2>4
    <2> DEFINE h == [x \in 0 .. m |-> IF x = m THEN Apply(g[m - 1], s[m]) ELSE g[x]]
    <2>6. h = [x \in 0 .. m |-> h[x]]
      OBVIOUS
    <2>7. h[0] = vw
      BY <2>2, <2>3, <2>5 DEF Steps
    <2>8. ASSUME NEW x \in 1 .. m
          PROVE  h[x] = Apply(h[x - 1], s[x])
      <3>1. CASE x = m
        BY <2>2, <2>3, <3>1
      <3>2. CASE x # m
        <4>1. x \in 1 .. m - 1 /\ x - 1 \in 0 .. m /\ x \in 0 .. m /\ x - 1 # m
          BY <2>2, <3>2
        <4>2. g[x] = Apply(g[x - 1], s[x])
          BY <2>5, <4>1 DEF Steps
        <4>. QED
          BY <4>1, <4>2, <3>2
      <3>. QED
        BY <3>1, <3>2
    <2>9. Steps(vw, s, m, h)
      BY <2>6, <2>7, <2>8 DEF Steps
    <2>. QED
      BY <2>2, <2>9
  <1>. QED
    BY <1>1, <1>2

LEMMA StepsAgree ==
    ASSUME NEW vw, NEW s, NEW n \in Nat, NEW g, NEW h, Steps(vw, s, n, g), Steps(vw, s, n, h)
    PROVE  \A x \in 0 .. n : g[x] = h[x]
  <1> DEFINE bad == {x \in 0 .. n : g[x] # h[x]}
  <1>1. ASSUME bad # {}
        PROVE  FALSE
    <2>0. bad \in SUBSET Nat
      OBVIOUS
    <2> HIDE DEF bad
    <2>1. PICK m \in bad : \A x \in bad : m <= x
      BY <1>1, <2>0, Smallest
    <2> USE DEF bad
    <2>2. m # 0 /\ m \in 1 .. n
      BY DEF Steps
    <2>3. m - 1 \in 0 .. n /\ m - 1 \notin bad
      BY <2>1, <2>2
    <2>4. g[m - 1] = h[m - 1]
      BY <2>3
    <2>5. g[m] = Apply(g[m - 1], s[m]) /\ h[m] = Apply(h[m - 1], s[m])
      BY <2>2 DEF Steps
    <2>. QED
      BY <2>1, <2>4, <2>5
  <1>. QED
    BY <1>1

LEMMA ShowsSteps ==
    ASSUME NEW vw, NEW s, IsSeq(s), NEW h, Steps(vw, s, Len(s), h)
    PROVE  Shows(vw, s) = h[Len(s)]
  <1>1. Len(s) \in Nat
    BY DEF IsSeq
  <1> DEFINE after[n \in 0 .. Len(s)] == IF n = 0 THEN vw ELSE Apply(after[n - 1], s[n])
  <1>2. h = [n \in 0 .. Len(s) |-> IF n = 0 THEN vw ELSE Apply(h[n - 1], s[n])]
    BY <1>1 DEF Steps
  <1>3. after = [n \in 0 .. Len(s) |-> IF n = 0 THEN vw ELSE Apply(after[n - 1], s[n])]
    BY <1>2
  <1> HIDE DEF after
  <1>4. Steps(vw, s, Len(s), after)
    BY <1>1, <1>3 DEF Steps
  <1>5. Shows(vw, s) = after[Len(s)]
    BY DEF Shows, after
  <1>. QED
    BY <1>1, <1>4, <1>5, StepsAgree

LEMMA ShowsNothing ==
    ASSUME NEW vw
    PROVE  Shows(vw, <<>>) = vw
  <1>1. PICK h : Steps(vw, <<>>, Len(<<>>), h)
    BY EmptyFacts, StepsExist
  <1>. QED
    BY <1>1, EmptyFacts, ShowsSteps DEF Steps

LEMMA ShowsOneMore ==
    ASSUME NEW vw, NEW s, IsSeq(s), NEW f
    PROVE  Shows(vw, Append(s, f)) = Apply(Shows(vw, s), f)
  <1> DEFINE t == Append(s, f)
  <1>1. /\ IsSeq(t) /\ Len(s) \in Nat /\ Len(t) = Len(s) + 1
        /\ \A x \in 1 .. Len(s) : t[x] = s[x]
        /\ t[Len(s) + 1] = f
    <2>1. IsSeq(t) /\ Len(s) \in Nat /\ DOMAIN t = 1 .. Len(s) + 1
      BY AppendFacts
    <2>2. Len(t) = Len(s) + 1
      BY DEF IsSeq
    <2>. QED
      BY <2>1, <2>2, AppendFacts
  <1> HIDE DEF t
  <1>2. PICK h : Steps(vw, t, Len(t), h)
    BY <1>1, StepsExist
  <1> DEFINE g == [x \in 0 .. Len(s) |-> h[x]]
  <1>3. Steps(vw, s, Len(s), g)
    <2>1. g = [x \in 0 .. Len(s) |-> g[x]] /\ g[0] = vw
      BY <1>1, <1>2 DEF Steps
    <2>2. ASSUME NEW x \in 1 .. Len(s)
          PROVE  g[x] = Apply(g[x - 1], s[x])
      <3>1. x \in 1 .. Len(t) /\ x \in 0 .. Len(s) /\ x - 1 \in 0 .. Len(s) /\ t[x] = s[x]
        BY <1>1
      <3>. QED
        BY <1>2, <3>1 DEF Steps
    <2> HIDE DEF g
    <2>. QED
      BY <2>1, <2>2 DEF Steps
  <1>4. Shows(vw, s) = h[Len(s)]
    <2>1. Shows(vw, s) = g[Len(s)]
      <3> HIDE DEF g
      <3>. QED
        BY <1>3, ShowsSteps
    <2>. QED
      BY <1>1, <2>1
  <1>5. Shows(vw, t) = h[Len(t)]
    BY <1>1, <1>2, ShowsSteps
  <1>6. h[Len(t)] = Apply(h[Len(t) - 1], t[Len(t)]) /\ Len(t) - 1 = Len(s) /\ t[Len(t)] = f
    BY <1>1, <1>2 DEF Steps
  <1>. QED
    BY <1>4, <1>5, <1>6 DEF t

LEMMA ShowsHead ==
    ASSUME NEW vw, NEW s, IsSeq(s), s # <<>>
    PROVE  Shows(vw, s) = Shows(Apply(vw, Head(s)), Tail(s))
  <1> DEFINE t == Tail(s)
  <1>1. /\ IsSeq(t) /\ Len(s) \in Nat \ {0} /\ Len(t) = Len(s) - 1
        /\ \A x \in 1 .. Len(t) : t[x] = s[x + 1]
        /\ Head(s) = s[1]
    <2>1. IsSeq(t) /\ Len(s) \in Nat \ {0}
      BY TailFacts
    <2>2. Len(t) = Len(s) - 1
      BY <2>1 DEF IsSeq
    <2>. QED
      BY <2>1, <2>2, TailFacts
  <1> HIDE DEF t
  <1>2. PICK h : Steps(vw, s, Len(s), h)
    BY StepsExist
  <1> DEFINE g == [x \in 0 .. Len(t) |-> h[x + 1]]
  <1>3. Steps(Apply(vw, Head(s)), t, Len(t), g)
    <2>1. g = [x \in 0 .. Len(t) |-> g[x]] /\ g[0] = h[1]
      BY <1>1
    <2>2. h[1] = Apply(h[1 - 1], s[1]) /\ h[0] = vw
      <3>1. 1 \in 1 .. Len(s)
        BY <1>1
      <3>. QED
        BY <1>2, <3>1 DEF Steps
    <2>3. ASSUME NEW x \in 1 .. Len(t)
          PROVE  g[x] = Apply(g[x - 1], t[x])
      <3>1. x + 1 \in 1 .. Len(s) /\ x \in 0 .. Len(t) /\ x - 1 \in 0 .. Len(t) /\ t[x] = s[x + 1]
            /\ (x + 1) - 1 = (x - 1) + 1
        BY <1>1
      <3>2. h[x + 1] = Apply(h[(x + 1) - 1], s[x + 1])
        BY <1>2, <3>1 DEF Steps
      <3>3. g[x] = h[x + 1] /\ g[x - 1] = h[(x - 1) + 1]
        BY <3>1
      <3>. QED
        BY <3>1, <3>2, <3>3
    <2> HIDE DEF g
    <2>. QED
      BY <1>1, <2>1, <2>2, <2>3 DEF Steps
  <1>4. Shows(Apply(vw, Head(s)), t) = h[Len(t) + 1]
    <2>1. Shows(Apply(vw, Head(s)), t) = g[Len(t)]
      <3> HIDE DEF g
      <3>. QED
        BY <1>1, <1>3, ShowsSteps
    <2>. QED
      BY <1>1, <2>1
  <1>5. Shows(vw, s) = h[Len(s)]
    BY <1>2, ShowsSteps
  <1>. QED
    BY <1>1, <1>4, <1>5 DEF t

\* A frame on the wire comes before the queue.
LEMMA ShowsWire ==
    ASSUME NEW vw, NEW s, IsSeq(s), NEW f
    PROVE  /\ Shows(vw, <<f>> \o s) = Shows(Apply(vw, f), s)
           /\ Shows(vw, <<>> \o s) = Shows(vw, s)
  <1>1. <<>> \o s = s
    BY DEF IsSeq
  <1> DEFINE t == <<f>> \o s
  <1>2. IsSeq(t) /\ t # <<>> /\ Head(t) = f /\ Tail(t) = s
    <2>1. PICK S : s \in Seq(S)
      BY DEF IsSeq
    <2>2. s \in Seq(S \cup {f}) /\ <<f>> \in Seq(S \cup {f})
      BY <2>1
    <2>3. t \in Seq(S \cup {f}) /\ Len(t) = 1 + Len(s) /\ Len(s) \in Nat
      BY <2>2
    <2>4. \A x \in 1 .. Len(t) : t[x] = IF x = 1 THEN f ELSE s[x - 1]
      BY <2>2
    <2>5. t # <<>> /\ Head(t) = f
      BY <2>3, <2>4
    <2>6. Tail(t) = s
      <3>1. Tail(t) \in Seq(S \cup {f}) /\ Len(Tail(t)) = Len(s)
        BY <2>3, <2>5
      <3>2. \A x \in 1 .. Len(s) : Tail(t)[x] = s[x]
        BY <2>3, <2>4, <2>5
      <3>. QED
        BY <2>2, <3>1, <3>2
    <2>. QED
      BY <2>3, <2>5, <2>6 DEF IsSeq
  <1> HIDE DEF t
  <1>3. Shows(vw, t) = Shows(Apply(vw, f), s)
    BY <1>2, ShowsHead
  <1>. QED
    BY <1>1, <1>3 DEF t

-----------------------------------------------------------------------------
(***************************************************************************)
(* What a view shows, by the numbers of the stream.                        *)
(***************************************************************************)

LEMMA OwnIsDue ==
    ASSUME IsSeq(log), LogOf(log), AsksAll, NEW i \in Seqs, log[i].kind # "note"
    PROVE  Own(i) \in Due /\ (log[i].prev # 0 => 2 * i - 1 \in Due)
  <1>1. Len(log) \in Nat /\ i \in Nat
    BY DEF IsSeq, Seqs
  <1>2. \A k \in {1, 2} : 2 * i - 2 + k \in Due <=> k \in Parts(i) /\ Wanted(i, k)
    BY DueNumbers
  <1>3. "turn" \in filter.wants /\ "block" \in filter.wants
    BY DEF AsksAll
  <1>4. CASE log[i].prev # 0
    <2>1. Parts(i) = 1 .. 2 /\ Wanted(i, 1) /\ Wanted(i, 2)
      BY <1>3, <1>4 DEF Parts, Wanted, WantsBlocks
    <2>2. 1 \in Parts(i) /\ 2 \in Parts(i)
      BY <2>1
    <2>3. 2 * i - 2 + 1 \in Due /\ 2 * i - 2 + 2 \in Due
      BY <1>2, <2>1, <2>2
    <2>4. Own(i) = 2 * i - 2 + 2 /\ 2 * i - 1 = 2 * i - 2 + 1
      BY <1>1, <1>4 DEF Own
    <2>. QED
      BY <2>3, <2>4
  <1>5. CASE log[i].prev = 0
    <2>1. Parts(i) = 1 .. 1 /\ Wanted(i, 1)
      BY <1>3, <1>5 DEF Parts, Wanted, WantsBlocks
    <2>2. 1 \in Parts(i)
      BY <2>1
    <2>3. 2 * i - 2 + 1 \in Due
      BY <1>2, <2>1, <2>2
    <2>4. Own(i) = 2 * i - 2 + 1
      BY <1>1, <1>5 DEF Own
    <2>. QED
      BY <1>5, <2>3, <2>4
  <1>. QED
    BY <1>4, <1>5

\* Where nothing is due, nothing changes.
LEMMA Persists ==
    ASSUME IsSeq(log), LogOf(log), AsksAll, NEW n \in Int, NEW m \in Int, n <= m, Clear(Due, n, m)
    PROVE  /\ \A t : (Unended(t, n) => Unended(t, m)) /\ (Begun(t, n) => Begun(t, m))
           /\ \A b : ClosedBy(b, n) => ClosedBy(b, m)
           /\ \A vw : Fits(vw, n) => Fits(vw, m)
           /\ \A f : Speaks(f, n) => Speaks(f, m)
  <1>0. Len(log) \in Nat /\ Seqs = 1 .. Len(log)
    BY DEF IsSeq, Seqs
  <1>1. ASSUME NEW t, Unended(t, n), NEW j \in Seqs, log[j].kind = "end", log[j].turn = t
        PROVE  m < Own(j)
    <2>1. n < Own(j) /\ Own(j) \in Due /\ Own(j) \in Int
      <3>1. Own(j) \in Due
        BY <1>1, OwnIsDue
      <3>. QED
        BY <1>0, <1>1, <3>1 DEF Unended, Own
    <2>. QED
      BY <2>1 DEF Clear
  <1>2. \A t : Unended(t, n) => Unended(t, m)
    BY <1>1 DEF Unended
  <1>3. ASSUME NEW t, Begun(t, n)
        PROVE  Begun(t, m)
    <2>1. t \in Seqs /\ t \in Int /\ log[t].kind = "begin" /\ (2 * t - 1 <= n \/ t <= processed)
      BY <1>0, <1>3 DEF Begun
    <2>2. 2 * t - 1 <= n => 2 * t - 1 <= m
      BY <2>1
    <2>. QED
      BY <2>1, <2>2 DEF Begun
  <1>4. ASSUME NEW b, ClosedBy(b, n)
        PROVE  ClosedBy(b, m)
    <2>1. PICK k \in Seqs : /\ log[k].prev # 0 /\ 2 * k - 1 <= n
                            /\ log[k].turn = b.turn /\ log[log[k].prev].block = b.block
      BY <1>4 DEF ClosedBy
    <2>2. 2 * k - 1 <= m
      BY <1>0, <2>1
    <2>. QED
      BY <2>1, <2>2 DEF ClosedBy
  <1>. QED
    BY <1>2, <1>3, <1>4 DEF Fits, Speaks

LEMMA TextIsOfTurn ==
    ASSUME IsSeq(log), LogOf(log), TurnsOf(log), NEW i \in Seqs, log[i].kind = "text", NEW t, t = log[i].turn
    PROVE  /\ t \in Seqs /\ t < i /\ log[t].kind = "begin" /\ Unended(t, 2 * i)
           /\ \A j \in Seqs : log[j].kind = "end" /\ log[j].turn = t => i < j
  <1>0. Len(log) \in Nat /\ Seqs = 1 .. Len(log)
    BY DEF IsSeq, Seqs
  <1>1. t \in 1 .. i /\ log[t].kind = "begin" /\ \A j \in t + 1 .. i : log[j].kind \notin Marks
    BY <1>0 DEF LogOf, Opens
  <1>2. t \in Seqs /\ t < i
    BY <1>0, <1>1
  <1>3. ASSUME NEW j \in Seqs, log[j].kind = "end", log[j].turn = t
        PROVE  i < j
    <2>1. t \in 1 .. j - 1
      BY <1>0, <1>3 DEF TurnsOf, Opens
    <2>2. j \notin t + 1 .. i
      BY <1>1, <1>3 DEF Marks
    <2>. QED
      BY <1>0, <1>1, <2>1, <2>2
  <1>4. Unended(t, 2 * i)
    <2>1. \A j \in Seqs : i < j => 2 * i < Own(j)
      BY <1>0 DEF Own
    <2>. QED
      BY <1>3, <2>1 DEF Unended
  <1>. QED
    BY <1>1, <1>2, <1>3, <1>4

LEMMA BlockEdit ==
    ASSUME NEW b, IsBlock(b), NEW len
    PROVE  LET c == [b EXCEPT !.len = len]
           IN  IsBlock(c) /\ c.turn = b.turn /\ c.block = b.block /\ c.len = len /\ c.done = b.done
  BY DEF IsBlock

LEMMA ShownFacts ==
    ASSUME NEW f, NEW isDone \in BOOLEAN
    PROVE  LET c == Shown(f, isDone)
           IN  IsBlock(c) /\ c.turn = f.turn /\ c.block = f.block /\ c.len = f.len /\ c.done = isDone
  BY DEF IsBlock, Shown

\* The next due frame, applied to what fits before it.
LEMMA FitsFrame ==
    ASSUME IsSeq(log), LogOf(log), TurnsOf(log), AsksAll, NEW f, IsFrame(Due, f), Says(f),
           NEW n \in Int, n < Num(f), Clear(Due, n, Num(f) - 1), NEW vw, Fits(vw, n)
    PROVE  Fits(Apply(vw, f), Num(f))
  <1> DEFINE m == Num(f)
             i == f.seq
  <1>0. /\ Len(log) \in Nat /\ Seqs = 1 .. Len(log) /\ i \in Seqs /\ m \in Int /\ n <= m - 1
        /\ m = 2 * i - 2 + f.part /\ f.part \in {1, 2} /\ Due \in SUBSET Nat
    <2>1. Len(log) \in Nat /\ Seqs = 1 .. Len(log)
      BY DEF IsSeq, Seqs
    <2>2. Due \in SUBSET Nat
      BY DueNumbers
    <2>. QED
      BY <2>1, <2>2 DEF Says, Num
  <1>1. Fits(vw, m - 1)
    BY <1>0, Persists
  <1>2. ASSUME NEW t, Unended(t, m - 1), f.kind # "end" \/ f.turn # t
        PROVE  Unended(t, m)
    <2>1. ASSUME NEW j \in Seqs, log[j].kind = "end", log[j].turn = t
          PROVE  m < Own(j)
      <3>1. m - 1 < Own(j) /\ Own(j) \in {2 * j - 1, 2 * j} /\ j \in Int
        BY <1>0, <1>2, <2>1 DEF Unended, Own
      <3>2. ASSUME Own(j) = m
            PROVE  FALSE
        <4>1. j = i
          BY SMTT(30), <1>0, <3>1, <3>2
        <4>2. ~(log[i].prev # 0 /\ f.part = 1)
          BY <1>0, <3>2, <4>1 DEF Own
        <4>3. f.kind = "end" /\ f.turn = t
          BY <2>1, <4>1, <4>2 DEF Says
        <4>. QED
          BY <1>2, <4>3
      <3>3. Own(j) \in Int
        BY <3>1
      <3>. QED
        BY <1>0, <3>1, <3>2, <3>3
    <2>. QED
      BY <2>1 DEF Unended
  <1>3. ASSUME NEW b \in vw, b.done \/ f.kind # "end" \/ f.turn # b.turn
        PROVE  /\ IsBlock(b)
               /\ b.done => ClosedBy(b, m)
               /\ ~b.done => Begun(b.turn, m) /\ Unended(b.turn, m)
    <2>1. IsBlock(b) /\ (b.done => ClosedBy(b, m - 1)) /\ (~b.done => Begun(b.turn, m - 1) /\ Unended(b.turn, m - 1))
      BY <1>1 DEF Fits
    <2>2. ClosedBy(b, m - 1) => ClosedBy(b, m)
      BY <1>0 DEF ClosedBy
    <2>3. Begun(b.turn, m - 1) => Begun(b.turn, m)
      BY <1>0 DEF Begun
    <2>. QED
      BY <1>2, <1>3, <2>1, <2>2, <2>3
  <1>4. CASE f.kind = "close"
    <2>1. Apply(vw, f) = (vw \ At(vw, f)) \cup {Shown(f, TRUE)}
      BY <1>4 DEF Apply
    <2> DEFINE c == Shown(f, TRUE)
    <2>2. IsBlock(c) /\ c.turn = f.turn /\ c.block = f.block /\ c.done = TRUE
      BY ShownFacts
    <2>3. log[i].prev # 0 /\ f.part = 1 /\ f.turn = log[i].turn /\ f.block = log[log[i].prev].block
      BY <1>0, <1>4 DEF Says, LogOf
    <2> HIDE DEF c
    <2>4. ClosedBy(c, m)
      <3>1. 2 * i - 1 <= m
        BY <1>0, <2>3
      <3> HIDE DEF m, i
      <3>. QED
        BY <1>0, <2>2, <2>3, <3>1 DEF ClosedBy
    <2>5. f.kind # "end"
      BY <1>4
    <2>. QED
      <3>1. ASSUME NEW b \in Apply(vw, f)
            PROVE  IsBlock(b) /\ (b.done => ClosedBy(b, m)) /\ (~b.done => Begun(b.turn, m) /\ Unended(b.turn, m))
        <4>1. CASE b = c
          BY <2>2, <2>4, <4>1
        <4>2. CASE b # c
          <5>1. b \in vw
            BY <2>1, <4>2 DEF c
          <5>. QED
            BY <1>3, <2>5, <5>1
        <4>. QED
          BY <4>1, <4>2
      <3>. QED
        BY <3>1 DEF Fits
  <1>5. CASE f.kind = "open"
    <2>1. Apply(vw, f) = vw \/ Apply(vw, f) = vw \cup {Shown(f, FALSE)}
      BY <1>5 DEF Apply
    <2> DEFINE c == Shown(f, FALSE)
    <2>2. IsBlock(c) /\ c.turn = f.turn /\ c.done = FALSE
      BY ShownFacts
    <2>3. log[i].kind = "text" /\ f.turn = log[i].turn
      BY <1>0, <1>5 DEF Says, LogOf
    <2>4. f.turn \in Seqs /\ f.turn < i /\ log[f.turn].kind = "begin" /\ Unended(f.turn, 2 * i)
      BY <1>0, <2>3, TextIsOfTurn
    <2>5. Begun(f.turn, m)
      <3>1. f.turn \in Seqs /\ log[f.turn].kind = "begin"
        BY <2>4
      <3>2. f.turn \in Int /\ f.turn < i /\ i \in Int /\ m \in Int /\ 2 * i - 1 <= m
        BY <1>0, <2>4
      <3>3. 2 * f.turn - 1 <= m
        BY <3>2
      <3>. QED
        BY <3>1, <3>3 DEF Begun
    <2>6. Unended(f.turn, m)
      <3>1. \A j \in Seqs : Own(j) \in Int
        BY <1>0 DEF Own
      <3>. QED
        BY SMTT(30), <1>0, <2>4, <3>1 DEF Unended
    <2> HIDE DEF c
    <2>7. f.kind # "end"
      BY <1>5
    <2>. QED
      BY <1>3, <2>1, <2>2, <2>5, <2>6, <2>7 DEF Fits, c
  <1>6. CASE f.kind = "end"
    <2>1. Apply(vw, f) = {b \in vw : b.done \/ b.turn # f.turn}
      BY <1>6 DEF Apply
    <2>. QED
      BY <1>3, <2>1 DEF Fits
  <1>7. CASE f.kind \notin {"close", "open", "end"}
    <2>1. f.kind \notin {"append", "snapshot"}
      <3>1. log[i].kind \in {"begin", "text", "end", "note"}
        BY <1>0 DEF LogOf
      <3>2. CASE log[i].prev # 0 /\ f.part = 1
        <4>1. f.kind = "close"
          BY <3>2 DEF Says
        <4>. QED
          BY <4>1
      <3>3. CASE ~(log[i].prev # 0 /\ f.part = 1)
        <4>1. f.kind = IF log[i].kind = "text" THEN "open" ELSE log[i].kind
          BY <3>3 DEF Says
        <4>. QED
          BY <3>1, <4>1
      <3>. QED
        BY <3>2, <3>3
    <2>2. Apply(vw, f) = vw
      BY <1>7, <2>1 DEF Apply
    <2>3. f.kind # "end"
      BY <1>7
    <2>. QED
      BY <1>3, <2>2, <2>3 DEF Fits
  <1>. QED
    BY <1>4, <1>5, <1>6, <1>7

\* A live-only frame, applied to what fits.
LEMMA FitsLive ==
    ASSUME NEW f, NEW n, Speaks(f, n), NEW vw, Fits(vw, n)
    PROVE  Fits(Apply(vw, f), n)
  <1>0. \A b \in vw : /\ IsBlock(b)
                      /\ b.done => ClosedBy(b, n)
                      /\ ~b.done => Begun(b.turn, n) /\ Unended(b.turn, n)
    BY DEF Fits
  <1>1. CASE f.kind = "open"
    <2>1. Apply(vw, f) = vw \/ Apply(vw, f) = vw \cup {Shown(f, FALSE)}
      BY <1>1 DEF Apply
    <2> DEFINE c == Shown(f, FALSE)
    <2>2. IsBlock(c) /\ c.turn = f.turn /\ c.done = FALSE
      BY ShownFacts
    <2> HIDE DEF c
    <2>3. Begun(f.turn, n) /\ Unended(f.turn, n)
      BY <1>1 DEF Speaks
    <2>. QED
      BY <1>0, <2>1, <2>2, <2>3 DEF Fits, c
  <1>2. CASE f.kind = "append"
    <2>1. Apply(vw, f) = (vw \ At(vw, f)) \cup {[b EXCEPT !.len = @ + f.len] : b \in At(vw, f)}
      BY <1>2 DEF Apply
    <2>2. ASSUME NEW b \in At(vw, f), NEW c, c = [b EXCEPT !.len = @ + f.len]
          PROVE  /\ IsBlock(c)
                 /\ c.done => ClosedBy(c, n)
                 /\ ~c.done => Begun(c.turn, n) /\ Unended(c.turn, n)
      <3>1. b \in vw
        BY DEF At
      <3>2. IsBlock(b)
        BY <1>0, <3>1
      <3>3. c = [b EXCEPT !.len = b.len + f.len]
        BY <2>2, <3>2 DEF IsBlock
      <3>4. IsBlock(c) /\ c.turn = b.turn /\ c.block = b.block /\ c.done = b.done
        BY <3>2, <3>3, BlockEdit
      <3>5. ClosedBy(b, n) => ClosedBy(c, n)
        BY <3>4 DEF ClosedBy
      <3>. QED
        BY <1>0, <3>1, <3>4, <3>5
    <2>3. \A c \in Apply(vw, f) : c \in vw \/ \E b \in At(vw, f) : c = [b EXCEPT !.len = @ + f.len]
      BY <2>1
    <2>. QED
      BY <1>0, <2>2, <2>3 DEF Fits
  <1>3. CASE f.kind = "snapshot"
    <2>1. Apply(vw, f) = {b \in vw : b.done \/ b.turn # f.turn}
                           \cup {[turn |-> f.turn, block |-> o.block, len |-> o.len, done |-> FALSE] : o \in f.blocks}
      BY <1>3 DEF Apply
    <2>2. ASSUME NEW o \in f.blocks, NEW c, c = [turn |-> f.turn, block |-> o.block, len |-> o.len, done |-> FALSE]
          PROVE  IsBlock(c) /\ ~c.done /\ Begun(c.turn, n) /\ Unended(c.turn, n)
      <3>1. IsBlock(c) /\ c.done = FALSE /\ c.turn = f.turn
        BY <2>2 DEF IsBlock
      <3>. QED
        BY <3>1 DEF Speaks
    <2>3. \A c \in Apply(vw, f) :
            c \in vw \/ \E o \in f.blocks : c = [turn |-> f.turn, block |-> o.block, len |-> o.len, done |-> FALSE]
      BY <2>1
    <2>. QED
      BY <1>0, <2>2, <2>3 DEF Fits
  <1>. QED
    BY <1>1, <1>2, <1>3 DEF Speaks

-----------------------------------------------------------------------------
(***************************************************************************)
(* Stored frames in a row.                                                 *)
(***************************************************************************)

\* The number reached with the first x frames of s, from number a on.
Reach(s, a, x) == IF x = 0 THEN a ELSE Num(s[x])

LEMMA RunSteps ==
    ASSUME NEW D \in SUBSET Nat, NEW s, IsSeq(s), AllStored(s), NEW a \in Int, NEW b \in Int, a <= b, Run(D, s, a, b)
    PROVE  /\ Len(s) \in Nat
           /\ \A x \in 0 .. Len(s) : Reach(s, a, x) \in Int /\ a <= Reach(s, a, x) /\ Reach(s, a, x) <= b
           /\ \A x \in 1 .. Len(s) : /\ IsFrame(D, s[x]) /\ Stored(s[x])
                                     /\ Reach(s, a, x) = Num(s[x]) /\ Reach(s, a, x - 1) < Num(s[x])
                                     /\ Clear(D, Reach(s, a, x - 1), Num(s[x]) - 1)
           /\ Clear(D, Reach(s, a, Len(s)), b)
  <1>1. Len(s) \in Nat /\ DOMAIN s = 1 .. Len(s)
    BY DEF IsSeq
  <1>2. ASSUME NEW x \in 1 .. Len(s)
        PROVE  Stored(s[x]) /\ IsFrame(D, s[x]) /\ a < Num(s[x]) /\ Num(s[x]) <= b /\ Num(s[x]) \in Int
    <2>1. Stored(s[x])
      BY <1>1 DEF AllStored
    <2>2. IsFrame(D, s[x]) /\ a < Num(s[x]) /\ Num(s[x]) <= b
      BY <1>1, <2>1 DEF Run
    <2>. QED
      BY <2>1, <2>2 DEF IsFrame, Num
  <1>3. \A x, y \in 1 .. Len(s) : x < y => Num(s[x]) < Num(s[y])
    BY <1>1, <1>2 DEF Run
  <1>4. \A n \in D : a < n /\ n <= b => \E y \in 1 .. Len(s) : Num(s[y]) = n
    BY <1>1 DEF Run
  <1>5. ASSUME NEW x \in 0 .. Len(s)
        PROVE  Reach(s, a, x) \in Int /\ a <= Reach(s, a, x) /\ Reach(s, a, x) <= b
    <2>1. CASE x = 0
      BY <2>1 DEF Reach
    <2>2. CASE x # 0
      BY <1>1, <1>2, <2>2 DEF Reach
    <2>. QED
      BY <2>1, <2>2
  <1>6. ASSUME NEW x \in 1 .. Len(s)
        PROVE  /\ Reach(s, a, x) = Num(s[x]) /\ Reach(s, a, x - 1) < Num(s[x])
               /\ Clear(D, Reach(s, a, x - 1), Num(s[x]) - 1)
    <2>1. Reach(s, a, x) = Num(s[x])
      BY DEF Reach
    <2>2. Reach(s, a, x - 1) < Num(s[x])
      <3>1. CASE x = 1
        BY <1>2, <3>1 DEF Reach
      <3>2. CASE x # 1
        <4>1. x - 1 \in 1 .. Len(s) /\ x - 1 < x /\ x - 1 # 0
          BY <1>1, <3>2
        <4>. QED
          BY <1>3, <4>1 DEF Reach
      <3>. QED
        BY <3>1, <3>2
    <2>3. ASSUME NEW n \in D, Reach(s, a, x - 1) < n, n <= Num(s[x]) - 1
          PROVE  FALSE
      <3>1. x - 1 \in 0 .. Len(s) /\ n \in Int /\ Num(s[x]) \in Int /\ Num(s[x]) <= b
        BY <1>1, <1>2
      <3>2. Reach(s, a, x - 1) \in Int /\ a <= Reach(s, a, x - 1)
        BY <1>5, <3>1
      <3>3. PICK y \in 1 .. Len(s) : Num(s[y]) = n
        BY <1>4, <2>3, <3>1, <3>2
      <3>4. y < x
        <4>1. y = x \/ x < y \/ y < x
          BY <1>1
        <4>. QED
          BY <1>3, <2>3, <3>1, <3>3, <4>1
      <3>5. x - 1 # 0 /\ x - 1 \in 1 .. Len(s) /\ (y = x - 1 \/ y < x - 1)
        BY <1>1, <3>4
      <3>6. Num(s[y]) <= Num(s[x - 1])
        <4>1. Num(s[x - 1]) \in Int
          BY <1>2, <3>5
        <4>. QED
          BY <1>3, <3>1, <3>3, <3>5, <4>1
      <3>. QED
        BY <2>3, <3>1, <3>2, <3>3, <3>5, <3>6 DEF Reach
    <2>. QED
      BY <2>1, <2>2, <2>3 DEF Clear
  <1>7. ASSUME NEW n \in D, Reach(s, a, Len(s)) < n, n <= b
        PROVE  FALSE
    <2>1. Reach(s, a, Len(s)) \in Int /\ a <= Reach(s, a, Len(s)) /\ n \in Int
      BY <1>1, <1>5
    <2>2. PICK y \in 1 .. Len(s) : Num(s[y]) = n
      BY <1>4, <1>7, <2>1
    <2>3. Len(s) # 0 /\ Len(s) \in 1 .. Len(s) /\ (y = Len(s) \/ y < Len(s))
      <3>1. Len(s) \in Nat /\ y \in Int /\ 1 <= y /\ y <= Len(s)
        BY <1>1
      <3>. QED
        BY <3>1
    <2>4. Num(s[y]) <= Num(s[Len(s)])
      <3>1. Num(s[Len(s)]) \in Int
        BY <1>2, <2>3
      <3>. QED
        BY <1>3, <2>1, <2>2, <2>3, <3>1
    <2>. QED
      BY <1>7, <2>1, <2>2, <2>3, <2>4 DEF Reach
  <1>. QED
    BY <1>1, <1>2, <1>5, <1>6, <1>7 DEF Clear

LEMMA FitsSteps ==
    ASSUME IsSeq(log), LogOf(log), TurnsOf(log), AsksAll, NEW s, IsSeq(s), AllStored(s), Truthful(s),
           NEW a \in Int, NEW b \in Int, a <= b, Run(Due, s, a, b),
           NEW vw, Fits(vw, a), NEW h, Steps(vw, s, Len(s), h)
    PROVE  \A x \in 0 .. Len(s) : Fits(h[x], Reach(s, a, x))
  <1>1. Due \in SUBSET Nat
    BY DueNumbers
  <1>2. /\ Len(s) \in Nat
        /\ \A x \in 0 .. Len(s) : Reach(s, a, x) \in Int
        /\ \A x \in 1 .. Len(s) : /\ IsFrame(Due, s[x]) /\ Stored(s[x])
                                  /\ Reach(s, a, x) = Num(s[x]) /\ Reach(s, a, x - 1) < Num(s[x])
                                  /\ Clear(Due, Reach(s, a, x - 1), Num(s[x]) - 1)
    BY <1>1, RunSteps
  <1> DEFINE bad == {x \in 0 .. Len(s) : ~Fits(h[x], Reach(s, a, x))}
  <1>3. ASSUME bad # {}
        PROVE  FALSE
    <2>1. bad \in SUBSET Nat
      BY <1>2
    <2> HIDE DEF bad
    <2>2. PICK m \in bad : \A x \in bad : m <= x
      BY <1>3, <2>1, Smallest
    <2> USE DEF bad
    <2>3. m # 0 /\ m \in 1 .. Len(s)
      BY <1>2 DEF Steps, Reach
    <2>4. m - 1 \in 0 .. Len(s) /\ m - 1 \notin bad
      BY <1>2, <2>2, <2>3
    <2>5. Fits(h[m - 1], Reach(s, a, m - 1))
      BY <2>4
    <2>6. h[m] = Apply(h[m - 1], s[m])
      BY <2>3 DEF Steps
    <2>7. Says(s[m])
      <3>1. m \in DOMAIN s
        BY <2>3 DEF IsSeq
      <3>. QED
        BY <1>2, <2>3, <3>1 DEF Truthful
    <2>8. Fits(h[m], Num(s[m]))
      <3> DEFINE f == s[m]
                 n == Reach(s, a, m - 1)
      <3>1. n \in Int /\ IsFrame(Due, f) /\ n < Num(f) /\ Clear(Due, n, Num(f) - 1)
        BY <1>2, <2>3, <2>4
      <3> HIDE DEF f, n
      <3>. QED
        BY <2>5, <2>6, <2>7, <3>1, FitsFrame DEF f, n
    <2>. QED
      BY <1>2, <2>2, <2>3, <2>8
  <1>. QED
    BY <1>3

\* What comes with all that is due up to b fits b.
LEMMA FitsRun ==
    ASSUME IsSeq(log), LogOf(log), TurnsOf(log), AsksAll, NEW s, IsSeq(s), AllStored(s), Truthful(s),
           NEW a \in Int, NEW b \in Int, a <= b, Run(Due, s, a, b), NEW vw, Fits(vw, a)
    PROVE  Fits(Shows(vw, s), b)
  <1>1. PICK h : Steps(vw, s, Len(s), h)
    BY StepsExist
  <1>2. Due \in SUBSET Nat
    BY DueNumbers
  <1>3. /\ Len(s) \in Nat /\ Reach(s, a, Len(s)) \in Int /\ Reach(s, a, Len(s)) <= b
        /\ Clear(Due, Reach(s, a, Len(s)), b)
    <2>1. /\ Len(s) \in Nat /\ Clear(Due, Reach(s, a, Len(s)), b)
          /\ \A x \in 0 .. Len(s) : Reach(s, a, x) \in Int /\ Reach(s, a, x) <= b
      BY <1>2, RunSteps
    <2>2. Len(s) \in 0 .. Len(s)
      BY <2>1
    <2>. QED
      BY <2>1, <2>2
  <1>4. Fits(h[Len(s)], Reach(s, a, Len(s)))
    BY <1>1, <1>3, FitsSteps
  <1>5. Fits(h[Len(s)], b)
    BY <1>3, <1>4, Persists
  <1>. QED
    BY <1>1, <1>5, ShowsSteps

-----------------------------------------------------------------------------
(***************************************************************************)
(* The turn that runs, and its blocks.                                     *)
(***************************************************************************)

LEMMA OpensOnce ==
    ASSUME NEW lg, NEW n \in Int, NEW t, NEW u, Opens(lg, t, n), Opens(lg, u, n)
    PROVE  t = u
  <1>1. t \in Int /\ u \in Int /\ t <= n /\ u <= n
    BY DEF Opens
  <1>2. t \notin u + 1 .. n /\ u \notin t + 1 .. n
    BY DEF Opens, Marks
  <1>. QED
    BY <1>1, <1>2

\* What an event finishes is a text of its own turn.
LEMMA PrevFacts ==
    ASSUME IsSeq(log), LogOf(log), TurnsOf(log), NEW k \in Seqs, log[k].prev # 0
    PROVE  /\ log[k].prev \in 1 .. k - 1 /\ log[log[k].prev].kind = "text" /\ log[log[k].prev].turn = log[k].turn
           /\ log[k].kind \in {"text", "end"}
  <1>0. Len(log) \in Nat /\ Seqs = 1 .. Len(log)
    BY DEF IsSeq, Seqs
  <1>1. /\ log[k].prev \in 1 .. k - 1 /\ log[log[k].prev].kind = "text" /\ log[k].kind \in {"text", "end"}
        /\ Opens(log, log[log[k].prev].turn, k - 1)
    BY <1>0 DEF LogOf
  <1>2. Opens(log, log[k].turn, k - 1)
    <2>1. CASE log[k].kind = "text"
      <3>1. Opens(log, log[k].turn, k) /\ log[k].turn # k
        BY <1>0, <2>1 DEF LogOf, Opens
      <3>. QED
        BY <1>0, <3>1 DEF Opens
    <2>2. CASE log[k].kind = "end"
      BY <1>0, <2>2 DEF TurnsOf
    <2>. QED
      BY <1>1, <2>1, <2>2
  <1>3. k - 1 \in Int
    BY <1>0
  <1>. QED
    BY <1>1, <1>2, <1>3, OpensOnce

\* A text is finished by the next thing its turn does.
LEMMA NextText ==
    ASSUME IsSeq(log), LogOf(log), TurnsOf(log), NEW i \in Seqs, NEW j \in Seqs, i < j,
           log[i].kind = "text", log[j].kind = "text", log[i].turn = log[j].turn
    PROVE  \E k \in Seqs : i < k /\ k <= j /\ log[k].prev = i /\ log[k].turn = log[i].turn
  <1>0. Len(log) \in Nat /\ Seqs = 1 .. Len(log)
    BY DEF IsSeq, Seqs
  <1> DEFINE later == {k \in i + 1 .. j : log[k].kind = "text" /\ log[k].turn = log[i].turn}
  <1>1. later \in SUBSET Nat /\ later # {}
    <2>1. j \in later
      BY <1>0
    <2>. QED
      BY <1>0, <2>1
  <1> HIDE DEF later
  <1>2. PICK k \in later : \A x \in later : k <= x
    BY <1>1, Smallest
  <1> USE DEF later
  <1>3. k \in Seqs /\ i < k /\ k <= j /\ i \in 1 .. k - 1 /\ log[k].kind = "text" /\ log[k].turn = log[i].turn
    BY <1>0, <1>2
  <1>4. i <= log[k].prev
    BY <1>0, <1>3 DEF TurnsOf
  <1>5. i \in Nat \ {0}
    BY <1>0
  <1>6. ASSUME log[k].prev # i
        PROVE  FALSE
    <2>1. log[k].prev # 0
      BY <1>4, <1>5
    <2>2. log[k].prev \in 1 .. k - 1 /\ log[log[k].prev].kind = "text" /\ log[log[k].prev].turn = log[k].turn
      BY <1>3, <2>1, PrevFacts
    <2>3. log[k].prev \in later
      BY <1>0, <1>3, <1>4, <1>6, <2>2
    <2>. QED
      BY SMTT(30), <1>0, <1>2, <1>3, <2>2, <2>3
  <1>. QED
    BY <1>3, <1>6

\* A turn that began and did not end by what the bus handed on is the one it presents.
LEMMA StillRuns ==
    ASSUME IsSeq(log), LogOf(log), TurnsOf(log), Presents, processed \in 0 .. Len(log),
           NEW t, Begun(t, 2 * processed), Unended(t, 2 * processed)
    PROVE  t = Running
  <1>0. Len(log) \in Nat /\ Seqs = 1 .. Len(log) /\ processed \in Nat
    BY DEF IsSeq, Seqs
  <1>1. t \in Seqs /\ t \in 1 .. processed /\ log[t].kind = "begin"
    BY <1>0 DEF Begun
  <1>2. CASE Opens(log, t, processed)
    BY <1>0, <1>1, <1>2, OpensOnce DEF Presents
  <1>3. CASE ~Opens(log, t, processed)
    <2> DEFINE marks == {j \in t + 1 .. processed : log[j].kind \in Marks}
    <2>1. marks # {} /\ marks \in SUBSET Nat
      BY <1>0, <1>1, <1>3 DEF Opens
    <2> HIDE DEF marks
    <2>2. PICK j \in marks : \A x \in marks : j <= x
      BY <2>1, Smallest
    <2> USE DEF marks
    <2>3. j \in Seqs /\ t \in 1 .. j - 1 /\ j <= processed /\ log[j].kind \in Marks
      BY <1>0, <1>1, <2>2
    <2>4. Opens(log, t, j - 1)
      <3>1. ASSUME NEW x \in t + 1 .. j - 1
            PROVE  log[x].kind \notin Marks
        <4>1. x \in t + 1 .. processed /\ x < j
          BY <1>0, <1>1, <2>3
        <4>2. x \notin marks
          BY <2>2, <4>1, <1>0, <1>1, <2>3
        <4>. QED
          BY <4>1, <4>2
      <3>. QED
        BY <1>1, <2>3, <3>1 DEF Opens
    <2>5. log[j].kind # "begin"
      BY <1>0, <2>3, <2>4 DEF TurnsOf
    <2>6. log[j].kind = "end" /\ Opens(log, log[j].turn, j - 1)
      BY <1>0, <2>3, <2>5 DEF TurnsOf, Marks
    <2>7. log[j].turn = t
      <3>1. j - 1 \in Int
        BY <1>0, <2>3
      <3>. QED
        BY <2>4, <2>6, <3>1, OpensOnce
    <2>8. 2 * processed < Own(j) /\ Own(j) \in {2 * j, 2 * j - 1}
      BY <2>3, <2>6, <2>7 DEF Unended, Own
    <2>. QED
      BY <1>0, <2>3, <2>8
  <1>. QED
    BY <1>2, <1>3

\* The turn that the bus presents has not ended.
LEMMA RunningSpeaks ==
    ASSUME IsSeq(log), LogOf(log), TurnsOf(log), Presents, processed \in 0 .. Len(log), Running # 0
    PROVE  /\ \A n : Begun(Running, n)
           /\ \A n \in Int : n <= 2 * processed => Unended(Running, n)
           /\ \A j \in Seqs : log[j].kind = "end" /\ log[j].turn = Running => processed < j
  <1>0. Len(log) \in Nat /\ Seqs = 1 .. Len(log) /\ processed \in Nat
    BY DEF IsSeq, Seqs
  <1>1. Running \in 1 .. processed /\ log[Running].kind = "begin" /\ \A j \in Running + 1 .. processed : log[j].kind \notin Marks
    BY DEF Presents, Opens
  <1>2. \A n : Begun(Running, n)
    BY <1>0, <1>1 DEF Begun
  <1>3. ASSUME NEW j \in Seqs, log[j].kind = "end", log[j].turn = Running
        PROVE  processed < j
    <2>1. Running \in 1 .. j - 1
      BY <1>0, <1>3 DEF TurnsOf, Opens
    <2>2. j \notin Running + 1 .. processed
      BY <1>1, <1>3 DEF Marks
    <2>. QED
      BY <1>0, <1>1, <2>1, <2>2
  <1>4. ASSUME NEW n \in Int, n <= 2 * processed
        PROVE  Unended(Running, n)
    <2>1. \A j \in Seqs : processed < j => n < Own(j)
      BY <1>0, <1>4 DEF Own
    <2>. QED
      BY <1>3, <2>1 DEF Unended
  <1>. QED
    BY <1>2, <1>3, <1>4

-----------------------------------------------------------------------------
(***************************************************************************)
(* A snapshot that overtakes what is queued.                               *)
(***************************************************************************)

\* The block is one of a text that an event to come finishes.
ToClose(b, n) == \E k \in Seqs : /\ k <= processed /\ log[k].prev # 0 /\ n < 2 * k - 1
                                 /\ log[k].turn = b.turn /\ log[log[k].prev].block = b.block

\* The view shows all that is open, and of that turn nothing else but what will close.
Leaves(vw, n) ==
    /\ AllOpen \subseteq vw
    /\ \A b \in vw : ~b.done /\ b \notin AllOpen /\ b.turn = Running => ToClose(b, n)

LEMMA OpenFacts ==
    ASSUME Presents, NEW c \in AllOpen
    PROVE  /\ IsBlock(c) /\ ~c.done /\ c.turn = Running /\ Running # 0
           /\ (running.open # 0 /\ c.block = log[running.open].block) \/ (live.shown /\ c.block = NextBlock)
  <1>1. PICK o \in OpenBlocks : c = [turn |-> Running, block |-> o.block, len |-> o.len, done |-> FALSE]
    BY DEF AllOpen
  <1>2. IsBlock(c) /\ c.done = FALSE /\ c.turn = Running /\ c.block = o.block
    BY <1>1 DEF IsBlock
  <1>3. \/ running.open # 0 /\ o = [block |-> log[running.open].block, len |-> log[running.open].len]
        \/ live.shown /\ o = [block |-> NextBlock, len |-> live.sent]
    BY <1>1 DEF OpenBlocks
  <1>4. (running.open # 0 /\ o.block = log[running.open].block) \/ (live.shown /\ o.block = NextBlock)
    BY <1>3
  <1>. QED
    BY <1>2, <1>4 DEF Presents

\* No stored event closes what is open.
LEMMA OpenStays ==
    ASSUME IsSeq(log), LogOf(log), TurnsOf(log), Presents, processed \in 0 .. Len(log),
           NEW c \in AllOpen, NEW k \in Seqs, k <= processed
    PROVE  /\ ~(log[k].prev # 0 /\ log[k].turn = c.turn /\ log[log[k].prev].block = c.block)
           /\ ~(log[k].kind = "end" /\ log[k].turn = c.turn)
  <1>0. Len(log) \in Nat /\ Seqs = 1 .. Len(log) /\ processed \in Nat
    BY DEF IsSeq, Seqs
  <1>1. /\ c.turn = Running /\ Running # 0
        /\ (running.open # 0 /\ c.block = log[running.open].block) \/ (live.shown /\ c.block = NextBlock)
    BY OpenFacts
  <1>2. ~(log[k].kind = "end" /\ log[k].turn = c.turn)
    BY <1>0, <1>1, RunningSpeaks
  <1>3. ASSUME log[k].prev # 0, log[k].turn = c.turn, log[log[k].prev].block = c.block
        PROVE  FALSE
    <2> DEFINE p == log[k].prev
    <2>1. p \in 1 .. k - 1 /\ log[p].kind = "text" /\ log[p].turn = log[k].turn /\ log[k].kind = "text"
      BY <1>2, <1>3, PrevFacts
    <2>2. p \in 1 .. processed /\ k \in 1 .. processed
      BY <1>0, <2>1
    <2>3. k <= running.open /\ log[p].block <= running.blocks
      BY <1>1, <1>3, <2>1, <2>2 DEF Presents
    <2>4. running.open # 0 /\ running.open \in Seqs /\ log[running.open].kind = "text" /\ log[running.open].turn = Running
      BY <1>0, <2>2, <2>3 DEF Presents
    <2>5. p \in 1 .. running.open - 1
      BY <1>0, <2>1, <2>3, <2>4
    <2>6. log[p].block < log[running.open].block
      BY <1>0, <1>1, <1>3, <2>1, <2>4, <2>5 DEF TurnsOf
    <2>7. log[p].block \in Nat /\ running.blocks \in Nat /\ log[running.open].block \in Nat
      BY <1>0, <2>2, <2>4 DEF TurnsOf, Presents
    <2>8. log[p].block # NextBlock /\ log[p].block # log[running.open].block
      BY <2>3, <2>6, <2>7 DEF NextBlock
    <2>. QED
      BY <1>1, <1>3, <2>8
  <1>. QED
    BY <1>2, <1>3

LEMMA LeavesFrame ==
    ASSUME IsSeq(log), LogOf(log), TurnsOf(log), AsksAll, Presents, processed \in 0 .. Len(log),
           NEW f, IsFrame(Due, f), Says(f), Num(f) <= 2 * processed,
           NEW n \in Int, n < Num(f), Clear(Due, n, Num(f) - 1), NEW vw, Leaves(vw, n)
    PROVE  Leaves(Apply(vw, f), Num(f))
  <1> DEFINE m == Num(f)
             i == f.seq
             new == Apply(vw, f)
  <1>0. /\ Len(log) \in Nat /\ Seqs = 1 .. Len(log) /\ i \in Seqs /\ m \in Int /\ i <= processed /\ processed \in Nat
        /\ m = 2 * i - 2 + f.part /\ f.part \in {1, 2} /\ Due \in SUBSET Nat /\ f.turn = log[i].turn
    <2>1. Len(log) \in Nat /\ Seqs = 1 .. Len(log)
      BY DEF IsSeq, Seqs
    <2>2. Due \in SUBSET Nat
      BY DueNumbers
    <2>3. i \in Seqs /\ m = 2 * i - 2 + f.part /\ f.part \in {1, 2} /\ f.turn = log[i].turn
      BY DEF Says, Num
    <2>. QED
      BY SMTT(30), <2>1, <2>2, <2>3
  <1>c. f.kind = "close" => log[i].prev # 0 /\ f.part = 1 /\ f.block = log[log[i].prev].block
    BY <1>0 DEF Says, LogOf
  <1>d. f.kind = "open" => log[i].kind = "text" /\ f.block = log[i].block /\ f.len = log[i].len /\ m = Own(i)
    BY <1>0 DEF Says, LogOf
  <1>e. f.kind = "end" => log[i].kind = "end"
    BY <1>0 DEF Says
  <1>1. ASSUME NEW c \in AllOpen
        PROVE  c \in new
    <2>1. c \in vw /\ ~c.done /\ c.turn = Running /\ Running # 0
      BY OpenFacts DEF Leaves
    <2>2. ~(f.kind = "close" /\ f.turn = c.turn /\ f.block = c.block) /\ ~(f.kind = "end" /\ f.turn = c.turn)
      <3>1. i \in Seqs /\ i <= processed /\ processed \in 0 .. Len(log) /\ f.turn = log[i].turn
        BY <1>0
      <3>2. /\ ~(log[i].prev # 0 /\ log[i].turn = c.turn /\ log[log[i].prev].block = c.block)
            /\ ~(log[i].kind = "end" /\ log[i].turn = c.turn)
        BY <3>1, OpenStays
      <3>. QED
        BY <3>1, <3>2, <1>c, <1>e
    <2>3. f.kind \notin {"append", "snapshot"}
      BY <1>0 DEF Says, LogOf
    <2>. QED
      <3>1. CASE f.kind = "close"
        <4>1. c \notin At(vw, f)
          BY <2>2, <3>1 DEF At
        <4>2. new = (vw \ At(vw, f)) \cup {Shown(f, TRUE)}
          BY <3>1 DEF Apply
        <4>. QED
          BY <2>1, <4>1, <4>2
      <3>2. CASE f.kind = "end"
        <4>1. new = {b \in vw : b.done \/ b.turn # f.turn}
          BY <3>2 DEF Apply
        <4>. QED
          BY <2>1, <2>2, <3>2, <4>1
      <3>3. CASE f.kind \notin {"close", "end"}
        <4>1. new = vw \/ new = vw \cup {Shown(f, FALSE)}
          BY <2>3, <3>3 DEF Apply
        <4>. QED
          BY <2>1, <4>1
      <3>. QED
        BY <3>1, <3>2, <3>3
  <1>2. ASSUME NEW b \in vw, ~b.done, b \notin AllOpen, b.turn = Running, b \in new
        PROVE  ToClose(b, m)
    <2>1. PICK k \in Seqs : /\ k <= processed /\ log[k].prev # 0 /\ n < 2 * k - 1
                            /\ log[k].turn = b.turn /\ log[log[k].prev].block = b.block
      BY <1>2 DEF Leaves, ToClose
    <2>2. 2 * k - 1 \in Due
      <3>1. log[k].kind # "note"
        BY <2>1, PrevFacts
      <3>. QED
        BY <2>1, <3>1, OwnIsDue
    <2>3. m <= 2 * k - 1
      BY <1>0, <2>1, <2>2 DEF Clear
    <2>4. ASSUME 2 * k - 1 = m
          PROVE  FALSE
      <3>1. i = k /\ f.part = 1
        <4>1. i \in Int /\ k \in Int /\ f.part \in {1, 2}
          BY <1>0
        <4>2. 2 * k - 1 = 2 * i - 2 + f.part
          BY <1>0, <2>4
        <4> HIDE DEF i
        <4>3. CASE f.part = 1
          BY <4>1, <4>2, <4>3
        <4>4. CASE f.part = 2
          BY <4>1, <4>2, <4>4
        <4>. QED
          BY <4>1, <4>3, <4>4
      <3>2. f.kind = "close" /\ f.turn = b.turn /\ f.block = b.block
        BY <2>1, <3>1 DEF Says
      <3>3. new = (vw \ At(vw, f)) \cup {Shown(f, TRUE)}
        BY <3>2 DEF Apply
      <3>4. b \in At(vw, f)
        BY <3>2 DEF At
      <3>5. b = Shown(f, TRUE)
        BY <1>2, <3>3, <3>4
      <3>. QED
        BY <1>2, <3>5, ShownFacts
    <2>5. m < 2 * k - 1
      <3>1. k \in Int /\ m \in Int
        BY <1>0
      <3>2. 2 * k - 1 # m
        BY <2>4
      <3> HIDE DEF m
      <3>. QED
        BY <2>3, <3>1, <3>2
    <2>. QED
      BY <2>1, <2>5 DEF ToClose
  <1>3. ASSUME NEW b \in new, b \notin vw, ~b.done, b \notin AllOpen, b.turn = Running
        PROVE  ToClose(b, m)
    <2>1. f.kind = "open" /\ b = Shown(f, FALSE) /\ At(vw, f) = {}
      <3>1. f.kind \notin {"append", "snapshot"}
        BY <1>0 DEF Says, LogOf
      <3>2. CASE f.kind = "close"
        <4>1. b = Shown(f, TRUE)
          BY <1>3, <3>2 DEF Apply
        <4>. QED
          BY <1>3, <4>1, ShownFacts
      <3>. QED
        BY <1>3, <3>1, <3>2 DEF Apply
    <2>2. b.turn = f.turn /\ b.block = f.block
      BY <2>1, ShownFacts
    <2>3. log[i].kind = "text" /\ log[i].turn = Running /\ log[i].block = b.block
      BY <1>0, <1>3, <1>d, <2>1, <2>2
    <2>4. i <= running.open /\ i \in Nat \ {0} /\ running.open \in Nat
      <3>1. i \in 1 .. processed
        BY <1>0
      <3> HIDE DEF i, m
      <3>. QED
        BY <2>3, <3>1 DEF Presents
    <2>5. running.open \in Seqs /\ running.open <= processed /\ log[running.open].kind = "text" /\ log[running.open].turn = Running
      <3>1. running.open # 0
        BY <2>4
      <3>2. running.open \in 1 .. processed /\ log[running.open].kind = "text" /\ log[running.open].turn = Running
        BY <3>1 DEF Presents
      <3>. QED
        BY <1>0, <3>2
    <2>6. ASSUME i = running.open
          PROVE  FALSE
      <3> DEFINE o == [block |-> log[running.open].block, len |-> log[running.open].len]
                 c == [turn |-> Running, block |-> o.block, len |-> o.len, done |-> FALSE]
      <3>1. o \in OpenBlocks
        BY SMTT(30), <1>0, <2>6 DEF OpenBlocks
      <3>2. c \in AllOpen
        BY <3>1 DEF AllOpen
      <3>3. c \in vw
        BY <3>2 DEF Leaves
      <3>4. c.turn = f.turn /\ c.block = f.block
        BY <1>0, <1>d, <2>1, <2>3, <2>6
      <3>. QED
        BY <2>1, <3>3, <3>4 DEF At
    <2>7. PICK k \in Seqs : i < k /\ k <= running.open /\ log[k].prev = i /\ log[k].turn = log[i].turn
      <3>1. i < running.open
        BY <1>0, <2>4, <2>5, <2>6
      <3> DEFINE j == running.open
      <3>2. i \in Seqs /\ j \in Seqs /\ i < j /\ log[i].kind = "text" /\ log[j].kind = "text" /\ log[i].turn = log[j].turn
        BY <1>0, <2>3, <2>5, <3>1
      <3> HIDE DEF i, j
      <3>3. \E k \in Seqs : i < k /\ k <= j /\ log[k].prev = i /\ log[k].turn = log[i].turn
        BY <3>2, NextText
      <3>. QED
        BY <3>3 DEF j
    <2>8. k <= processed /\ log[k].prev # 0 /\ m < 2 * k - 1
      <3>1. k \in Int /\ m \in Int /\ processed \in Int
        BY <1>0
      <3>2. m <= 2 * i
        BY SMTT(30), <1>0, <2>4
      <3> HIDE DEF i, m
      <3>. QED
        BY <2>4, <2>5, <2>7, <3>1, <3>2
    <2>9. log[k].turn = b.turn /\ log[log[k].prev].block = b.block
      BY <1>3, <2>3, <2>7
    <2>. QED
      BY <2>8, <2>9 DEF ToClose
  <1>. QED
    BY <1>1, <1>2, <1>3 DEF Leaves

LEMMA LeavesRun ==
    ASSUME IsSeq(log), LogOf(log), TurnsOf(log), AsksAll, Presents, processed \in 0 .. Len(log),
           NEW s, IsSeq(s), AllStored(s), Truthful(s), NEW a \in Int, a <= 2 * processed, Run(Due, s, a, 2 * processed),
           NEW vw, Leaves(vw, a)
    PROVE  \E n \in Int : Leaves(Shows(vw, s), n) /\ Clear(Due, n, 2 * processed)
  <1>1. Due \in SUBSET Nat /\ 2 * processed \in Int
    <2>1. Len(log) \in Nat
      BY DEF IsSeq
    <2>. QED
      BY <2>1, DueNumbers
  <1>2. PICK h : Steps(vw, s, Len(s), h)
    BY StepsExist
  <1>3. /\ Len(s) \in Nat /\ Clear(Due, Reach(s, a, Len(s)), 2 * processed)
        /\ \A x \in 0 .. Len(s) : Reach(s, a, x) \in Int /\ Reach(s, a, x) <= 2 * processed
        /\ \A x \in 1 .. Len(s) : /\ IsFrame(Due, s[x]) /\ Stored(s[x])
                                  /\ Reach(s, a, x) = Num(s[x]) /\ Reach(s, a, x - 1) < Num(s[x])
                                  /\ Clear(Due, Reach(s, a, x - 1), Num(s[x]) - 1)
    BY <1>1, RunSteps
  <1> DEFINE bad == {x \in 0 .. Len(s) : ~Leaves(h[x], Reach(s, a, x))}
  <1>4. ASSUME bad # {}
        PROVE  FALSE
    <2>1. bad \in SUBSET Nat
      BY <1>3
    <2> HIDE DEF bad
    <2>2. PICK m \in bad : \A x \in bad : m <= x
      BY <1>4, <2>1, Smallest
    <2> USE DEF bad
    <2>3. m # 0 /\ m \in 1 .. Len(s)
      BY <1>2, <1>3 DEF Steps, Reach
    <2>4. m - 1 \in 0 .. Len(s) /\ m - 1 \notin bad
      BY <1>3, <2>2, <2>3
    <2>5. Leaves(h[m - 1], Reach(s, a, m - 1))
      BY <2>4
    <2>6. h[m] = Apply(h[m - 1], s[m])
      BY <1>2, <2>3 DEF Steps
    <2>7. Says(s[m])
      <3>1. m \in DOMAIN s
        BY <2>3 DEF IsSeq
      <3>. QED
        BY <1>3, <2>3, <3>1 DEF Truthful
    <2>8. Leaves(h[m], Num(s[m]))
      <3> DEFINE f == s[m]
                 n == Reach(s, a, m - 1)
      <3>1. n \in Int /\ IsFrame(Due, f) /\ n < Num(f) /\ Clear(Due, n, Num(f) - 1) /\ Num(f) <= 2 * processed
        <4>1. m \in 0 .. Len(s)
          BY <1>3, <2>3
        <4>2. Reach(s, a, m) <= 2 * processed /\ Reach(s, a, m) = Num(s[m])
          BY <1>3, <2>3, <4>1
        <4>. QED
          BY <1>3, <2>3, <2>4, <4>2
      <3> HIDE DEF f, n
      <3>. QED
        BY <2>5, <2>6, <2>7, <3>1, LeavesFrame DEF f, n
    <2>. QED
      BY <1>3, <2>2, <2>3, <2>8
  <1>5. Len(s) \in 0 .. Len(s)
    BY <1>3
  <1>6. Leaves(h[Len(s)], Reach(s, a, Len(s))) /\ Reach(s, a, Len(s)) \in Int
    BY <1>3, <1>4, <1>5
  <1>7. Shows(vw, s) = h[Len(s)]
    BY <1>2, ShowsSteps
  <1>. QED
    BY <1>3, <1>6, <1>7

LEMMA FrameText ==
    ASSUME NEW kind, NEW turn, NEW block, NEW len
    PROVE  /\ LET f == Frame(kind, turn, block, len)
              IN  f.kind = kind /\ f.turn = turn /\ f.block = block /\ f.len = len /\ f.seq = 0 /\ f.blocks = {}
           /\ \A blocks : LET f == [Frame(kind, turn, block, len) EXCEPT !.blocks = blocks]
                          IN  f.kind = kind /\ f.turn = turn /\ f.blocks = blocks /\ f.seq = 0
           /\ \A seq, part, last : LET f == [Frame(kind, turn, block, len) EXCEPT !.seq = seq, !.part = part, !.last = last]
                                   IN  /\ f.kind = kind /\ f.turn = turn /\ f.block = block /\ f.len = len
                                       /\ f.seq = seq /\ f.part = part /\ f.last = last
  <1> DEFINE g == Frame(kind, turn, block, len)
  <1>1. /\ g \in [kind : {kind}, seq : {0}, part : {0}, last : {FALSE}, turn : {turn}, block : {block}, len : {len},
                  blocks : {{}}]
    BY DEF Frame
  <1>2. g.kind = kind /\ g.turn = turn /\ g.block = block /\ g.len = len /\ g.seq = 0 /\ g.blocks = {}
    BY <1>1
  <1> HIDE DEF g
  <1>3. ASSUME NEW blocks
        PROVE  LET f == [g EXCEPT !.blocks = blocks]
               IN  f.kind = kind /\ f.turn = turn /\ f.blocks = blocks /\ f.seq = 0
    BY <1>1
  <1>4. ASSUME NEW seq, NEW part, NEW last
        PROVE  LET f == [g EXCEPT !.seq = seq, !.part = part, !.last = last]
               IN  /\ f.kind = kind /\ f.turn = turn /\ f.block = block /\ f.len = len
                   /\ f.seq = seq /\ f.part = part /\ f.last = last
    BY <1>1
  <1>5. LET f == g IN f.kind = kind /\ f.turn = turn /\ f.block = block /\ f.len = len /\ f.seq = 0 /\ f.blocks = {}
    BY <1>2
  <1> USE DEF g
  <1>6. \A blocks : LET f == [Frame(kind, turn, block, len) EXCEPT !.blocks = blocks]
                    IN  f.kind = kind /\ f.turn = turn /\ f.blocks = blocks /\ f.seq = 0
    BY <1>3
  <1>7. \A seq, part, last : LET f == [Frame(kind, turn, block, len) EXCEPT !.seq = seq, !.part = part, !.last = last]
                             IN  /\ f.kind = kind /\ f.turn = turn /\ f.block = block /\ f.len = len
                                 /\ f.seq = seq /\ f.part = part /\ f.last = last
    BY <1>4
  <1>. QED
    BY <1>5, <1>6, <1>7

LEMMA SnapshotSays ==
    ASSUME IsSeq(log), LogOf(log), TurnsOf(log), Presents, processed \in 0 .. Len(log)
    PROVE  /\ Snapshot.kind = "snapshot" /\ Snapshot.turn = Running /\ Snapshot.blocks = OpenBlocks /\ ~Stored(Snapshot)
           /\ \A n \in Int : n <= 2 * processed => Speaks(Snapshot, n)
           /\ \A vw : Apply(vw, Snapshot) = {b \in vw : b.done \/ b.turn # Running} \cup AllOpen
  <1>1. Snapshot.kind = "snapshot" /\ Snapshot.turn = Running /\ Snapshot.blocks = OpenBlocks /\ Snapshot.seq = 0
    BY FrameText DEF Snapshot
  <1> HIDE DEF Snapshot
  <1>2. Running = 0 => OpenBlocks = {}
    BY DEF Presents, OpenBlocks
  <1>3. ASSUME NEW n \in Int, n <= 2 * processed
        PROVE  Speaks(Snapshot, n)
    <2>1. CASE Running = 0
      BY <1>1, <1>2, <2>1 DEF Speaks
    <2>2. CASE Running # 0
      BY <1>1, <1>3, <2>2, RunningSpeaks DEF Speaks
    <2>. QED
      BY <2>1, <2>2
  <1>4. ASSUME NEW vw
        PROVE  Apply(vw, Snapshot) = {b \in vw : b.done \/ b.turn # Running} \cup AllOpen
    BY <1>1 DEF Apply, AllOpen
  <1>. QED
    BY <1>1, <1>3, <1>4 DEF Stored

LEMMA OpenIsUndone ==
    ASSUME Presents
    PROVE  \A c \in AllOpen : IsBlock(c) /\ ~c.done
  BY OpenFacts

\* A snapshot behind all that is stored makes the view complete,
LEMMA SnapshotCompletes ==
    ASSUME IsSeq(log), LogOf(log), TurnsOf(log), Presents, processed \in 0 .. Len(log),
           NEW vw, Fits(vw, 2 * processed)
    PROVE  Complete(Apply(vw, Snapshot))
  <1>1. Apply(vw, Snapshot) = {b \in vw : b.done \/ b.turn # Running} \cup AllOpen
    BY SnapshotSays
  <1>2. \A b \in vw : b.done \/ b.turn = Running
    BY StillRuns DEF Fits
  <1>3. \A c \in AllOpen : IsBlock(c) /\ ~c.done
    BY OpenIsUndone
  <1>4. Undone(Apply(vw, Snapshot)) = AllOpen
    BY <1>1, <1>2, <1>3 DEF Undone
  <1>5. \A b \in Apply(vw, Snapshot) : IsBlock(b) /\ (b.done => ClosedBy(b, 2 * processed))
    BY <1>1, <1>3 DEF Fits
  <1>. QED
    BY <1>4, <1>5 DEF Complete

\* and so does one that goes before it.
LEMMA SnapshotAhead ==
    ASSUME IsSeq(log), LogOf(log), TurnsOf(log), AsksAll, Presents, processed \in 0 .. Len(log),
           NEW s, IsSeq(s), AllStored(s), Truthful(s), NEW a \in Int, a <= 2 * processed, Run(Due, s, a, 2 * processed),
           NEW vw, Fits(vw, a)
    PROVE  Complete(Shows(Apply(vw, Snapshot), s))
  <1> DEFINE first == Apply(vw, Snapshot)
             w == Shows(first, s)
  <1>0. 2 * processed \in Int /\ processed \in Nat /\ Len(log) \in Nat /\ Seqs = 1 .. Len(log)
    BY DEF IsSeq, Seqs
  <1>1. Fits(first, a)
    BY SnapshotSays, FitsLive
  <1>2. Leaves(first, a)
    <2>1. first = {b \in vw : b.done \/ b.turn # Running} \cup AllOpen
      BY SnapshotSays
    <2>. QED
      BY <2>1 DEF Leaves
  <1> HIDE DEF first
  <1>3. Fits(w, 2 * processed)
    BY <1>0, <1>1, FitsRun
  <1>4. PICK n \in Int : Leaves(w, n) /\ Clear(Due, n, 2 * processed)
    BY <1>2, LeavesRun
  <1> HIDE DEF w
  <1>5. ASSUME NEW b \in w, ~b.done
        PROVE  b \in AllOpen
    <2>1. b.turn = Running
      BY <1>3, <1>5, StillRuns DEF Fits
    <2>2. ASSUME b \notin AllOpen
          PROVE  FALSE
      <3>1. PICK k \in Seqs : k <= processed /\ log[k].prev # 0 /\ n < 2 * k - 1
        BY <1>4, <1>5, <2>1, <2>2 DEF Leaves, ToClose
      <3>2. 2 * k - 1 \in Due
        <4>1. log[k].kind # "note"
          BY <3>1, PrevFacts
        <4>. QED
          BY <3>1, <4>1, OwnIsDue
      <3>. QED
        BY <1>0, <1>4, <3>1, <3>2 DEF Clear
    <2>. QED
      BY <2>2
  <1>6. \A c \in AllOpen : ~c.done /\ c \in w
    BY <1>4, OpenIsUndone DEF Leaves
  <1>7. Undone(w) = AllOpen
    BY <1>5, <1>6 DEF Undone
  <1>8. \A b \in w : IsBlock(b) /\ (b.done => ClosedBy(b, 2 * processed))
    BY <1>3 DEF Fits
  <1>. QED
    BY <1>7, <1>8 DEF Complete, w, first

-----------------------------------------------------------------------------
(***************************************************************************)
(* What a queue holds, and what it adds to the view.                       *)
(***************************************************************************)

LEMMA FramesSay ==
    ASSUME IsSeq(log), LogOf(log), NEW i \in Seqs, NEW seen, log[i].prev \in seen <=> log[i].prev # 0,
           NEW fs, fs = Frames(i, seen)
    PROVE  \A k \in Parts(i) : Says(fs[k])
  <1> DEFINE e   == log[i]
             own == IF e.kind = "text" THEN Frame("open", e.turn, e.block, e.len) ELSE Frame(e.kind, e.turn, 0, 0)
             cls == Frame("close", e.turn, log[e.prev].block, log[e.prev].len)
             all == IF e.prev \in seen THEN <<cls, own>> ELSE <<own>>
             kind == IF e.kind = "text" THEN "open" ELSE e.kind
  <1>1. Len(log) \in Nat /\ i \in Nat
    BY DEF IsSeq, Seqs
  <1>2. fs = [k \in 1 .. Len(all) |-> Placed(all[k], i, k, Len(all))]
    BY DEF Frames, Placed
  <1>3. \A a, b, c, d : \A k, n : LET f == Placed(Frame(a, b, c, d), i, k, n)
                                  IN  f.kind = a /\ f.turn = b /\ f.block = c /\ f.len = d /\ f.seq = i /\ f.part = k
    BY FrameText DEF Placed
  <1>4. \A k, n : LET f == Placed(own, i, k, n)
                  IN  /\ f.kind = kind /\ f.turn = e.turn /\ f.seq = i /\ f.part = k
                      /\ e.kind = "text" => f.block = e.block /\ f.len = e.len
    <2>1. CASE e.kind = "text"
      BY <1>3, <2>1
    <2>2. CASE e.kind # "text"
      BY <1>3, <2>2
    <2>. QED
      BY <2>1, <2>2
  <1>5. \A k, n : LET f == Placed(cls, i, k, n)
                  IN  f.kind = "close" /\ f.turn = e.turn /\ f.block = log[e.prev].block /\ f.seq = i /\ f.part = k
    BY <1>3
  <1> HIDE DEF own, cls
  <1>6. CASE e.prev # 0
    <2>1. all = <<cls, own>> /\ Parts(i) = 1 .. 2
      BY <1>6 DEF Parts
    <2>2. fs[1] = Placed(cls, i, 1, 2) /\ fs[2] = Placed(own, i, 2, 2)
      BY <1>2, <2>1
    <2> HIDE DEF all
    <2>3. /\ fs[1].kind = "close" /\ fs[1].turn = e.turn /\ fs[1].block = log[e.prev].block /\ fs[1].seq = i /\ fs[1].part = 1
          /\ fs[2].kind = kind /\ fs[2].turn = e.turn /\ fs[2].seq = i /\ fs[2].part = 2
          /\ e.kind = "text" => fs[2].block = e.block /\ fs[2].len = e.len
      BY <1>4, <1>5, <2>2
    <2> HIDE DEF e, kind
    <2>4. Says(fs[1])
      BY <1>6, <2>3 DEF Says, e
    <2>5. Num(fs[2]) = Own(i)
      BY <1>1, <1>6, <2>3 DEF Num, Own, e
    <2>6. Says(fs[2])
      BY <2>3, <2>5 DEF Says, e, kind
    <2>. QED
      BY <2>1, <2>4, <2>6
  <1>7. CASE e.prev = 0
    <2>1. all = <<own>> /\ Parts(i) = 1 .. 1
      BY <1>7 DEF Parts
    <2>2. fs[1] = Placed(own, i, 1, 1)
      BY <1>2, <2>1
    <2> HIDE DEF all
    <2>3. /\ fs[1].kind = kind /\ fs[1].turn = e.turn /\ fs[1].seq = i /\ fs[1].part = 1
          /\ e.kind = "text" => fs[1].block = e.block /\ fs[1].len = e.len
      BY <1>4, <2>2
    <2> HIDE DEF e, kind
    <2>5. Num(fs[1]) = Own(i)
      BY <1>1, <1>7, <2>3 DEF Num, Own, e
    <2>6. Says(fs[1])
      BY <1>7, <2>3, <2>5 DEF Says, e, kind
    <2>. QED
      BY <2>1, <2>6
  <1>. QED
    BY <1>6, <1>7

LEMMA SiftedTells ==
    ASSUME NEW q, IsSeq(q), NEW places \in SUBSET DOMAIN q, NEW t, t = Sifted(q, places)
    PROVE  /\ Truthful(q) => Truthful(t)
           /\ (\A x \in places : Stored(q[x])) => AllStored(t)
  <1>1. IsSeq(t) /\ \E h \in [DOMAIN t -> places] : \A n \in DOMAIN t : t[n] = q[h[n]]
    BY SiftedFacts
  <1>2. PICK h \in [DOMAIN t -> places] : \A n \in DOMAIN t : t[n] = q[h[n]]
    BY <1>1
  <1>3. \A n \in DOMAIN t : h[n] \in places /\ h[n] \in DOMAIN q
    OBVIOUS
  <1>. QED
    BY <1>2, <1>3 DEF Truthful, AllStored

LEMMA OnlyStoredTells ==
    ASSUME NEW q, IsSeq(q), NEW t, t = OnlyStored(q)
    PROVE  IsSeq(t) /\ (Truthful(q) => Truthful(t)) /\ AllStored(t)
  <1> DEFINE places == {x \in DOMAIN q : Stored(q[x])}
  <1>1. places \in SUBSET DOMAIN q /\ t = Sifted(q, places) /\ \A x \in places : Stored(q[x])
    BY DEF OnlyStored
  <1> HIDE DEF places
  <1>. QED
    BY <1>1, SiftedTells, SiftedFacts

LEMMA AppendTells ==
    ASSUME NEW q, IsSeq(q), NEW f
    PROVE  /\ Truthful(q) /\ (Stored(f) => Says(f)) => Truthful(Append(q, f))
           /\ AllStored(q) /\ Stored(f) => AllStored(Append(q, f))
           /\ \A n : /\ LiveInTurn(q, n)
                     /\ ~Stored(f) => Speaks(f, n) /\ \A y \in DOMAIN q : Stored(q[y]) => Speaks(f, Num(q[y]))
                     => LiveInTurn(Append(q, f), n)
  <1> DEFINE t == Append(q, f)
  <1>1. /\ Len(q) \in Nat /\ DOMAIN q = 1 .. Len(q) /\ DOMAIN t = 1 .. Len(q) + 1
        /\ \A x \in 1 .. Len(q) : t[x] = q[x]
        /\ t[Len(q) + 1] = f
    BY AppendFacts
  <1> HIDE DEF t
  <1>2. \A x \in DOMAIN t : (x \in DOMAIN q /\ t[x] = q[x]) \/ (x = Len(q) + 1 /\ t[x] = f)
    BY <1>1
  <1>3. ASSUME NEW n, LiveInTurn(q, n), ~Stored(f) => Speaks(f, n) /\ \A y \in DOMAIN q : Stored(q[y]) => Speaks(f, Num(q[y])),
               NEW x \in DOMAIN t, ~Stored(t[x])
        PROVE  Speaks(t[x], n) /\ \A y \in 1 .. x - 1 : Stored(t[y]) => Speaks(t[x], Num(t[y]))
    <2>1. CASE x \in DOMAIN q
      <3>1. t[x] = q[x] /\ \A y \in 1 .. x - 1 : y \in DOMAIN q /\ t[y] = q[y]
        BY <1>1, <2>1
      <3>. QED
        BY <1>3, <2>1, <3>1 DEF LiveInTurn
    <2>2. CASE x \notin DOMAIN q
      <3>1. t[x] = f /\ \A y \in 1 .. x - 1 : y \in DOMAIN q /\ t[y] = q[y]
        BY <1>1, <1>2, <2>2
      <3>. QED
        BY <1>3, <3>1
    <2>. QED
      BY <2>1, <2>2
  <1>4. \A n : /\ LiveInTurn(q, n)
               /\ ~Stored(f) => Speaks(f, n) /\ \A y \in DOMAIN q : Stored(q[y]) => Speaks(f, Num(q[y]))
               => LiveInTurn(t, n)
    BY <1>3 DEF LiveInTurn
  <1>5. Truthful(q) /\ (Stored(f) => Says(f)) => Truthful(t)
    BY <1>2 DEF Truthful
  <1>6. AllStored(q) /\ Stored(f) => AllStored(t)
    BY <1>2 DEF AllStored
  <1>. QED
    BY <1>4, <1>5, <1>6 DEF t

LEMMA AllStoredLive ==
    ASSUME NEW q, AllStored(q)
    PROVE  \A n : LiveInTurn(q, n)
  BY DEF AllStored, LiveInTurn

\* What an offer does to what a queue holds.
LEMMA OfferTells ==
    ASSUME NEW s, IsSub(s), IsSeq(s.queue), NEW f, NEW t, t = Offer(s, f)
    PROVE  /\ IsSub(t) /\ IsSeq(t.queue) /\ t.on = s.on /\ t.live = s.live /\ (s.stale => t.stale) /\ (s.reset => t.reset)
           /\ Truthful(s.queue) /\ (Stored(f) => Says(f)) => Truthful(t.queue)
           /\ AllStored(s.queue) /\ (s.stale \/ ~s.live) => AllStored(t.queue)
           /\ \A n : /\ LiveInTurn(s.queue, n)
                     /\ ~Stored(f) => Speaks(f, n) /\ \A y \in DOMAIN s.queue : Stored(s.queue[y]) => Speaks(f, Num(s.queue[y]))
                     => LiveInTurn(t.queue, n)
  <1> DEFINE kept == OnlyStored(s.queue)
  <1>1. IsSeq(kept) /\ (Truthful(s.queue) => Truthful(kept)) /\ AllStored(kept)
    BY OnlyStoredTells
  <1>2. /\ IsSub(t) /\ t.on = s.on
        /\ \/ Ignores(s, f) /\ t = s
           \/ ~Ignores(s, f) /\ t.queue = Append(s.queue, f) /\ t.reset = s.reset
           \/ ~Ignores(s, f) /\ ~Stored(f) /\ t.queue = kept /\ t.reset = s.reset
           \/ ~Ignores(s, f) /\ Stored(f) /\ t.queue = <<>> /\ t.reset
           \/ ~Ignores(s, f) /\ Stored(f) /\ t.queue = Append(kept, f) /\ t.reset = s.reset
    BY OfferCases
  <1>3. t.live = s.live /\ (s.stale => t.stale)
    <2>1. CASE Ignores(s, f)
      BY <2>1 DEF Offer
    <2>2. CASE ~Ignores(s, f) /\ ~Full(s)
      <3>1. t = [s EXCEPT !.queue = Append(s.queue, f)]
        BY <2>2 DEF Offer
      <3>. QED
        BY <3>1 DEF IsSub
    <2>3. CASE ~Ignores(s, f) /\ Full(s)
      <3>1. t = Squeeze(s, f)
        BY <2>3 DEF Offer
      <3>2. PICK stale : stale = (s.stale \/ Len(kept) < Len(s.queue))
        OBVIOUS
      <3>3. \/ t = [s EXCEPT !.queue = kept, !.stale = TRUE]
            \/ t = [s EXCEPT !.queue = <<>>, !.stale = stale, !.reset = TRUE]
            \/ t = [s EXCEPT !.queue = Append(kept, f), !.stale = stale]
        BY <3>1, <3>2 DEF Squeeze
      <3> HIDE DEF kept
      <3>4. t.live = s.live /\ (t.stale = TRUE \/ t.stale = stale)
        BY <3>3 DEF IsSub
      <3>. QED
        BY <3>2, <3>4
    <2>. QED
      BY <2>1, <2>2, <2>3
  <1> HIDE DEF kept
  <1>4. s.reset => t.reset
    BY <1>2
  <1>5. IsSeq(t.queue) /\ (Truthful(s.queue) /\ (Stored(f) => Says(f)) => Truthful(t.queue))
    <2>1. IsSeq(<<>>) /\ Truthful(<<>>)
      BY EmptyFacts DEF Truthful
    <2>2. IsSeq(Append(kept, f)) /\ (Truthful(s.queue) /\ (Stored(f) => Says(f)) => Truthful(Append(kept, f)))
      BY <1>1, AppendTells, AppendFacts
    <2>3. IsSeq(Append(s.queue, f)) /\ (Truthful(s.queue) /\ (Stored(f) => Says(f)) => Truthful(Append(s.queue, f)))
      BY AppendTells, AppendFacts
    <2>. QED
      BY <1>1, <1>2, <2>1, <2>2, <2>3
  <1>6. ASSUME AllStored(s.queue), s.stale \/ ~s.live
        PROVE  AllStored(t.queue)
    <2>1. ~Ignores(s, f) => Stored(f)
      BY <1>6 DEF Ignores
    <2>2. AllStored(<<>>)
      BY EmptyFacts DEF AllStored
    <2>. QED
      BY <1>1, <1>2, <1>6, <2>1, <2>2, AppendTells
  <1>7. ASSUME NEW n, LiveInTurn(s.queue, n),
               ~Stored(f) => Speaks(f, n) /\ \A y \in DOMAIN s.queue : Stored(s.queue[y]) => Speaks(f, Num(s.queue[y]))
        PROVE  LiveInTurn(t.queue, n)
    <2>1. LiveInTurn(<<>>, n) /\ LiveInTurn(kept, n)
      BY <1>1, EmptyFacts, AllStoredLive DEF AllStored
    <2>2. Stored(f) => LiveInTurn(Append(kept, f), n)
      BY <1>1, AppendTells, AllStoredLive
    <2>3. LiveInTurn(Append(s.queue, f), n)
      BY <1>7, AppendTells
    <2>. QED
      BY <1>2, <1>7, <2>1, <2>2, <2>3
  <1>. QED
    BY <1>2, <1>3, <1>4, <1>5, <1>6, <1>7

\* A queue that lost nothing took the frame, if the client asked for it.
LEMMA OfferTakes ==
    ASSUME NEW s, IsSub(s), IsSeq(s.queue), NEW f, NEW t, t = Offer(s, f), s.on, ~closed
    PROVE  /\ ~Matches(f) => t = s
           /\ Matches(f) /\ s.live /\ ~t.stale /\ ~t.reset => t.queue = Append(s.queue, f)
  <1>1. ~Matches(f) => t = s
    BY DEF Offer, Ignores
  <1>2. ASSUME Matches(f), s.live, ~t.stale, ~t.reset
        PROVE  t.queue = Append(s.queue, f)
    <2>1. ~s.stale /\ ~s.reset
      BY <1>2, OfferTells
    <2>2. ~Ignores(s, f)
      BY <1>2, <2>1 DEF Ignores
    <2>3. CASE ~Full(s)
      <3>1. t = [s EXCEPT !.queue = Append(s.queue, f)]
        BY <2>2, <2>3 DEF Offer
      <3>. QED
        BY <3>1 DEF IsSub
    <2>4. CASE Full(s)
      <3> DEFINE kept == OnlyStored(s.queue)
      <3>1. t = Squeeze(s, f)
        BY <2>2, <2>4 DEF Offer
      <3>2. PICK stale : stale = (s.stale \/ Len(kept) < Len(s.queue))
        OBVIOUS
      <3>3. \/ t = [s EXCEPT !.queue = kept, !.stale = TRUE]
            \/ t = [s EXCEPT !.queue = <<>>, !.stale = stale, !.reset = TRUE]
            \/ t = [s EXCEPT !.queue = Append(kept, f), !.stale = stale] /\ ~(Len(kept) >= QueueLimit)
        BY <3>1, <3>2 DEF Squeeze
      <3>4. Len(kept) \in Nat /\ Len(s.queue) \in Nat /\ QueueLimit \in Nat /\ Len(s.queue) >= QueueLimit
        BY <2>4, OnlyStoredTells, StreamAssumption DEF Full, IsSeq
      <3> HIDE DEF kept
      <3>5. t.stale = TRUE \/ t.reset = TRUE \/ (t.stale = stale /\ ~(Len(kept) >= QueueLimit))
        BY <3>3 DEF IsSub
      <3>6. t.stale = stale /\ ~stale /\ ~(Len(kept) >= QueueLimit)
        BY <1>2, <3>5
      <3>7. ~(Len(kept) < Len(s.queue))
        BY <3>2, <3>6
      <3>. QED
        BY <3>4, <3>6, <3>7
    <2>. QED
      BY <2>3, <2>4
  <1>. QED
    BY <1>1, <1>2

\* What the client shows once it has what is on its way.
Eventual(s) == Shows(client.view, wire \o s.queue)

LEMMA AheadFacts ==
    ASSUME IsSeq(wire), Len(wire) <= 1
    PROVE  \/ wire = <<>> /\ \A s : IsSeq(s.queue) => Eventual(s) = Shows(client.view, s.queue)
           \/ /\ wire # <<>> /\ wire = <<wire[1]>>
              /\ \A s : IsSeq(s.queue) => Eventual(s) = Shows(Apply(client.view, wire[1]), s.queue)
  <1>1. wire = <<>> \/ (wire # <<>> /\ wire = <<wire[1]>>)
    BY DEF IsSeq
  <1>2. CASE wire = <<>>
    BY <1>2, ShowsWire DEF Eventual
  <1>3. CASE wire # <<>> /\ wire = <<wire[1]>>
    <2>1. PICK f : f = wire[1]
      OBVIOUS
    <2>2. wire = <<f>>
      BY <1>3, <2>1
    <2>3. ASSUME NEW s, IsSeq(s.queue)
          PROVE  Eventual(s) = Shows(Apply(client.view, f), s.queue)
      BY <2>2, <2>3, ShowsWire DEF Eventual
    <2>. QED
      BY <1>3, <2>1, <2>3
  <1>. QED
    BY <1>1, <1>2, <1>3

LEMMA OfferShows ==
    ASSUME IsSeq(wire), Len(wire) <= 1, AsksAll, NEW s, IsSub(s), IsSeq(s.queue), NEW f, NEW t, t = Offer(s, f),
           s.on, s.live, ~closed, ~t.stale, ~t.reset
    PROVE  /\ IsSub(t) /\ IsSeq(t.queue) /\ t.on /\ t.live /\ ~s.stale /\ ~s.reset
           /\ Eventual(t) = Apply(Eventual(s), f)
  <1>1. IsSub(t) /\ IsSeq(t.queue) /\ t.on /\ t.live /\ ~s.stale /\ ~s.reset
    BY OfferTells
  <1>2. CASE ~Matches(f)
    <2>1. t = s
      BY <1>2, OfferTakes
    <2>2. f.kind \notin {"open", "append", "close", "end", "snapshot"}
      BY <1>2 DEF AsksAll, Matches, ClassOf
    <2>3. \A vw : Apply(vw, f) = vw
      BY <2>2 DEF Apply
    <2>. QED
      BY <1>1, <2>1, <2>3
  <1>3. CASE Matches(f)
    <2>1. t.queue = Append(s.queue, f)
      BY <1>3, OfferTakes
    <2>2. \A vw : Shows(vw, Append(s.queue, f)) = Apply(Shows(vw, s.queue), f)
      BY ShowsOneMore
    <2>. QED
      BY <1>1, <2>1, <2>2, AheadFacts
  <1>. QED
    BY <1>2, <1>3

-----------------------------------------------------------------------------
(***************************************************************************)
(* What an update makes of a complete view.                                *)
(***************************************************************************)

Showing(vw, open, n) == Undone(vw) = open /\ \A b \in vw : IsBlock(b) /\ (b.done => ClosedBy(b, n))

IsAt(b, t, k)    == b.turn = t /\ b.block = k
Block(t, k, len) == [turn |-> t, block |-> k, len |-> len, done |-> FALSE]

\* What streams ahead of its record, at a length, and all that is open with it.
LiveAs(len) == IF live.shown THEN {Block(Running, NextBlock, len)} ELSE {}
OpenAs(len) ==
    (IF running.open # 0 THEN {Block(Running, log[running.open].block, log[running.open].len)} ELSE {}) \cup LiveAs(len)

LEMMA BlockFacts ==
    ASSUME NEW t, NEW k, NEW len
    PROVE  LET b == Block(t, k, len) IN IsBlock(b) /\ b.turn = t /\ b.block = k /\ b.len = len /\ ~b.done
  BY DEF Block, IsBlock

LEMMA AllOpenIs == AllOpen = OpenAs(live.sent)
  <1> DEFINE first == [block |-> log[running.open].block, len |-> log[running.open].len]
             next  == [block |-> NextBlock, len |-> live.sent]
  <1>1. first.block = log[running.open].block /\ first.len = log[running.open].len /\ next.block = NextBlock /\ next.len = live.sent
    OBVIOUS
  <1>2. \A o : o \in OpenBlocks <=> (running.open # 0 /\ o = first) \/ (live.shown /\ o = next)
    BY DEF OpenBlocks
  <1> HIDE DEF first, next
  <1>3. \A c : c \in AllOpen <=> \E o \in OpenBlocks : c = Block(Running, o.block, o.len)
    BY DEF AllOpen, Block
  <1>4. \A c : c \in AllOpen <=> c \in OpenAs(live.sent)
    BY <1>1, <1>2, <1>3 DEF OpenAs, LiveAs
  <1>. QED
    BY <1>4 DEF AllOpen, OpenAs, LiveAs

LEMMA AllOpenThen == AllOpen' = OpenAs(live.sent)'
  <1>1. AllOpen = OpenAs(live.sent)
    BY AllOpenIs
  <1>2. (AllOpen = OpenAs(live.sent))'
    BY <1>1, PTL
  <1>. QED
    BY <1>2

LEMMA CompleteIs ==
    ASSUME NEW vw
    PROVE  Complete(vw) <=> Showing(vw, OpenAs(live.sent), 2 * processed)
  BY AllOpenIs DEF Complete, Showing

LEMMA OpensBlock ==
    ASSUME NEW vw, NEW open, NEW n, Showing(vw, open, n), NEW f, f.kind = "open",
           \A b \in vw : ~IsAt(b, f.turn, f.block)
    PROVE  Showing(Apply(vw, f), open \cup {Block(f.turn, f.block, f.len)}, n)
  <1>1. At(vw, f) = {} /\ Shown(f, FALSE) = Block(f.turn, f.block, f.len)
    BY DEF At, IsAt, Shown, Block
  <1>2. Apply(vw, f) = vw \cup {Block(f.turn, f.block, f.len)}
    BY <1>1 DEF Apply
  <1>3. PICK c : c = Block(f.turn, f.block, f.len)
    OBVIOUS
  <1>4. IsBlock(c) /\ ~c.done
    BY <1>3, BlockFacts
  <1>. QED
    BY <1>2, <1>3, <1>4 DEF Showing, Undone

LEMMA ClosesBlock ==
    ASSUME NEW vw, NEW open, NEW n \in Int, Showing(vw, open, n), NEW f, f.kind = "close",
           NEW m \in Int, n <= m, ClosedBy(Shown(f, TRUE), m), IsSeq(log)
    PROVE  Showing(Apply(vw, f), {b \in open : ~IsAt(b, f.turn, f.block)}, m)
  <1>1. Apply(vw, f) = (vw \ At(vw, f)) \cup {Shown(f, TRUE)}
    BY DEF Apply
  <1>2. PICK c : c = Shown(f, TRUE)
    OBVIOUS
  <1>3. IsBlock(c) /\ c.done
    BY <1>2, ShownFacts
  <1>4. \A b : ClosedBy(b, n) => ClosedBy(b, m)
    <2>1. \A k \in Seqs : 2 * k - 1 <= n => 2 * k - 1 <= m
      BY DEF IsSeq, Seqs
    <2>. QED
      BY <2>1 DEF ClosedBy
  <1>. QED
    BY <1>1, <1>2, <1>3, <1>4 DEF Showing, Undone, At, IsAt

LEMMA AppendsBlock ==
    ASSUME NEW vw, NEW open, NEW n, Showing(vw, open, n), NEW f, f.kind = "append", NEW len, Block(f.turn, f.block, len) \in open,
           \A b \in vw : IsAt(b, f.turn, f.block) => b = Block(f.turn, f.block, len)
    PROVE  Showing(Apply(vw, f), (open \ {Block(f.turn, f.block, len)}) \cup {Block(f.turn, f.block, len + f.len)}, n)
  <1>1. PICK c, d : c = Block(f.turn, f.block, len) /\ d = Block(f.turn, f.block, len + f.len)
    OBVIOUS
  <1>2. /\ IsBlock(c) /\ ~c.done /\ IsAt(c, f.turn, f.block) /\ IsBlock(d) /\ ~d.done
        /\ [c EXCEPT !.len = c.len + f.len] = d
    <2>1. c.turn = f.turn /\ c.block = f.block /\ c.len = len /\ IsBlock(c) /\ c.done = FALSE
      BY <1>1 DEF Block, IsBlock
    <2>2. PICK x : x = len + f.len
      OBVIOUS
    <2>3. [c EXCEPT !.len = x] = [turn |-> c.turn, block |-> c.block, len |-> x, done |-> c.done]
      <3>1. c \in [turn : {c.turn}, block : {c.block}, len : {c.len}, done : BOOLEAN]
        BY <2>1 DEF IsBlock
      <3>2. DOMAIN c = {"turn", "block", "len", "done"}
        BY <3>1
      <3>. QED
        BY <3>1, <3>2
    <2>4. [c EXCEPT !.len = c.len + f.len] = d
      BY <1>1, <2>1, <2>2, <2>3 DEF Block
    <2>. QED
      BY <1>1, <2>1, <2>4, BlockFacts DEF IsAt
  <1>3. c \in vw /\ At(vw, f) = {c}
    BY <1>1, <1>2 DEF Showing, Undone, At, IsAt
  <1>4. Apply(vw, f) = (vw \ {c}) \cup {d}
    BY <1>2, <1>3 DEF Apply
  <1>. QED
    BY <1>1, <1>2, <1>4 DEF Showing, Undone

LEMMA EndsTurn ==
    ASSUME NEW vw, NEW open, NEW n, Showing(vw, open, n), NEW f, f.kind = "end", \A b \in open : b.turn = f.turn
    PROVE  Showing(Apply(vw, f), {}, n)
  BY DEF Showing, Undone, Apply

\* Of the turn that runs, the next block is what streams ahead.
LEMMA NextIsLive ==
    ASSUME IsSeq(log), LogOf(log), TurnsOf(log), Presents, processed \in 0 .. Len(log), NEW len,
           NEW vw, Showing(vw, OpenAs(len), 2 * processed), NEW b \in vw, IsAt(b, Running, NextBlock), Running # 0
    PROVE  live.shown /\ b = Block(Running, NextBlock, len)
  <1>0. Len(log) \in Nat /\ Seqs = 1 .. Len(log) /\ processed \in Nat /\ running.blocks \in Nat /\ NextBlock = running.blocks + 1
    BY DEF IsSeq, Seqs, Presents, NextBlock
  <1>1. ASSUME NEW p \in 1 .. processed, log[p].kind = "text", log[p].turn = Running
        PROVE  log[p].block # NextBlock
    <2>1. log[p].block <= running.blocks /\ log[p].block \in Nat
      BY <1>0, <1>1 DEF Presents, TurnsOf
    <2>. QED
      BY <1>0, <2>1
  <1>2. ASSUME b.done
        PROVE  FALSE
    <2>1. PICK k \in Seqs : /\ log[k].prev # 0 /\ 2 * k - 1 <= 2 * processed
                            /\ log[k].turn = b.turn /\ log[log[k].prev].block = b.block
      BY <1>2 DEF Showing, ClosedBy
    <2>2. log[k].prev \in 1 .. k - 1 /\ log[log[k].prev].kind = "text" /\ log[log[k].prev].turn = Running
      BY <2>1, PrevFacts DEF IsAt
    <2>3. log[k].prev \in 1 .. processed
      BY <1>0, <2>1, <2>2
    <2>. QED
      BY <1>1, <2>1, <2>2, <2>3 DEF IsAt
  <1>3. b \in OpenAs(len)
    BY <1>2 DEF Showing, Undone
  <1>4. ASSUME running.open # 0
        PROVE  b # Block(Running, log[running.open].block, log[running.open].len)
    <2>1. log[running.open].block # NextBlock
      BY <1>1, <1>4 DEF Presents
    <2>. QED
      BY <2>1, BlockFacts DEF IsAt
  <1>. QED
    BY <1>3, <1>4 DEF OpenAs, LiveAs

LEMMA LiveFrameText ==
    LET open == Frame("open", Running, NextBlock, 0)
        more == Frame("append", Running, NextBlock, live.said - live.sent)
    IN  /\ open.kind = "open" /\ open.turn = Running /\ open.block = NextBlock /\ open.len = 0 /\ ~Stored(open)
        /\ more.kind = "append" /\ more.turn = Running /\ more.block = NextBlock /\ more.len = live.said - live.sent /\ ~Stored(more)
  BY FrameText DEF Stored

\* The text that is not sent yet makes what is shown as long as what was said.
LEMMA PendingShows ==
    ASSUME IsSeq(log), LogOf(log), TurnsOf(log), Presents, processed \in 0 .. Len(log), NEW vw, Complete(vw)
    PROVE  /\ Pending = <<>> => Showing(vw, OpenAs(live.said), 2 * processed)
           /\ Pending # <<>> => Showing(Apply(vw, Pending[1]), OpenAs(live.said), 2 * processed)
  <1>1. Showing(vw, OpenAs(live.sent), 2 * processed)
    BY CompleteIs
  <1>2. live.said \in Nat /\ live.sent \in Nat /\ live.sent <= live.said
    BY DEF Presents
  <1>3. CASE live.said = live.sent
    BY <1>1, <1>2, <1>3 DEF Pending
  <1>4. CASE live.said # live.sent
    <2>1. Pending = <<Frame("append", Running, NextBlock, live.said - live.sent)>> /\ Pending # <<>>
      BY <1>2, <1>4 DEF Pending
    <2>2. PICK f : f = Frame("append", Running, NextBlock, live.said - live.sent)
      OBVIOUS
    <2>3. f.kind = "append" /\ f.turn = Running /\ f.block = NextBlock /\ f.len = live.said - live.sent
      BY <2>2, LiveFrameText
    <2>4. live.shown /\ Running # 0
      BY <1>4 DEF Presents, NoLive
    <2>5. PICK c, d : c = Block(Running, NextBlock, live.sent) /\ d = Block(Running, NextBlock, live.said)
      OBVIOUS
    <2>7. c \in OpenAs(live.sent)
      BY <2>4, <2>5 DEF OpenAs, LiveAs
    <2>8. \A b \in vw : IsAt(b, f.turn, f.block) => b = Block(f.turn, f.block, live.sent)
      BY <1>1, <2>3, <2>4, NextIsLive
    <2>9. Showing(Apply(vw, f), (OpenAs(live.sent) \ {c}) \cup {Block(f.turn, f.block, live.sent + f.len)}, 2 * processed)
      BY <1>1, <2>3, <2>5, <2>7, <2>8, AppendsBlock
    <2>10. live.sent + f.len = live.said
      BY <1>2, <2>3
    <2>11. (OpenAs(live.sent) \ {c}) \cup {d} = OpenAs(live.said)
      <3>1. running.open # 0 => Block(Running, log[running.open].block, log[running.open].len) # c
        <4>1. running.open # 0 => log[running.open].block # NextBlock
          <5>1. running.open # 0 => log[running.open].block <= running.blocks /\ log[running.open].block \in Nat /\ running.blocks \in Nat
            BY DEF Presents, TurnsOf
          <5>. QED
            BY <5>1 DEF NextBlock
        <4>. QED
          BY <2>5, <4>1, BlockFacts
      <3>. QED
        BY <2>4, <2>5, <3>1 DEF OpenAs, LiveAs
    <2>. QED
      BY <2>1, <2>2, <2>3, <2>5, <2>9, <2>10, <2>11
  <1>. QED
    BY <1>3, <1>4

\* The own frame of a text or an end, once the block before is closed.
LEMMA OwnShows ==
    ASSUME NEW i \in Seqs, log[i].kind \in {"text", "end"}, log[i].turn = Running,
           log[i].kind = "text" => log[i].block = NextBlock /\ (live.shown => log[i].len = live.said),
           NEW f, Says(f), f.seq = i, ~(log[i].prev # 0 /\ f.part = 1),
           NEW n, NEW vw, Showing(vw, LiveAs(live.said), n),
           \A b \in vw : IsAt(b, Running, NextBlock) => live.shown /\ b = Block(Running, NextBlock, live.said)
    PROVE  Showing(Apply(vw, f), IF log[i].kind = "text" THEN {Block(Running, NextBlock, log[i].len)} ELSE {}, n)
  <1>1. /\ f.turn = Running /\ f.kind = (IF log[i].kind = "text" THEN "open" ELSE "end")
        /\ log[i].kind = "text" => f.block = NextBlock /\ f.len = log[i].len
    BY DEF Says
  <1>2. CASE log[i].kind = "end"
    <2>1. \A b \in LiveAs(live.said) : b.turn = Running
      BY BlockFacts DEF LiveAs
    <2>. QED
      BY <1>1, <1>2, <2>1, EndsTurn
  <1>3. CASE log[i].kind = "text" /\ live.shown
    <2>1. PICK c : c = Block(Running, NextBlock, live.said)
      OBVIOUS
    <2>2. LiveAs(live.said) = {c} /\ c \in vw /\ IsAt(c, f.turn, f.block)
      BY <1>1, <1>3, <2>1, BlockFacts DEF LiveAs, Showing, Undone, IsAt
    <2>3. Apply(vw, f) = vw
      BY <1>1, <1>3, <2>2 DEF Apply, At, IsAt
    <2>. QED
      BY <1>3, <2>1, <2>2, <2>3
  <1>4. CASE log[i].kind = "text" /\ ~live.shown
    <2>1. LiveAs(live.said) = {}
      BY <1>4 DEF LiveAs
    <2>2. Showing(Apply(vw, f), {} \cup {Block(f.turn, f.block, f.len)}, n)
      BY <1>1, <1>4, <2>1, OpensBlock
    <2>. QED
      BY <1>1, <1>4, <2>2
  <1>. QED
    BY <1>2, <1>3, <1>4

-----------------------------------------------------------------------------
(***************************************************************************)
(* The agent, the store and the bus agree about the turn, step by step.    *)
(***************************************************************************)

LEMMA LogFacts ==
    ASSUME FeedInv
    PROVE  /\ IsSeq(log) /\ LogOf(log) /\ Len(log) \in Nat /\ Seqs = 1 .. Len(log) /\ processed \in 0 .. Len(log) /\ processed \in Nat
           /\ \A i \in Seqs : log[i].kind = "text" => log[i].turn # 0 /\ log[i].turn \in 1 .. i
  <1>1. IsSeq(log) /\ LogOf(log) /\ Len(log) \in Nat /\ Seqs = 1 .. Len(log) /\ processed \in 0 .. Len(log)
    BY ClientPlaces DEF FeedInv, Shapes, PrunedInv, Seqs
  <1>2. \A i \in Seqs : log[i].kind = "text" => log[i].turn \in 1 .. i
    BY <1>1 DEF LogOf, Opens
  <1>. QED
    BY <1>1, <1>2

LEMMA TurnNowOpens ==
    ASSUME FeedInv
    PROVE  /\ TurnNow # 0 => Opens(log, TurnNow, Len(log))
           /\ TurnNow = 0 => \A t : ~Opens(log, t, Len(log))
  <1>1. IsSeq(log) /\ LogOf(log) /\ Len(log) \in 0 .. Len(log)
    BY LogFacts
  <1>2. \A t : t # 0 => (TurnNow = t <=> Opens(log, t, Len(log)))
    BY <1>1, TurnIsOpen DEF TurnNow
  <1>3. \A t : Opens(log, t, Len(log)) => t # 0
    BY DEF Opens
  <1>. QED
    BY <1>2, <1>3

\* When nothing but notes waits, what the agent goes on with is what the bus presents.
LEMMA TurnNowIs ==
    ASSUME FeedInv, AgentInv, PumpIsFree
    PROVE  TurnNow = Running /\ OpenNow = running.open
  <1>0. /\ IsSeq(log) /\ LogOf(log) /\ Len(log) \in Nat /\ Seqs = 1 .. Len(log) /\ processed \in Nat /\ processed <= Len(log)
        /\ \A i \in Seqs : log[i].kind = "text" => log[i].turn # 0
    BY LogFacts
  <1>1. \A i \in processed + 1 .. Len(log) : log[i].kind = "note"
    BY DEF PumpIsFree
  <1>2. ASSUME NEW t
        PROVE  Opens(log, t, processed) <=> Opens(log, t, Len(log))
    <2>1. ASSUME Opens(log, t, processed)
          PROVE  Opens(log, t, Len(log))
      <3>1. \A j \in t + 1 .. Len(log) : j \in t + 1 .. processed \/ j \in processed + 1 .. Len(log)
        BY <1>0, <2>1 DEF Opens
      <3>. QED
        BY <1>0, <1>1, <2>1, <3>1 DEF Opens, Marks
    <2>2. ASSUME Opens(log, t, Len(log))
          PROVE  Opens(log, t, processed)
      <3>1. t \notin processed + 1 .. Len(log)
        BY <1>1, <2>2 DEF Opens
      <3>. QED
        BY <1>0, <2>2, <3>1 DEF Opens
    <2>. QED
      BY <2>1, <2>2
  <1>3. TurnNow = Running
    <2>1. CASE Running = 0
      <3>1. \A t \in Seqs : ~Opens(log, t, processed)
        BY <2>1 DEF AgentInv, Presents
      <3>2. \A t : Opens(log, t, Len(log)) => t \in Seqs
        BY <1>0 DEF Opens
      <3>. QED
        BY <1>2, <2>1, <3>1, <3>2, TurnNowOpens
    <2>2. CASE Running # 0
      <3>1. Opens(log, Running, Len(log))
        BY <1>2, <2>2 DEF AgentInv, Presents
      <3>2. TurnNow # 0 /\ Opens(log, TurnNow, Len(log)) /\ Len(log) \in Int
        BY <1>0, <3>1, TurnNowOpens
      <3>. QED
        BY <3>1, <3>2, OpensOnce
    <2>. QED
      BY <2>1, <2>2
  <1> DEFINE texts == {i \in Seqs : log[i].kind = "text" /\ log[i].turn = TurnNow}
  <1>4. OpenNow = IF texts = {} THEN 0 ELSE Maximum(texts)
    BY DEF OpenNow
  <1>5. \A i \in texts : i \in 1 .. processed /\ i <= running.open
    <2>1. ASSUME NEW i \in texts
          PROVE  i \in 1 .. processed
      BY <1>0, <1>1
    <2>. QED
      BY <1>3, <2>1 DEF AgentInv, Presents
  <1>6. running.open # 0 => running.open \in texts
    BY <1>0, <1>3 DEF AgentInv, Presents
  <1>7. running.open \in Nat
    BY DEF AgentInv, Presents
  <1>8. CASE running.open = 0
    <2>1. texts = {}
      <3> HIDE DEF texts
      <3>. QED
        BY <1>0, <1>5, <1>8
    <2>. QED
      BY <1>3, <1>4, <1>8, <2>1
  <1>9. CASE running.open # 0
    <2>1. texts # {} /\ texts \in SUBSET (0 .. Len(log))
      BY <1>0, <1>6, <1>9
    <2> HIDE DEF texts
    <2>2. Maximum(texts) \in texts /\ \A m \in texts : m <= Maximum(texts)
      BY <1>0, <2>1, Greatest
    <2>3. Maximum(texts) <= running.open /\ running.open <= Maximum(texts) /\ Maximum(texts) \in Int
      BY <1>0, <1>5, <1>6, <1>7, <1>9, <2>2
    <2>4. OpenNow = Maximum(texts)
      BY <1>4, <2>1
    <2> DEFINE m == Maximum(texts)
    <2> HIDE DEF m
    <2>5. m = running.open
      BY <1>7, <2>3 DEF m
    <2>. QED
      BY <1>3, <2>4, <2>5 DEF m
  <1>. QED
    BY <1>3, <1>8, <1>9

\* What the agent commits, from the turn that runs.
Continues(e) ==
    /\ e.block \in Nat /\ e.len \in Nat
    /\ e.kind = "begin" => TurnNow = 0
    /\ e.kind \in {"text", "end"} => TurnNow # 0 /\ e.turn = TurnNow
    /\ e.kind = "text" =>
         \A j \in Seqs : log[j].kind = "text" /\ log[j].turn = e.turn => log[j].block < e.block /\ j <= e.prev

LEMMA TurnsGrow ==
    ASSUME FeedInv, TurnsOf(log), NEW e, Continues(e), NEW lg, lg = Append(log, e)
    PROVE  TurnsOf(lg)
  <1>0. IsSeq(log) /\ Len(log) \in Nat /\ Seqs = 1 .. Len(log)
    BY LogFacts
  <1>1. Len(lg) = Len(log) + 1 /\ (\A x \in 1 .. Len(log) : lg[x] = log[x]) /\ lg[Len(log) + 1] = e
    <2>1. IsSeq(lg) /\ DOMAIN lg = 1 .. Len(log) + 1
      BY <1>0, AppendFacts
    <2>2. Len(lg) = Len(log) + 1
      BY <1>0, <2>1 DEF IsSeq
    <2>. QED
      BY <1>0, <2>2, AppendFacts
  <1>2. \A t : \A n \in Int : n <= Len(log) => (Opens(lg, t, n) <=> Opens(log, t, n))
    BY <1>0, OpensLater
  <1> SUFFICES ASSUME NEW i \in 1 .. Len(lg)
               PROVE  /\ lg[i].kind = "begin" => \A t \in 1 .. i - 1 : ~Opens(lg, t, i - 1)
                      /\ lg[i].kind = "end" => Opens(lg, lg[i].turn, i - 1)
                      /\ lg[i].kind = "text" =>
                           \A j \in 1 .. i - 1 :
                              lg[j].kind = "text" /\ lg[j].turn = lg[i].turn => lg[j].block < lg[i].block /\ j <= lg[i].prev
                      /\ lg[i].block \in Nat /\ lg[i].len \in Nat
    BY DEF TurnsOf
  <1>3. CASE i \in 1 .. Len(log)
    <2>1. i - 1 \in Int /\ i - 1 <= Len(log) /\ lg[i] = log[i] /\ \A j \in 1 .. i - 1 : lg[j] = log[j]
      BY <1>0, <1>1, <1>3
    <2>. QED
      BY <1>2, <1>3, <2>1 DEF TurnsOf
  <1>4. CASE i = Len(log) + 1
    <2>1. i - 1 = Len(log) /\ lg[i] = e
      BY <1>0, <1>1, <1>4
    <2>2. \A t : Opens(lg, t, i - 1) <=> Opens(log, t, Len(log))
      BY <1>0, <1>2, <2>1
    <2>3. \A j \in 1 .. i - 1 : j \in Seqs /\ lg[j] = log[j]
      BY <1>0, <1>1, <2>1
    <2>. QED
      BY <2>1, <2>2, <2>3, TurnNowOpens DEF Continues
  <1>. QED
    BY <1>0, <1>1, <1>3, <1>4

\* A commit that the pump waits for, or a note.
Expected(e) ==
    /\ e.kind # "note" => PumpIsFree
    /\ e.kind = "text" => e.block = NextBlock /\ (live.said > 0 => e.len = live.said)

LEMMA CommitKeepsAgent ==
    ASSUME FeedInv, AgentInv, NEW e, Follows(e), Continues(e), Expected(e), log' = Append(log, e), UNCHANGED bus
    PROVE  AgentInv'
  <1>0. IsSeq(log) /\ LogOf(log) /\ Len(log) \in Nat /\ Seqs = 1 .. Len(log) /\ processed \in Nat /\ processed <= Len(log)
    BY LogFacts
  <1>1. Len(log') = Len(log) + 1 /\ (\A x \in 1 .. Len(log) : log'[x] = log[x]) /\ log'[Len(log) + 1] = e
    <2>1. IsSeq(log') /\ DOMAIN log' = 1 .. Len(log) + 1
      BY <1>0, AppendFacts
    <2>2. Len(log') = Len(log) + 1
      BY <1>0, CommitKeepsLog
    <2>. QED
      BY <1>0, <2>2, AppendFacts
  <1>2. processed' = processed /\ running' = running /\ live' = live /\ NextBlock' = NextBlock /\ Running' = Running
    BY DEF bus, NextBlock, Running
  <1>3. TurnsOf(log')
    BY TurnsGrow DEF AgentInv
  <1>4. Presents'
    <2>1. \A t : Opens(log', t, processed) <=> Opens(log, t, processed)
      BY <1>0, OpensLater
    <2>2. \A t \in Seqs' : Opens(log, t, processed) => t \in Seqs
      BY <1>0 DEF Opens
    <2>3. \A i \in 1 .. processed : log'[i] = log[i]
      BY <1>0, <1>1
    <2>4. /\ running' \in [turn : Nat, blocks : Nat, open : Nat] /\ live' \in [shown : BOOLEAN, said : Nat, sent : Nat]
          /\ live'.sent <= live'.said /\ (live'.shown => live'.said > 0) /\ (~live'.shown => live' = NoLive)
      BY <1>2 DEF AgentInv, Presents
    <2>5. Running = 0 => running.open = 0 /\ ~live.shown /\ \A t \in Seqs' : ~Opens(log', t, processed)
      BY <2>1, <2>2 DEF AgentInv, Presents
    <2>6. Running # 0 => Opens(log', Running, processed)
      BY <2>1 DEF AgentInv, Presents
    <2>7. running.open # 0 =>
            running.open \in 1 .. processed /\ log'[running.open].kind = "text" /\ log'[running.open].turn = Running
      BY <2>3 DEF AgentInv, Presents
    <2>8. \A i \in 1 .. processed :
             log'[i].kind = "text" /\ log'[i].turn = Running => i <= running.open /\ log'[i].block <= running.blocks
      BY <2>3 DEF AgentInv, Presents
    <2>. QED
      BY <1>2, <2>4, <2>5, <2>6, <2>7, <2>8 DEF Presents
  <1>5. e.kind # "note" => PumpIsFree /\ TurnNow = Running /\ OpenNow = running.open
    BY TurnNowIs DEF Expected
  <1>6. Waits'
    <2> SUFFICES ASSUME NEW i \in processed + 1 .. Len(log')
                 PROVE  /\ \A j \in processed + 1 .. Len(log') : log'[i].kind # "note" /\ log'[j].kind # "note" => i = j
                        /\ log'[i].kind = "begin" => Running = 0
                        /\ log'[i].kind \in {"text", "end"} => log'[i].turn = Running /\ log'[i].prev = running.open
                        /\ log'[i].kind = "text" => log'[i].block = NextBlock /\ (live.shown => log'[i].len = live.said)
      BY <1>2 DEF Waits
    <2>1. \A j \in processed + 1 .. Len(log') :
             (j \in processed + 1 .. Len(log) /\ log'[j] = log[j]) \/ (j = Len(log) + 1 /\ log'[j] = e)
      BY <1>0, <1>1
    <2>2. e.kind # "note" => \A j \in processed + 1 .. Len(log) : log[j].kind = "note"
      BY <1>5 DEF PumpIsFree
    <2>3. \A j \in processed + 1 .. Len(log') : log'[i].kind # "note" /\ log'[j].kind # "note" => i = j
      BY <2>1, <2>2 DEF AgentInv, Waits
    <2>4. CASE i \in processed + 1 .. Len(log) /\ log'[i] = log[i]
      <3>1. /\ log[i].kind = "begin" => Running = 0
            /\ log[i].kind \in {"text", "end"} => log[i].turn = Running /\ log[i].prev = running.open
            /\ log[i].kind = "text" => log[i].block = NextBlock /\ (live.shown => log[i].len = live.said)
        BY <2>4 DEF AgentInv, Waits
      <3>. QED
        BY <2>3, <2>4, <3>1
    <2>5. CASE i = Len(log) + 1 /\ log'[i] = e
      <3>1. e.kind = "begin" => Running = 0
        BY <1>5 DEF Continues
      <3>2. e.kind \in {"text", "end"} => e.turn = Running /\ e.prev = running.open
        BY <1>5 DEF Continues, Follows
      <3>3. e.kind = "text" => e.block = NextBlock /\ (live.shown => e.len = live.said)
        BY DEF Expected, AgentInv, Presents
      <3>. QED
        BY <2>3, <2>5, <3>1, <3>2, <3>3
    <2>. QED
      BY <2>1, <2>4, <2>5
  <1>. QED
    BY <1>3, <1>4, <1>6 DEF AgentInv

\* The events that the actions commit.
LEMMA CommitsContinue ==
    ASSUME FeedInv, AgentInv, TurnBegins \/ TextRecorded \/ TurnEnds \/ Noted
    PROVE  /\ \E e : Follows(e) /\ Continues(e) /\ Expected(e) /\ log' = Append(log, e)
           /\ UNCHANGED <<aged, pruned, bus, filter, stream, client>>
  <1>0. IsSeq(log) /\ LogOf(log) /\ Len(log) \in Nat /\ Seqs = 1 .. Len(log) /\ processed \in Nat /\ processed <= Len(log)
    BY LogFacts
  <1>2. CASE TurnBegins
    <2>1. PICK e : e = Event("begin", Len(log) + 1, 0, 0)
      OBVIOUS
    <2>2. e.kind = "begin" /\ e.turn = Len(log) + 1 /\ e.block = 0 /\ e.len = 0 /\ e.prev = 0
      BY <2>1 DEF Event
    <2>. QED
      BY <1>2, <2>1, <2>2 DEF TurnBegins, Commit, Follows, Continues, Expected
  <1>3. CASE TextRecorded
    <2>1. PICK len : len = IF live.said > 0 THEN live.said ELSE 1
      OBVIOUS
    <2>2. PICK e : e = Event("text", TurnNow, NextBlock, len)
      OBVIOUS
    <2>3. e.kind = "text" /\ e.turn = TurnNow /\ e.block = NextBlock /\ e.len = len /\ e.prev = OpenNow
      BY <2>2 DEF Event
    <2>4. TurnNow # 0 /\ PumpIsFree /\ log' = Append(log, e) /\ UNCHANGED <<aged, pruned, bus, filter, stream, client>>
      BY <1>3, <2>1, <2>2 DEF TextRecorded, Commit
    <2>5. live.said \in Nat /\ running.blocks \in Nat /\ running.open \in Nat
      BY DEF AgentInv, Presents
    <2>6. TurnNow = Running /\ OpenNow = running.open
      BY <2>4, TurnNowIs
    <2>7. ASSUME NEW j \in Seqs, log[j].kind = "text", log[j].turn = TurnNow
          PROVE  log[j].block < NextBlock /\ j <= OpenNow
      <3>1. j \in 1 .. processed
        BY <1>0, <2>4, <2>7 DEF PumpIsFree
      <3>2. j <= running.open /\ log[j].block <= running.blocks /\ log[j].block \in Nat
        BY <1>0, <2>6, <2>7, <3>1 DEF AgentInv, Presents, TurnsOf
      <3>. QED
        BY <2>5, <2>6, <3>2 DEF NextBlock
    <2>8. len \in Nat /\ NextBlock \in Nat /\ (live.said > 0 => len = live.said)
      BY <2>1, <2>5 DEF NextBlock
    <2>9. Follows(e)
      BY <2>3, <2>4 DEF Follows
    <2>10. Continues(e)
      BY <2>3, <2>4, <2>7, <2>8 DEF Continues
    <2>11. Expected(e)
      BY <2>3, <2>4, <2>8 DEF Expected
    <2>. QED
      BY <2>4, <2>9, <2>10, <2>11
  <1>4. CASE TurnEnds
    <2>1. PICK e : e = Event("end", TurnNow, 0, 0)
      OBVIOUS
    <2>2. e.kind = "end" /\ e.turn = TurnNow /\ e.block = 0 /\ e.len = 0 /\ e.prev = OpenNow
      BY <2>1 DEF Event
    <2>. QED
      BY <1>4, <2>1, <2>2 DEF TurnEnds, Commit, Follows, Continues, Expected
  <1>5. CASE Noted
    <2>1. PICK e : e = Event("note", 0, 0, 0)
      OBVIOUS
    <2>2. e.kind = "note" /\ e.turn = 0 /\ e.block = 0 /\ e.len = 0 /\ e.prev = 0
      BY <2>1 DEF Event
    <2>. QED
      BY <1>5, <2>1, <2>2 DEF Noted, Commit, Follows, Continues, Expected
  <1>. QED
    BY <1>2, <1>3, <1>4, <1>5

LEMMA RestartKeepsAgent ==
    ASSUME FeedInv, AgentInv, Restart
    PROVE  AgentInv'
  <1>0. /\ IsSeq(log) /\ LogOf(log) /\ Len(log) \in Nat /\ Seqs = 1 .. Len(log) /\ processed \in Nat /\ processed <= Len(log)
        /\ \A i \in Seqs : log[i].kind = "text" => log[i].turn # 0
    BY LogFacts
  <1>1. PICK e : e = Event("end", TurnNow, 0, 0)
    OBVIOUS
  <1>2. e.kind = "end" /\ e.turn = TurnNow /\ e.block = 0 /\ e.len = 0 /\ e.prev = OpenNow
    BY <1>1 DEF Event
  <1>3. /\ log' = (IF TurnNow = 0 THEN log ELSE Append(log, e))
        /\ processed' = Len(log') /\ running' = NotRunning /\ live' = NoLive
    BY <1>1 DEF Restart
  <1>4. /\ TurnsOf(log') /\ Len(log') \in Nat /\ (\A t : ~Opens(log', t, Len(log')))
        /\ \A i \in 1 .. Len(log') : log'[i].kind = "text" => log'[i].turn # 0
    <2>1. CASE TurnNow = 0
      BY <1>0, <1>3, <2>1, TurnNowOpens DEF AgentInv
    <2>2. CASE TurnNow # 0
      <3>1. log' = Append(log, e) /\ Follows(e) /\ Continues(e)
        BY <1>2, <1>3, <2>2 DEF Follows, Continues
      <3>2. Len(log') = Len(log) + 1 /\ (\A x \in 1 .. Len(log) : log'[x] = log[x]) /\ log'[Len(log) + 1] = e
        BY <1>0, <3>1, CommitKeepsLog, AppendFacts
      <3>3. TurnsOf(log')
        BY <3>1, TurnsGrow DEF AgentInv
      <3>4. ASSUME NEW t, Opens(log', t, Len(log'))
            PROVE  FALSE
        <4>1. t \in 1 .. Len(log) + 1 /\ log'[t].kind = "begin" /\ (t # Len(log) + 1 => Len(log) + 1 \in t + 1 .. Len(log) + 1)
          BY <1>0, <3>2, <3>4 DEF Opens
        <4>. QED
          BY <1>0, <1>2, <3>2, <3>4, <4>1 DEF Opens, Marks
      <3>5. \A i \in 1 .. Len(log') : log'[i].kind = "text" => log'[i].turn # 0
        BY <1>0, <1>2, <3>2
      <3>. QED
        BY <1>0, <3>2, <3>3, <3>4, <3>5
    <2>. QED
      BY <2>1, <2>2
  <1>5. Running' = 0 /\ running'.open = 0 /\ running'.blocks = 0 /\ ~live'.shown /\ live'.said = 0 /\ live'.sent = 0
    BY <1>3 DEF NotRunning, NoLive, Running
  <1>6. Presents'
    <2>1. running' \in [turn : Nat, blocks : Nat, open : Nat] /\ live' \in [shown : BOOLEAN, said : Nat, sent : Nat] /\ live' = NoLive
      BY <1>3 DEF NotRunning, NoLive
    <2>2. \A i \in 1 .. processed' : ~(log'[i].kind = "text" /\ log'[i].turn = Running')
      BY <1>3, <1>4, <1>5
    <2>3. \A t : ~Opens(log', t, processed')
      BY <1>3, <1>4
    <2>4. NoLive' = NoLive
      BY DEF NoLive
    <2>. QED
      BY <1>5, <2>1, <2>2, <2>3, <2>4 DEF Presents
  <1>7. Waits'
    BY <1>3, <1>4 DEF Waits
  <1>. QED
    BY <1>4, <1>6, <1>7 DEF AgentInv

LEMMA DeltaKeepsAgent ==
    ASSUME FeedInv, AgentInv, Delta \/ Flush
    PROVE  AgentInv'
  <1>1. log' = log /\ processed' = processed /\ running' = running /\ NextBlock' = NextBlock /\ Running' = Running /\ Seqs' = Seqs
    BY DEF Delta, Flush, store, NextBlock, Running, Seqs
  <1>2. live \in [shown : BOOLEAN, said : Nat, sent : Nat] /\ live.sent <= live.said /\ (live.shown => live.said > 0)
        /\ (~live.shown => live = NoLive)
    BY DEF AgentInv, Presents
  <1>3. CASE Delta
    <2>1. Running # 0 /\ live' = [live EXCEPT !.said = live.said + 1, !.shown = TRUE]
      BY <1>3 DEF Delta
    <2>2. live' \in [shown : BOOLEAN, said : Nat, sent : Nat] /\ live'.sent <= live'.said /\ live'.shown /\ live'.said > 0
      <3>1. PICK n \in Nat : n = live.said + 1 /\ live.sent <= n /\ n > 0
        BY <1>2
      <3>2. live' = [live EXCEPT !.said = n, !.shown = TRUE]
        BY <2>1, <3>1
      <3>3. live'.said = n /\ live'.sent = live.sent /\ live'.shown = TRUE
        BY <1>2, <3>2
      <3>. QED
        BY <1>2, <3>1, <3>2, <3>3
    <2>3. PumpIsFree
      BY <1>3 DEF Delta
    <2>4. Presents'
      BY <1>1, <2>1, <2>2 DEF AgentInv, Presents
    <2>5. Waits'
      BY <1>1, <2>3 DEF Waits, PumpIsFree
    <2>. QED
      BY <1>1, <2>4, <2>5 DEF AgentInv
  <1>4. CASE Flush
    <2>1. Pending # <<>> /\ live' = [live EXCEPT !.sent = live.said]
      BY <1>4 DEF Flush
    <2>2. live.said > live.sent
      BY <2>1 DEF Pending
    <2>3. live.shown
      BY <1>2, <2>2 DEF NoLive
    <2>4. live' \in [shown : BOOLEAN, said : Nat, sent : Nat] /\ live'.sent <= live'.said /\ live'.shown /\ live'.said > 0
          /\ live'.said = live.said
      BY <1>2, <2>1, <2>3
    <2>5. Running # 0
      BY <2>3 DEF AgentInv, Presents
    <2>6. Presents'
      BY <1>1, <2>4, <2>5 DEF AgentInv, Presents
    <2>7. Waits'
      BY <1>1, <2>3, <2>4 DEF AgentInv, Waits
    <2>. QED
      BY <1>1, <2>6, <2>7 DEF AgentInv
  <1>. QED
    BY <1>3, <1>4

\* What the bus hands on next, and what it makes of the turn.
LEMMA AnnounceFacts ==
    ASSUME FeedInv, AgentInv, Announce, NEW i, i = processed + 1
    PROVE  /\ i \in Seqs /\ i \in Nat /\ processed' = i /\ log' = log /\ ~closed
           /\ log[i].kind \in {"begin", "text", "end", "note"} /\ (log[i].kind \in {"begin", "note"} => log[i].prev = 0)
           /\ log[i].kind = "note"  => running' = running /\ live' = live
           /\ log[i].kind = "begin" => Running = 0 /\ running' = [turn |-> i, blocks |-> 0, open |-> 0] /\ live' = live
           /\ log[i].kind \in {"text", "end"} => /\ log[i].turn = Running /\ Running # 0 /\ log[i].prev = running.open
                                                 /\ live' = NoLive
           /\ log[i].kind = "text"  => /\ log[i].block = NextBlock /\ (live.shown => log[i].len = live.said)
                                       /\ running' = [turn |-> Running, blocks |-> NextBlock, open |-> i]
           /\ log[i].kind = "end"   => running' = NotRunning
  <1>0. /\ IsSeq(log) /\ LogOf(log) /\ Len(log) \in Nat /\ Seqs = 1 .. Len(log) /\ processed \in Nat /\ processed <= Len(log)
        /\ \A j \in Seqs : log[j].kind = "text" => log[j].turn # 0
    BY LogFacts
  <1>1. /\ processed < Len(log) /\ processed' = i /\ running' = Folded(i) /\ log' = log /\ ~closed
        /\ live' = IF log[i].kind \in {"text", "end"} THEN NoLive ELSE live
    BY DEF Announce, store
  <1>2. i \in Seqs /\ i \in Nat /\ i \in processed + 1 .. Len(log)
    BY <1>0, <1>1
  <1>3. /\ log[i].kind \in {"begin", "text", "end", "note"} /\ (log[i].kind \in {"begin", "note"} => log[i].prev = 0)
        /\ log[i].kind = "begin" => log[i].turn = i
    BY <1>0, <1>2 DEF LogOf
  <1>4. /\ log[i].kind = "begin" => Running = 0
        /\ log[i].kind \in {"text", "end"} => log[i].turn = Running /\ log[i].prev = running.open
        /\ log[i].kind = "text" => log[i].block = NextBlock /\ (live.shown => log[i].len = live.said)
    BY <1>2 DEF AgentInv, Waits
  <1>5. log[i].kind = "end" => Running # 0
    <2>1. log[i].kind = "end" => Opens(log, log[i].turn, i - 1)
      BY <1>0, <1>2 DEF AgentInv, TurnsOf
    <2>2. \A n : ~Opens(log, 0, n)
      BY DEF Opens
    <2>. QED
      BY <1>4, <2>1, <2>2
  <1>6. log[i].kind = "text" => Running # 0
    BY <1>0, <1>2, <1>4
  <1>7. log[i].kind = "note" => running' = running
    BY <1>1 DEF Folded
  <1>8. log[i].kind = "begin" => running' = [turn |-> i, blocks |-> 0, open |-> 0]
    BY <1>1, <1>3 DEF Folded
  <1>9. log[i].kind = "end" => running' = NotRunning
    BY <1>1 DEF Folded
  <1>10. log[i].kind = "text" => running' = [turn |-> Running, blocks |-> NextBlock, open |-> i]
    <2>1. PICK k \in Nat : k = running.blocks + 1 /\ NextBlock = k
      BY DEF AgentInv, Presents, NextBlock
    <2>2. log[i].kind = "text" => running' = [running EXCEPT !.blocks = running.blocks + 1, !.open = i]
      BY <1>1 DEF Folded
    <2>3. running \in [turn : Nat, blocks : Nat, open : Nat]
      BY DEF AgentInv, Presents
    <2>4. [running EXCEPT !.blocks = k, !.open = i] = [turn |-> Running, blocks |-> k, open |-> i]
      <3>1. PICK r : r = [running EXCEPT !.blocks = k, !.open = i]
        OBVIOUS
      <3>2. r \in [turn : Nat, blocks : Nat, open : Nat] /\ r.turn = running.turn /\ r.blocks = k /\ r.open = i
        BY <1>2, <2>3, <3>1
      <3>3. r = [turn |-> r.turn, blocks |-> r.blocks, open |-> r.open]
        BY <3>2
      <3>. QED
        BY <3>1, <3>2, <3>3 DEF Running
    <2>. QED
      BY <2>1, <2>2, <2>4
  <1>. QED
    BY <1>1, <1>2, <1>3, <1>4, <1>5, <1>6, <1>7, <1>8, <1>9, <1>10

LEMMA AnnounceKeepsAgent ==
    ASSUME FeedInv, AgentInv, Announce
    PROVE  AgentInv'
  <1>0. /\ IsSeq(log) /\ LogOf(log) /\ Len(log) \in Nat /\ Seqs = 1 .. Len(log) /\ processed \in Nat /\ processed <= Len(log)
        /\ \A j \in Seqs : log[j].kind = "text" => log[j].turn # 0 /\ log[j].turn \in 1 .. j
    BY LogFacts
  <1>1. PICK i : i = processed + 1
    OBVIOUS
  <1>2. /\ i \in Seqs /\ i \in Nat /\ processed' = i /\ log' = log /\ Seqs' = Seqs
        /\ log[i].kind \in {"begin", "text", "end", "note"}
        /\ log[i].kind = "note"  => running' = running /\ live' = live
        /\ log[i].kind = "begin" => Running = 0 /\ running' = [turn |-> i, blocks |-> 0, open |-> 0] /\ live' = live
        /\ log[i].kind \in {"text", "end"} => log[i].turn = Running /\ Running # 0 /\ live' = NoLive
        /\ log[i].kind = "text"  => log[i].block = NextBlock /\ running' = [turn |-> Running, blocks |-> NextBlock, open |-> i]
        /\ log[i].kind = "end"   => running' = NotRunning
    BY <1>1, AnnounceFacts DEF Seqs
  <1>3. /\ running \in [turn : Nat, blocks : Nat, open : Nat] /\ live \in [shown : BOOLEAN, said : Nat, sent : Nat]
        /\ live.sent <= live.said /\ (live.shown => live.said > 0) /\ (~live.shown => live = NoLive) /\ NoLive' = NoLive
        /\ NextBlock \in Nat /\ NextBlock = running.blocks + 1
    BY DEF AgentInv, Presents, NextBlock, NoLive
  <1>4. /\ Running = 0 => running.open = 0 /\ ~live.shown /\ \A t \in Seqs : ~Opens(log, t, processed)
        /\ Running # 0 => Opens(log, Running, processed)
        /\ running.open # 0 =>
             running.open \in 1 .. processed /\ log[running.open].kind = "text" /\ log[running.open].turn = Running
        /\ \A j \in 1 .. processed :
             log[j].kind = "text" /\ log[j].turn = Running => j <= running.open /\ log[j].block <= running.blocks
    BY DEF AgentInv, Presents
  <1>5. \A j \in 1 .. i : j \in 1 .. processed \/ j = i
    BY <1>0, <1>1, <1>2
  <1>6. NoLive \in [shown : BOOLEAN, said : Nat, sent : Nat] /\ NoLive.sent <= NoLive.said /\ ~NoLive.shown
    BY DEF NoLive
  <1>7. log[i].kind \notin Marks => \A t \in Seqs : Opens(log, t, i) => Opens(log, t, processed)
    <2>1. ASSUME log[i].kind \notin Marks, NEW t, Opens(log, t, i)
          PROVE  Opens(log, t, processed)
      <3>1. t \in 1 .. processed
        BY <1>5, <2>1 DEF Opens, Marks
      <3>. QED
        BY <1>0, <1>1, <2>1, <3>1 DEF Opens
    <2>. QED
      BY <2>1
  <1>8. log[i].kind \notin Marks => \A t : Opens(log, t, processed) => Opens(log, t, i)
    <2>1. ASSUME log[i].kind \notin Marks, NEW t, Opens(log, t, processed)
          PROVE  Opens(log, t, i)
      <3>1. \A j \in t + 1 .. i : j \in t + 1 .. processed \/ j = i
        BY <1>0, <1>1, <2>1 DEF Opens
      <3>. QED
        BY <1>0, <1>1, <2>1, <3>1 DEF Opens
    <2>. QED
      BY <2>1
  <1>9. CASE log[i].kind = "note"
    <2>1. running' = running /\ live' = live /\ Running' = Running
      BY <1>2, <1>9 DEF Running
    <2>2. running.open \in 1 .. processed => running.open \in 1 .. i
      BY <1>0, <1>1
    <2>3. log[i].kind \notin Marks /\ log[i].kind # "text"
      BY <1>9 DEF Marks
    <2>4. Presents'
      BY <1>2, <1>3, <1>4, <1>5, <1>7, <1>8, <2>1, <2>2, <2>3 DEF Presents
    <2>5. NextBlock' = NextBlock
      BY <2>1 DEF NextBlock
    <2>6. \A j \in i + 1 .. Len(log) : j \in processed + 1 .. Len(log)
      BY <1>0, <1>1
    <2>7. Waits'
      BY <1>2, <2>1, <2>5, <2>6 DEF AgentInv, Waits
    <2>. QED
      BY <1>2, <2>4, <2>7 DEF AgentInv
  <1>10. CASE log[i].kind # "note"
    <2>1. \A j \in i + 1 .. Len(log) : log[j].kind = "note"
      <3>1. ASSUME NEW j \in i + 1 .. Len(log), log[j].kind # "note"
            PROVE  FALSE
        <4>1. i \in processed + 1 .. Len(log) /\ j \in processed + 1 .. Len(log) /\ i # j
          BY <1>0, <1>1
        <4>. QED
          BY <1>10, <3>1, <4>1 DEF AgentInv, Waits
      <3>. QED
        BY <3>1
    <2>2. Waits'
      BY <1>2, <2>1 DEF Waits
    <2>3. CASE log[i].kind = "begin"
      <3>1. Running' = i /\ running'.open = 0 /\ running'.blocks = 0 /\ live' = live /\ ~live.shown /\ i # 0
            /\ running' \in [turn : Nat, blocks : Nat, open : Nat]
        BY <1>1, <1>0, <1>2, <1>4, <2>3 DEF Running
      <3>2. Opens(log, i, i)
        <4>1. i \in 1 .. i /\ i + 1 .. i = {}
          BY <1>0, <1>2
        <4>. QED
          BY <2>3, <4>1 DEF Opens
      <3>3. \A j \in 1 .. i : ~(log[j].kind = "text" /\ log[j].turn = i)
        <4>1. ASSUME NEW j \in 1 .. i, log[j].kind = "text", log[j].turn = i
              PROVE  FALSE
          <5>1. i \in 1 .. j
            BY <1>0, <1>2, <4>1
          <5>. QED
            BY <1>2, <2>3, <4>1, <5>1
        <4>. QED
          BY <4>1
      <3>4. Presents'
        BY <1>2, <1>3, <3>1, <3>2, <3>3 DEF Presents
      <3>. QED
        BY <1>2, <2>2, <3>4 DEF AgentInv
    <2>4. CASE log[i].kind = "text"
      <3>1. Running' = Running /\ running'.open = i /\ running'.blocks = NextBlock /\ live' = NoLive /\ Running # 0 /\ log[i].turn = Running
            /\ running' \in [turn : Nat, blocks : Nat, open : Nat] /\ log[i].block = NextBlock
        BY <1>2, <1>3, <2>4 DEF Running
      <3>2. Opens(log, Running, i)
        BY <1>4, <1>8, <2>4, <3>1 DEF Marks
      <3>3. ASSUME NEW j \in 1 .. i, log[j].kind = "text", log[j].turn = Running
            PROVE  j <= i /\ log[j].block <= NextBlock
        <4>1. CASE j = i
          BY <1>2, <1>3, <3>1, <4>1
        <4>2. CASE j # i
          <5>1. j \in 1 .. processed
            BY <1>5, <4>2
          <5>2. log[j].block <= running.blocks /\ log[j].block \in Nat /\ running.blocks \in Nat
            BY <1>0, <1>3, <1>4, <3>3, <5>1 DEF AgentInv, TurnsOf
          <5>. QED
            BY <1>3, <5>2
        <4>. QED
          BY <4>1, <4>2
      <3>4. i \in 1 .. i
        BY <1>0, <1>2
      <3>5. Presents'
        BY <1>2, <1>3, <1>6, <2>4, <3>1, <3>2, <3>3, <3>4 DEF Presents
      <3>. QED
        BY <1>2, <2>2, <3>5 DEF AgentInv
    <2>5. CASE log[i].kind = "end"
      <3>1. Running' = 0 /\ running'.open = 0 /\ live' = NoLive /\ running' \in [turn : Nat, blocks : Nat, open : Nat]
        BY <1>2, <2>5 DEF Running, NotRunning
      <3>2. ASSUME NEW t, Opens(log, t, i)
            PROVE  FALSE
        <4>1. t \in 1 .. i /\ t # i
          BY <2>5, <3>2 DEF Opens
        <4>2. i \in t + 1 .. i
          BY <1>2, <4>1
        <4>. QED
          BY <2>5, <3>2, <4>2 DEF Opens, Marks
      <3>3. \A j \in 1 .. i : log[j].kind = "text" => log[j].turn # 0
        BY <1>0, <1>2
      <3>4. Presents'
        BY <1>2, <1>3, <1>6, <3>1, <3>2, <3>3 DEF Presents
      <3>. QED
        BY <1>2, <2>2, <3>4 DEF AgentInv
    <2>. QED
      BY <1>2, <1>10, <2>3, <2>4, <2>5
  <1>. QED
    BY <1>9, <1>10

\* The frames of an event make a complete view complete for what the bus presents next.
LEMMA AnnounceShows ==
    ASSUME FeedInv, AgentInv, Announce, NEW vw, Complete(vw), NEW i, i = processed + 1,
           NEW ls, ls = IF log[i].kind # "note" /\ Running # 0 THEN Pending ELSE <<>>,
           NEW fs, fs = Frames(i, Seqs),
           NEW v1, v1 = IF ls = <<>> THEN vw ELSE Apply(vw, ls[1]),
           NEW v2, v2 = Apply(v1, fs[1]),
           NEW v3, v3 = IF Len(fs) = 2 THEN Apply(v2, fs[2]) ELSE v2
    PROVE  Complete(v3)'
  <1>0. /\ IsSeq(log) /\ LogOf(log) /\ Len(log) \in Nat /\ Seqs = 1 .. Len(log) /\ processed \in Nat /\ processed \in 0 .. Len(log)
        /\ TurnsOf(log) /\ Presents
    BY LogFacts DEF AgentInv
  <1>1. /\ i \in Seqs /\ i \in Nat /\ processed' = i /\ log' = log
        /\ log[i].kind \in {"begin", "text", "end", "note"} /\ (log[i].kind \in {"begin", "note"} => log[i].prev = 0)
        /\ log[i].kind = "note"  => running' = running /\ live' = live
        /\ log[i].kind = "begin" => Running = 0 /\ running' = [turn |-> i, blocks |-> 0, open |-> 0] /\ live' = live
        /\ log[i].kind \in {"text", "end"} => log[i].turn = Running /\ Running # 0 /\ log[i].prev = running.open /\ live' = NoLive
        /\ log[i].kind = "text"  => /\ log[i].block = NextBlock /\ (live.shown => log[i].len = live.said)
                                    /\ running' = [turn |-> Running, blocks |-> NextBlock, open |-> i]
        /\ log[i].kind = "end"   => running' = NotRunning
    BY AnnounceFacts
  <1>2. log[i].prev \in Seqs <=> log[i].prev # 0
    <2>1. log[i].prev # 0 => log[i].prev \in 1 .. i - 1
      BY <1>0, <1>1 DEF LogOf
    <2>. QED
      BY <1>0, <1>1, <2>1
  <1>3. /\ Len(fs) \in {1, 2} /\ Parts(i) = 1 .. Len(fs) /\ (Len(fs) = 2 <=> log[i].prev # 0)
        /\ \A k \in Parts(i) : fs[k].seq = i /\ fs[k].part = k
    <2>1. /\ Len(fs) \in {1, 2} /\ Parts(i) = 1 .. Len(fs)
          /\ \A k \in Parts(i) : fs[k].seq = i /\ fs[k].part = k
      BY <1>0, <1>1, <1>2, FrameFacts
    <2>2. 2 \in Parts(i) <=> log[i].prev # 0
      BY DEF Parts
    <2>3. 2 \in Parts(i) <=> Len(fs) = 2
      <3>1. CASE Len(fs) = 1
        BY <2>1, <3>1
      <3>2. CASE Len(fs) = 2
        BY <2>1, <3>2
      <3>. QED
        BY <2>1, <3>1, <3>2
    <2>. QED
      BY <2>1, <2>2, <2>3
  <1>4. \A k \in Parts(i) : Says(fs[k])
    BY <1>0, <1>1, <1>2, FramesSay
  <1>5. 1 \in Parts(i) /\ (log[i].prev # 0 => 2 \in Parts(i))
    BY DEF Parts
  <1>6. 2 * processed \in Int /\ 2 * i \in Int /\ 2 * processed <= 2 * i /\ 2 * i - 1 <= 2 * i
    BY <1>0, <1>1
  <1>7. \A w, open : Showing(w, open, 2 * processed) => Showing(w, open, 2 * i)
    <2>1. \A b : ClosedBy(b, 2 * processed) => ClosedBy(b, 2 * i)
      <3>1. \A k \in Seqs : 2 * k - 1 <= 2 * processed => 2 * k - 1 <= 2 * i
        BY <1>0, <1>6
      <3>. QED
        BY <3>1 DEF ClosedBy
    <2>. QED
      BY <2>1 DEF Showing
  <1>8. ASSUME Showing(v3, OpenAs(live.sent)', 2 * i)
        PROVE  Complete(v3)'
    <2>1. AllOpen' = OpenAs(live.sent)'
      BY AllOpenThen
    <2>2. \A b : ClosedBy(b, 2 * i)' <=> ClosedBy(b, 2 * i)
      BY <1>1 DEF ClosedBy, Seqs
    <2>. QED
      BY <1>1, <1>8, <2>1, <2>2 DEF Complete, Showing, Undone
  <1>9. Showing(vw, OpenAs(live.sent), 2 * processed)
    BY CompleteIs
  <1>10. CASE log[i].kind \in {"note", "begin"}
    <2>1. ls = <<>>
      BY <1>1, <1>10
    <2>2. v3 = Apply(vw, fs[1])
      BY <1>1, <1>3, <1>10, <2>1
    <2>3. fs[1].kind \in {"note", "begin"}
      BY <1>1, <1>3, <1>4, <1>5, <1>10 DEF Says
    <2>4. v3 = vw
      BY <2>2, <2>3 DEF Apply
    <2>5. CASE log[i].kind = "note"
      <3>1. OpenAs(live.sent)' = OpenAs(live.sent)
        BY <1>1, <2>5 DEF OpenAs, LiveAs, NextBlock, Running
      <3>. QED
        BY <1>7, <1>8, <1>9, <2>4, <3>1
    <2>6. CASE log[i].kind = "begin"
      <3>1. running.open = 0 /\ ~live.shown
        BY <1>0, <1>1, <2>6 DEF Presents
      <3>2. OpenAs(live.sent) = {}
        BY <3>1 DEF OpenAs, LiveAs
      <3>3. running'.open = 0 /\ ~live'.shown
        BY <1>1, <2>6, <3>1
      <3>4. OpenAs(live.sent)' = {}
        BY <3>3 DEF OpenAs, LiveAs
      <3>. QED
        BY <1>7, <1>8, <1>9, <2>4, <3>2, <3>4
    <2>. QED
      BY <1>10, <2>5, <2>6
  <1>11. CASE log[i].kind \in {"text", "end"}
    <2>1. Running # 0 /\ log[i].turn = Running /\ log[i].prev = running.open /\ ls = Pending
      BY <1>1, <1>11
    <2>2. Showing(v1, OpenAs(live.said), 2 * processed)
      BY <1>0, <2>1, PendingShows
    <2>3. \A b \in v1 : IsAt(b, Running, NextBlock) => live.shown /\ b = Block(Running, NextBlock, live.said)
      BY <1>0, <2>1, <2>2, NextIsLive
    <2>4. PICK v, f : /\ v3 = Apply(v, f) /\ Says(f) /\ f.seq = i /\ ~(log[i].prev # 0 /\ f.part = 1)
                      /\ Showing(v, LiveAs(live.said), 2 * i)
                      /\ \A b \in v : IsAt(b, Running, NextBlock) => live.shown /\ b = Block(Running, NextBlock, live.said)
      <3>1. CASE log[i].prev = 0
        <4>1. OpenAs(live.said) = LiveAs(live.said)
          BY <2>1, <3>1 DEF OpenAs
        <4>2. v3 = Apply(v1, fs[1]) /\ Says(fs[1]) /\ fs[1].seq = i
          BY <1>3, <1>4, <1>5, <3>1
        <4>. QED
          BY <1>7, <2>2, <2>3, <3>1, <4>1, <4>2
      <3>2. CASE log[i].prev # 0
        <4>1. v3 = Apply(v2, fs[2]) /\ Says(fs[2]) /\ fs[2].seq = i /\ fs[2].part = 2 /\ Says(fs[1]) /\ fs[1].seq = i /\ fs[1].part = 1
          BY <1>3, <1>4, <1>5, <3>2
        <4>2. PICK g : g = fs[1]
          OBVIOUS
        <4>3. g.kind = "close" /\ g.turn = Running /\ g.block = log[running.open].block
          <5>1. Says(g) /\ g.seq = i /\ g.part = 1
            BY <4>1, <4>2
          <5>2. g.kind = "close" /\ g.block = log[log[i].prev].block /\ g.turn = log[i].turn
            BY <3>2, <5>1 DEF Says
          <5>. QED
            BY <2>1, <5>2
        <4>4. PICK c : c = Shown(g, TRUE)
          OBVIOUS
        <4>5. c.turn = Running /\ c.block = log[running.open].block /\ c.done
          BY <4>3, <4>4, ShownFacts
        <4>6. ClosedBy(c, 2 * i)
          BY <1>1, <1>6, <2>1, <3>2, <4>5 DEF ClosedBy
        <4>7. Showing(v2, {b \in OpenAs(live.said) : ~IsAt(b, g.turn, g.block)}, 2 * i)
          <5>1. PICK n, m, open : n = 2 * processed /\ m = 2 * i /\ open = OpenAs(live.said)
            OBVIOUS
          <5>2. v2 = Apply(v1, g) /\ IsSeq(log) /\ n \in Int /\ m \in Int /\ n <= m
            BY <1>0, <1>1, <1>6, <4>2, <5>1
          <5>3. ClosedBy(Shown(g, TRUE), m) /\ Showing(v1, open, n)
            BY <2>2, <4>4, <4>6, <5>1
          <5>4. Showing(Apply(v1, g), {b \in open : ~IsAt(b, g.turn, g.block)}, m)
            BY <4>3, <5>2, <5>3, ClosesBlock
          <5>. QED
            BY <5>1, <5>2, <5>4
        <4>8. log[running.open].block # NextBlock
          <5>1. log[running.open].block <= running.blocks /\ log[running.open].block \in Nat /\ running.blocks \in Nat
            BY <1>0, <2>1, <3>2 DEF Presents, TurnsOf
          <5>. QED
            BY <5>1 DEF NextBlock
        <4>9. {b \in OpenAs(live.said) : ~IsAt(b, g.turn, g.block)} = LiveAs(live.said)
          <5>1. PICK o, n : o = Block(Running, log[running.open].block, log[running.open].len) /\ n = Block(Running, NextBlock, live.said)
            OBVIOUS
          <5>2. IsAt(o, g.turn, g.block) /\ ~IsAt(n, g.turn, g.block)
            BY <4>3, <4>8, <5>1, BlockFacts DEF IsAt
          <5>3. OpenAs(live.said) = {o} \cup LiveAs(live.said) /\ LiveAs(live.said) \subseteq {n}
            BY <2>1, <3>2, <5>1 DEF OpenAs, LiveAs
          <5>. QED
            BY <5>2, <5>3
        <4>10. \A b \in v2 : IsAt(b, Running, NextBlock) => live.shown /\ b = Block(Running, NextBlock, live.said)
          <5>1. v2 = (v1 \ At(v1, g)) \cup {c}
            BY <4>2, <4>3, <4>4 DEF Apply
          <5>2. ~IsAt(c, Running, NextBlock)
            BY <4>5, <4>8 DEF IsAt
          <5>. QED
            BY <2>3, <5>1, <5>2
        <4>11. Showing(v2, LiveAs(live.said), 2 * i)
          BY <4>7, <4>9
        <4>12. PICK h : h = fs[2]
          OBVIOUS
        <4>13. v3 = Apply(v2, h) /\ Says(h) /\ h.seq = i /\ ~(log[i].prev # 0 /\ h.part = 1)
          BY <4>1, <4>12
        <4>. QED
          BY <4>10, <4>11, <4>13
      <3>. QED
        BY <3>1, <3>2
    <2>5. Showing(v3, IF log[i].kind = "text" THEN {Block(Running, NextBlock, log[i].len)} ELSE {}, 2 * i)
      BY <1>1, <1>11, <2>1, <2>4, OwnShows
    <2>6. ~live'.shown
      BY <1>1, <1>11 DEF NoLive
    <2>7. CASE log[i].kind = "text"
      <3>1. Running' = Running /\ running'.open = i /\ running'.open # 0 /\ log'[i].block = NextBlock /\ log'[i].len = log[i].len
        BY <1>0, <1>1, <2>7 DEF Running
      <3>2. OpenAs(live.sent)' = {Block(Running, NextBlock, log[i].len)}
        BY <2>6, <3>1 DEF OpenAs, LiveAs
      <3>. QED
        BY <1>8, <2>5, <2>7, <3>2
    <2>8. CASE log[i].kind = "end"
      <3>1. running'.open = 0
        BY <1>1, <2>8 DEF NotRunning
      <3>2. OpenAs(live.sent)' = {}
        BY <2>6, <3>1 DEF OpenAs, LiveAs
      <3>. QED
        BY <1>8, <2>5, <2>8, <3>2
    <2>. QED
      BY <1>11, <2>7, <2>8
  <1>. QED
    BY <1>1, <1>10, <1>11

-----------------------------------------------------------------------------
(***************************************************************************)
(* What the stream and its client hold, step by step.                      *)
(***************************************************************************)

\* The log the same or longer, and the bus not behind.
Grows ==
    /\ IsSeq(log) /\ LogOf(log) /\ processed \in 0 .. Len(log) /\ processed' \in Nat /\ processed <= processed'
    /\ log' = log \/ \E e : Follows(e) /\ log' = Append(log, e)

\* From a state to the next, what is true by number n stays so.
Lasts(n) ==
    /\ \A b : ClosedBy(b, n) => ClosedBy(b, n)'
    /\ \A vw : Fits(vw, n) => Fits(vw, n)'
    /\ \A f : Speaks(f, n) => Speaks(f, n)'
    /\ \A s : IsSeq(s) /\ Truthful(s) /\ LiveInTurn(s, n) => LiveInTurn(s, n)'

LEMMA TruthLasts ==
    ASSUME Grows
    PROVE  /\ \A f : Says(f) => Says(f)'
           /\ \A s : Truthful(s) => Truthful(s)'
           /\ \A n \in Int : n <= 2 * Len(log) => Lasts(n)
  <1>1. /\ Len(log) \in Nat /\ Len(log') \in Nat /\ processed \in Nat
        /\ \A i \in Seqs : i \in Seqs' /\ i \in Nat /\ log'[i] = log[i]
        /\ \A i \in Seqs' : i \in Seqs \/ i = Len(log) + 1
    <2>1. CASE log' = log
      BY <2>1 DEF Grows, Seqs, IsSeq
    <2>2. CASE \E e : Follows(e) /\ log' = Append(log, e)
      BY <2>2, AppendFacts DEF Grows, Seqs, IsSeq
    <2>. QED
      BY <2>1, <2>2 DEF Grows
  <1>2. \A i \in Seqs : log[i].prev # 0 => log[i].prev \in Seqs
    BY <1>1 DEF Grows, LogOf, Seqs
  <1>3. ASSUME NEW f, Says(f)
        PROVE  Says(f)'
    <2>1. f.seq \in Seqs /\ f.seq \in Seqs' /\ log'[f.seq] = log[f.seq]
      BY <1>1, <1>3 DEF Says
    <2>2. log[f.seq].prev # 0 => log'[log[f.seq].prev] = log[log[f.seq].prev]
      BY <1>1, <1>2, <2>1
    <2>3. Own(f.seq)' = Own(f.seq)
      BY <2>1 DEF Own
    <2>. QED
      BY <1>3, <2>1, <2>2, <2>3 DEF Says
  <1>4. ASSUME NEW s, Truthful(s)
        PROVE  Truthful(s)'
    BY <1>3, <1>4 DEF Truthful
  <1>5. ASSUME NEW n \in Int, n <= 2 * Len(log)
        PROVE  /\ \A b : ClosedBy(b, n) => ClosedBy(b, n)'
               /\ \A vw : Fits(vw, n) => Fits(vw, n)'
               /\ \A f : Speaks(f, n) => Speaks(f, n)'
    <2>1. ASSUME NEW t, Begun(t, n)
          PROVE  Begun(t, n)'
      <3>1. t \in Seqs /\ t \in Seqs' /\ log'[t] = log[t] /\ t \in Nat
        BY <1>1, <2>1 DEF Begun
      <3>. QED
        BY <1>1, <2>1, <3>1 DEF Begun, Grows
    <2>2. ASSUME NEW t, Unended(t, n)
          PROVE  Unended(t, n)'
      <3>1. ASSUME NEW j \in Seqs', log'[j].kind = "end", log'[j].turn = t
            PROVE  n < (IF log'[j].prev # 0 THEN 2 * j ELSE 2 * j - 1)
        <4>1. CASE j \in Seqs
          BY <1>1, <2>2, <3>1, <4>1 DEF Unended, Own
        <4>2. CASE j = Len(log) + 1
          BY <1>1, <1>5, <4>2
        <4>. QED
          BY <1>1, <4>1, <4>2
      <3>. QED
        BY <3>1 DEF Unended, Own
    <2>3. ASSUME NEW b, ClosedBy(b, n)
          PROVE  ClosedBy(b, n)'
      <3>1. PICK k \in Seqs : /\ log[k].prev # 0 /\ 2 * k - 1 <= n
                              /\ log[k].turn = b.turn /\ log[log[k].prev].block = b.block
        BY <2>3 DEF ClosedBy
      <3>2. k \in Seqs' /\ log'[k] = log[k] /\ log'[log[k].prev] = log[log[k].prev]
        BY <1>1, <1>2, <3>1
      <3>. QED
        BY <3>1, <3>2 DEF ClosedBy
    <2>4. \A vw : Fits(vw, n) => Fits(vw, n)'
      BY <2>1, <2>2, <2>3 DEF Fits
    <2>5. \A f : Speaks(f, n) => Speaks(f, n)'
      BY <2>1, <2>2 DEF Speaks
    <2>. QED
      BY <2>3, <2>4, <2>5
  <1>6. ASSUME NEW n \in Int, n <= 2 * Len(log), NEW s, IsSeq(s), Truthful(s), LiveInTurn(s, n)
        PROVE  LiveInTurn(s, n)'
    <2>1. ASSUME NEW y \in DOMAIN s, Stored(s[y])
          PROVE  Num(s[y]) \in Int /\ Num(s[y]) <= 2 * Len(log)
      <3>1. s[y].seq \in 1 .. Len(log) /\ s[y].part \in {1, 2}
        BY <1>6, <2>1 DEF Truthful, Says, Seqs
      <3>. QED
        BY <1>1, <3>1 DEF Num
    <2>2. \A f : Speaks(f, n) => Speaks(f, n)'
      BY <1>5, <1>6
    <2>3. ASSUME NEW y \in DOMAIN s, Stored(s[y]), NEW f, Speaks(f, Num(s[y]))
          PROVE  Speaks(f, Num(s[y]))'
      <3>1. PICK m \in Int : m = Num(s[y]) /\ m <= 2 * Len(log)
        BY <2>1, <2>3
      <3>2. Speaks(f, m)'
        BY <1>5, <2>3, <3>1
      <3>. QED
        BY <3>1, <3>2
    <2>4. ASSUME NEW x \in DOMAIN s, ~Stored(s[x]), NEW y \in 1 .. x - 1, Stored(s[y])
          PROVE  Speaks(s[x], Num(s[y]))'
      <3>1. Speaks(s[x], Num(s[y]))
        BY <1>6, <2>4 DEF LiveInTurn
      <3>2. y \in DOMAIN s
        BY <1>6, <2>4 DEF IsSeq
      <3>. QED
        BY <2>3, <2>4, <3>1, <3>2
    <2>. QED
      BY <1>6, <2>2, <2>4 DEF LiveInTurn
  <1>. QED
    BY <1>3, <1>4, <1>5, <1>6 DEF Lasts

\* What offers leave of a queue.
Passes(s, t) ==
    /\ IsSub(t) /\ IsSeq(t.queue) /\ t.on = s.on /\ t.live = s.live /\ (s.stale => t.stale) /\ (s.reset => t.reset)
    /\ Truthful(s.queue) => Truthful(t.queue)
    /\ AllStored(s.queue) /\ (s.stale \/ ~s.live) => AllStored(t.queue)
    /\ conn.at = "live" /\ LiveInTurn(s.queue, Ord(Soon)) => LiveInTurn(t.queue, Ord(Soon))

LEMMA PassesOn ==
    ASSUME NEW s, NEW t, NEW u, Passes(s, t), Passes(t, u)
    PROVE  Passes(s, u)
  BY DEF Passes

LEMMA PassesSame ==
    ASSUME NEW s, IsSub(s), IsSeq(s.queue)
    PROVE  Passes(s, s)
  BY DEF Passes

LEMMA StoredPasses ==
    ASSUME NEW s, IsSub(s), IsSeq(s.queue), NEW f, Stored(f), Says(f), NEW t, t = Offer(s, f)
    PROVE  Passes(s, t)
  BY OfferTells DEF Passes

\* A frame about the turn that the bus presents.
LEMMA LivePasses ==
    ASSUME FeedInv, AgentInv, NEW f, ~Stored(f), f.kind \in {"open", "append"}, f.turn = Running, Running # 0,
           NEW t, t = Offer(sub, f)
    PROVE  Passes(sub, t)
  <1>1. /\ IsSub(sub) /\ IsSeq(sub.queue) /\ IsSeq(log) /\ LogOf(log) /\ processed \in 0 .. Len(log) /\ processed \in Nat
        /\ Ord(Soon) \in Int
    BY LogFacts, ClientPlaces DEF FeedInv, Shapes
  <1>2. \A n \in Int : n <= 2 * processed => Speaks(f, n)
    BY <1>1, RunningSpeaks DEF AgentInv, Speaks
  <1>3. CASE sub.reset
    <2>1. t = sub
      BY <1>3 DEF Offer, Ignores
    <2>. QED
      BY <1>1, <2>1, PassesSame
  <1>4. CASE conn.at # "live"
    BY <1>1, <1>4, OfferTells DEF Passes
  <1>5. CASE ~sub.reset /\ conn.at = "live"
    <2>1. PICK a \in Int : a <= 2 * processed /\ Run(Due, sub.queue, a, 2 * processed) /\ a = Ord(sub.sent)
      BY <1>5 DEF FeedInv, QueueInv
    <2>2. Ord(Soon) <= a
      BY <1>5, <2>1 DEF FeedInv, ConnInv, Reaches
    <2>3. Speaks(f, Ord(Soon))
      BY <1>1, <1>2, <2>1, <2>2
    <2>4. ASSUME NEW y \in DOMAIN sub.queue, Stored(sub.queue[y])
          PROVE  Speaks(f, Num(sub.queue[y]))
      <3>1. IsFrame(Due, sub.queue[y]) /\ Num(sub.queue[y]) <= 2 * processed
        BY <2>1, <2>4 DEF Run
      <3>2. Num(sub.queue[y]) \in Int
        BY <3>1 DEF IsFrame, Num
      <3>. QED
        BY <1>2, <3>1, <3>2
    <2>. QED
      BY <1>1, <2>3, <2>4, OfferTells DEF Passes
  <1>. QED
    BY <1>3, <1>4, <1>5

\* The bus hands on what it has.
LEMMA BusTells ==
    ASSUME FeedInv, StreamInv, UNCHANGED <<log, aged, pruned, closed, filter, conn, wire, client>>,
           processed' \in processed .. Len(log), Passes(sub, sub'),
           conn.at = "live" /\ ~sub'.stale /\ ~sub'.reset /\ ~closed => \E vw : vw = Eventual(sub') /\ Complete(vw)'
    PROVE  StreamInv'
  <1>1. Place' = Place /\ Soon' = Soon
    BY DEF Place, Soon
  <1>2. /\ Ord(Place) \in Int /\ Ord(Soon) \in Int /\ Ord(Place) <= 2 * Len(log) /\ Ord(Soon) <= 2 * Len(log) /\ Grows
        /\ IsSeq(sub'.queue)
    BY LogFacts, ClientPlaces DEF Grows, Passes
  <1>3. PICK p \in Int, m \in Int : p = Ord(Place) /\ m = Ord(Soon) /\ p = Ord(Place)' /\ m = Ord(Soon)'
    BY <1>1, <1>2 DEF Ord
  <1>4. Lasts(p) /\ Lasts(m) /\ (\A s : Truthful(s) => Truthful(s)')
    BY <1>2, <1>3, TruthLasts
  <1>5. Fits(client.view, Ord(Place))'
    BY <1>3, <1>4 DEF StreamInv, Lasts
  <1>6. FramesInv'
    <2>1. Truthful(wire)' /\ Truthful(sub.queue)' /\ Truthful(conn.page)'
      BY <1>4 DEF StreamInv, FramesInv, Passes
    <2>2. wire' # <<>> /\ ~Stored(wire'[1]) /\ wire'[1].kind \notin {"slow", "gone"} => Speaks(wire[1], Ord(Place))'
      BY <1>3, <1>4 DEF StreamInv, FramesInv, Lasts
    <2>3. conn'.at = "live" /\ ~sub'.reset => LiveInTurn(sub.queue, Ord(Soon))'
      BY <1>2, <1>3, <1>4 DEF StreamInv, FramesInv, Lasts, Passes
    <2>. QED
      BY <2>1, <2>2, <2>3 DEF FramesInv
  <1>7. PhaseInv'
    BY DEF StreamInv, PhaseInv, Passes
  <1>8. WholeInv'
    <2>. SUFFICES ASSUME (conn.at = "live" /\ ~sub.stale /\ ~sub.reset /\ ~closed)'
                  PROVE  Complete(Coming)'
      BY DEF WholeInv
    <2>1. PICK vw : vw = Eventual(sub') /\ Complete(vw)'
      OBVIOUS
    <2>2. vw = Coming'
      BY <2>1 DEF Eventual, Coming
    <2>. QED
      BY <2>1, <2>2
  <1>. QED
    BY <1>5, <1>6, <1>7, <1>8 DEF StreamInv

\* Publishing one live frame, or none, when it makes what was complete complete again.
LEMMA LiveTells ==
    ASSUME FeedInv, AgentInv, AsksAll, StreamInv, UNCHANGED <<log, aged, pruned, processed, closed, filter, conn, wire, client>>, ~closed,
           NEW fs, \/ fs = <<>>
                   \/ \E f : fs = <<f>> /\ ~Stored(f) /\ f.kind \in {"open", "append"} /\ f.turn = Running /\ Running # 0,
           Publish(fs),
           \A vw : Complete(vw) => IF fs = <<>> THEN Complete(vw)' ELSE Complete(Apply(vw, fs[1]))'
    PROVE  StreamInv'
  <1>1. /\ IsSub(sub) /\ IsSeq(sub.queue) /\ IsSeq(wire) /\ Len(wire) <= 1 /\ processed' \in processed .. Len(log)
        /\ processed \in Nat
    BY LogFacts DEF FeedInv, Shapes, WireInv
  <1>2. CASE fs = <<>>
    <2>1. sub' = sub
      BY <1>2 DEF Publish
    <2>2. Passes(sub, sub')
      BY <1>1, <2>1, PassesSame
    <2>3. conn.at = "live" /\ ~sub'.stale /\ ~sub'.reset /\ ~closed => Complete(Eventual(sub))
      BY <2>1 DEF StreamInv, WholeInv, Coming, Eventual
    <2>4. conn.at = "live" /\ ~sub'.stale /\ ~sub'.reset /\ ~closed => \E vw : vw = Eventual(sub') /\ Complete(vw)'
      <3>1. PICK vw : vw = Eventual(sub)
        OBVIOUS
      <3>2. vw = Eventual(sub')
        BY <2>1, <3>1
      <3>. QED
        BY <1>2, <2>3, <3>1, <3>2
    <2>. QED
      BY <1>1, <2>2, <2>4, BusTells
  <1>3. CASE \E f : fs = <<f>> /\ ~Stored(f) /\ f.kind \in {"open", "append"} /\ f.turn = Running /\ Running # 0
    <2>1. PICK f : fs = <<f>> /\ ~Stored(f) /\ f.kind \in {"open", "append"} /\ f.turn = Running /\ Running # 0
      BY <1>3
    <2>2. fs # <<>> /\ fs[1] = f /\ Len(fs) = 1
      BY <2>1
    <2>3. sub' = Offer(sub, f)
      BY <2>2 DEF Publish
    <2>4. Passes(sub, sub')
      BY <2>1, <2>3, LivePasses
    <2>5. ASSUME conn.at = "live", ~sub'.stale, ~sub'.reset
          PROVE  \E vw : vw = Eventual(sub') /\ Complete(vw)'
      <3>1. sub.on /\ sub.live
        BY <2>5 DEF FeedInv, ConnInv, StreamInv, PhaseInv
      <3>2. ~sub.stale /\ ~sub.reset /\ Eventual(sub') = Apply(Eventual(sub), f)
        BY <1>1, <2>3, <2>5, <3>1, OfferShows
      <3>3. Complete(Eventual(sub))
        BY <2>5, <3>2 DEF StreamInv, WholeInv, Coming, Eventual
      <3>4. PICK vw : vw = Eventual(sub)
        OBVIOUS
      <3>5. PICK v1 : v1 = Apply(vw, fs[1])
        OBVIOUS
      <3>6. Complete(Apply(vw, fs[1]))'
        BY <2>2, <3>3, <3>4
      <3>7. v1 = Eventual(sub')
        BY <2>2, <3>2, <3>4, <3>5
      <3>. QED
        BY <3>5, <3>6, <3>7
    <2>. QED
      BY <1>1, <2>4, <2>5, BusTells
  <1>. QED
    BY <1>2, <1>3

LEMMA DeltaTells ==
    ASSUME FeedInv, AgentInv, AsksAll, StreamInv, Delta
    PROVE  StreamInv'
  <1>1. UNCHANGED <<log, aged, pruned, processed, closed, filter, conn, wire, client>> /\ ~closed /\ running' = running /\ Running # 0
    BY DEF Delta, store
  <1>2. PICK fs : fs = (IF live.shown THEN <<>> ELSE <<Frame("open", Running, NextBlock, 0)>>)
    OBVIOUS
  <1>3. Publish(fs)
    BY <1>2 DEF Delta
  <1>4. /\ \/ fs = <<>>
           \/ \E f : fs = <<f>> /\ ~Stored(f) /\ f.kind \in {"open", "append"} /\ f.turn = Running /\ Running # 0
    BY <1>1, <1>2, LiveFrameText
  <1>5. live \in [shown : BOOLEAN, said : Nat, sent : Nat] /\ (~live.shown => live = NoLive)
    BY DEF AgentInv, Presents
  <1>6. live'.shown /\ live'.sent = live.sent
    BY <1>5 DEF Delta
  <1>7. ASSUME NEW vw, Complete(vw)
        PROVE  IF fs = <<>> THEN Complete(vw)' ELSE Complete(Apply(vw, fs[1]))'
    <2>1. Showing(vw, OpenAs(live.sent), 2 * processed)
      BY <1>7, CompleteIs
    <2>2. CASE live.shown
      <3>1. fs = <<>>
        BY <1>2, <2>2
      <3>2. OpenAs(live.sent)' = OpenAs(live.sent)
        BY <1>1, <1>6, <2>2 DEF OpenAs, LiveAs, Running, NextBlock
      <3>3. AllOpen' = OpenAs(live.sent)
        BY <3>2, AllOpenThen
      <3>4. \A b : ClosedBy(b, 2 * processed)' <=> ClosedBy(b, 2 * processed)
        BY <1>1 DEF ClosedBy, Seqs
      <3>. QED
        BY <2>1, <3>1, <3>3, <3>4 DEF Complete, Showing, Undone
    <2>3. CASE ~live.shown
      <3>1. PICK f : f = Frame("open", Running, NextBlock, 0)
        OBVIOUS
      <3>2. fs # <<>> /\ fs[1] = f /\ f.kind = "open" /\ f.turn = Running /\ f.block = NextBlock /\ f.len = 0
        BY <1>2, <2>3, <3>1, LiveFrameText
      <3>3. \A b \in vw : ~IsAt(b, Running, NextBlock)
        BY <1>1, <2>1, <2>3, LogFacts, NextIsLive DEF AgentInv
      <3>4. Showing(Apply(vw, f), OpenAs(live.sent) \cup {Block(Running, NextBlock, 0)}, 2 * processed)
        BY <2>1, <3>2, <3>3, OpensBlock
      <3>5. live.sent = 0
        BY <1>5, <2>3 DEF NoLive
      <3>6. OpenAs(live.sent)' = OpenAs(live.sent) \cup {Block(Running, NextBlock, 0)}
        BY <1>1, <1>6, <2>3, <3>5 DEF OpenAs, LiveAs, Running, NextBlock
      <3>7. AllOpen' = OpenAs(live.sent) \cup {Block(Running, NextBlock, 0)}
        BY <3>6, AllOpenThen
      <3>8. \A b : ClosedBy(b, 2 * processed)' <=> ClosedBy(b, 2 * processed)
        BY <1>1 DEF ClosedBy, Seqs
      <3>9. PICK v1 : v1 = Apply(vw, f)
        OBVIOUS
      <3>10. Complete(v1)'
        BY <3>4, <3>7, <3>8, <3>9 DEF Complete, Showing, Undone
      <3>. QED
        BY <3>2, <3>9, <3>10
    <2>. QED
      BY <2>2, <2>3
  <1>. QED
    BY <1>1, <1>3, <1>4, <1>7, LiveTells

LEMMA FlushTells ==
    ASSUME FeedInv, AgentInv, AsksAll, StreamInv, Flush
    PROVE  StreamInv'
  <1>1. UNCHANGED <<log, aged, pruned, processed, closed, filter, conn, wire, client>> /\ ~closed /\ running' = running
    BY DEF Flush, store
  <1>2. live \in [shown : BOOLEAN, said : Nat, sent : Nat] /\ (~live.shown => live = NoLive) /\ (Running = 0 => ~live.shown)
    BY DEF AgentInv, Presents
  <1>3. live'.shown = live.shown /\ live'.sent = live.said
    BY <1>2 DEF Flush
  <1>4. PICK fs : fs = Pending
    OBVIOUS
  <1>5. Publish(fs) /\ fs # <<>> /\ live.said > live.sent
    BY <1>4 DEF Flush, Pending
  <1>6. live.shown /\ Running # 0
    BY <1>2, <1>5 DEF NoLive
  <1>7. \E f : fs = <<f>> /\ ~Stored(f) /\ f.kind \in {"open", "append"} /\ f.turn = Running /\ Running # 0
    BY <1>4, <1>5, <1>6, LiveFrameText DEF Pending
  <1>8. ASSUME NEW vw, Complete(vw)
        PROVE  Complete(Apply(vw, fs[1]))'
    <2>1. PICK v1 : v1 = Apply(vw, fs[1])
      OBVIOUS
    <2>2. Showing(v1, OpenAs(live.said), 2 * processed)
      BY <1>4, <1>5, <1>8, <2>1, LogFacts, PendingShows DEF AgentInv
    <2>3. OpenAs(live.sent)' = OpenAs(live.said)
      BY <1>1, <1>3 DEF OpenAs, LiveAs, Running, NextBlock
    <2>4. AllOpen' = OpenAs(live.said)
      BY <2>3, AllOpenThen
    <2>5. \A b : ClosedBy(b, 2 * processed)' <=> ClosedBy(b, 2 * processed)
      BY <1>1 DEF ClosedBy, Seqs
    <2>6. Complete(v1)'
      BY <2>2, <2>4, <2>5 DEF Complete, Showing, Undone
    <2>. QED
      BY <2>1, <2>6
  <1>. QED
    BY <1>1, <1>5, <1>7, <1>8, LiveTells

LEMMA AnnounceTells ==
    ASSUME FeedInv, AgentInv, AsksAll, StreamInv, Announce
    PROVE  StreamInv'
  <1>1. UNCHANGED <<log, aged, pruned, closed, filter, conn, wire, client>> /\ ~closed
    BY DEF Announce, store
  <1>2. PICK i : i = processed + 1
    OBVIOUS
  <1>3. i \in Seqs /\ processed' = i /\ processed' \in processed .. Len(log) /\ IsSeq(log) /\ LogOf(log)
    BY <1>2, LogFacts, AnnounceFacts
  <1>4. PICK ls : ls = IF log[i].kind # "note" /\ Running # 0 THEN Pending ELSE <<>>
    OBVIOUS
  <1>5. PICK fs : fs = Frames(i, Seqs)
    OBVIOUS
  <1>6. \/ ls = <<>>
        \/ \E f : ls = <<f>> /\ ~Stored(f) /\ f.kind \in {"open", "append"} /\ f.turn = Running /\ Running # 0
    BY <1>4, LiveFrameText DEF Pending
  <1>7. LiveOnly(ls) /\ Publish(ls \o fs)
    <2>1. LiveOnly(ls)
      BY <1>6 DEF LiveOnly
    <2>. QED
      BY <1>2, <1>4, <1>5, <2>1 DEF Announce
  <1>8. log[i].prev \in Seqs <=> log[i].prev # 0
    <2>1. i \in 1 .. Len(log) /\ Len(log) \in Nat /\ Seqs = 1 .. Len(log)
      BY <1>3, LogFacts
    <2>2. log[i].prev # 0 => log[i].prev \in 1 .. i - 1
      BY <1>3, <2>1 DEF LogOf
    <2>. QED
      BY <2>1, <2>2
  <1>9. /\ IsSeq(fs) /\ Len(fs) \in {1, 2} /\ Parts(i) = 1 .. Len(fs)
        /\ \A k \in Parts(i) : Stored(fs[k]) /\ Says(fs[k])
    BY <1>3, <1>5, <1>8, FrameFacts, FramesSay
  <1>10. PICK s0, s1 : /\ (ls = <<>> /\ s0 = sub) \/ (\E f : ls = <<f>> /\ s0 = Offer(sub, f))
                       /\ s1 = Offer(s0, fs[1])
                       /\ sub' = IF Len(fs) = 2 THEN Offer(s1, fs[2]) ELSE s1
    BY <1>7, <1>9, PublishParts
  <1>11. IsSub(sub) /\ IsSeq(sub.queue) /\ IsSeq(wire) /\ Len(wire) <= 1
    BY DEF FeedInv, Shapes, WireInv
  <1>12. Stored(fs[1]) /\ Says(fs[1]) /\ (Len(fs) = 2 => Stored(fs[2]) /\ Says(fs[2]))
    BY <1>9
  <1>13. Passes(sub, s0)
    BY <1>6, <1>10, <1>11, PassesSame, LivePasses
  <1>14. Passes(s0, s1)
    BY <1>10, <1>12, <1>13, StoredPasses DEF Passes
  <1>15. Passes(s1, sub')
    BY <1>10, <1>12, <1>14, StoredPasses, PassesSame DEF Passes
  <1>16. Passes(sub, sub')
    BY <1>13, <1>14, <1>15, PassesOn
  <1>17. ASSUME conn.at = "live", ~sub'.stale, ~sub'.reset
         PROVE  \E vw : vw = Eventual(sub') /\ Complete(vw)'
    <2>1. sub.on /\ sub.live
      BY <1>17 DEF FeedInv, ConnInv, StreamInv, PhaseInv
    <2>2. /\ s0.on /\ s0.live /\ s1.on /\ s1.live /\ IsSub(s0) /\ IsSeq(s0.queue) /\ IsSub(s1) /\ IsSeq(s1.queue)
          /\ ~s1.stale /\ ~s1.reset /\ ~s0.stale /\ ~s0.reset /\ ~sub.stale /\ ~sub.reset
      BY <1>13, <1>14, <1>15, <1>17, <2>1 DEF Passes
    <2>3. Complete(Eventual(sub))
      BY <1>1, <1>17, <2>2 DEF StreamInv, WholeInv, Coming, Eventual
    <2>4. PICK vw : vw = Eventual(sub)
      OBVIOUS
    <2>5. PICK v1 : v1 = IF ls = <<>> THEN vw ELSE Apply(vw, ls[1])
      OBVIOUS
    <2>6. PICK v2 : v2 = Apply(v1, fs[1])
      OBVIOUS
    <2>7. PICK v3 : v3 = IF Len(fs) = 2 THEN Apply(v2, fs[2]) ELSE v2
      OBVIOUS
    <2>8. Complete(v3)'
      BY <1>2, <1>4, <1>5, <2>3, <2>4, <2>5, <2>6, <2>7, AnnounceShows
    <2>9. v1 = Eventual(s0)
      <3>1. CASE ls = <<>>
        BY <1>10, <2>4, <2>5, <3>1
      <3>2. CASE ls # <<>>
        <4>1. PICK f : ls = <<f>> /\ s0 = Offer(sub, f)
          BY <1>10, <3>2
        <4>2. Eventual(s0) = Apply(Eventual(sub), f)
          BY <1>1, <1>11, <2>1, <2>2, <4>1, OfferShows
        <4>3. ls # <<>> /\ ls[1] = f
          BY <4>1
        <4>. QED
          BY <2>4, <2>5, <4>2, <4>3
      <3>. QED
        BY <3>1, <3>2
    <2>10. v2 = Eventual(s1)
      BY <1>1, <1>10, <1>11, <2>2, <2>6, <2>9, OfferShows
    <2>11. v3 = Eventual(sub')
      <3>1. CASE Len(fs) = 2
        <4>1. PICK t : t = sub'
          OBVIOUS
        <4>2. t = Offer(s1, fs[2]) /\ ~t.stale /\ ~t.reset
          BY <1>10, <1>17, <3>1, <4>1
        <4>3. Eventual(t) = Apply(Eventual(s1), fs[2])
          BY <1>1, <1>11, <2>2, <4>2, OfferShows
        <4>. QED
          BY <2>7, <2>10, <3>1, <4>1, <4>3
      <3>2. CASE Len(fs) # 2
        BY <1>10, <2>7, <2>10, <3>2
      <3>. QED
        BY <3>1, <3>2
    <2>. QED
      BY <2>8, <2>11
  <1>. QED
    BY <1>1, <1>3, <1>16, <1>17, BusTells

\* The block that is open stays as it was recorded.
LEMMA OpenIsSame ==
    ASSUME Grows, Presents, running' = running, live' = live, processed' = processed
    PROVE  AllOpen' = AllOpen /\ \A vw : Complete(vw) => Complete(vw)'
  <1>1. running.open # 0 => log'[running.open] = log[running.open]
    <2>1. CASE log' = log
      BY <2>1
    <2>2. CASE \E e : Follows(e) /\ log' = Append(log, e)
      <3>1. PICK e : log' = Append(log, e)
        BY <2>2
      <3>2. running.open # 0 => running.open \in 1 .. Len(log)
        BY DEF Presents, Grows, IsSeq
      <3>. QED
        BY <3>1, <3>2, AppendFacts DEF Grows
    <2>. QED
      BY <2>1, <2>2 DEF Grows
  <1>2. OpenAs(live.sent)' = OpenAs(live.sent)
    BY <1>1 DEF OpenAs, LiveAs, Running, NextBlock
  <1>3. AllOpen' = AllOpen
    BY <1>2, AllOpenIs, AllOpenThen
  <1>4. PICK n \in Int : n = 2 * processed /\ n = (2 * processed)' /\ n <= 2 * Len(log)
    BY DEF Grows, IsSeq
  <1>5. Lasts(n)
    BY <1>4, TruthLasts
  <1>6. ASSUME NEW vw, Complete(vw)
        PROVE  Complete(vw)'
    BY <1>3, <1>4, <1>5, <1>6 DEF Complete, Lasts, Undone
  <1>. QED
    BY <1>3, <1>6

\* Steps of the store alone.
LEMMA StoreTells ==
    ASSUME FeedInv, AgentInv, AsksAll, StreamInv, UNCHANGED <<bus, filter, stream, client>>,
           log' = log \/ \E e : Follows(e) /\ log' = Append(log, e)
    PROVE  StreamInv'
  <1>1. Place' = Place /\ Soon' = Soon /\ UNCHANGED <<processed, running, live, closed, filter, sub, conn, wire, client>>
    BY DEF Place, Soon, bus, stream
  <1>2. /\ Ord(Place) \in Int /\ Ord(Soon) \in Int /\ Ord(Place) <= 2 * Len(log) /\ Ord(Soon) <= 2 * Len(log) /\ Grows
        /\ IsSeq(sub.queue)
    BY <1>1, LogFacts, ClientPlaces DEF Grows, FeedInv, Shapes
  <1>3. PICK p \in Int, m \in Int : p = Ord(Place) /\ m = Ord(Soon) /\ p = Ord(Place)' /\ m = Ord(Soon)'
    BY <1>1, <1>2 DEF Ord
  <1>4. Lasts(p) /\ Lasts(m) /\ (\A s : Truthful(s) => Truthful(s)')
    BY <1>2, <1>3, TruthLasts
  <1>5. Fits(client.view, Ord(Place))'
    BY <1>1, <1>3, <1>4 DEF StreamInv, Lasts
  <1>6. FramesInv'
    <2>1. Truthful(wire)' /\ Truthful(sub.queue)' /\ Truthful(conn.page)'
      BY <1>1, <1>4 DEF StreamInv, FramesInv
    <2>2. wire' # <<>> /\ ~Stored(wire'[1]) /\ wire'[1].kind \notin {"slow", "gone"} => Speaks(wire[1], Ord(Place))'
      BY <1>1, <1>3, <1>4 DEF StreamInv, FramesInv, Lasts
    <2>3. conn'.at = "live" /\ ~sub'.reset => LiveInTurn(sub.queue, Ord(Soon))'
      BY <1>1, <1>2, <1>3, <1>4 DEF StreamInv, FramesInv, Lasts
    <2>. QED
      BY <2>1, <2>2, <2>3 DEF FramesInv
  <1>7. PhaseInv'
    BY <1>1 DEF StreamInv, PhaseInv
  <1>8. WholeInv'
    <2>1. Coming' = Coming
      BY <1>1 DEF Coming
    <2>. QED
      BY <1>1, <1>2, <2>1, OpenIsSame DEF AgentInv, StreamInv, WholeInv
  <1>. QED
    BY <1>5, <1>6, <1>7, <1>8 DEF StreamInv

\* When neither the log nor the bus moves.
LEMMA SameTruth ==
    ASSUME log' = log, processed' = processed, running' = running, live' = live
    PROVE  /\ \A f : Says(f)' <=> Says(f)
           /\ \A s : Truthful(s)' <=> Truthful(s)
           /\ \A f, n : Speaks(f, n)' <=> Speaks(f, n)
           /\ \A s, n : LiveInTurn(s, n)' <=> LiveInTurn(s, n)
           /\ \A vw, n : Fits(vw, n)' <=> Fits(vw, n)
           /\ \A vw : Complete(vw)' <=> Complete(vw)
  <1>1. \A f : Says(f)' <=> Says(f)
    BY DEF Says, Own, Seqs
  <1>2. \A s : Truthful(s)' <=> Truthful(s)
    BY <1>1 DEF Truthful
  <1>3. \A f, n : Speaks(f, n)' <=> Speaks(f, n)
    BY DEF Speaks, Begun, Unended, Own, Seqs
  <1>4. \A s, n : LiveInTurn(s, n)' <=> LiveInTurn(s, n)
    BY <1>3 DEF LiveInTurn
  <1>5. /\ \A b, n : ClosedBy(b, n)' <=> ClosedBy(b, n)
        /\ \A t, n : (Begun(t, n)' <=> Begun(t, n)) /\ (Unended(t, n)' <=> Unended(t, n))
    BY DEF ClosedBy, Begun, Unended, Own, Seqs
  <1>6. \A vw, n : Fits(vw, n)' <=> Fits(vw, n)
    BY <1>5 DEF Fits
  <1>7. OpenAs(live.sent)' = OpenAs(live.sent)
    BY DEF OpenAs, LiveAs, Running, NextBlock
  <1>8. AllOpen' = AllOpen
    BY <1>7, AllOpenIs, AllOpenThen
  <1>9. \A vw : Complete(vw)' <=> Complete(vw)
    BY <1>5, <1>8 DEF Complete, Undone
  <1>. QED
    BY <1>1, <1>2, <1>3, <1>4, <1>6, <1>9

LEMMA TaskSame ==
    ASSUME UNCHANGED <<store, bus, filter, client>>
    PROVE  /\ UNCHANGED <<log, processed, running, live, closed, filter, client>>
           /\ Place' = Place /\ \A n : n = Ord(Place) => n = Ord(Place)'
  BY DEF store, bus, Place, Ord

\* Steps of the task away from the queue.
LEMMA QuietTells ==
    ASSUME StreamInv, UNCHANGED <<store, bus, filter, client, sub>>,
           conn'.at \notin {"live", "snap"}, conn'.at = "over" \/ ~sub.live,
           Truthful(wire'), Truthful(conn'.page), AllStored(conn'.page),
           wire' # <<>> /\ ~Stored(wire'[1]) => wire'[1].kind \in {"slow", "gone"} \/ wire' = wire
    PROVE  StreamInv'
  <1>1. /\ UNCHANGED <<log, processed, running, live, closed, filter, client, sub>>
        /\ Place' = Place /\ \A n : n = Ord(Place) => n = Ord(Place)'
    BY TaskSame
  <1>2. PICK p : p = Ord(Place) /\ p = Ord(Place)'
    BY <1>1
  <1>3. Fits(client.view, Ord(Place))'
    BY <1>1, <1>2, SameTruth DEF StreamInv
  <1>4. FramesInv'
    BY <1>1, <1>2, SameTruth DEF StreamInv, FramesInv
  <1>5. PhaseInv'
    BY <1>1 DEF StreamInv, PhaseInv
  <1>6. WholeInv'
    BY DEF WholeInv
  <1>. QED
    BY <1>3, <1>4, <1>5, <1>6 DEF StreamInv

LEMMA EmptyTells == Truthful(<<>>) /\ AllStored(<<>>) /\ \A n : LiveInTurn(<<>>, n)
  BY EmptyFacts DEF Truthful, AllStored, LiveInTurn

LEMMA ResetTells ==
    ASSUME FeedInv, StreamInv, UNCHANGED <<store, bus, filter, client, sub>>, NEW kind \in {"slow", "gone"}, NEW p, Reset(kind, p)
    PROVE  StreamInv'
  <1>1. PICK f : f = Control(kind, p)
    OBVIOUS
  <1>2. f.kind = kind
    BY <1>1, FrameEdit DEF Control
  <1>3. wire' = <<f>> /\ wire'[1] = f /\ DOMAIN wire' = {1}
    BY <1>1, OneFrame DEF Reset
  <1>4. ~Stored(f)
    BY <1>2 DEF Stored
  <1>5. conn'.at = "over" /\ conn'.page = <<>>
    BY DEF Reset, Idle
  <1>6. Truthful(wire')
    BY <1>3, <1>4 DEF Truthful
  <1>. QED
    BY <1>2, <1>3, <1>5, <1>6, EmptyTells, QuietTells

LEMMA ChecksTell ==
    ASSUME FeedInv, StreamInv, CheckHead \/ CheckAge \/ YieldSlow
    PROVE  StreamInv'
  <1>1. UNCHANGED <<store, bus, filter, client, sub>>
    BY DEF CheckHead, CheckAge, YieldSlow
  <1>2. CASE \E p : Reset("slow", p) \/ Reset("gone", p)
    BY <1>1, <1>2, ResetTells
  <1>3. CASE ~\E p : Reset("slow", p) \/ Reset("gone", p)
    <2>1. conn.at \in {"check", "age"} /\ wire' = wire /\ conn'.at \in {"age", "pages"} /\ conn'.page = conn.page
      BY <1>3 DEF CheckHead, CheckAge, YieldSlow, Catching, FeedInv, Shapes, IsConn
    <2>2. ~sub.live /\ Truthful(wire) /\ Truthful(conn.page) /\ AllStored(conn.page)
      BY <2>1 DEF StreamInv, FramesInv, PhaseInv
    <2>. QED
      BY <1>1, <2>1, <2>2, QuietTells
  <1>. QED
    BY <1>2, <1>3

LEMMA YieldReplayedTells ==
    ASSUME FeedInv, StreamInv, YieldReplayed
    PROVE  StreamInv'
  <1>1. UNCHANGED <<store, bus, filter, client, sub>> /\ conn.at = "page" /\ conn.page # <<>> /\ IsSeq(conn.page)
    BY DEF YieldReplayed, FeedInv, Shapes
  <1>2. conn'.at = "page" /\ conn'.page = Tail(conn.page)
    BY DEF YieldReplayed, FeedInv, Shapes, IsConn
  <1>3. PICK f : f = Head(conn.page)
    OBVIOUS
  <1>4. wire' = <<f>> /\ wire'[1] = f /\ DOMAIN wire' = {1}
    BY <1>3, OneFrame DEF YieldReplayed
  <1>5. ~sub.live /\ Truthful(conn.page) /\ AllStored(conn.page)
    BY <1>1 DEF StreamInv, FramesInv, PhaseInv
  <1>6. Stored(f) /\ Says(f) /\ Truthful(Tail(conn.page)) /\ AllStored(Tail(conn.page))
    BY <1>1, <1>3, <1>5, TailFacts DEF Truthful, AllStored
  <1>7. Truthful(wire')
    BY <1>4, <1>6 DEF Truthful
  <1>. QED
    BY <1>1, <1>2, <1>4, <1>5, <1>6, <1>7, QuietTells

LEMMA MovesTell ==
    ASSUME FeedInv, StreamInv, PageIsDone \/ CaughtUp \/ EndOfBus \/ (GoLive /\ closed)
    PROVE  StreamInv'
  <1>1. UNCHANGED <<store, bus, filter, client, sub, wire>>
    BY DEF PageIsDone, CaughtUp, EndOfBus, GoLive
  <1>2. conn'.page \in {conn.page, <<>>} /\ conn'.at \in {"pages", "caught", "held", "over"}
        /\ (conn'.at = "over" \/ conn.at \in {"page", "caught", "held"})
    BY DEF PageIsDone, CaughtUp, EndOfBus, GoLive, Idle, FeedInv, Shapes, IsConn
  <1>3. (conn'.at = "over" \/ ~sub.live) /\ Truthful(wire) /\ Truthful(conn.page) /\ AllStored(conn.page)
    BY <1>2 DEF StreamInv, FramesInv, PhaseInv
  <1>. QED
    BY <1>1, <1>2, <1>3, EmptyTells, QuietTells

LEMMA StopTells ==
    ASSUME StreamInv, Stop
    PROVE  StreamInv'
  <1>1. UNCHANGED <<log, processed, running, live, client, sub, conn, wire>> /\ closed' = TRUE
    BY DEF Stop, store, stream
  <1>2. Place' = Place /\ Soon' = Soon
    BY <1>1 DEF Place, Soon
  <1>3. PICK p, m : p = Ord(Place) /\ p = Ord(Place)' /\ m = Ord(Soon) /\ m = Ord(Soon)'
    BY <1>2 DEF Ord
  <1>4. Fits(client.view, Ord(Place))'
    BY <1>1, <1>3, SameTruth DEF StreamInv
  <1>5. FramesInv'
    BY <1>1, <1>3, SameTruth DEF StreamInv, FramesInv
  <1>6. PhaseInv'
    BY <1>1 DEF StreamInv, PhaseInv
  <1>7. WholeInv'
    BY <1>1 DEF WholeInv
  <1>. QED
    BY <1>4, <1>5, <1>6, <1>7 DEF StreamInv

\* The stream is over: what is left is what the client shows.
LEMMA GoneTells ==
    ASSUME FeedInv, StreamInv, Drop \/ Restart \/ HangUp
    PROVE  StreamInv'
  <1>1. /\ Gone /\ UNCHANGED <<aged, pruned, filter, client>> /\ processed' \in {processed, Len(log')}
        /\ log' = log \/ \E e : Follows(e) /\ log' = Append(log, e)
    BY GoneActions
  <1>2. Grows
    <2>1. Len(log') \in Nat /\ Len(log) <= Len(log')
      BY <1>1, LogFacts, AppendFacts
    <2>. QED
      BY <1>1, <2>1, LogFacts DEF Grows
  <1>3. Place' = Place /\ Ord(Place) \in Int /\ Ord(Place) <= 2 * Len(log)
    BY <1>1, ClientPlaces DEF Place
  <1>4. PICK p \in Int : p = Ord(Place) /\ p = Ord(Place)'
    BY <1>3 DEF Ord
  <1>5. Fits(client.view, Ord(Place))'
    BY <1>1, <1>2, <1>3, <1>4, TruthLasts DEF StreamInv, Lasts
  <1>6. wire' = <<>> /\ conn'.at = "off" /\ conn'.page = <<>> /\ sub'.queue = <<>> /\ ~sub'.live
    BY <1>1 DEF Gone, Idle, NoSub
  <1>7. FramesInv'
    BY <1>6, EmptyFacts DEF FramesInv, Truthful
  <1>8. PhaseInv'
    BY <1>6, EmptyTells DEF PhaseInv
  <1>9. WholeInv'
    BY <1>6 DEF WholeInv
  <1>. QED
    BY <1>5, <1>7, <1>8, <1>9 DEF StreamInv

LEMMA ConnectTells ==
    ASSUME FeedInv, StreamInv, Connect
    PROVE  StreamInv'
  <1>1. UNCHANGED <<log, processed, running, live, closed, filter, wire>> /\ wire = <<>> /\ conn.at = "off"
    BY DEF Connect, store, bus, FeedInv, WireInv
  <1>2. sub'.queue = <<>> /\ ~sub'.live /\ conn'.page = <<>> /\ conn'.at \in {"held", "check"}
    BY DEF Connect, NoSub, Idle
  <1>3. Fits(client.view, Ord(Place))'
    <2>1. CASE client.id = NoPoint
      <3>1. client'.view = {}
        BY <2>1 DEF Connect, FeedInv, Shapes, IsClient
      <3>. QED
        BY <3>1 DEF Fits
    <2>2. CASE client.id # NoPoint
      <3>1. client' = client
        BY <2>2 DEF Connect
      <3>2. PICK p : p = Ord(Place) /\ p = Ord(Place)'
        BY <3>1 DEF Ord, Place
      <3>. QED
        BY <1>1, <3>1, <3>2, SameTruth DEF StreamInv
    <2>. QED
      BY <2>1, <2>2
  <1>4. FramesInv'
    BY <1>1, <1>2, EmptyFacts DEF FramesInv, Truthful
  <1>5. PhaseInv'
    BY <1>2, EmptyTells DEF PhaseInv
  <1>6. WholeInv'
    BY <1>2 DEF WholeInv
  <1>. QED
    BY <1>3, <1>4, <1>5, <1>6 DEF StreamInv

LEMMA ReadPageTells ==
    ASSUME FeedInv, StreamInv, ReadPage
    PROVE  StreamInv'
  <1>1. UNCHANGED <<store, bus, filter, client, sub, wire>> /\ conn.at = "pages"
    BY DEF ReadPage
  <1>2. PICK page : page = PageFrames(Page, Kept)
    OBVIOUS
  <1>3. conn'.at = "page" /\ conn'.page = page
    BY <1>2 DEF ReadPage, FeedInv, Shapes, IsConn
  <1>4. IsSeq(log) /\ LogOf(log)
    BY LogFacts
  <1>5. \A i \in Page : i \in Seqs /\ (log[i].prev \in Kept <=> log[i].prev # 0)
    BY <1>1, PageOfRest, ReplayPlaces
  <1>6. \A x \in DOMAIN page : Stored(page[x]) /\ \E i \in Page : \E k \in Parts(i) : page[x] = Frames(i, Kept)[k]
    <2>1. \E w \in Int : IF Page = {} THEN w = Ord(conn.upto) ELSE w = 2 * Maximum(Page)
      <3>1. CASE Page = {}
        BY <1>1, <3>1, ReplayPlaces
      <3>2. CASE Page # {}
        <4>1. Page \in SUBSET (0 .. Len(log)) /\ Len(log) \in Nat
          BY <1>5, LogFacts DEF Seqs
        <4>2. Maximum(Page) \in Page
          BY <3>2, <4>1, Greatest
        <4>3. Maximum(Page) \in Int
          <5>1. PICK m : m = Maximum(Page) /\ m \in Page
            BY <4>2
          <5>2. m \in Int
            BY <1>5, <5>1, LogFacts
          <5>. QED
            BY <5>1, <5>2
        <4>4. 2 * Maximum(Page) \in Int
          BY <4>3
        <4>. QED
          BY <3>2, <4>4
      <3>. QED
        BY <3>1, <3>2
    <2>2. PICK w \in Int : IF Page = {} THEN w = Ord(conn.upto) ELSE w = 2 * Maximum(Page)
      BY <2>1
    <2>. QED
      BY <1>1, <1>2, <2>2, PageRuns
  <1>7. ASSUME NEW x \in DOMAIN page
        PROVE  Says(page[x])
    <2>1. PICK i \in Page : \E k \in Parts(i) : page[x] = Frames(i, Kept)[k]
      BY <1>6, <1>7
    <2>2. PICK k \in Parts(i) : page[x] = Frames(i, Kept)[k]
      BY <2>1
    <2>3. PICK fs : fs = Frames(i, Kept)
      OBVIOUS
    <2>4. Says(fs[k])
      BY <1>4, <1>5, <2>3, FramesSay
    <2>. QED
      BY <2>2, <2>3, <2>4
  <1>8. Truthful(page) /\ AllStored(page)
    BY <1>6, <1>7 DEF Truthful, AllStored
  <1>9. ~sub.live /\ Truthful(wire)
    BY <1>1 DEF StreamInv, FramesInv, PhaseInv
  <1>. QED
    BY <1>1, <1>3, <1>8, <1>9, QuietTells

\* A frame that arrives: the view fits where the client is then.
LEMMA ReceiveTells ==
    ASSUME FeedInv, AgentInv, AsksAll, StreamInv, Receive
    PROVE  StreamInv'
  <1>1. /\ wire # <<>> /\ wire' = <<>> /\ UNCHANGED <<log, aged, pruned, processed, closed, filter, sub, conn>>
        /\ IsClient(client') /\ client'.base = client.base
        /\ \/ wire[1].kind \in {"slow", "gone"} /\ client'.id = Point(wire[1].seq, wire[1].part)
           \/ wire[1].kind \notin {"slow", "gone"} /\ Stored(wire[1]) /\ client'.id = After(wire[1])
           \/ wire[1].kind \notin {"slow", "gone"} /\ ~Stored(wire[1]) /\ client'.id = client.id
    BY Received
  <1>2. running' = running /\ live' = live
    BY DEF Receive, bus
  <1>3. /\ IsSeq(log) /\ LogOf(log) /\ TurnsOf(log) /\ Due \in SUBSET Nat /\ IsSeq(wire) /\ Len(wire) <= 1 /\ IsClient(client)
        /\ Ord(Place) \in Int /\ Place \in Known
    BY LogFacts, ClientPlaces DEF FeedInv, Shapes, WireInv, AgentInv
  <1>4. PICK f : f = wire[1]
    OBVIOUS
  <1>5. wire = <<f>> /\ Head(wire) = f
    BY <1>1, <1>3, <1>4, AheadFacts
  <1>6. client'.view = IF f.kind = "slow" THEN client.view ELSE IF f.kind = "gone" THEN {} ELSE Apply(client.view, f)
    BY <1>3, <1>5 DEF Receive, IsClient
  <1>7. Fits(client.view, Ord(Place))
    BY DEF StreamInv
  <1>8. /\ Fits(client.view, Ord(Place))'
        /\ f.kind \notin {"slow", "gone"} => Soon' = Soon
    <2>1. CASE f.kind = "gone"
      BY <1>6, <2>1 DEF Fits
    <2>2. CASE f.kind = "slow"
      <3>1. PICK p : p = Point(f.seq, f.part)
        OBVIOUS
      <3>2. p \in Known /\ Ord(Place) <= Ord(p) /\ Clear(Due, Ord(Place), Ord(p))
        BY <1>1, <1>4, <2>2, <3>1 DEF FeedInv, WireInv, Ord, Point
      <3>3. Ord(p) \in Int /\ p # NoPoint
        BY <1>3, <3>2, KnownPlaces
      <3>4. Place' = p
        BY <1>1, <1>4, <2>2, <3>1, <3>3 DEF Place
      <3>5. Fits(client.view, Ord(p))
        BY <1>3, <1>7, <3>2, <3>3, Persists
      <3>6. PICK m : m = Ord(p) /\ m = Ord(Place)'
        BY <3>4 DEF Ord
      <3>7. client'.view = client.view
        BY <1>6, <2>2
      <3>. QED
        BY <1>1, <1>2, <2>2, <3>5, <3>6, <3>7, SameTruth
    <2>3. CASE f.kind \notin {"slow", "gone"} /\ Stored(f)
      <3>1. IsFrame(Due, f) /\ Ord(Place) < Num(f) /\ Clear(Due, Ord(Place), Num(f) - 1)
        BY <1>1, <1>4, <2>3 DEF FeedInv, WireInv
      <3>2. Says(f)
        <4>1. DOMAIN wire = {1}
          BY <1>5, OneFrame
        <4>. QED
          BY <1>4, <2>3, <4>1 DEF StreamInv, FramesInv, Truthful
      <3>3. Fits(Apply(client.view, f), Num(f))
        BY <1>3, <1>7, <3>1, <3>2, FitsFrame
      <3>4. PICK p : p = After(f)
        OBVIOUS
      <3>5. /\ Soon = p /\ Soon \in Known /\ Num(f) \in Int /\ Ord(p) \in Int /\ Num(f) <= Ord(p) /\ Clear(Due, Num(f), Ord(p))
        BY <1>1, <1>4, <2>3, <3>4, ClientPlaces
      <3>6. p # NoPoint
        BY <1>3, <3>5, KnownPlaces
      <3>7. Place' = p /\ Soon' = p
        BY <1>1, <1>4, <2>3, <3>4, <3>6 DEF Place, Soon
      <3>8. PICK vw : vw = Apply(client.view, f)
        OBVIOUS
      <3>9. Fits(vw, Ord(p))
        BY <1>3, <3>3, <3>5, <3>8, Persists
      <3>10. PICK m : m = Ord(p) /\ m = Ord(Place)'
        BY <3>7 DEF Ord
      <3>11. client'.view = vw
        BY <1>6, <2>3, <3>8
      <3>. QED
        BY <1>1, <1>2, <3>5, <3>7, <3>9, <3>10, <3>11, SameTruth
    <2>4. CASE f.kind \notin {"slow", "gone"} /\ ~Stored(f)
      <3>1. Speaks(f, Ord(Place))
        BY <1>1, <1>4, <2>4 DEF StreamInv, FramesInv
      <3>2. PICK vw : vw = Apply(client.view, f)
        OBVIOUS
      <3>3. Fits(vw, Ord(Place))
        BY <1>7, <3>1, <3>2, FitsLive
      <3>4. Place' = Place /\ Soon' = Place /\ Soon = Place
        BY <1>1, <1>4, <2>4 DEF Place, Soon
      <3>5. PICK m : m = Ord(Place) /\ m = Ord(Place)'
        BY <3>4 DEF Ord
      <3>6. client'.view = vw
        BY <1>6, <2>4, <3>2
      <3>. QED
        BY <1>1, <1>2, <3>3, <3>4, <3>5, <3>6, SameTruth
    <2>. QED
      BY <2>1, <2>2, <2>3, <2>4
  <1>9. conn.at = "live" => f.kind \notin {"slow", "gone"}
    BY <1>1, <1>4 DEF FeedInv, WireInv
  <1>10. FramesInv'
    <2>1. Truthful(wire)' /\ Truthful(sub.queue)' /\ Truthful(conn.page)'
      BY <1>1, <1>2, EmptyTells, SameTruth DEF StreamInv, FramesInv
    <2>2. ASSUME conn.at = "live", ~sub.reset
          PROVE  LiveInTurn(sub.queue, Ord(Soon))'
      <3>1. PICK m : m = Ord(Soon) /\ m = Ord(Soon)'
        BY <1>8, <1>9, <2>2 DEF Ord
      <3>. QED
        BY <1>1, <1>2, <2>2, <3>1, SameTruth DEF StreamInv, FramesInv
    <2>. QED
      BY <1>1, <2>1, <2>2 DEF FramesInv
  <1>11. PhaseInv'
    BY <1>1 DEF StreamInv, PhaseInv
  <1>12. WholeInv'
    <2>. SUFFICES ASSUME (conn.at = "live" /\ ~sub.stale /\ ~sub.reset /\ ~closed)'
                  PROVE  Complete(Coming)'
      BY DEF WholeInv
    <2>1. Complete(Coming)
      BY <1>1 DEF StreamInv, WholeInv
    <2>2. IsSeq(sub.queue)
      BY DEF FeedInv, Shapes
    <2>3. PICK vw : vw = Coming
      OBVIOUS
    <2>4. vw = Shows(Apply(client.view, f), sub.queue)
      BY <1>5, <2>2, <2>3, ShowsWire DEF Coming
    <2>5. Coming' = Shows(client'.view, <<>> \o sub.queue)
      BY <1>1 DEF Coming
    <2>6. client'.view = Apply(client.view, f)
      BY <1>1, <1>6, <1>9
    <2>7. Coming' = vw
      BY <2>2, <2>4, <2>5, <2>6, ShowsWire
    <2>. QED
      BY <1>1, <1>2, <2>1, <2>3, <2>7, SameTruth
  <1>. QED
    BY <1>8, <1>10, <1>11, <1>12 DEF StreamInv

\* A frame of the queue goes on its way: the client will show the same.
LEMMA YieldNextTells ==
    ASSUME FeedInv, AgentInv, AsksAll, StreamInv, YieldNext
    PROVE  StreamInv'
  <1>1. /\ conn.at = "live" /\ wire = <<>> /\ ~sub.reset /\ sub.queue # <<>>
        /\ conn' = conn /\ UNCHANGED <<store, bus, filter, client>>
    BY DEF YieldNext
  <1>2. /\ UNCHANGED <<log, processed, running, live, closed, filter, client>>
        /\ Place' = Place /\ \A n : n = Ord(Place) => n = Ord(Place)'
    BY <1>1, TaskSame
  <1>3. /\ IsSeq(log) /\ LogOf(log) /\ Due \in SUBSET Nat /\ IsSeq(sub.queue) /\ IsSub(sub) /\ Ord(Place) \in Int /\ Soon = Place
        /\ processed \in Nat
    BY <1>1, LogFacts, ClientPlaces DEF FeedInv, Shapes
  <1>4. PICK f : f = Head(sub.queue)
    OBVIOUS
  <1>5. wire' = <<f>> /\ wire'[1] = f /\ DOMAIN wire' = {1} /\ wire' # <<>>
    BY <1>4, OneFrame DEF YieldNext
  <1>6. PICK q : q = Tail(sub.queue)
    OBVIOUS
  <1>7. sub'.queue = q /\ sub'.live = sub.live /\ sub'.stale = sub.stale /\ sub'.reset = sub.reset
    <2>1. PICK p : sub' = [sub EXCEPT !.queue = Tail(sub.queue), !.sent = p]
      BY <1>4 DEF YieldNext
    <2>. QED
      BY <1>3, <1>6, <2>1 DEF IsSub
  <1>8. /\ IsSeq(q) /\ f = sub.queue[1] /\ 1 \in DOMAIN sub.queue
        /\ \A x \in DOMAIN q : /\ x \in Nat \ {0} /\ x + 1 \in DOMAIN sub.queue /\ q[x] = sub.queue[x + 1]
                             /\ \A y \in 1 .. x - 1 : y \in Int /\ y \in DOMAIN q
    <2>1. PICK l \in Nat \ {0} : l = Len(sub.queue)
      BY <1>1, <1>3, TailFacts
    <2>2. /\ IsSeq(q) /\ DOMAIN sub.queue = 1 .. l /\ DOMAIN q = 1 .. l - 1
          /\ (\A x \in 1 .. l - 1 : q[x] = sub.queue[x + 1]) /\ f = sub.queue[1]
      BY <1>1, <1>3, <1>4, <1>6, <2>1, TailFacts
    <2>. QED
      BY <2>2
  <1>9. Truthful(sub.queue) /\ LiveInTurn(sub.queue, Ord(Soon)) /\ Truthful(conn.page)
    BY <1>1 DEF StreamInv, FramesInv
  <1>10. Truthful(wire') /\ Truthful(q)
    <2>1. Stored(f) => Says(f)
      BY <1>8, <1>9 DEF Truthful
    <2>2. Truthful(wire')
      BY <1>5, <2>1 DEF Truthful
    <2>3. \A x \in DOMAIN q : Stored(q[x]) => Says(q[x])
      BY <1>8, <1>9 DEF Truthful
    <2>. QED
      BY <2>2, <2>3 DEF Truthful
  <1>11. ~Stored(f) => Speaks(f, Ord(Place))
    BY <1>3, <1>8, <1>9 DEF LiveInTurn
  <1>12. PICK m : m = Ord(Soon)' /\ m = Ord(Soon')
    BY DEF Ord
  <1>13. LiveInTurn(q, m)
    <2>1. ASSUME NEW x \in DOMAIN q, ~Stored(q[x])
          PROVE  /\ Speaks(q[x], Ord(Place)) /\ (Stored(f) => Speaks(q[x], Num(f)))
                 /\ \A y \in 1 .. x - 1 : Stored(q[y]) => Speaks(q[x], Num(q[y]))
      <3>1. x + 1 \in DOMAIN sub.queue /\ q[x] = sub.queue[x + 1] /\ 1 \in 1 .. (x + 1) - 1
            /\ \A y \in 1 .. x - 1 : y + 1 \in 1 .. (x + 1) - 1 /\ q[y] = sub.queue[y + 1]
        <4>1. x \in Nat \ {0} /\ x + 1 \in DOMAIN sub.queue /\ q[x] = sub.queue[x + 1]
          BY <1>8, <2>1
        <4>2. ASSUME NEW y \in 1 .. x - 1
              PROVE  y + 1 \in 1 .. (x + 1) - 1 /\ q[y] = sub.queue[y + 1]
          BY <1>8, <2>1, <4>1, <4>2
        <4>. QED
          BY <4>1, <4>2
      <3>2. /\ Speaks(sub.queue[x + 1], Ord(Place))
            /\ \A y \in 1 .. (x + 1) - 1 : Stored(sub.queue[y]) => Speaks(sub.queue[x + 1], Num(sub.queue[y]))
        BY <1>3, <1>9, <2>1, <3>1 DEF LiveInTurn
      <3>3. Stored(f) => Speaks(q[x], Num(f))
        BY <1>8, <3>1, <3>2
      <3>4. ASSUME NEW y \in 1 .. x - 1, Stored(q[y])
            PROVE  Speaks(q[x], Num(q[y]))
        BY <3>1, <3>2, <3>4
      <3>. QED
        BY <3>1, <3>2, <3>3, <3>4
    <2>2. CASE ~Stored(f)
      <3>1. Soon' = Place
        BY <1>2, <1>5, <2>2 DEF Soon
      <3>2. m = Ord(Place)
        BY <1>12, <3>1
      <3>. QED
        BY <2>1, <3>2 DEF LiveInTurn
    <2>3. CASE Stored(f)
      <3>1. Soon' = After(f)
        BY <1>5, <2>3 DEF Soon
      <3>2. IsFrame(Due, f)
        <4>1. PICK a \in Int : Run(Due, sub.queue, a, 2 * processed)
          BY <1>1 DEF FeedInv, QueueInv
        <4>. QED
          BY <1>8, <2>3, <4>1 DEF Run
      <3>3. Num(f) \in Int /\ m \in Int /\ Num(f) <= m /\ Clear(Due, Num(f), m)
        <4>1. Num(f) \in Int
          BY <3>2 DEF IsFrame, Num
        <4>. QED
          BY <1>3, <1>12, <3>1, <3>2, <4>1, AfterFrame
      <3>4. \A g : Speaks(g, Num(f)) => Speaks(g, m)
        BY <1>3, <3>3, Persists
      <3>. QED
        BY <2>1, <2>3, <3>4 DEF LiveInTurn
    <2>. QED
      BY <2>2, <2>3
  <1>14. Fits(client.view, Ord(Place))'
    BY <1>2, SameTruth DEF StreamInv
  <1>15. FramesInv'
    <2>1. Truthful(wire)' /\ Truthful(sub.queue)' /\ Truthful(conn.page)'
      BY <1>1, <1>2, <1>7, <1>9, <1>10, SameTruth
    <2>2. ~Stored(f) => Speaks(wire[1], Ord(Place))'
      <3>1. PICK p : p = Ord(Place) /\ p = Ord(Place)'
        BY <1>2
      <3>. QED
        BY <1>2, <1>5, <1>11, <3>1, SameTruth
    <2>3. LiveInTurn(sub.queue, Ord(Soon))'
      BY <1>2, <1>7, <1>12, <1>13, SameTruth
    <2>. QED
      BY <1>5, <2>1, <2>2, <2>3 DEF FramesInv
  <1>16. PhaseInv'
    BY <1>1, <1>7 DEF StreamInv, PhaseInv
  <1>17. WholeInv'
    <2>. SUFFICES ASSUME (conn.at = "live" /\ ~sub.stale /\ ~sub.reset /\ ~closed)'
                  PROVE  Complete(Coming)'
      BY DEF WholeInv
    <2>1. Complete(Coming)
      BY <1>1, <1>2, <1>7 DEF StreamInv, WholeInv
    <2>2. PICK vw : vw = Coming
      OBVIOUS
    <2>3. vw = Shows(client.view, sub.queue)
      BY <1>1, <1>3, <2>2, ShowsWire DEF Coming
    <2>4. Shows(client.view, sub.queue) = Shows(Apply(client.view, f), q)
      BY <1>1, <1>3, <1>4, <1>6, ShowsHead
    <2>5. Coming' = Shows(client.view, <<f>> \o q)
      BY <1>2, <1>5, <1>7 DEF Coming
    <2>6. Coming' = vw
      BY <1>8, <2>3, <2>4, <2>5, ShowsWire
    <2>. QED
      BY <1>2, <2>1, <2>2, <2>6, SameTruth
  <1>. QED
    BY <1>14, <1>15, <1>16, <1>17 DEF StreamInv

LEMMA AskHeldTells ==
    ASSUME FeedInv, AsksAll, StreamInv, AskHeld
    PROVE  StreamInv'
  <1>1. WantsBlocks
    BY DEF AsksAll, WantsBlocks
  <1>2. /\ conn.at = "live" /\ wire = <<>> /\ ~sub.reset /\ sub.queue = <<>> /\ sub.stale
        /\ sub' = sub /\ conn' = [conn EXCEPT !.at = "snap"] /\ wire' = wire /\ UNCHANGED <<store, bus, filter, client>>
    BY <1>1 DEF AskHeld
  <1>3. /\ UNCHANGED <<log, processed, running, live, closed, filter, client>>
        /\ Place' = Place /\ \A n : n = Ord(Place) => n = Ord(Place)'
    BY <1>2, TaskSame
  <1>4. conn'.at = "snap" /\ conn'.page = conn.page
    BY <1>2 DEF FeedInv, Shapes, IsConn
  <1>5. Fits(client.view, Ord(Place))'
    BY <1>3, SameTruth DEF StreamInv
  <1>6. FramesInv'
    BY <1>2, <1>3, <1>4, SameTruth DEF StreamInv, FramesInv
  <1>7. PhaseInv'
    BY <1>2, <1>4, EmptyTells DEF StreamInv, PhaseInv
  <1>8. WholeInv'
    BY <1>4 DEF WholeInv
  <1>. QED
    BY <1>5, <1>6, <1>7, <1>8 DEF StreamInv

\* The stored frames of what comes before a live-only one.
LEMMA RunBefore ==
    ASSUME NEW D, NEW s, IsSeq(s), NEW a, NEW b, NEW f, ~Stored(f), Run(D, Append(s, f), a, b)
    PROVE  Run(D, s, a, b)
  <1>1. /\ Len(s) \in Nat /\ DOMAIN s = 1 .. Len(s) /\ DOMAIN Append(s, f) = 1 .. Len(s) + 1
        /\ \A x \in 1 .. Len(s) : Append(s, f)[x] = s[x]
        /\ Append(s, f)[Len(s) + 1] = f
    BY AppendFacts
  <1>2. PICK t : t = Append(s, f)
    OBVIOUS
  <1>3. DOMAIN t = 1 .. Len(s) + 1 /\ (\A x \in DOMAIN s : x \in DOMAIN t /\ t[x] = s[x]) /\ t[Len(s) + 1] = f /\ Run(D, t, a, b)
    BY <1>1, <1>2
  <1>4. \A x \in DOMAIN t : Stored(t[x]) => x \in DOMAIN s
    BY <1>1, <1>3
  <1>5. \A x \in DOMAIN s : Stored(s[x]) => IsFrame(D, s[x]) /\ a < Num(s[x]) /\ Num(s[x]) <= b
    BY <1>3 DEF Run
  <1>6. \A x, y \in DOMAIN s : x < y /\ Stored(s[x]) /\ Stored(s[y]) => Num(s[x]) < Num(s[y])
    BY <1>3 DEF Run
  <1>7. \A n \in D : a < n /\ n <= b => \E x \in DOMAIN s : Stored(s[x]) /\ Num(s[x]) = n
    BY <1>3, <1>4 DEF Run
  <1>. QED
    BY <1>5, <1>6, <1>7 DEF Run

\* Live from here: what the queue keeps, then what is open.
LEMMA GoLiveTells ==
    ASSUME FeedInv, AgentInv, AsksAll, StreamInv, GoLive, ~closed
    PROVE  StreamInv'
  <1>1. /\ conn.at = "held" /\ wire' = wire /\ UNCHANGED <<store, bus, filter, client>>
        /\ conn' = [Idle EXCEPT !.at = "live"] /\ sub' = WentLive(sub, conn.upto)
    BY DEF GoLive
  <1>2. /\ UNCHANGED <<log, processed, running, live, closed, filter, client>>
        /\ Place' = Place /\ \A n : n = Ord(Place) => n = Ord(Place)'
    BY <1>1, TaskSame
  <1>3. conn'.at = "live" /\ conn'.page = <<>>
    BY <1>1 DEF Idle
  <1>4. /\ IsSeq(log) /\ LogOf(log) /\ TurnsOf(log) /\ Presents /\ Due \in SUBSET Nat /\ Len(log) \in Nat /\ processed \in Nat
        /\ processed \in 0 .. Len(log) /\ IsSeq(sub.queue) /\ IsSub(sub) /\ Ord(Place) \in Int /\ wire = <<>> /\ Soon = Place
        /\ ~sub.live
    BY <1>1, LogFacts, ClientPlaces DEF FeedInv, Shapes, WireInv, AgentInv, StreamInv, PhaseInv
  <1>5. PICK u \in Int : /\ u = Ord(conn.upto) /\ Ord(Place) <= u /\ Clear(Due, Ord(Place), u) /\ u <= 2 * processed
    <2>1. Reaches(conn.upto) /\ processed >= conn.upto.seq
      BY <1>1 DEF FeedInv, ConnInv, GoLive
    <2>2. /\ conn.upto \in Known /\ Ord(Place) <= Ord(conn.upto) /\ Clear(Due, Ord(Place), Ord(conn.upto))
      BY <1>4, <2>1 DEF Reaches
    <2>3. conn.upto.seq \in Nat /\ conn.upto.part \in {0, 1} /\ Ord(conn.upto) \in Int
      BY <1>4, <2>2, KnownPlaces
    <2>4. Ord(conn.upto) <= 2 * processed
      BY <1>4, <2>1, <2>3 DEF Ord
    <2>. QED
      BY <2>2, <2>3, <2>4
  <1>. DEFINE places == {i \in DOMAIN sub.queue : ~Covers(conn.upto, sub.queue[i])}
  <1>6. PICK t : t = Sifted(sub.queue, places)
    OBVIOUS
  <1>7. PICK s : s = Append(t, Snapshot)
    OBVIOUS
  <1>8. sub'.queue = s /\ sub'.sent = conn.upto /\ sub'.reset = sub.reset /\ sub'.live
    <2>1. /\ IsSub(sub') /\ sub'.reset = sub.reset /\ sub'.sent = conn.upto
          /\ sub'.queue = IF WantsBlocks THEN Append(t, Snapshot) ELSE t
      BY <1>1, <1>4, <1>6, WentLiveFacts
    <2>2. WantsBlocks
      BY DEF AsksAll, WantsBlocks
    <2>3. sub'.live
      <3>1. PICK r : sub' = [sub EXCEPT !.queue = r, !.sent = conn.upto, !.live = TRUE]
        BY <1>1 DEF WentLive
      <3>. QED
        BY <1>4, <3>1 DEF IsSub
    <2>. QED
      BY <1>7, <2>1, <2>2, <2>3
  <1>9. IsSeq(t) /\ Truthful(t) /\ AllStored(t)
    <2>1. places \in SUBSET DOMAIN sub.queue
      OBVIOUS
    <2>2. Truthful(sub.queue) /\ AllStored(sub.queue)
      BY <1>4 DEF StreamInv, FramesInv, PhaseInv
    <2>3. \A x \in places : Stored(sub.queue[x])
      BY <2>2 DEF AllStored
    <2>. HIDE DEF places
    <2>. QED
      BY <1>4, <1>6, <2>1, <2>2, <2>3, SiftedTells, SiftedFacts
  <1>. HIDE DEF places
  <1>10. ~Stored(Snapshot) /\ \A n \in Int : n <= 2 * processed => Speaks(Snapshot, n)
    BY <1>4, SnapshotSays
  <1>11. sub.reset \/ Run(Due, t, u, 2 * processed)
    <2>. SUFFICES ASSUME ~sub.reset PROVE Run(Due, t, u, 2 * processed)
      OBVIOUS
    <2>1. FeedInv'
      BY GoLiveKeeps
    <2>2. Due' = Due
      BY <1>2, SameLog
    <2>3. \E a \in Int : Run(Due', sub'.queue, a, 2 * processed') /\ a = Ord(sub'.sent)
      BY <1>3, <1>8, <2>1 DEF FeedInv, QueueInv, Ord
    <2>4. Run(Due, s, u, 2 * processed)
      BY <1>2, <1>5, <1>8, <2>2, <2>3
    <2>. QED
      BY <1>7, <1>9, <1>10, <2>4, RunBefore
  <1>12. IsSeq(s) /\ Truthful(s)
    BY <1>7, <1>9, <1>10, AppendTells, AppendFacts
  <1>13. ~sub.reset => LiveInTurn(s, Ord(Place))
    <2>. SUFFICES ASSUME ~sub.reset PROVE LiveInTurn(s, Ord(Place))
      OBVIOUS
    <2>1. LiveInTurn(t, Ord(Place))
      BY <1>9, AllStoredLive
    <2>2. Speaks(Snapshot, Ord(Place))
      BY <1>4, <1>5, <1>10
    <2>3. ASSUME NEW y \in DOMAIN t, Stored(t[y])
          PROVE  Speaks(Snapshot, Num(t[y]))
      <3>1. IsFrame(Due, t[y]) /\ Num(t[y]) <= 2 * processed
        BY <1>11, <2>3 DEF Run
      <3>2. Num(t[y]) \in Int
        BY <3>1 DEF IsFrame, Num
      <3>. QED
        BY <1>10, <3>1, <3>2
    <2>. QED
      BY <1>7, <1>9, <2>1, <2>2, <2>3, AppendTells
  <1>14. Fits(client.view, Ord(Place))'
    BY <1>2, SameTruth DEF StreamInv
  <1>15. FramesInv'
    <2>1. Truthful(wire)' /\ Truthful(sub.queue)' /\ Truthful(conn.page)'
      BY <1>1, <1>2, <1>3, <1>4, <1>8, <1>12, EmptyTells, SameTruth
    <2>2. Soon' = Place
      BY <1>1, <1>2, <1>4 DEF Soon
    <2>3. PICK m : m = Ord(Soon)' /\ m = Ord(Place)
      BY <2>2 DEF Ord
    <2>4. ~sub'.reset => LiveInTurn(sub.queue, Ord(Soon))'
      BY <1>2, <1>8, <1>13, <2>3, SameTruth
    <2>. QED
      BY <1>1, <1>4, <2>1, <2>4 DEF FramesInv
  <1>16. PhaseInv'
    BY <1>3, <1>8, EmptyTells DEF PhaseInv
  <1>17. WholeInv'
    <2>. SUFFICES ASSUME ~sub.reset
                  PROVE  Complete(Coming)'
      BY <1>8 DEF WholeInv
    <2>1. Fits(client.view, u)
      BY <1>4, <1>5, Persists DEF StreamInv
    <2>2. PICK v1 : v1 = Shows(client.view, t)
      OBVIOUS
    <2>3. Fits(v1, 2 * processed)
      <3>1. 2 * processed \in Int
        BY <1>4
      <3>. QED
        BY <1>4, <1>5, <1>9, <1>11, <2>1, <2>2, <3>1, FitsRun
    <2>4. PICK vw : vw = Apply(v1, Snapshot)
      OBVIOUS
    <2>5. Complete(vw)
      BY <1>4, <2>3, <2>4, SnapshotCompletes
    <2>6. Coming' = Shows(client.view, <<>> \o s)
      BY <1>1, <1>2, <1>4, <1>8 DEF Coming
    <2>7. Coming' = vw
      BY <1>7, <1>9, <1>12, <2>2, <2>4, <2>6, ShowsWire, ShowsOneMore
    <2>. QED
      BY <1>2, <2>5, <2>7, SameTruth
  <1>. QED
    BY <1>14, <1>15, <1>16, <1>17 DEF StreamInv

\* A fresh snapshot overtakes what was queued meanwhile.
LEMMA YieldSnapshotTells ==
    ASSUME FeedInv, AgentInv, AsksAll, StreamInv, YieldSnapshot
    PROVE  StreamInv'
  <1>1. /\ conn.at = "snap" /\ UNCHANGED <<store, bus, filter, client>>
    BY DEF YieldSnapshot
  <1>2. /\ UNCHANGED <<log, processed, running, live, closed, filter, client>>
        /\ Place' = Place /\ \A n : n = Ord(Place) => n = Ord(Place)'
    BY <1>1, TaskSame
  <1>3. /\ IsSeq(log) /\ LogOf(log) /\ TurnsOf(log) /\ Presents /\ Due \in SUBSET Nat /\ Len(log) \in Nat /\ processed \in Nat
        /\ processed \in 0 .. Len(log) /\ IsSeq(sub.queue) /\ IsSub(sub) /\ IsConn(conn) /\ Ord(Place) \in Int /\ wire = <<>>
        /\ Soon = Place /\ sub.live /\ AllStored(sub.queue) /\ AllStored(conn.page) /\ Truthful(sub.queue) /\ Truthful(conn.page)
    BY <1>1, LogFacts, ClientPlaces DEF FeedInv, Shapes, AgentInv, StreamInv, FramesInv, PhaseInv
  <1>4. conn'.at = "live" /\ conn'.page = conn.page
    BY <1>3 DEF YieldSnapshot, IsConn
  <1>5. sub'.queue = sub.queue /\ sub'.live = sub.live /\ sub'.reset = sub.reset
    BY <1>3 DEF YieldSnapshot, IsSub
  <1>6. PICK f : f = Snapshot
    OBVIOUS
  <1>7. wire' = <<f>> /\ wire'[1] = f /\ DOMAIN wire' = {1} /\ wire' # <<>>
    BY <1>6, OneFrame DEF YieldSnapshot
  <1>8. PICK a \in Int : /\ a <= 2 * processed /\ Ord(Place) <= a /\ Clear(Due, Ord(Place), a)
                         /\ sub.reset \/ Run(Due, sub.queue, a, 2 * processed)
    <2>1. PICK a \in Int : a <= 2 * processed /\ a = Ord(sub.sent) /\ (sub.reset \/ Run(Due, sub.queue, a, 2 * processed))
      BY <1>1 DEF FeedInv, QueueInv
    <2>2. Ord(Place) <= Ord(sub.sent) /\ Clear(Due, Ord(Place), Ord(sub.sent))
      BY <1>1, <1>3 DEF FeedInv, ConnInv, Reaches
    <2>. QED
      BY <2>1, <2>2
  <1>9. ~Stored(f) /\ Speaks(f, Ord(Place))
    BY <1>3, <1>6, <1>8, SnapshotSays
  <1>10. Truthful(wire')
    BY <1>7, <1>9 DEF Truthful
  <1>11. Fits(client.view, Ord(Place))'
    BY <1>2, SameTruth DEF StreamInv
  <1>12. FramesInv'
    <2>1. Truthful(wire)' /\ Truthful(sub.queue)' /\ Truthful(conn.page)'
      BY <1>2, <1>3, <1>4, <1>5, <1>10, SameTruth
    <2>2. Speaks(wire[1], Ord(Place))'
      <3>1. PICK p : p = Ord(Place) /\ p = Ord(Place)'
        BY <1>2
      <3>. QED
        BY <1>2, <1>7, <1>9, <3>1, SameTruth
    <2>3. \A n : LiveInTurn(sub'.queue, n)
      BY <1>3, <1>5, AllStoredLive
    <2>4. LiveInTurn(sub.queue, Ord(Soon))'
      BY <1>2, <2>3, SameTruth
    <2>. QED
      BY <2>1, <2>2, <2>4 DEF FramesInv
  <1>13. PhaseInv'
    BY <1>3, <1>4, <1>5 DEF PhaseInv
  <1>14. WholeInv'
    <2>. SUFFICES ASSUME ~sub.reset
                  PROVE  Complete(Coming)'
      BY <1>5 DEF WholeInv
    <2>1. Fits(client.view, a)
      BY <1>3, <1>8, Persists DEF StreamInv
    <2>2. PICK vw : vw = Shows(Apply(client.view, f), sub.queue)
      OBVIOUS
    <2>3. Complete(vw)
      BY <1>3, <1>6, <1>8, <2>1, <2>2, SnapshotAhead
    <2>4. Coming' = Shows(client.view, <<f>> \o sub.queue)
      BY <1>2, <1>5, <1>7 DEF Coming
    <2>5. Coming' = vw
      BY <1>3, <2>2, <2>4, ShowsWire
    <2>. QED
      BY <1>2, <2>3, <2>5, SameTruth
  <1>. QED
    BY <1>11, <1>12, <1>13, <1>14 DEF StreamInv

\* What the agent, the store and the bus agree on, when none of them moves.
LEMMA AgentRests ==
    ASSUME AgentInv, log' = log, processed' = processed, running' = running, live' = live
    PROVE  AgentInv'
  <1>1. Running' = Running /\ NextBlock' = NextBlock /\ Seqs' = Seqs
    BY DEF Running, NextBlock, Seqs
  <1>2. TurnsOf(log)'
    BY DEF AgentInv
  <1>3. Presents'
    BY <1>1 DEF AgentInv, Presents
  <1>4. Waits'
    BY <1>1 DEF AgentInv, Waits
  <1>. QED
    BY <1>2, <1>3, <1>4 DEF AgentInv

LEMMA InitView ==
    ASSUME Init
    PROVE  ViewInv
  <1>1. /\ log = <<>> /\ processed = 0 /\ running = NotRunning /\ live = NoLive /\ Len(log) = 0
        /\ conn = Idle /\ wire = <<>> /\ sub = NoSub
        /\ client = [id |-> NoPoint, base |-> 0, view |-> {}]
    BY DEF Init
  <1>2. Running = 0 /\ running.open = 0 /\ running.blocks = 0 /\ running = [turn |-> 0, blocks |-> 0, open |-> 0]
    BY <1>1 DEF Running, NotRunning
  <1>3. TurnsOf(log) /\ Waits
    BY <1>1 DEF TurnsOf, Waits
  <1>4. Presents
    BY <1>1, <1>2 DEF Presents, NoLive, Seqs
  <1>5. Fits(client.view, Ord(Place))
    BY <1>1 DEF Fits
  <1>6. conn.at = "off" /\ conn.page = <<>> /\ sub.queue = <<>> /\ ~sub.live
    BY <1>1 DEF Idle, NoSub
  <1>7. FramesInv
    BY <1>1, <1>6, EmptyTells DEF FramesInv
  <1>8. PhaseInv
    BY <1>6, EmptyTells DEF PhaseInv
  <1>9. WholeInv
    BY <1>6 DEF WholeInv
  <1>. QED
    BY <1>3, <1>4, <1>5, <1>7, <1>8, <1>9 DEF ViewInv, AgentInv, StreamInv

\* Every step keeps what the client shows true.
LEMMA NextTells ==
    ASSUME FeedInv, ViewInv, [Next]_vars
    PROVE  ViewInv'
  <1>1. AgentInv /\ (AsksAll => StreamInv)
    BY DEF ViewInv
  <1>2. CASE TurnBegins \/ TextRecorded \/ TurnEnds \/ Noted
    <2>1. PICK e : Follows(e) /\ Continues(e) /\ Expected(e) /\ log' = Append(log, e)
      BY <1>1, <1>2, CommitsContinue
    <2>2. UNCHANGED <<aged, pruned, bus, filter, stream, client>>
      BY <1>1, <1>2, CommitsContinue
    <2>3. AgentInv'
      BY <1>1, <2>1, <2>2, CommitKeepsAgent
    <2>4. AsksAll => StreamInv'
      BY <1>1, <2>1, <2>2, StoreTells
    <2>5. AsksAll' <=> AsksAll
      BY <2>2 DEF AsksAll
    <2>. QED
      BY <2>3, <2>4, <2>5 DEF ViewInv
  <1>3. CASE Delta \/ Flush \/ Announce
    <2>1. AgentInv'
      BY <1>1, <1>3, DeltaKeepsAgent, AnnounceKeepsAgent
    <2>2. AsksAll => StreamInv'
      BY <1>1, <1>3, DeltaTells, FlushTells, AnnounceTells
    <2>3. AsksAll' <=> AsksAll
      BY <1>3 DEF Delta, Flush, Announce, AsksAll
    <2>. QED
      BY <2>1, <2>2, <2>3 DEF ViewInv
  <1>4. CASE Task
    <2>1. CASE HangUp
      <3>1. UNCHANGED <<store, bus, filter, client>>
        BY <2>1 DEF HangUp
      <3>2. AgentInv'
        BY <1>1, <3>1, TaskSame, AgentRests
      <3>3. AsksAll' <=> AsksAll
        BY <3>1 DEF AsksAll
      <3>. QED
        BY <1>1, <2>1, <3>2, <3>3, GoneTells DEF ViewInv
    <2>2. CASE ~HangUp
      <3>1. UNCHANGED <<store, bus, filter, client>>
        BY <1>4, <2>2 DEF Task, CheckHead, CheckAge, ReadPage, YieldReplayed, PageIsDone, CaughtUp, GoLive, YieldSlow,
                          YieldNext, AskHeld, YieldSnapshot, EndOfBus
      <3>2. AgentInv'
        BY <1>1, <3>1, TaskSame, AgentRests
      <3>3. AsksAll' <=> AsksAll
        BY <3>1 DEF AsksAll
      <3>4. AsksAll => StreamInv'
        BY <1>1, <1>4, <2>2, ChecksTell, ReadPageTells, YieldReplayedTells, MovesTell, GoLiveTells, YieldNextTells, AskHeldTells,
           YieldSnapshotTells DEF Task
      <3>. QED
        BY <3>2, <3>3, <3>4 DEF ViewInv
    <2>. QED
      BY <2>1, <2>2
  <1>5. CASE Connect \/ Receive
    <2>1. UNCHANGED <<log, processed, running, live, filter>>
      BY <1>5 DEF Connect, Receive, store, bus
    <2>2. AsksAll' <=> AsksAll
      BY <2>1 DEF AsksAll
    <2>3. AgentInv'
      BY <1>1, <2>1, AgentRests
    <2>. QED
      BY <1>1, <1>5, <2>2, <2>3, ConnectTells, ReceiveTells DEF ViewInv
  <1>6. CASE Drop \/ Stop
    <2>1. UNCHANGED <<log, processed, running, live, filter>>
      BY <1>6 DEF Drop, Stop, store, bus
    <2>2. AsksAll' <=> AsksAll
      BY <2>1 DEF AsksAll
    <2>3. AgentInv'
      BY <1>1, <2>1, AgentRests
    <2>. QED
      BY <1>1, <1>6, <2>2, <2>3, GoneTells, StopTells DEF ViewInv
  <1>7. CASE Restart
    <2>1. AsksAll' <=> AsksAll
      BY <1>7 DEF Restart, AsksAll
    <2>. QED
      BY <1>1, <1>7, <2>1, GoneTells, RestartKeepsAgent DEF ViewInv
  <1>8. CASE (\E to \in 0 .. MaxEvents : Prune(to)) \/ UNCHANGED vars
    <2>1. UNCHANGED <<log, bus, filter, stream, client>>
      BY <1>8 DEF Prune, vars, store
    <2>2. AsksAll' <=> AsksAll
      BY <2>1 DEF AsksAll
    <2>3. AgentInv'
      BY <1>1, <2>1, AgentRests DEF bus
    <2>4. AsksAll => StreamInv'
      BY <1>1, <2>1, StoreTells
    <2>. QED
      BY <2>2, <2>3, <2>4 DEF ViewInv
  <1>. QED
    BY <1>2, <1>3, <1>4, <1>5, <1>6, <1>7, <1>8 DEF Next, Agent, Around

\* What a client that asked for turns and blocks shows always fits the events it has
\* got, and every frame it is still to get fits what it shows (stream/bus.py,
\* stream/turns.py and a reader of the stream).
THEOREM ViewFits ==
    ASSUME PruneDuring = {}
    PROVE  Spec => []ViewInv
  <1>1. Init => ViewInv
    BY InitView
  <1>2. FeedInv /\ ViewInv /\ [Next]_vars => ViewInv'
    BY NextTells
  <1>3. Spec => []FeedInv
    BY StreamFits
  <1>. QED
    BY <1>1, <1>2, <1>3, PTL DEF Spec

\* Once it has what is on its way to it, a client that is not due a fresh snapshot
\* shows as open exactly the blocks that are open, at their length: no update is lost,
\* repeated or late, by a squeeze, a snapshot or a replay that they cross (Subscriber
\* of stream/bus.py, the SSE writer).
THEOREM ViewIsComplete ==
    ASSUME PruneDuring = {}
    PROVE  Spec => []ViewIsWhole
  <1>1. ViewInv => ViewIsWhole
    BY DEF ViewInv, StreamInv, WholeInv, AsksAll, Complete, ViewIsWhole
  <1>2. Spec => []ViewInv
    BY ViewFits
  <1>. QED
    BY <1>1, <1>2, PTL

=============================================================================
