----------------------------- MODULE WakeQueue ------------------------------
(***************************************************************************)
(* What a storm session promises the senders of its wakes, whatever its    *)
(* process, its server or its store do: a queue whose items are taken in   *)
(* batches.                                                                *)
(*                                                                         *)
(* An item is queued once.  A batch is finished as a whole or given back   *)
(* as a whole; only a batch that failed counts as a try of its items, and  *)
(* an item that failed more than Bound times is given up.  Done is done.   *)
(* Retiring hands the queue over, and from then on there is nothing here.  *)
(*                                                                         *)
(* StormSession implements this module (its property QueueOfWakes).        *)
(***************************************************************************)
EXTENDS Naturals

CONSTANTS Items, Bound   \* Bound: how many failed tries an item survives

VARIABLES
    queue, hands,           \* what waits, and the batches that are taken
    done, givenUp, moved,   \* finished; refused or failed too often; the successor's
    tries, closed

qvars == <<queue, hands, done, givenUp, moved, tries, closed>>

QInit ==
    /\ queue = {} /\ hands = {}
    /\ done = {} /\ givenUp = {} /\ moved = {}
    /\ tries = [i \in Items |-> 0]
    /\ closed = FALSE

Add(i) ==
    /\ ~closed /\ i \notin queue \cup (UNION hands) \cup done \cup givenUp \cup moved
    /\ queue' = queue \cup {i}
    /\ UNCHANGED <<hands, done, givenUp, moved, tries, closed>>

\* A new batch, or more for one that is already in hand.
TakeUp(batch, with) ==
    /\ queue' = queue \ batch /\ hands' = (hands \ {with}) \cup {batch \cup with}
    /\ UNCHANGED <<done, givenUp, moved, tries, closed>>

\* Out of a hand, or from the queue by one that was over before it took it.
Finish(batch) ==
    /\ queue' = queue \ batch /\ hands' = hands \ {batch}
    /\ done' = done \cup batch
    /\ UNCHANGED <<givenUp, moved, tries, closed>>

Fail(batch) ==
    LET over == {i \in batch : tries[i] >= Bound}
    IN  /\ queue' = (queue \cup batch) \ over /\ hands' = hands \ {batch}
        /\ givenUp' = givenUp \cup over
        /\ tries' = [i \in Items |-> IF i \in batch \ over THEN tries[i] + 1 ELSE tries[i]]
        /\ UNCHANGED <<done, moved, closed>>

\* Nothing was the batches' fault: no try is counted.
GiveBack(batches) ==
    /\ queue' = queue \cup (UNION batches) /\ hands' = hands \ batches
    /\ UNCHANGED <<done, givenUp, moved, tries, closed>>

Refuse(batch) ==
    /\ queue' = queue \ batch /\ givenUp' = givenUp \cup batch
    /\ UNCHANGED <<hands, done, moved, tries, closed>>

Close ==
    /\ ~closed /\ hands = {}
    /\ closed' = TRUE /\ queue' = {} /\ moved' = queue
    /\ UNCHANGED <<hands, done, givenUp, tries>>

QNext ==
    \/ \E i \in Items : Add(i)
    \/ \E batch \in (SUBSET queue) \ {{}} :
          Refuse(batch) \/ Finish(batch) \/ Fail(batch) \/ \E with \in hands \cup {{}} : TakeUp(batch, with)
    \/ \E batch \in hands : Finish(batch) \/ Fail(batch)
    \/ \E batches \in SUBSET hands : GiveBack(batches)
    \/ Close

QSpec == QInit /\ [][QNext]_qvars

=============================================================================
