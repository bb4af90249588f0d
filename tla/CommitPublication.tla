-------------------------- MODULE CommitPublication --------------------------
(***************************************************************************)
(* What an owner of worker transactions promises the readers of its        *)
(* catalog, without cells, ports, receipts or settlements.  The            *)
(* transactions 1..N of an operation commit in order; each has a view,     *)
(* which is what readers see of it.                                        *)
(***************************************************************************)
EXTENDS Naturals

CONSTANT N   \* bound on the transactions of the operation

VARIABLES
    db,     \* transactions in the database
    view,   \* view[t]: what readers see of transaction t
    over    \* nothing of this operation will commit any more

(* "open": not known to readers.  "fenced": readers do not trust what they *)
(* have cached.  The other views are for good: the transaction happened,   *)
(* did not happen, or nobody knows and the cache is dropped.               *)
Views == {"open", "fenced", "published", "reverted", "unknown"}

Init ==
    /\ db = 0
    /\ view = [t \in 1 .. N |-> "open"]
    /\ over = FALSE

\* A transaction commits behind its fence
Commit ==
    /\ ~over /\ db < N /\ view[db + 1] = "fenced"
    /\ db' = db + 1
    /\ UNCHANGED <<view, over>>

\* What readers see of t may become v
MayShow(t, v) ==
    \/ v = view[t]
    \/ view[t] = "open" /\ v = "fenced" /\ t > db
    \/ view[t] = "fenced" /\ v = "published" /\ t <= db
    \/ view[t] = "fenced" /\ v = "reverted" /\ over /\ t > db
    \/ view[t] = "fenced" /\ v = "unknown" /\ over

Show ==
    /\ view' \in [1 .. N -> Views]
    /\ \A t \in 1 .. N : MayShow(t, view'[t])
    /\ UNCHANGED <<db, over>>

Stop ==
    /\ over' = TRUE
    /\ UNCHANGED <<db, view>>

Next == Commit \/ Show \/ Stop

Spec == Init /\ [][Next]_<<db, view, over>>
=============================================================================
