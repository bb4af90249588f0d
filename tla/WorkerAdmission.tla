--------------------------- MODULE WorkerAdmission ---------------------------
(***************************************************************************)
(* One operation on a SQLite worker thread and the host that admits it:    *)
(* src/src/infra/sqlite-worker-operation-admission.ts and                  *)
(* sqlite-worker-operation-settlement.ts, the worker's command loop        *)
(* sqlite-store.worker.ts, and the profile writes of                       *)
(* src/src/state/user-profile-writes.ts as the host's owner.               *)
(*                                                                         *)
(* Inside each transaction the worker asks twice, on entry and before      *)
(* COMMIT, and blocks on a shared decision cell that host and worker both  *)
(* change by compare-and-exchange.  Before it grants a COMMIT the owner    *)
(* stages the publication of what will be written, and fences readers with *)
(* it.  After COMMIT the worker posts a receipt, in the end a settlement;  *)
(* from these the owner publishes, reconciles or invalidates.              *)
(***************************************************************************)
EXTENDS Integers, Sequences

CONSTANTS
    MaxTxn,        \* bound on the transactions of the operation
    HasDeadline    \* the requests carry deadlineMs

ASSUME AdmissionAssumption == MaxTxn \in Nat /\ HasDeadline \in BOOLEAN

Txns == 1 .. MaxTxn

VARIABLES
    worker,      \* where the worker thread is
    txn, stage,  \* its transaction and the stage of its request
    cell,        \* the decision cell of the current request
    late,        \* the request's deadline has passed
    commits,     \* transactions committed in the database
    receipts,    \* sequence of the worker's last commit receipt
    port,        \* messages from the worker to the host
    host,        \* what the host does with the current request
    closed,      \* the admission is finished
    receipt,     \* sequence of the host's nativeReceipt
    settlement,  \* the host's settlement
    failure,     \* source of the host's recorded failure
    entry,       \* the owner's publication of each transaction
    done         \* publicationSettled has run

wvars == <<worker, txn, stage, cell, late, commits, receipts>>
hvars == <<host, closed, receipt, settlement, failure, entry, done>>
vars == <<wvars, port, hvars>>

Init ==
    /\ worker = "ready" /\ txn = 0 /\ stage = "transaction"
    /\ cell = "none" /\ late = FALSE
    /\ commits = 0 /\ receipts = 0
    /\ port = <<>>
    /\ host = "idle" /\ closed = FALSE
    /\ receipt = 0 /\ settlement = "none" /\ failure = "none"
    /\ entry = [t \in Txns |-> "none"]
    /\ done = FALSE

-----------------------------------------------------------------------------
(* The worker                                                              *)

\* requestSqliteWorkerOperationAdmission posts its request and waits
Request(s) ==
    /\ worker' = "asking"
    /\ stage' = s
    /\ cell' = "requested" /\ late' = FALSE
    /\ port' = Append(port, [kind |-> "request", n |-> txn'])
    /\ UNCHANGED <<commits, receipts, hvars>>

BeginTransaction ==
    /\ worker = "ready" /\ txn < MaxTxn
    /\ txn' = txn + 1
    /\ Request("transaction")

AskCommit ==
    /\ worker = "entered"
    /\ UNCHANGED txn
    /\ Request("commit")

DeadlinePasses ==
    /\ HasDeadline /\ cell = "requested" /\ ~late
    /\ late' = TRUE
    /\ UNCHANGED <<worker, txn, stage, cell, commits, receipts, port, hvars>>

\* The waiting worker gives up its request
TimeOut ==
    /\ worker = "asking" /\ late /\ cell = "requested"
    /\ cell' = "timedout"
    /\ UNCHANGED <<worker, txn, stage, late, commits, receipts, port, hvars>>

\* The worker takes any decision but a grant for a refusal
Admitted == cell = "granted"

\* The decision has been made: go on, or throw, which rolls back
Wake ==
    /\ worker = "asking" /\ cell # "requested"
    /\ worker' = IF ~Admitted THEN "failed"
                 ELSE IF stage = "transaction" THEN "entered" ELSE "committing"
    /\ UNCHANGED <<txn, stage, cell, late, commits, receipts, port, hvars>>

\* The operation throws inside its transaction
Abort ==
    /\ worker = "entered"
    /\ worker' = "failed"
    /\ UNCHANGED <<txn, stage, cell, late, commits, receipts, port, hvars>>

\* COMMIT succeeds, fails with a clean rollback, or fails so that the
\* backend cannot tell
NativeCommit ==
    /\ worker = "committing"
    /\ \/ commits' = commits + 1 /\ worker' = "landed"
       \/ commits' = commits /\ worker' = "failed"
       \/ commits' \in {commits, commits + 1} /\ worker' = "uncertain"
    /\ UNCHANGED <<txn, stage, cell, late, receipts, port, hvars>>

\* The commit callback of the receipt
PostReceipt ==
    /\ worker = "landed"
    /\ receipts' = receipts + 1
    /\ port' = Append(port, [kind |-> "commit", n |-> receipts'])
    /\ worker' = "ready"
    /\ UNCHANGED <<txn, stage, cell, late, commits, hvars>>

\* settleCommand: "completed" only if the backend's assertSettled passes
SettlementKinds == IF worker = "uncertain" THEN {"unknown"} ELSE {"completed", "unknown"}

\* settleSqliteWorkerOperationContext
Settle ==
    /\ worker \in {"ready", "failed", "uncertain"}
    /\ \E kind \in SettlementKinds : port' = Append(port, [kind |-> kind, n |-> receipts])
    /\ worker' = "settled"
    /\ UNCHANGED <<txn, stage, cell, late, commits, receipts, hvars>>

\* The worker thread is gone; what it has posted is still delivered
Die ==
    /\ worker # "settled" /\ worker # "dead"
    /\ worker' = "dead"
    /\ UNCHANGED <<txn, stage, cell, late, commits, receipts, port, hvars>>

-----------------------------------------------------------------------------
(* The host                                                                *)

\* recordFailure: a domain refusal does not hide a later, graver failure
RecordFailure(source) ==
    failure' = IF failure = "none" \/ (failure = "domain" /\ source # "domain")
               THEN source ELSE failure

\* Mutant of Refuse: the refusal is recorded and the worker not told
RefuseSilently(source) == RecordFailure(source) /\ UNCHANGED cell

\* refuse: only a request that is still undecided
Refuse(source) ==
    IF cell = "requested" THEN cell' = "refused" /\ RecordFailure(source)
    ELSE UNCHANGED <<cell, failure>>

\* expired(): the host, too, turns a late request into a timed out one
Expired == late \/ cell = "timedout"
Expire == IF cell = "requested" THEN cell' = "timedout" ELSE UNCHANGED cell

Receive(kinds) ==
    /\ host = "idle" /\ port # <<>> /\ Head(port).kind \in kinds
    /\ port' = Tail(port)

ReceiveRequest ==
    /\ Receive({"request"})
    /\ \/ /\ Expired
          /\ Expire /\ UNCHANGED <<failure, host>>
       \/ /\ ~Expired /\ closed
          /\ Refuse("authority") /\ UNCHANGED host
       \/ /\ ~Expired /\ ~closed
          /\ host' = "admitting" /\ UNCHANGED <<cell, failure>>
    /\ UNCHANGED <<worker, txn, stage, late, commits, receipts, closed, receipt, settlement,
                   entry, done>>

\* Mutant of Installed: only the first receipt is kept
InstalledFirst(n) == IF receipt = 0 THEN n ELSE receipt

\* installCommitted: receipts only advance
Installed(n) == IF n > receipt THEN n ELSE receipt

\* installCommitted: no receipt is taken after the settlement
ReceiveReceipt ==
    /\ Receive({"commit"})
    /\ IF settlement # "none" /\ Head(port).n > receipt
       THEN RecordFailure("protocol") /\ UNCHANGED receipt
       ELSE receipt' = Installed(Head(port).n) /\ UNCHANGED failure
    /\ UNCHANGED <<wvars, host, closed, settlement, entry, done>>

ReceiveSettlement ==
    /\ Receive({"completed", "unknown"})
    /\ receipt' = Installed(Head(port).n)
    /\ settlement' = Head(port).kind
    /\ UNCHANGED <<wvars, host, closed, failure, entry, done>>

\* publishCommitted: the entries named by the receipt
Published(e) == [t \in Txns |-> IF t <= receipt THEN "published" ELSE e[t]]

\* The owner or the physical authority refuses
Deny ==
    /\ host = "admitting"
    /\ \E source \in {"authority", "domain"} : Refuse(source)
    /\ host' = "idle"
    /\ entry' = Published(entry)
    /\ UNCHANGED <<worker, txn, stage, late, commits, receipts, port, closed, receipt,
                   settlement, done>>

\* The publications after the owner has prepared the requested one
Staged == IF stage = "commit" THEN [Published(entry) EXCEPT ![txn] = "staged"]
          ELSE Published(entry)

\* The owner publishes what is committed; for a COMMIT it stages the
\* publication and fences readers, then calls grant
StagePublication ==
    /\ host = "admitting"
    /\ entry' = Staged
    /\ host' = "granting"
    /\ UNCHANGED <<wvars, port, closed, receipt, settlement, failure, done>>

\* Mutant of MayGrant: the deadline is not looked at again, the cell is
\* written without a compare
MayGrantAlways == TRUE

MayGrant == ~closed /\ ~Expired /\ cell = "requested"

\* grant: by compare-and-exchange, and not once the deadline has passed or
\* the physical authority is gone (assertAccess throws).  A request left
\* undecided is refused.
Grant ==
    /\ host = "granting"
    /\ host' = "idle"
    /\ IF MayGrant
       THEN \/ /\ cell' = "granted"
               /\ entry' = IF stage = "commit" THEN [entry EXCEPT ![txn] = "granted"] ELSE entry
               /\ UNCHANGED failure
            \/ Refuse("authority") /\ UNCHANGED entry
       ELSE /\ UNCHANGED entry
            /\ IF Expired THEN Expire /\ UNCHANGED failure ELSE Refuse("domain")
    /\ UNCHANGED <<worker, txn, stage, late, commits, receipts, port, closed, receipt,
                   settlement, done>>

\* finish, once the worker has settled or its thread has exited
Finish ==
    /\ host = "idle" /\ ~closed /\ worker \in {"settled", "dead"}
    /\ closed' = TRUE
    /\ UNCHANGED <<wvars, port, host, receipt, settlement, failure, entry, done>>

\* Mutant of Known: a granted commit without a receipt did not happen
KnownAlways(e) == TRUE

\* What became of an unpublished entry is known: it was never granted, or
\* the operation is completed and left no receipt
Known(e) == e # "granted" \/ settlement = "completed"

\* Mutant of Outcome: the fence of an unknown outcome is left standing
OutcomeIfKnown(e) ==
    CASE e = "staged" -> "dropped"
      [] e = "granted" /\ Known(e) -> "reconciled"
      [] OTHER -> e

\* What publicationSettled makes of an entry: it lifts every fence
Outcome(e) ==
    CASE e = "staged" -> "dropped"
      [] e = "granted" -> IF Known(e) THEN "reconciled" ELSE "invalidated"
      [] OTHER -> e

\* publicationSettled, after the queued messages have been drained
SettlePublications ==
    /\ closed /\ ~done /\ host = "idle" /\ port = <<>>
    /\ done' = TRUE
    /\ LET p == Published(entry) IN entry' = [t \in Txns |-> Outcome(p[t])]
    /\ UNCHANGED <<wvars, port, host, closed, receipt, settlement, failure>>

-----------------------------------------------------------------------------
WorkerNext ==
    \/ BeginTransaction \/ AskCommit \/ TimeOut \/ Wake \/ Abort
    \/ NativeCommit \/ PostReceipt \/ Settle

HostNext ==
    \/ ReceiveRequest \/ ReceiveReceipt \/ ReceiveSettlement
    \/ Deny \/ StagePublication \/ Grant \/ Finish \/ SettlePublications

Next == WorkerNext \/ HostNext \/ DeadlinePasses \/ Die

Spec == Init /\ [][Next]_vars

\* The host's event loop runs, and so does the worker thread until it settles
\* or dies; nothing makes it die, and no deadline is assumed
LiveSpec == Spec /\ WF_vars(HostNext) /\ WF_vars(WorkerNext)

-----------------------------------------------------------------------------
Messages == [kind : {"request", "commit", "completed", "unknown"}, n : Nat]

\* Every variable keeps its type, and receipts follow commits
TypeOK ==
    /\ worker \in {"ready", "asking", "entered", "committing", "landed", "uncertain",
                   "failed", "settled", "dead"}
    /\ txn \in 0 .. MaxTxn /\ stage \in {"transaction", "commit"}
    /\ cell \in {"none", "requested", "granted", "refused", "timedout"}
    /\ late \in BOOLEAN /\ closed \in BOOLEAN /\ done \in BOOLEAN
    /\ receipt \in Nat /\ receipts \in Nat /\ commits \in Nat
    /\ receipt <= receipts /\ receipts <= commits /\ commits <= txn
    /\ port \in Seq(Messages)
    /\ host \in {"idle", "admitting", "granting"}
    /\ settlement \in {"none", "completed", "unknown"}
    /\ failure \in {"none", "authority", "domain", "protocol"}
    /\ entry \in [Txns -> {"none", "staged", "granted", "published", "reconciled",
                           "invalidated", "dropped"}]

\* A transaction that is in the database has its publication staged or
\* published: between COMMIT and the arrival of its receipt readers are
\* fenced, and they are never told that it did not happen (the owner stages
\* before it grants, and grants by compare-and-exchange).
CommitIsFenced ==
    \A t \in Txns : t <= commits => entry[t] \in {"granted", "published", "invalidated"}

\* What the owner publishes is in the database, and what it takes back or
\* drops is not, whatever the worker had done when it settled, timed out or
\* died (publishCommitted, publicationSettled).
PublicationIsTrue ==
    \A t \in Txns :
        /\ entry[t] = "published" => t <= commits
        /\ entry[t] \in {"reconciled", "dropped"} => t > commits

\* A settlement that says completed accounts for every COMMIT: the host has
\* the receipt of the last one by then (native-settlement carries it,
\* waitForSettlement returns it).
SettlementIsComplete ==
    settlement = "completed" => receipt = commits /\ worker \in {"settled", "dead"}

\* The decision of a request is final: host and worker never both decide it,
\* and the worker enters a COMMIT only on a grant (Atomics.compareExchange on
\* both sides).
DecisionIsFinal ==
    [][(cell \in {"granted", "refused", "timedout"}) => (cell' \in {cell, "requested"})]_vars

\* Readers' view of a publication entry
ViewOf(e) ==
    CASE e = "none" -> "open"
      [] e \in {"staged", "granted"} -> "fenced"
      [] e = "published" -> "published"
      [] e = "invalidated" -> "unknown"
      [] OTHER -> "reverted"

Over == worker \in {"settled", "dead"}

Publication == INSTANCE CommitPublication
    WITH N <- MaxTxn, db <- commits, view <- [t \in Txns |-> ViewOf(entry[t])], over <- Over

\* Cells, ports, receipts and settlements implement what the owner promises
\* its readers: a transaction commits only behind its fence, it is published
\* only once it has committed and taken back only once it cannot commit any
\* more, and what readers have been told is not changed again.
ImplementsPublication == Publication!Spec

\* Every publication that was staged is resolved in the end, so that no
\* reader stays fenced: the operation ends, and its owner settles.
FencesAreLifted == <>[](\A t \in Txns : entry[t] \notin {"staged", "granted"})

\* A worker that has asked is answered: it does not block for good with the
\* database's write lock in its hands.
WorkerIsAnswered == worker = "asking" ~> worker # "asking"
=============================================================================
