----------------------------- MODULE LeaseState -----------------------------
(***************************************************************************)
(* The state of the shared-state lease (src/src/state/                     *)
(* openclaw-state-lease*.ts): the row of one scope and key in the table    *)
(* state_leases, what the invocations that compete for it and their        *)
(* heartbeat threads know of it, and what holds of both at every moment.   *)
(* StateLease.tla has the operations.                                      *)
(***************************************************************************)
EXTENDS Integers

CONSTANTS
    Owners,     \* the invocations that want this lease
    NoOwner,    \* "no row" in lease.owner, "lock is free" in writer
    LeaseMs,    \* validated.leaseMs in clock units
    MaxClock    \* bound on the clock

ASSUME OwnersAssumption == NoOwner \notin Owners
ASSUME LeaseAssumption == LeaseMs \in Nat /\ LeaseMs > 0 /\ MaxClock \in Nat

VARIABLES
    clock,       \* Date.now(), one clock for all processes of the host
    lease,       \* the committed row [owner, createdAt, expiresAt]
    writer,      \* holder of SQLite's writer lock across steps
    staged,      \* expires_at an owner wrote under its write fence, 0 if none
    phase,       \* what the main thread of an invocation is doing
    acquiredAt,  \* acquiredAt = confirmedExpiresAt - leaseMs of the grant
    status,      \* shared[status]: starting, ready, closed, lost
    seen,        \* shared[expiresAt]: the expiry this process has observed
    ownerFence,  \* shared[ownerFence] = 1
    beat,        \* where the heartbeat thread stands between its steps
    found,       \* the expiry it has in hand, 0 if it found no current row
    overtaken    \* ghost: the fence went up when a heartbeat had looked at it

leaseVars == <<clock, lease, writer, staged, phase, acquiredAt, status, seen, ownerFence,
               beat, found, overtaken>>

\* readOpenClawStateLeaseExpiry: the row is o's and has not expired
OwnedUnexpired(o) == lease.owner = o /\ lease.expiresAt > clock

\* The worker thread of o still runs: its process lives and has not closed it
WorkerRuns(o) == status[o] \in {"starting", "ready"} /\ phase[o] # "dead"

-----------------------------------------------------------------------------
(* Properties.                                                             *)

\* What an owner's process takes for proof that it may act: its heartbeat is
\* up and the expiry it observed is in the future, or a transaction of it has
\* passed assertOwnedInTransaction and still holds the writer lock
Authority(o) ==
    \/ WorkerRuns(o) /\ seen[o] > clock
    \/ phase[o] = "guarded"

\* Two invocations never hold authority over the lease at once: the expiry a
\* process keeps in shared memory (heartbeat.worker.ts observeDurableExpiry,
\* heartbeat.ts holdOwnerFence release) never outlives the grant in the row
AtMostOneAuthority ==
    \A o, q \in Owners : Authority(o) /\ Authority(q) => o = q

\* A transaction that passed its ownership check commits under the grant it
\* checked: the row cannot pass to a successor while the writer lock is held,
\* even after the expiry has gone by (holdWriteFence)
GuardedWriteIsOwned ==
    \A o \in Owners : phase[o] = "guarded" =>
        lease.owner = o /\ lease.createdAt = acquiredAt[o]

\* Nobody but the owner ends an unexpired grant of a living process: a stale
\* owner's release or renewal, and a competitor's acquisition, leave it alone
LiveGrantIsStable ==
    [][\A o \in Owners :
          OwnedUnexpired(o) /\ phase[o] # "dead" /\ lease'.owner # o
            => phase[o] = "draining" /\ phase'[o] = "done"]_leaseVars

\* A renewal that meets the raised fence of its own main thread leaves the
\* verdict open until the transaction settles, whatever expires meanwhile.  Under
\* a checked fence only one that the fence overtook declares the lease lost: it
\* had found the writer locked and the fence down before the main thread raised
\* it (heartbeat.worker.ts 257-277 against lease.ts 636-645)
FenceDefersLoss ==
    [][\A o \in Owners :
          phase[o] = "guarded" /\ ownerFence[o] /\ beat[o] = "renewing"
            /\ seen[o] # 0 /\ seen'[o] = 0
            => overtaken[o]]_leaseVars
=============================================================================
