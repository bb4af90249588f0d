----------------------------- MODULE StateLease -----------------------------
(***************************************************************************)
(* The shared-state lease of src/src/state/openclaw-state-lease*.ts: one   *)
(* row of the table state_leases (one scope and key), the invocations of   *)
(* runStateLeaseOwnerInScope that compete for it, and for each of them the *)
(* heartbeat worker thread that renews the row next to the owner's own     *)
(* (main) thread.                                                          *)
(*                                                                         *)
(* An invocation draws a fresh owner token (randomUUID), so an element of  *)
(* Owners is one invocation and lives through the phases once.  A write    *)
(* transaction of the store is one step and needs SQLite's writer lock;    *)
(* the transaction under a write fence is the exception: the owner keeps   *)
(* the lock from BEGIN IMMEDIATE over several steps to COMMIT.  The        *)
(* heartbeat thread runs in parallel with the main thread, so each of its  *)
(* accesses to the database or to shared memory is a step of its own.      *)
(***************************************************************************)
EXTENDS LeaseState

Phases == {"acquiring", "starting", "running", "tx", "guarded", "settling",
           "draining", "done", "dead"}
Statuses == {"starting", "ready", "closed", "lost"}
Beats == {"idle", "busy", "unfenced", "renewing", "verifying", "observed"}

NoRow == [owner |-> NoOwner, createdAt |-> 0, expiresAt |-> 0]

Init ==
    /\ clock = 1
    /\ lease = NoRow
    /\ writer = NoOwner
    /\ staged = [o \in Owners |-> 0]
    /\ phase = [o \in Owners |-> "acquiring"]
    /\ acquiredAt = [o \in Owners |-> 0]
    /\ status = [o \in Owners |-> "closed"]
    /\ seen = [o \in Owners |-> 0]
    /\ ownerFence = [o \in Owners |-> FALSE]
    /\ beat = [o \in Owners |-> "idle"]
    /\ found = [o \in Owners |-> 0]
    /\ overtaken = [o \in Owners |-> FALSE]

heartbeatVars == <<beat, found, overtaken>>

\* The heartbeat thread is closed and joined, or dies with its process
HeartbeatEnds(o) ==
    /\ beat' = [beat EXCEPT ![o] = "idle"]
    /\ found' = [found EXCEPT ![o] = 0]
    /\ overtaken' = [overtaken EXCEPT ![o] = FALSE]

-----------------------------------------------------------------------------
(* The statements of openclaw-state-lease-store.ts on the row.             *)

\* The row may be granted to someone else: absent, expired, or recorded for a
\* process that readStateLeaseProcessOwnerStatus proves dead
Reclaimable ==
    \/ lease.owner = NoOwner
    \/ lease.expiresAt <= clock
    \/ lease.owner \in Owners /\ phase[lease.owner] = "dead"

Granted(o) == [owner |-> o, createdAt |-> clock, expiresAt |-> clock + LeaseMs]

Renewed == [lease EXCEPT !.expiresAt = clock + LeaseMs]

\* Mutant of Released: the delete forgets the owner predicate
ReleasedByAnyone(o) == NoRow

\* releaseOpenClawStateLeaseInTransaction: delete where owner = o
Released(o) == IF lease.owner = o THEN NoRow ELSE lease

\* Mutant of LockFree: a fence transaction does not keep the writer lock
LockIgnored == TRUE

\* A write transaction can begin (BEGIN IMMEDIATE does not return SQLITE_BUSY)
LockFree == writer = NoOwner

-----------------------------------------------------------------------------
(* The main thread: acquisition and heartbeat startup.                     *)

\* One acquisition transaction: reclaimDead, delete the expired row, insert.
\* A held row leaves everything as it is and the attempt is repeated.
Acquire(o) ==
    /\ phase[o] = "acquiring"
    /\ LockFree
    /\ Reclaimable
    /\ lease' = Granted(o)
    /\ phase' = [phase EXCEPT ![o] = "starting"]
    /\ acquiredAt' = [acquiredAt EXCEPT ![o] = clock]
    /\ status' = [status EXCEPT ![o] = "starting"]
    /\ seen' = [seen EXCEPT ![o] = clock + LeaseMs]
    /\ UNCHANGED <<clock, writer, staged, ownerFence, heartbeatVars>>

\* The wait for the lease ran out or was aborted: nothing to release
GiveUp(o) ==
    /\ phase[o] = "acquiring"
    /\ phase' = [phase EXCEPT ![o] = "done"]
    /\ UNCHANGED <<clock, lease, writer, staged, acquiredAt, status, seen, ownerFence,
                   heartbeatVars>>

\* renewDuringStartup: the main thread renews until the worker is ready
StartupRenew(o) ==
    /\ phase[o] = "starting" /\ status[o] = "starting"
    /\ LockFree
    /\ IF OwnedUnexpired(o)
       THEN /\ lease' = Renewed
            /\ seen' = [seen EXCEPT ![o] = clock + LeaseMs]
            /\ status' = status
       ELSE /\ status' = [status EXCEPT ![o] = "lost"]
            /\ UNCHANGED <<lease, seen>>
    /\ UNCHANGED <<clock, writer, staged, phase, acquiredAt, ownerFence, heartbeatVars>>

\* settleStartup("timeout"): the worker did not report in time
StartupTimeout(o) ==
    /\ phase[o] = "starting" /\ status[o] = "starting"
    /\ status' = [status EXCEPT ![o] = "lost"]
    /\ UNCHANGED <<clock, lease, writer, staged, phase, acquiredAt, seen, ownerFence,
                   heartbeatVars>>

\* Startup settled: assertOperationOwned decides whether the callback is entered
Enter(o) ==
    /\ phase[o] = "starting" /\ status[o] # "starting"
    /\ phase' = [phase EXCEPT ![o] =
                    IF status[o] = "ready" /\ OwnedUnexpired(o) THEN "running" ELSE "draining"]
    /\ status' = [status EXCEPT ![o] = IF phase'[o] = "running" THEN @ ELSE "closed"]
    /\ IF phase'[o] = "running" THEN UNCHANGED heartbeatVars ELSE HeartbeatEnds(o)
    /\ UNCHANGED <<clock, lease, writer, staged, acquiredAt, seen, ownerFence>>

-----------------------------------------------------------------------------
(* The heartbeat worker thread.  A renewal (renewInWorker) goes from idle  *)
(* to renewing at once, or over busy and unfenced when the writer is       *)
(* locked; then the expiry it has in hand is stored, and then judged.      *)

mainVars == <<clock, lease, writer, staged, phase, acquiredAt, ownerFence, overtaken>>

To(o, step) == beat' = [beat EXCEPT ![o] = step]

\* Mutant of CommittedExpiry: a delayed renewal is taken for a renewal
CommittedExpiryRenewed(o) == IF OwnedUnexpired(o) THEN clock + LeaseMs ELSE 0

\* readOpenClawStateLeaseExpiry: the expiry of the exact unexpired owner
CommittedExpiry(o) == IF OwnedUnexpired(o) THEN lease.expiresAt ELSE 0

\* The renewal transaction got the lock: renew the exact unexpired owner
Beat(o) ==
    /\ WorkerRuns(o) /\ beat[o] = "idle"
    /\ LockFree
    /\ lease' = IF OwnedUnexpired(o) THEN Renewed ELSE lease
    /\ found' = [found EXCEPT ![o] = IF OwnedUnexpired(o) THEN clock + LeaseMs ELSE 0]
    /\ To(o, "renewing")
    /\ UNCHANGED <<clock, writer, staged, phase, acquiredAt, status, seen, ownerFence,
                   overtaken>>

\* BEGIN IMMEDIATE returns SQLITE_BUSY
BeatContended(o) ==
    /\ WorkerRuns(o) /\ beat[o] = "idle"
    /\ ~LockFree
    /\ To(o, "busy")
    /\ UNCHANGED <<mainVars, status, seen, found>>

\* Mutant of WaitsForFence: the worker does not look at shared[ownerFence]
WaitsForNothing(o) == FALSE

\* The word is 1: the worker waits (Atomics.waitAsync) until its own main
\* thread settles, then renews again
WaitsForFence(o) == ownerFence[o]

\* Atomics.load of shared[ownerFence]
LoadFence(o) ==
    /\ WorkerRuns(o) /\ beat[o] = "busy"
    /\ To(o, IF WaitsForFence(o) THEN "idle" ELSE "unfenced")
    /\ UNCHANGED <<mainVars, status, seen, found>>

\* The contended renewal reads the committed row instead
ReadExpiry(o) ==
    /\ WorkerRuns(o) /\ beat[o] = "unfenced"
    /\ found' = [found EXCEPT ![o] = CommittedExpiry(o)]
    /\ To(o, "renewing")
    /\ UNCHANGED <<mainVars, status, seen>>

\* A verify request of the main thread reads the row without a renewal
Verify(o) ==
    /\ status[o] = "ready" /\ phase[o] # "dead" /\ beat[o] = "idle"
    /\ found' = [found EXCEPT ![o] = CommittedExpiry(o)]
    /\ To(o, "verifying")
    /\ UNCHANGED <<mainVars, status, seen>>

\* observeDurableExpiry: Atomics.store of shared[expiresAt]
Observe(o) ==
    /\ WorkerRuns(o) /\ beat[o] \in {"renewing", "verifying"}
    /\ seen' = [seen EXCEPT ![o] = found[o]]
    /\ To(o, "observed")
    /\ UNCHANGED <<mainVars, status, found>>

\* lose, or the first successful return makes the heartbeat ready
Judge(o) ==
    /\ WorkerRuns(o) /\ beat[o] = "observed"
    /\ status' = [status EXCEPT ![o] = IF found[o] = 0 THEN "lost" ELSE "ready"]
    /\ found' = [found EXCEPT ![o] = 0]
    /\ To(o, "idle")
    /\ UNCHANGED <<mainVars, seen>>

\* A renewal fails with something else than contention
BeatFails(o) ==
    /\ WorkerRuns(o) /\ beat[o] \in {"idle", "unfenced"}
    /\ status' = [status EXCEPT ![o] = "lost"]
    /\ To(o, "idle")
    /\ UNCHANGED <<mainVars, seen, found>>

-----------------------------------------------------------------------------
(* The callback's guarded transactions.                                    *)

\* BEGIN IMMEDIATE of a managed state transaction
BeginTx(o) ==
    /\ phase[o] = "running"
    /\ LockFree
    /\ writer' = o
    /\ phase' = [phase EXCEPT ![o] = "tx"]
    /\ UNCHANGED <<clock, lease, staged, acquiredAt, status, seen, ownerFence,
                   heartbeatVars>>

\* holdOwnerFence: tell the worker that this thread holds the writer
HoldFence(o) ==
    /\ phase[o] = "tx" /\ ~ownerFence[o]
    /\ ownerFence' = [ownerFence EXCEPT ![o] = TRUE]
    /\ overtaken' = [overtaken EXCEPT ![o] = beat[o] \in {"unfenced", "renewing"}]
    /\ UNCHANGED <<clock, lease, writer, staged, phase, acquiredAt, status, seen, beat,
                   found>>

\* assertOwnedInTransaction, or the check inside holdWriteFence, passes
AssertOwned(o) ==
    /\ phase[o] = "tx"
    /\ status[o] = "ready"
    /\ OwnedUnexpired(o)
    /\ phase' = [phase EXCEPT ![o] = "guarded"]
    /\ UNCHANGED <<clock, lease, writer, staged, acquiredAt, status, seen, ownerFence,
                   heartbeatVars>>

\* renewOpenClawStateLeaseUnderWriteFence: matches owner and grant, not expiry
FenceRenew(o) ==
    /\ phase[o] = "guarded" /\ ownerFence[o]
    /\ lease.owner = o /\ lease.createdAt = acquiredAt[o]
    /\ staged' = [staged EXCEPT ![o] = clock + LeaseMs]
    /\ UNCHANGED <<clock, lease, writer, phase, acquiredAt, status, seen, ownerFence,
                   heartbeatVars>>

\* COMMIT: the transaction's writes and the staged expiry become visible
Commit(o) ==
    /\ phase[o] = "guarded"
    /\ lease' = IF staged[o] > 0 THEN [lease EXCEPT !.expiresAt = staged[o]] ELSE lease
    /\ writer' = NoOwner
    /\ phase' = [phase EXCEPT ![o] = IF ownerFence[o] THEN "settling" ELSE "running"]
    /\ UNCHANGED <<clock, staged, acquiredAt, status, seen, ownerFence, heartbeatVars>>

\* ROLLBACK: a failed check or a failing callback; the expiry is dropped
Rollback(o) ==
    /\ phase[o] \in {"tx", "guarded"}
    /\ writer' = NoOwner
    /\ staged' = [staged EXCEPT ![o] = 0]
    /\ phase' = [phase EXCEPT ![o] = IF ownerFence[o] THEN "settling" ELSE "running"]
    /\ UNCHANGED <<clock, lease, acquiredAt, status, seen, ownerFence, heartbeatVars>>

\* The settlement callback fence.release(expiresAt), after the physical COMMIT
\* or ROLLBACK
FenceRelease(o) ==
    /\ phase[o] = "settling"
    /\ seen' = [seen EXCEPT ![o] = IF staged[o] > 0 THEN staged[o] ELSE @]
    /\ staged' = [staged EXCEPT ![o] = 0]
    /\ ownerFence' = [ownerFence EXCEPT ![o] = FALSE]
    /\ overtaken' = [overtaken EXCEPT ![o] = FALSE]
    /\ phase' = [phase EXCEPT ![o] = "running"]
    /\ UNCHANGED <<clock, lease, writer, acquiredAt, status, beat, found>>

-----------------------------------------------------------------------------
(* The end of an invocation.                                               *)

\* The callback returned or threw; cleanup closes and joins the heartbeat
Drain(o) ==
    /\ phase[o] = "running"
    /\ phase' = [phase EXCEPT ![o] = "draining"]
    /\ status' = [status EXCEPT ![o] = "closed"]
    /\ HeartbeatEnds(o)
    /\ UNCHANGED <<clock, lease, writer, staged, acquiredAt, seen, ownerFence>>

\* releaseBestEffort got its transaction
Release(o) ==
    /\ phase[o] = "draining"
    /\ LockFree
    /\ lease' = Released(o)
    /\ phase' = [phase EXCEPT ![o] = "done"]
    /\ UNCHANGED <<clock, writer, staged, acquiredAt, status, seen, ownerFence,
                   heartbeatVars>>

\* releaseBestEffort gives up after its contention deadline: the row stays
AbandonRelease(o) ==
    /\ phase[o] = "draining"
    /\ phase' = [phase EXCEPT ![o] = "done"]
    /\ UNCHANGED <<clock, lease, writer, staged, acquiredAt, status, seen, ownerFence,
                   heartbeatVars>>

\* The process dies with its worker thread; SQLite rolls an open transaction back
Crash(o) ==
    /\ phase[o] \notin {"acquiring", "done", "dead"}
    /\ phase' = [phase EXCEPT ![o] = "dead"]
    /\ writer' = IF writer = o THEN NoOwner ELSE writer
    /\ staged' = [staged EXCEPT ![o] = 0]
    /\ ownerFence' = [ownerFence EXCEPT ![o] = FALSE]
    /\ HeartbeatEnds(o)
    /\ UNCHANGED <<clock, lease, acquiredAt, status, seen>>

Tick ==
    /\ clock < MaxClock
    /\ clock' = clock + 1
    /\ UNCHANGED <<lease, writer, staged, phase, acquiredAt, status, seen, ownerFence,
                   heartbeatVars>>

Main(o) ==
    \/ Acquire(o) \/ GiveUp(o) \/ StartupRenew(o) \/ StartupTimeout(o) \/ Enter(o)
    \/ BeginTx(o) \/ HoldFence(o) \/ AssertOwned(o) \/ FenceRenew(o) \/ Commit(o)
    \/ Rollback(o) \/ FenceRelease(o) \/ Drain(o) \/ Release(o) \/ AbandonRelease(o)

Worker(o) ==
    \/ Beat(o) \/ BeatContended(o) \/ LoadFence(o) \/ ReadExpiry(o) \/ Verify(o)
    \/ Observe(o) \/ Judge(o) \/ BeatFails(o)

Next == Tick \/ \E o \in Owners : Main(o) \/ Worker(o) \/ Crash(o)

Spec == Init /\ [][Next]_leaseVars

-----------------------------------------------------------------------------
(* Types.  The other properties speak of the state alone: see LeaseState.  *)

\* Every variable keeps its type
TypeOK ==
    /\ clock \in Nat
    /\ lease \in [owner : Owners \cup {NoOwner}, createdAt : Nat, expiresAt : Nat]
    /\ writer \in Owners \cup {NoOwner}
    /\ staged \in [Owners -> Nat]
    /\ phase \in [Owners -> Phases]
    /\ acquiredAt \in [Owners -> Nat]
    /\ status \in [Owners -> Statuses]
    /\ seen \in [Owners -> Nat]
    /\ ownerFence \in [Owners -> BOOLEAN]
    /\ beat \in [Owners -> Beats]
    /\ found \in [Owners -> Nat]
    /\ overtaken \in [Owners -> BOOLEAN]

=============================================================================
