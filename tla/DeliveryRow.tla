----------------------------- MODULE DeliveryRow -----------------------------
(***************************************************************************)
(* One row of the outbound delivery queue (table delivery_queue_entries)   *)
(* and the statements that one write transaction applies to it: the        *)
(* operations of src/src/infra/delivery-queue.worker.ts and of the kernels *)
(* it calls.  Every operator maps a row to a row or tells whether the      *)
(* transaction finds the row it is allowed to change.                      *)
(*                                                                         *)
(* ttl is availableAt - now, and 0 once availableAt has passed or is       *)
(* undefined: the code only ever compares availableAt with the time.       *)
(* platformSendStartedAt is set and cleared together with                  *)
(* platformSendAttemptId and is not represented.                           *)
(***************************************************************************)
EXTENDS Integers

CONSTANTS
    MaxClaims,   \* claim ids in use at one time are drawn from 1..MaxClaims
    Lease,       \* duration of a producer lease, in ticks of the clock
    MaxRetries   \* resolveMaxRetries(entry)

ASSUME LeaseAssumption == Lease \in Nat \ {0}
ASSUME RetryAssumption == MaxRetries \in Nat \ {0}
ASSUME ClaimAssumption == MaxClaims \in Nat \ {0}

NoClaim == 0
Claims == 1 .. MaxClaims

\* "absent": never enqueued; "skipped": a best-effort send went on without a
\* row; "pending"; "staged": failed with a settlement to resume; and the three
\* ends "failed", "completed" (acknowledged with a receipt) and "deleted"
Statuses == {"absent", "skipped", "pending", "staged", "failed", "completed", "deleted"}
Terminal == {"skipped", "failed", "completed", "deleted"}
RecoveryStates == {"none", "claimed", "started", "unknown", "settlement"}

Rows == [status : Statuses, rs : RecoveryStates, claim : Claims \cup {NoClaim},
         attempt : Claims \cup {NoClaim}, ttl : 0 .. Lease, retries : 0 .. MaxRetries,
         attempts : 0 .. MaxRetries, rejected : BOOLEAN]

NoRow == [status |-> "absent", rs |-> "none", claim |-> NoClaim, attempt |-> NoClaim,
          ttl |-> 0, retries |-> 0, attempts |-> 0, rejected |-> FALSE]

\* The row leaves the pending state for good: its owner fields are not read again
Ended(r, status) == [NoRow EXCEPT !.status = status]

-----------------------------------------------------------------------------
(* Creation and ownership.                                                 *)

\* createQueuedDelivery with initialProducerClaim: born claimed by its producer
Enqueued(c) == [NoRow EXCEPT !.status = "pending", !.rs = "claimed", !.claim = c, !.ttl = Lease]

\* transitionOwnedDeliveryQueueEntry: the pending row is recorded for id, or
\* for nobody when the caller expects no owner.  The lease does not matter.
Owned(r, id) ==
    /\ r.status = "pending"
    /\ IF id = NoClaim THEN r.claim = NoClaim /\ r.attempt = NoClaim
                       ELSE id \in {r.claim, r.attempt}

\* Mutant of HasActiveOwner: the owner's lease never runs out
HasActiveOwnerForever(r) == r.rs \in {"claimed", "started", "unknown"}

\* hasActiveDeliveryOwner of a row with requiresProducerClaim
HasActiveOwner(r) == r.ttl > 0 /\ r.rs \in {"claimed", "started", "unknown"}

\* claimDeliveryQueueEntryPlatformSend finds a row to claim: untouched, with an
\* expired claim that never reached the platform, or with exactly the attempt
\* that reconciliation proved unsent
Claimable(r, reconciled) ==
    /\ r.status = "pending"
    /\ \/ r.rs = "none"
       \/ r.rs = "claimed" /\ r.ttl = 0
       \/ r.rs = "started" /\ reconciled # NoClaim /\ r.attempt = reconciled

ClaimedBy(r, c) == [r EXCEPT !.rs = "claimed", !.claim = c, !.attempt = NoClaim, !.ttl = Lease]

\* renewDeliveryQueueEntryPlatformSendLease: the exact owner, unexpired
Renewable(r, id) == r.status = "pending" /\ id \in {r.claim, r.attempt} /\ r.ttl > 0

Renewed(r) == [r EXCEPT !.ttl = Lease]

-----------------------------------------------------------------------------
(* Send markers.                                                           *)

\* promoteDeliveryQueueEntryPlatformSend
Promotable(r, id) == r.status = "pending" /\ r.rs = "claimed" /\ r.claim = id /\ r.ttl > 0
Promoted(r, id) == [r EXCEPT !.rs = "started", !.claim = NoClaim, !.attempt = id]

\* dispatchDeliveryQueueEntryPlatformSend: keeps the evidence of an earlier send
Dispatchable(r, id) ==
    /\ r.status = "pending" /\ id \in {r.claim, r.attempt} /\ r.ttl > 0
    /\ r.rs \in {"claimed", "started", "unknown"}
Dispatched(r, id) == [r EXCEPT !.rs = IF @ = "unknown" THEN @ ELSE "started",
                               !.claim = NoClaim, !.attempt = id]

\* mutateOutbound "unknown": the lease survives only for the current attempt
OutcomeUnknown(r, id) == [r EXCEPT !.rs = "unknown", !.claim = NoClaim,
                                   !.ttl = IF id # NoClaim /\ r.attempt = id THEN @ ELSE 0]

-----------------------------------------------------------------------------
(* Failures: all three count a retry and give up the claim.  The count is  *)
(* only compared with maxRetries, so it saturates there.                   *)

Retried(r) == [r EXCEPT !.retries = IF @ < MaxRetries THEN @ + 1 ELSE @,
                        !.claim = NoClaim, !.ttl = 0]

FailedPlain(r) == [Retried(r) EXCEPT !.rs = IF @ = "claimed" THEN "none" ELSE @]
FailedBefore(r) == [Retried(r) EXCEPT !.rs = "none", !.attempt = NoClaim]

\* Mutant of FailedAfter: the failure after a send clears the send evidence
FailedAfterForgets(r) == FailedBefore(r)

FailedAfter(r) == [Retried(r) EXCEPT !.rs = "unknown"]

Failed(r, how) ==
    CASE how = "before" -> FailedBefore(r)
      [] how = "after" -> FailedAfter(r)
      [] OTHER -> FailedPlain(r)

-----------------------------------------------------------------------------
(* Attempt budget, settlement and acknowledgement.                         *)

\* resolveAttemptCount(entry) >= maxRetries
BudgetExhausted(r) == r.attempts >= MaxRetries \/ r.retries >= MaxRetries

Reserved(r) == [r EXCEPT !.attempts = @ + 1]

\* restoreDeliveryAttemptBeforeDispatch: the owner fields of the snapshot, whose
\* lease had run out when recovery took it
Restored(r, snap) == [r EXCEPT !.attempts = snap.attempts, !.rs = snap.rs, !.ttl = 0,
                               !.claim = snap.claim, !.attempt = snap.attempt]

\* Mutant of Staged: the row is dead-lettered without a settlement to resume
StagedAtOnce(r, rejected) == Ended(r, "failed")

\* stageFailure and commitOrResume: what is left is a settlement to resume
Staged(r, rejected) == [Ended(r, "staged") EXCEPT !.rs = "settlement", !.rejected = rejected]

\* retireUnsentDelivery: an unexpired claim without any send evidence
Retirable(r, id) == Promotable(r, id) /\ r.attempt = NoClaim

\* ackDelivery on a row with completionRetention
Acked(r, suppressReceipt) == Ended(r, IF suppressReceipt THEN "deleted" ELSE "completed")
=============================================================================
