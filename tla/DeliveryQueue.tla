---------------------------- MODULE DeliveryQueue ----------------------------
(***************************************************************************)
(* The life of one outbound delivery: the producer that enqueues and sends *)
(* it (deliver-queue.ts, deliver-queue-execute.ts, deliver-queue-state.ts, *)
(* delivery-queue-lease.ts under src/src/infra/outbound) and the processes *)
(* that recover it (delivery-queue-recovery.ts), over the row operations   *)
(* of DeliveryRow.                                                         *)
(*                                                                         *)
(* A process works on the delivery at most once at a time: live sends and  *)
(* recovery both run inside withActiveDeliveryClaim.  The steps between    *)
(* two awaits on storage or on the platform are one step here.  A write to *)
(* storage can fail before or after it commits; a process can crash at any *)
(* step.  Both use up the disturbance budget `trouble`.                    *)
(***************************************************************************)
EXTENDS DeliveryRow, FiniteSets

CONSTANTS
    Procs,         \* processes that share the state directory
    Batch,         \* payloads of the prepared batch
    BestEffort,    \* params.bestEffort: go on after a failed payload
    Required,      \* queuePolicy = "required" (else "best_effort")
    Exact,         \* requireUnknownSendReconciliation
    Cancellable,   \* params.abortSignal is given: the caller can cancel
    TimersOnTime,  \* the expiry timer fires before a later send of its process
    MaxTrouble     \* bound on storage errors, crashes and shutdowns together

ASSUME BatchAssumption == Batch \in Nat \ {0}
ASSUME FlagsAssumption == {BestEffort, Required, Exact, Cancellable, TimersOnTime} \subseteq BOOLEAN
ASSUME TroubleAssumption == MaxTrouble \in Nat

VARIABLES
    row,      \* the queue row
    ledger,   \* state of the pending-final delivery in the session store
    visible,  \* visible[i]: how often the recipient got payload i (2: or more)
    proc,     \* proc[p]: the activity of process p
    trouble   \* disturbances left

vars == <<row, ledger, visible, proc, trouble>>

(* What became of one payload (OutboundPayloadDeliveryOutcome):            *)
(* "sent" with an identity; "noIdentity": suppressed, but perhaps sent;    *)
(* "omitted": intentionally suppressed; "rejected" and "refused": failed   *)
(* and proven not sent, the second for good; "early": failed before the    *)
(* dispatch; "ambiguous": failed after it; "partial": sent, then failed.   *)
Failures == {"rejected", "refused", "early", "ambiguous", "partial"}
Outcomes == {"sent", "noIdentity", "omitted"} \cup Failures

Loop == {"payload", "start", "startAck", "dispatch", "handoff", "respond"}
PcLive == {"markQueued", "dropRow", "returned", "failures", "ledger", "ack",
           "thrown", "thrownLate", "thrownPost"}
PcRecovery == {"owner", "ownerAck", "reconcile", "sentLedger", "sentAck", "claim", "reserve",
               "recReturned", "recUnknown", "recLedger", "recAck", "recThrown", "recThrownLate",
               "restore"}
PcShared == {"idle", "startLease", "postMark", "postAck", "postFail", "fail",
             "stage", "settle", "finalize"}

Idle == [pc |-> "idle", recovery |-> FALSE, id |-> NoClaim, beat |-> FALSE, lease |-> 0,
         live |-> TRUE, lost |-> FALSE, aborted |-> FALSE, cancel |-> "no", pre |-> "none", post |-> "none",
         i |-> 1, outs |-> {}, cur |-> "omitted", started |-> FALSE, dispatched |-> FALSE,
         snap |-> NoRow, byClaim |-> FALSE, rejected |-> FALSE, how |-> "plain",
         ret |-> "idle", esc |-> "idle"]

Pcs == Loop \cup PcLive \cup PcRecovery \cup PcShared
LedgerStates == {"prepared", "queued", "delivered", "suppressed", "unknown"}

Activities ==
    [pc : Pcs, recovery : BOOLEAN, id : Claims \cup {NoClaim}, beat : BOOLEAN,
     lease : 0 .. Lease, live : BOOLEAN, lost : BOOLEAN, aborted : BOOLEAN,
     cancel : {"no", "pending", "retired", "refused"},
     pre : {"none", "marked", "acked"}, post : {"none", "marked", "acked", "failed"},
     i : 1 .. Batch + 1, outs : SUBSET Outcomes, cur : Outcomes, started : BOOLEAN,
     dispatched : BOOLEAN, snap : Rows, byClaim : BOOLEAN, rejected : BOOLEAN,
     how : {"plain", "before", "after"}, ret : Pcs, esc : Pcs]

\* Every variable keeps its type: in particular a row never counts more attempts
\* than maxRetries (reserveDeliveryAttempt) and no renewal extends a lease
\* beyond one lease duration from now
TypeOK ==
    /\ row \in Rows
    /\ ledger \in LedgerStates
    /\ visible \in [1 .. Batch -> 0 .. 2]
    /\ trouble \in 0 .. MaxTrouble
    /\ proc \in [Procs -> Activities]

Init ==
    /\ row = NoRow
    /\ ledger = "prepared"
    /\ visible = [i \in 1 .. Batch |-> 0]
    /\ proc = [p \in Procs |-> Idle]
    /\ trouble = MaxTrouble

-----------------------------------------------------------------------------
(* Steps.                                                                  *)

At(p, pc) == proc[p].pc = pc
Become(p, activity) == proc' = [proc EXCEPT ![p] = activity]

\* The main flow goes on as `a`; an operation of the owner that it issues now
\* checks the lease's signal now (owner.signal.throwIfAborted)
Flow(a) == IF a.pc = "idle" THEN Idle ELSE [a EXCEPT !.live = ~a.lost]
To(p, pc) == Flow([proc[p] EXCEPT !.pc = pc])
Goto(p, pc) == Become(p, To(p, pc))

\* A write transaction of process p that turns the row into `new`: it commits
\* and p becomes `good`, or an error is reported and p becomes `bad`, with the
\* transaction rolled back or committed all the same
Write(p, new, good, bad) ==
    \/ row' = new /\ Become(p, good) /\ UNCHANGED trouble
    \/ /\ trouble > 0 /\ trouble' = trouble - 1
       /\ row' \in {row, new}
       /\ Become(p, bad)

\* The transaction does not find the row in the state it needs, or is not tried
Refuse(p, bad) == Become(p, bad) /\ UNCHANGED <<row, trouble>>

WriteIf(p, cond, new, good, bad) ==
    IF cond THEN Write(p, new, good, bad) ELSE Refuse(p, bad)

\* Mutant of Mine: the operation is issued without the expected claim
MineUnchecked(p) == proc[p].live

\* An operation of the queue owner: its signal was not aborted when it was
\* issued and the row is recorded for its claim
Mine(p) == proc[p].live /\ Owned(row, proc[p].id)

\* Claim ids are random; one that is referenced nowhere stands for a new one
UsedClaims == {row.claim, row.attempt} \cup
              UNION {{proc[p].id, proc[p].snap.claim, proc[p].snap.attempt} : p \in Procs}
NewClaims == {c \in Claims \ UsedClaims : \A d \in Claims \ UsedClaims : c <= d}

\* settlePendingFinalDelivery: delivered and suppressed are absorbing
LedgerAfter(old, new) == IF old \in {"delivered", "suppressed"} THEN old ELSE new

\* A patch of the session store, which can fail like a queue write
SettleLedger(p, state, good, bad) ==
    LET new == LedgerAfter(ledger, state)
    IN \/ ledger' = new /\ Become(p, good) /\ UNCHANGED trouble
       \/ /\ trouble > 0 /\ trouble' = trouble - 1
          /\ ledger' \in {ledger, new}
          /\ Become(p, bad)

-----------------------------------------------------------------------------
(* Enqueue, completion owner and producer lease.                           *)

\* runOutboundDeliveryWithQueue up to the write-ahead row.  An error after the
\* commit leaves custody with recovery; one before it ends a required delivery
\* and lets a best-effort one go on without a row.
Enqueue(p) ==
    /\ At(p, "idle") /\ row.status = "absent"
    /\ \E c \in NewClaims :
         \/ /\ row' = Enqueued(c)
            /\ Become(p, [Idle EXCEPT !.pc = "markQueued", !.id = c])
            /\ UNCHANGED trouble
         \/ /\ trouble > 0 /\ trouble' = trouble - 1
            /\ \/ row' = Enqueued(c) /\ UNCHANGED proc
               \/ /\ row' = Ended(row, "skipped")
                  /\ Become(p, IF Required THEN Idle
                               ELSE [Idle EXCEPT !.pc = "payload", !.pre = "acked", !.post = "acked"])
    /\ UNCHANGED <<ledger, visible>>

\* markDurableDeliveryQueued(..., "prepared"): a completion owner that is past
\* the queue makes the producer drop the row
MarkQueued(p) ==
    /\ At(p, "markQueued")
    /\ IF ledger \in {"prepared", "queued"}
       THEN SettleLedger(p, "queued", To(p, "startLease"), Idle)
       ELSE Goto(p, "dropRow") /\ UNCHANGED <<ledger, trouble>>
    /\ UNCHANGED <<row, visible>>

\* queueOwner.ack({suppressCompletionReceipt: true}) of a delivery that is over
DropRow(p) ==
    /\ At(p, "dropRow")
    /\ WriteIf(p, Mine(p), Acked(row, TRUE), Idle, Idle)
    /\ UNCHANGED <<ledger, visible>>

\* startDeliveryProducerLease: without a confirmed expiry nothing is sent
StartLease(p) ==
    /\ At(p, "startLease")
    /\ WriteIf(p, Renewable(row, proc[p].id), Renewed(row),
               Flow([proc[p] EXCEPT !.pc = "payload", !.beat = TRUE, !.lease = Lease]),
               To(p, IF proc[p].recovery THEN "recThrown" ELSE "idle"))
    /\ UNCHANGED <<ledger, visible>>

\* One heartbeat: a refused renewal is a lost lease, a storage error is not
\* unless the confirmed lease is over
Renew(p) ==
    /\ proc[p].beat /\ ~proc[p].lost /\ proc[p].lease < Lease
    /\ WriteIf(p, Renewable(row, proc[p].id), Renewed(row),
               [proc[p] EXCEPT !.lease = Lease],
               [proc[p] EXCEPT !.lost = ~Renewable(row, proc[p].id) \/ proc[p].lease = 0])
    /\ UNCHANGED <<ledger, visible>>

\* The expiry timer fires late
Expire(p) ==
    /\ proc[p].beat /\ ~proc[p].lost /\ proc[p].lease = 0
    /\ Become(p, [proc[p] EXCEPT !.lost = TRUE])
    /\ UNCHANGED <<row, ledger, visible, trouble>>

Less(n) == IF n > 0 THEN n - 1 ELSE 0

\* Time passes for the row and for every process; timers that are on time
\* abort their activity now
Tick ==
    /\ row.ttl > 0 \/ \E p \in Procs : proc[p].lease > 0
    /\ row' = [row EXCEPT !.ttl = Less(@)]
    /\ proc' = [p \in Procs |-> [proc[p] EXCEPT
                   !.lease = Less(@),
                   !.lost = @ \/ (TimersOnTime /\ proc[p].beat /\ proc[p].lease <= 1)]]
    /\ UNCHANGED <<ledger, visible, trouble>>

-----------------------------------------------------------------------------
(* The caller cancels a live delivery.                                     *)

\* The abort event; before the first send it stops the lease and starts to
\* retire the row (cancelBeforeSend) while the delivery runs on to its next check
Abort(p) ==
    /\ Cancellable
    /\ proc[p].pc \in Loop \cup {"postMark", "postAck", "postFail", "thrown"}
    /\ ~proc[p].recovery /\ ~proc[p].aborted
    /\ LET cancel == /\ proc[p].pc # "thrown" /\ proc[p].ret # "thrownPost"
                     /\ ~proc[p].started /\ proc[p].post = "none"
       IN Become(p, [proc[p] EXCEPT !.aborted = TRUE,
                        !.cancel = IF cancel THEN "pending" ELSE @,
                        !.beat = @ /\ ~cancel])
    /\ UNCHANGED <<row, ledger, visible, trouble>>

RetireUnsent(p) ==
    /\ proc[p].cancel = "pending"
    /\ WriteIf(p, ~proc[p].lost /\ Retirable(row, proc[p].id), Ended(row, "deleted"),
               [proc[p] EXCEPT !.cancel = "retired"], [proc[p] EXCEPT !.cancel = "refused"])
    /\ UNCHANGED <<ledger, visible>>

Aborted(p) == proc[p].aborted \/ proc[p].lost

-----------------------------------------------------------------------------
(* The payload loop of deliverOutboundPayloadsCore, with the queue         *)
(* callbacks of deliver-queue-execute.ts.                                  *)

\* The payload at hand ends with outcome c; a failure leaves the loop unless
\* the delivery is best effort and still holds its lease
After(p, c) ==
    Flow([proc[p] EXCEPT !.outs = @ \cup {c}, !.i = @ + 1, !.cur = "omitted",
       !.pc = IF c \notin Failures \/ (BestEffort /\ ~proc[p].lost) THEN "payload"
              ELSE IF proc[p].recovery THEN "recThrown" ELSE "thrown"])

\* The next payload: aborted, failed or refused while it is rendered, empty, or
\* handed to the adapter
Payload(p) ==
    /\ At(p, "payload") /\ proc[p].i <= Batch
    /\ IF Aborted(p) THEN Become(p, After(p, "early"))
       ELSE \/ \E c \in {"omitted", "early", "refused"} : Become(p, After(p, c))
            \/ Goto(p, "start")
    /\ UNCHANGED <<row, ledger, visible, trouble>>

\* The batch is through: deliverOutboundPayloadsCore returns
BatchReturns(p) ==
    /\ At(p, "payload") /\ proc[p].i > Batch
    /\ Goto(p, IF proc[p].recovery THEN "recReturned" ELSE "returned")
    /\ UNCHANGED <<row, ledger, visible, trouble>>

\* After the start marker: the abort is checked again before the send begins
Begin(p, pre, post) ==
    LET q == [proc[p] EXCEPT !.pre = pre, !.post = post]
    IN IF Aborted(p) THEN [After(p, "early") EXCEPT !.pre = pre, !.post = post]
       ELSE Flow([q EXCEPT !.pc = "dispatch", !.started = TRUE])

\* onPlatformSendStart with persistQueuedPreSendState
StartSend(p) ==
    /\ At(p, "start")
    /\ IF Exact \/ proc[p].pre # "none" THEN Refuse(p, Begin(p, proc[p].pre, proc[p].post))
       ELSE WriteIf(p, proc[p].live /\ Promotable(row, proc[p].id), Promoted(row, proc[p].id),
                    Begin(p, "marked", proc[p].post),
                    IF Required \/ ~proc[p].live THEN After(p, "early") ELSE To(p, "startAck"))
    /\ UNCHANGED <<ledger, visible>>

\* Mutant of StartAck: the send goes on although the intent is still queued
StartAckSkipped(p) ==
    /\ At(p, "startAck")
    /\ Refuse(p, Begin(p, "acked", IF proc[p].recovery THEN proc[p].post ELSE "acked"))
    /\ UNCHANGED <<ledger, visible>>

\* Best effort without a marker: remove the replay intent before the send
StartAck(p) ==
    /\ At(p, "startAck")
    /\ WriteIf(p, Mine(p), Acked(row, FALSE),
               Begin(p, "acked", IF proc[p].recovery THEN proc[p].post ELSE "acked"),
               After(p, "early"))
    /\ UNCHANGED <<ledger, visible>>

\* Mutant of DispatchMark: the start marker is taken for proof of the claim
DispatchUnproved(p) ==
    /\ At(p, "dispatch")
    /\ Refuse(p, To(p, "handoff"))
    /\ UNCHANGED <<ledger, visible>>

\* onPlatformSendDispatch: the claim is proved again right before the handoff,
\* unless the row is gone or already holds the evidence of a send
DispatchMark(p) ==
    /\ At(p, "dispatch")
    /\ IF proc[p].pre = "acked" \/ proc[p].post # "none" THEN Refuse(p, To(p, "handoff"))
       ELSE WriteIf(p, Dispatchable(row, proc[p].id), Dispatched(row, proc[p].id),
                    Flow([proc[p] EXCEPT !.pc = "handoff", !.pre = "marked"]), After(p, "early"))
    /\ UNCHANGED <<ledger, visible>>

\* Recovery was told to stop before its first dispatch
AdmissionClosed(p) ==
    /\ At(p, "handoff") /\ proc[p].recovery /\ ~proc[p].dispatched /\ ~Aborted(p)
    /\ trouble > 0 /\ trouble' = trouble - 1
    /\ Goto(p, "restore")
    /\ UNCHANGED <<row, ledger, visible>>

\* The recipient gets the payload, or may have got it, or does not
Reaches(c) == CASE c = "sent" -> {TRUE}
                [] c \in {"noIdentity", "ambiguous"} -> BOOLEAN
                [] OTHER -> {FALSE}

\* The adapter call; its answer comes in a later step.  Nothing reads the loaded
\* row after the first dispatch.
Handoff(p) ==
    /\ At(p, "handoff")
    /\ IF Aborted(p) THEN Become(p, After(p, "early")) /\ UNCHANGED visible
       ELSE \E c \in {"sent", "noIdentity", "omitted", "rejected", "refused", "ambiguous"} :
            \E reached \in Reaches(c) :
              /\ visible' = [visible EXCEPT ![proc[p].i] = IF reached /\ @ < 2 THEN @ + 1 ELSE @]
              /\ Become(p, [proc[p] EXCEPT !.pc = "respond", !.cur = c, !.dispatched = TRUE,
                                          !.snap = NoRow])
    /\ UNCHANGED <<row, ledger, trouble>>

\* p runs persistQueuedPostSendState, then continues at good, or at bad
Persist(p, good, bad) == Flow([proc[p] EXCEPT !.pc = "postMark", !.ret = good, !.esc = bad])

\* The adapter answers; the first identity is recorded in the row at once
Respond(p) ==
    /\ At(p, "respond")
    /\ Become(p, IF proc[p].cur = "sent" /\ proc[p].post = "none"
                 THEN Persist(p, "payload", "payload") ELSE After(p, proc[p].cur))
    /\ UNCHANGED <<row, ledger, visible, trouble>>

\* Where persistQueuedPostSendState returns to with its state, and where its
\* error goes: inside the loop the error fails the payload that was sent
Persisted(p, state) ==
    LET q == IF proc[p].ret = "payload" THEN After(p, "sent") ELSE To(p, proc[p].ret)
    IN IF q.pc = "idle" THEN Idle ELSE [q EXCEPT !.post = state, !.ret = "idle", !.esc = "idle"]
Unpersisted(p) ==
    LET q == IF proc[p].ret = "payload" THEN After(p, "partial") ELSE To(p, proc[p].esc)
    IN IF q.pc = "idle" THEN Idle ELSE [q EXCEPT !.ret = "idle", !.esc = "idle"]

\* markDeliveryPlatformOutcomeUnknown; recovery preserves its batch instead of
\* acknowledging it
PostMark(p) ==
    /\ At(p, "postMark")
    /\ IF ~proc[p].live THEN Refuse(p, Unpersisted(p))
       ELSE WriteIf(p, Mine(p), OutcomeUnknown(row, proc[p].id),
                    Persisted(p, "marked"),
                    To(p, IF proc[p].recovery THEN "postFail" ELSE "postAck"))
    /\ UNCHANGED <<ledger, visible>>

PostAck(p) ==
    /\ At(p, "postAck")
    /\ WriteIf(p, Mine(p), Acked(row, FALSE),
               Persisted(p, "acked"), To(p, "postFail"))
    /\ UNCHANGED <<ledger, visible>>

PostFail(p) ==
    /\ At(p, "postFail")
    /\ WriteIf(p, Mine(p), FailedAfter(row), Persisted(p, "failed"), Unpersisted(p))
    /\ UNCHANGED <<ledger, visible>>

-----------------------------------------------------------------------------
(* What the outcomes of a batch prove.                                     *)

Results(a) == a.outs \cap {"sent", "partial"} # {}
FailedOuts(a) == a.outs \cap Failures

\* Mutant of SentBeforeError: only what has an identity counts as sent
SentBeforeErrorIdentified(a) == a.outs \cap {"sent", "partial"} # {}

SentBeforeError(a) == a.outs \cap {"sent", "partial", "noIdentity", "ambiguous"} # {}
AllSuppressed(a) == a.outs = {"omitted"}

\* isProvenBatchNotSent
ProvenBatch(a) == a.outs \subseteq {"omitted", "rejected", "refused"}

\* findTerminalBatchRejection: a refusal shared by the batch (handoff no longer
\* current) ends it next to retryable rejections, a refused payload alone does not
MayRefuse(a) == FailedOuts(a) \subseteq {"rejected", "refused"} /\ "refused" \in a.outs
MustRefuse(a) == FailedOuts(a) = {"refused"}

\* owner.custody = "released"
Released(a) == a.pre = "acked" \/ a.post = "acked"

\* What the last operation of an activity still depends on
Last(a, pc) == Flow([Idle EXCEPT !.pc = pc, !.recovery = a.recovery, !.id = a.id,
                                 !.beat = a.beat, !.lease = a.lease, !.lost = a.lost])

\* p records a failure, then continues at good, or at bad when that fails
Failing(p, how, good, bad) ==
    IF good = "idle" /\ bad = "idle" THEN [Last(proc[p], "fail") EXCEPT !.how = how]
    ELSE Flow([proc[p] EXCEPT !.pc = "fail", !.how = how, !.ret = good, !.esc = bad])

FailStep(p) ==
    /\ At(p, "fail")
    /\ WriteIf(p, Mine(p), Failed(row, proc[p].how), To(p, proc[p].ret), To(p, proc[p].esc))
    /\ UNCHANGED <<ledger, visible>>

\* p stages a failure settlement with its claim
Staging(p, rejected) ==
    [Last(proc[p], "stage") EXCEPT !.byClaim = TRUE, !.rejected = rejected]

-----------------------------------------------------------------------------
(* The end of a live delivery.                                             *)

\* deliverOutboundPayloadsCore returned: send evidence goes to the row first
Returned(p) ==
    /\ At(p, "returned") /\ proc[p].cancel # "pending"
    /\ LET a == proc[p]
           next == IF FailedOuts(a) # {} /\ a.id # NoClaim THEN "failures" ELSE "ledger"
           persists == /\ a.post = "none"
                       /\ IF next = "failures" THEN SentBeforeError(a)
                          ELSE Results(a) \/ (a.pre = "marked" /\ ~AllSuppressed(a))
       IN Become(p, IF a.lost \/ a.cancel = "retired" THEN Idle
                    ELSE IF persists THEN Persist(p, next, "thrownLate") ELSE To(p, next))
    /\ UNCHANGED <<row, ledger, visible, trouble>>

\* A best-effort batch with failed payloads
PartialFailure(p) ==
    /\ At(p, "failures")
    /\ LET a == proc[p]
           unsent == ~SentBeforeError(a) /\ FailedOuts(a) \subseteq {"rejected", "refused"}
       IN \/ ~SentBeforeError(a) /\ a.post = "none" /\ MayRefuse(a) /\ Become(p, Staging(p, TRUE))
          \/ /\ SentBeforeError(a) \/ a.post # "none" \/ ~MustRefuse(a)
             /\ Become(p, IF a.post \in {"none", "marked"}
                          THEN Failing(p, IF unsent THEN "before" ELSE "plain", "idle", "idle")
                          ELSE Idle)
    /\ UNCHANGED <<row, ledger, visible, trouble>>

\* settleDeliveryCompletion, before the row is acknowledged
Ledger(p) ==
    /\ At(p, "ledger")
    /\ LET a == proc[p]
       IN SettleLedger(p,
            IF Results(a) THEN "delivered"
            ELSE IF a.started /\ ~AllSuppressed(a) THEN "unknown" ELSE "suppressed",
            IF a.post \in {"acked", "failed"} THEN Idle
            ELSE IF ~Results(a) /\ a.post = "marked" THEN Failing(p, "after", "idle", "thrownLate")
            ELSE To(p, "ack"),
            To(p, "thrownLate"))
    /\ UNCHANGED <<row, visible>>

Ack(p) ==
    /\ At(p, "ack")
    /\ LET a == proc[p]
           how == IF Results(a) \/ (a.pre # "none" /\ ~AllSuppressed(a)) THEN "after"
                  ELSE IF AllSuppressed(a) THEN "before" ELSE "plain"
           end == IF Required THEN "thrownLate" ELSE "idle"
       IN WriteIf(p, Mine(p), Acked(row, ~Results(a)), Idle, Failing(p, how, end, end))
    /\ UNCHANGED <<ledger, visible>>

\* The error path of deliverOutboundPayloadsWithQueueCleanup; "thrownLate" is an
\* error after the platform results were returned
Thrown(p) ==
    /\ proc[p].pc \in {"thrown", "thrownLate"} /\ proc[p].cancel # "pending"
    /\ LET a == proc[p]
           proven == a.pc = "thrown" /\ ProvenBatch(a)
           aborted ==
             IF proven /\ ~Results(a) THEN Failing(p, "before", "idle", "idle")
             ELSE IF SentBeforeError(a) \/ ("marked" \in {a.pre, a.post} /\ ~AllSuppressed(a))
             THEN IF a.post = "failed" THEN Idle ELSE Failing(p, "after", "idle", "idle")
             ELSE Last(a, "dropRow")
           evidence == Results(a) \/ (~proven /\ (a.dispatched \/ SentBeforeError(a)))
       IN \/ /\ a.lost \/ a.cancel = "retired" \/ Released(a) \/ a.id = NoClaim
             /\ Become(p, Idle)
          \/ /\ ~(a.lost \/ a.cancel = "retired" \/ Released(a) \/ a.id = NoClaim)
             /\ \/ a.aborted /\ Become(p, aborted)
                \/ ~a.aborted /\ a.pc = "thrownLate" /\ Become(p, Idle)
                \/ /\ ~a.aborted /\ a.pc = "thrown" /\ evidence
                   /\ Become(p, IF a.post = "none" THEN Persist(p, "thrownPost", "idle")
                                ELSE To(p, "thrownPost"))
                \/ /\ ~a.aborted /\ a.pc = "thrown" /\ ~evidence
                   /\ \/ a.post = "none" /\ proven /\ MayRefuse(a) /\ Become(p, Staging(p, TRUE))
                      \/ /\ a.post # "none" \/ ~proven \/ ~MustRefuse(a)
                         /\ Become(p, Failing(p, IF proven THEN "before" ELSE "plain", "idle", "idle"))
    /\ UNCHANGED <<row, ledger, visible, trouble>>

ThrownPost(p) ==
    /\ At(p, "thrownPost")
    /\ Become(p, IF proc[p].post = "marked" THEN Failing(p, "after", "idle", "idle") ELSE Idle)
    /\ UNCHANGED <<row, ledger, visible, trouble>>

-----------------------------------------------------------------------------
(* Failure settlement: stage, project to the completion owner, finalize    *)
(* (rejectQueuedDelivery and settleQueuedFailure).                         *)

\* stageFailure: by claim, resuming a staged row, reclaiming an expired claim,
\* or for the attempt of the snapshot when nobody is active.  The live owner's
\* retireUnsent("failed") after a storage error refuses rows with a completion.
\* What is staged is settled without a claim.
Stage(p) ==
    /\ At(p, "stage")
    /\ LET a == proc[p]
           allowed == IF a.byClaim THEN (a.recovery \/ a.live) /\ Owned(row, a.id)
                      ELSE IF a.snap.rs = "claimed" THEN Claimable(row, NoClaim)
                      ELSE Owned(row, a.snap.attempt) /\ ~HasActiveOwner(row)
           settling == [Idle EXCEPT !.pc = "settle", !.rejected = a.rejected]
       IN IF a.snap.status = "staged"
          THEN Refuse(p, IF row.status = "staged" THEN settling ELSE Idle)
          ELSE WriteIf(p, allowed, Staged(row, a.rejected), settling, Idle)
    /\ UNCHANGED <<ledger, visible>>

Settle(p) ==
    /\ At(p, "settle")
    /\ SettleLedger(p, IF proc[p].rejected THEN "suppressed" ELSE "unknown",
                    To(p, "finalize"), Idle)
    /\ UNCHANGED <<row, visible>>

Finalize(p) ==
    /\ At(p, "finalize")
    /\ WriteIf(p, row.status = "staged", Ended(row, "failed"), Idle, Idle)
    /\ UNCHANGED <<ledger, visible>>

-----------------------------------------------------------------------------
(* Recovery of the row by a process that loaded it.                        *)

NeedsReconciliation(r) == r.rs \in {"started", "unknown"}

\* recoveryPlatformAttemptId: whom the loaded row is recorded for
RecordedOwner(r) == IF r.attempt # NoClaim THEN r.attempt
                    ELSE IF r.rs = "claimed" THEN r.claim ELSE NoClaim

\* The loaded row; of its retry count only the comparison with the budget is used
Snapshot == [row EXCEPT !.retries = IF BudgetExhausted(row) THEN MaxRetries ELSE 0]

\* processQueuedRecovery: resume a settlement; skip an active owner; dead-letter
\* what admission denies or what has no attempt left; else drain the entry
Recover(p) ==
    /\ At(p, "idle")
    /\ LET loaded == [Idle EXCEPT !.recovery = TRUE, !.snap = Snapshot]
       IN \/ /\ row.status = "staged"
             /\ Become(p, [loaded EXCEPT !.pc = "stage", !.rejected = row.rejected])
          \/ /\ row.status = "pending" /\ ~HasActiveOwner(row)
             /\ \/ Become(p, [loaded EXCEPT !.pc = "stage"])
                \/ /\ ~BudgetExhausted(row) \/ NeedsReconciliation(row)
                   /\ Become(p, [loaded EXCEPT !.pc = "owner", !.id = RecordedOwner(row)])
    /\ UNCHANGED <<row, ledger, visible, trouble>>

\* resolveCompletedOwnerBeforeRecovery: a completion owner that is settled ends
\* the row, one that cannot be asked defers it
Owner(p) ==
    /\ At(p, "owner")
    /\ SettleLedger(p, "queued",
         To(p, IF LedgerAfter(ledger, "queued") # "queued" THEN "ownerAck"
               ELSE IF NeedsReconciliation(proc[p].snap) THEN "reconcile" ELSE "claim"),
         Failing(p, "plain", "idle", "idle"))
    /\ UNCHANGED <<row, visible>>

OwnerAck(p) ==
    /\ At(p, "ownerAck")
    /\ WriteIf(p, Mine(p), Acked(row, ledger # "delivered"), Idle, Idle)
    /\ UNCHANGED <<ledger, visible>>

\* reconcileUnknownQueuedDelivery.  The adapter does not lie: it reports "sent"
\* only for a delivery that reached the recipient and "not sent" only for one of
\* which no part did; it may not know, now or at all.
Reconcile(p) ==
    /\ At(p, "reconcile")
    /\ LET s == proc[p].snap
           all == \A i \in 1 .. Batch : visible[i] > 0
           nothing == \A i \in 1 .. Batch : visible[i] = 0
       IN \/ all /\ Goto(p, "sentLedger")
          \/ nothing /\ s.rs = "started" /\ Goto(p, "claim")
          \/ ~BudgetExhausted(s) /\ Become(p, Failing(p, "plain", "idle", "idle"))
          \/ Goto(p, "stage")
    /\ UNCHANGED <<row, ledger, visible, trouble>>

\* Reconciled as sent: completion owner first, then the row
SentLedger(p) ==
    /\ At(p, "sentLedger")
    /\ SettleLedger(p, "delivered", To(p, "sentAck"), Failing(p, "plain", "idle", "idle"))
    /\ UNCHANGED <<row, visible>>

SentAck(p) ==
    /\ At(p, "sentAck")
    /\ WriteIf(p, Mine(p), Acked(row, FALSE), Idle, Failing(p, "plain", "idle", "idle"))
    /\ UNCHANGED <<ledger, visible>>

\* claimDeliveryPlatformSendAttempt, with the reconciled attempt if there is one
Claim(p) ==
    /\ At(p, "claim")
    /\ \E c \in NewClaims :
         WriteIf(p, Claimable(row, IF proc[p].snap.rs = "started" THEN proc[p].snap.attempt
                                   ELSE NoClaim),
                 ClaimedBy(row, c), Flow([proc[p] EXCEPT !.pc = "reserve", !.id = c]), Idle)
    /\ UNCHANGED <<ledger, visible>>

\* reserveDeliveryAttempt: no attempt left settles the claimed row as failed
Reserve(p) ==
    /\ At(p, "reserve")
    /\ IF Owned(row, proc[p].id) /\ BudgetExhausted(row)
       THEN Refuse(p, Staging(p, FALSE))
       ELSE WriteIf(p, Owned(row, proc[p].id), Reserved(row), To(p, "startLease"), Idle)
    /\ UNCHANGED <<ledger, visible>>

\* The replay returned: without identity it stays unknown, failures are thrown
RecReturned(p) ==
    /\ At(p, "recReturned")
    /\ LET a == proc[p]
       IN Become(p,
            IF a.lost THEN To(p, "recThrown")
            ELSE IF \/ "noIdentity" \in a.outs
                    \/ /\ ~Results(a) /\ FailedOuts(a) = {}
                       /\ a.started /\ ~AllSuppressed(a)
            THEN Failing(p, "after", "recUnknown", "recThrownLate")
            ELSE To(p, IF FailedOuts(a) # {} THEN "recThrown" ELSE "recLedger"))
    /\ UNCHANGED <<row, ledger, visible, trouble>>

RecUnknown(p) ==
    /\ At(p, "recUnknown")
    /\ SettleLedger(p, "unknown", Idle, To(p, "recThrownLate"))
    /\ UNCHANGED <<row, visible>>

RecLedger(p) ==
    /\ At(p, "recLedger")
    /\ LET a == proc[p]
       IN SettleLedger(p, IF Results(a) THEN "delivered" ELSE "suppressed",
            IF Results(a) /\ a.post = "none" THEN Persist(p, "recAck", "recThrownLate")
            ELSE To(p, "recAck"),
            To(p, "recThrownLate"))
    /\ UNCHANGED <<row, visible>>

RecAck(p) ==
    /\ At(p, "recAck")
    /\ LET a == proc[p]
           how == IF Results(a) THEN "after" ELSE IF AllSuppressed(a) THEN "before" ELSE "plain"
       IN IF a.post \in {"failed", "acked"} THEN Refuse(p, Idle)
          ELSE WriteIf(p, Mine(p), Acked(row, ~Results(a)), Idle,
                       Failing(p, how, "idle", "recThrownLate"))
    /\ UNCHANGED <<ledger, visible>>

\* The error path of drainQueuedEntry; after a lost lease every operation of
\* the owner is refused by its signal
RecThrown(p) ==
    /\ proc[p].pc \in {"recThrown", "recThrownLate"}
    /\ LET a == proc[p]
           early == a.pc = "recThrown"
           evidence == Results(a) \/ a.post # "none" \/ (early /\ SentBeforeError(a))
           proven == early /\ FailedOuts(a) # {} /\ FailedOuts(a) \subseteq {"rejected", "refused"}
       IN \/ /\ a.lost \/ evidence \/ Released(a)
             /\ Become(p, IF ~a.lost /\ evidence /\ a.post = "none"
                          THEN Persist(p, "idle", "idle") ELSE Idle)
          \/ /\ ~(a.lost \/ evidence \/ Released(a))
             /\ \/ early /\ MayRefuse(a) /\ Become(p, Staging(p, TRUE))
                \/ early /\ FailedOuts(a) # {} /\ Become(p, Staging(p, FALSE))
                \/ /\ ~(early /\ MustRefuse(a))
                   /\ Become(p, Failing(p, IF proven THEN "before" ELSE "plain", "idle", "idle"))
    /\ UNCHANGED <<row, ledger, visible, trouble>>

\* restoreDeliveryAttemptBeforeDispatch of an attempt that was not admitted
Restore(p) ==
    /\ At(p, "restore")
    /\ WriteIf(p, Owned(row, proc[p].id) /\ row.attempts = proc[p].snap.attempts + 1,
               Restored(row, proc[p].snap), Idle, Idle)
    /\ UNCHANGED <<ledger, visible>>

-----------------------------------------------------------------------------
Crash(p) ==
    /\ ~At(p, "idle")
    /\ trouble > 0 /\ trouble' = trouble - 1
    /\ Become(p, Idle)
    /\ UNCHANGED <<row, ledger, visible>>

\* What a process does by itself once it works on the delivery
Advance(p) ==
    \/ MarkQueued(p) \/ DropRow(p) \/ StartLease(p)
    \/ Payload(p) \/ BatchReturns(p) \/ StartSend(p) \/ StartAck(p) \/ DispatchMark(p)
    \/ Handoff(p) \/ Respond(p) \/ PostMark(p) \/ PostAck(p) \/ PostFail(p) \/ FailStep(p)
    \/ Returned(p) \/ PartialFailure(p) \/ Ledger(p) \/ Ack(p) \/ Thrown(p) \/ ThrownPost(p)
    \/ Stage(p) \/ Settle(p) \/ Finalize(p)
    \/ Owner(p) \/ OwnerAck(p) \/ Reconcile(p) \/ SentLedger(p) \/ SentAck(p) \/ Claim(p)
    \/ Reserve(p) \/ RecReturned(p) \/ RecUnknown(p) \/ RecLedger(p) \/ RecAck(p)
    \/ RecThrown(p) \/ Restore(p) \/ RetireUnsent(p)

Next ==
    \/ Tick
    \/ \E p \in Procs :
         \/ Enqueue(p) \/ Recover(p) \/ Advance(p) \/ Renew(p) \/ Expire(p)
         \/ Abort(p) \/ AdmissionClosed(p) \/ Crash(p)

Spec == Init /\ [][Next]_vars

\* Storage and platform calls settle, leases run out, and the drains that the
\* gateway runs at startup and on reconnect keep coming
Fairness ==
    /\ WF_vars(Tick)
    /\ \A p \in Procs : WF_vars(Advance(p)) /\ WF_vars(Recover(p))

LiveSpec == Spec /\ Fairness

-----------------------------------------------------------------------------
(* Properties.                                                             *)

\* No payload reaches the recipient twice, whatever fails, crashes or recovers
\* the delivery in between (with expiry timers on time and a truthful adapter):
\* the markers of persistQueuedPreSendState and persistQueuedPostSendState keep
\* drainQueuedEntry from replaying what may have been sent.
AtMostOnce == \A i \in 1 .. Batch : visible[i] <= 1

\* A process about to call the adapter inside its confirmed lease, with a row
\* that would be replayed, is still the recorded owner of that row, the row
\* says that a send may have happened, and nobody can take it before the lease
\* ends (onPlatformSendStart and onPlatformSendDispatch).
HandoffIsFenced ==
    \A p \in Procs :
        (At(p, "handoff") /\ proc[p].pre # "acked" /\ proc[p].post = "none" /\ proc[p].lease > 0
            /\ proc[p].beat)
        => /\ row.status = "pending" /\ row.attempt = proc[p].id
           /\ NeedsReconciliation(row) /\ row.ttl >= proc[p].lease

\* A row with post-send evidence never becomes sendable again: it stays
\* unknown until it is acknowledged or dead-lettered (the failure updates of
\* delivery-queue.worker.ts and the recovery policy agree on this).
UnknownNeverReplayed ==
    [][row.rs = "unknown" => row'.rs \in {"unknown", "settlement"} \/ row'.status \in Terminal]_vars

\* What has ended or was staged as failed is not reopened by a stale owner: every
\* update of delivery-queue.worker.ts looks for a row that is still pending.
EndIsFinal ==
    [][/\ row.status \in Terminal => row' = row
       /\ row.status = "staged" => row'.status \in {"staged", "failed"}]_vars

\* The completion owner is told the truth: a delivery recorded as delivered
\* reached the recipient and one recorded as suppressed did not
\* (completeDurableDelivery, settleDurableDelivery). The state is well typed.
LedgerTruth ==
    /\ TypeOK
    /\ ledger = "delivered" => \E i \in 1 .. Batch : visible[i] > 0
    /\ ledger = "suppressed" => \A i \in 1 .. Batch : visible[i] = 0

\* A dead-lettered delivery has been projected to its completion owner first
\* (settleQueuedFailure: stage, settle, finalize).
FailedIsSettled == row.status = "failed" => ledger \in {"delivered", "suppressed", "unknown"}

\* A delivery whose row was published is acknowledged, retired or dead-lettered
\* in the end, whichever process crashed or lost its lease on the way.
EventuallySettled == row.status \in {"pending", "staged"} ~> row.status \in Terminal

-----------------------------------------------------------------------------
(* What the queue implements.                                              *)

\* How far a delivery with row r is: a pending row without a send marker may be
\* taken and sent by whoever gets its claim
StageOf(r) ==
    IF r.status = "pending"
    THEN IF r.rs = "started" THEN "tried" ELSE IF r.rs = "unknown" THEN "doubt" ELSE "open"
    ELSE IF r.status = "absent" THEN "none" ELSE IF r.status = "staged" THEN "closing" ELSE "over"

\* What the completion owner holds for good
ToldOf(state) == IF state \in {"delivered", "suppressed"} THEN state ELSE "waiting"

Delivery == INSTANCE OutboundDelivery
    WITH N <- Batch, stage <- StageOf(row), got <- visible, told <- ToldOf(ledger)

\* Claims, leases, markers and the order of the writes together keep what the
\* queue promises for one delivery (OutboundDelivery): it is sent anew only when
\* nothing of it arrived, nothing arrives of a delivery that anybody may take,
\* no payload arrives twice, an end is final, and its completion owner is told
\* once, and of a delivery only when there was one.
ImplementsDelivery == Delivery!Spec

=============================================================================
