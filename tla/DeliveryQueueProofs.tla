------------------------- MODULE DeliveryQueueProofs -------------------------
(***************************************************************************)
(* What the delivery queue guarantees for every number of processes,       *)
(* payloads and retries, every lease, every policy and every number of     *)
(* disturbances.                                                           *)
(*                                                                         *)
(* The end of a delivery is final: no storage error, crash or stale owner  *)
(* reopens a row that was acknowledged, retired or dead-lettered, and a    *)
(* staged failure can only become a failed row.  Inside its confirmed      *)
(* lease a process that is about to call the adapter is the recorded owner *)
(* of a row that is marked.  The evidence that something may have been     *)
(* sent is never taken back while the row is pending.  What the completion *)
(* owner holds for delivered was sent.  When the lease timers fire on      *)
(* time, no payload is sent twice.  For one process at work: what was      *)
(* dead-lettered was settled before and, with timers on time, what is      *)
(* held for suppressed was not sent.                                       *)
(*                                                                         *)
(* The argument has six parts.  The fields: what every constructor of an   *)
(* activity and of a row changes.  The edges: every step of a process      *)
(* moves its activity along an Edge, whatever the other processes do, so   *)
(* that what it knows by itself (Local) is an invariant.  The fates: what  *)
(* a step does to the row, and what the row and the activity learn         *)
(* together.  Every step is of one of the Kinds that these classify.  The  *)
(* invariants (base, fence, evidence, hold, show, sole) are proved from    *)
(* the kinds, never again from the actions.  The tales: what a step tells  *)
(* the completion owner and does to the end of the row, and what an        *)
(* activity knew when it did (Plain, Honest); what the completion owner    *)
(* holds is proved from these.                                             *)
(***************************************************************************)
EXTENDS DeliveryQueue, TLAPS

\* The row is a record with the fields of Rows.  The types of the fields do
\* not matter for the argument, so nothing has to be known of the processes.
Shaped(r) ==
    r = [status |-> r.status, rs |-> r.rs, claim |-> r.claim, attempt |-> r.attempt,
         ttl |-> r.ttl, retries |-> r.retries, attempts |-> r.attempts,
         rejected |-> r.rejected]

\* The inductive invariant: only a pending row has a lease that time can change
IInv == Shaped(row) /\ (row.status # "pending" => row.ttl = 0)

\* What the steps of the system may do to the row
PendingStep == row.status = "pending" /\ Shaped(row')
                  /\ (row'.status # "pending" => row'.ttl = 0)
BirthStep == /\ row.status = "absent" /\ Shaped(row')
             /\ row'.status # "pending" => row'.ttl = 0
FinishStep == row.status = "staged" /\ row' = Ended(row, "failed")
RowStep == row' = row \/ PendingStep \/ BirthStep \/ FinishStep

\* A row that only changes its owner or its counts
Kept(r, q) == Shaped(q) /\ q.status = "pending" /\ q.rejected = r.rejected
Keeps == row.status = "pending" /\ Kept(row, row')

-----------------------------------------------------------------------------
(* The row operators keep the shape.                                       *)

\* Ended and Acked build rows without a lease
LEMMA EndedRow ==
    ASSUME NEW r, NEW s
    PROVE  Shaped(Ended(r, s)) /\ Ended(r, s).status = s /\ Ended(r, s).ttl = 0
<1> DEFINE q == [status |-> s, rs |-> "none", claim |-> NoClaim, attempt |-> NoClaim,
                 ttl |-> 0, retries |-> 0, attempts |-> 0, rejected |-> FALSE]
<1>1. Shaped(NoRow)
  BY DEF Shaped, NoRow
<1>2. Shaped([NoRow EXCEPT !.status = s]) /\ [NoRow EXCEPT !.status = s].status = s
         /\ [NoRow EXCEPT !.status = s].ttl = NoRow.ttl
  BY <1>1 DEF Shaped
<1>3. QED
  BY <1>2 DEF Ended, NoRow

\* and so does Staged
LEMMA StagedRow ==
    ASSUME NEW r, NEW b
    PROVE  Shaped(Staged(r, b)) /\ Staged(r, b).status = "staged" /\ Staged(r, b).ttl = 0
<1>1. PICK q : q = Ended(r, "staged")
  OBVIOUS
<1>2. Shaped(q) /\ q.status = "staged" /\ q.ttl = 0
  BY <1>1, EndedRow
<1>3. Staged(r, b) = [q EXCEPT !.rs = "settlement", !.rejected = b]
  BY <1>1, Zenon DEF Staged
<1>4. PICK t : t = [q EXCEPT !.rs = "settlement", !.rejected = b]
  OBVIOUS
<1>5. Shaped(t) /\ t.status = "staged" /\ t.ttl = 0
  BY <1>2, <1>4 DEF Shaped
<1>6. QED
  BY <1>3, <1>4, <1>5

\* Operations that keep a pending row pending keep its shape
LEMMA KeptRow ==
    ASSUME NEW r, Shaped(r), r.status = "pending", NEW c, NEW s
    PROVE  \A q \in {ClaimedBy(r, c), Renewed(r), Promoted(r, c), Dispatched(r, c),
                     OutcomeUnknown(r, c), Reserved(r), Restored(r, s), FailedPlain(r),
                     FailedBefore(r), FailedAfter(r)} :
              Kept(r, q)
<1>1. ASSUME NEW q, q = ClaimedBy(r, c) PROVE Kept(r, q)
  BY <1>1 DEF Kept, Shaped, ClaimedBy
<1>2. Kept(r, Renewed(r))
  BY DEF Kept, Shaped, Renewed
<1>3. ASSUME NEW q, q = Promoted(r, c) PROVE Kept(r, q)
  BY <1>3 DEF Kept, Shaped, Promoted
<1>4. ASSUME NEW q, q = Dispatched(r, c) PROVE Kept(r, q)
  BY <1>4 DEF Kept, Shaped, Dispatched
<1>5. ASSUME NEW q, q = OutcomeUnknown(r, c) PROVE Kept(r, q)
  BY <1>5 DEF Kept, Shaped, OutcomeUnknown
<1>6. Kept(r, Reserved(r))
  <2>1. PICK n : n = r.attempts + 1
    OBVIOUS
  <2>2. Reserved(r) = [r EXCEPT !.attempts = n]
    BY <2>1, Zenon DEF Reserved
  <2>3. QED
    BY <2>2 DEF Kept, Shaped
<1>7. ASSUME NEW q, q = Restored(r, s) PROVE Kept(r, q)
  BY <1>7 DEF Kept, Shaped, Restored
<1>8. PICK q : q = Retried(r)
  OBVIOUS
<1>9. Kept(r, q)
  <2>1. PICK n : n = IF r.retries < MaxRetries THEN r.retries + 1 ELSE r.retries
    OBVIOUS
  <2>2. q = [r EXCEPT !.retries = n, !.claim = NoClaim, !.ttl = 0]
    BY <1>8, <2>1, Zenon DEF Retried
  <2>3. QED
    BY <2>2 DEF Kept, Shaped
<1>10. Kept(r, FailedPlain(r))
  <2>1. FailedPlain(r) = [q EXCEPT !.rs = IF @ = "claimed" THEN "none" ELSE @]
    BY <1>8, Zenon DEF FailedPlain
  <2>2. QED
    BY <1>9, <2>1 DEF Kept, Shaped
<1>11. Kept(r, FailedBefore(r))
  <2>1. FailedBefore(r) = [q EXCEPT !.rs = "none", !.attempt = NoClaim]
    BY <1>8, Zenon DEF FailedBefore
  <2>2. QED
    BY <1>9, <2>1 DEF Kept, Shaped
<1>12. Kept(r, FailedAfter(r))
  <2>1. FailedAfter(r) = [q EXCEPT !.rs = "unknown"]
    BY <1>8, Zenon DEF FailedAfter
  <2>2. QED
    BY <1>9, <2>1 DEF Kept, Shaped
<1>13. QED
  BY <1>1, <1>2, <1>3, <1>4, <1>5, <1>6, <1>7, <1>10, <1>11, <1>12

\* A pending row that is moved to one of its ends makes a PendingStep
LEMMA EndsPending ==
    ASSUME row.status = "pending", NEW s \in {"failed", "completed", "deleted"},
           row' = Ended(row, s)
    PROVE  PendingStep
BY EndedRow DEF PendingStep

\* so does one that is acknowledged
LEMMA AcksPending ==
    ASSUME row.status = "pending", NEW b, row' = Acked(row, b)
    PROVE  PendingStep
BY EndsPending DEF Acked

\* Owner predicates hold of pending rows only
LEMMA PendingGuards ==
    ASSUME NEW r, NEW c
    PROVE  /\ Owned(r, c) => r.status = "pending"
           /\ Claimable(r, c) => r.status = "pending"
           /\ Renewable(r, c) => r.status = "pending"
           /\ Promotable(r, c) => r.status = "pending"
           /\ Dispatchable(r, c) => r.status = "pending"
           /\ Retirable(r, c) => r.status = "pending"
BY DEF Owned, Claimable, Renewable, Promotable, Dispatchable, Retirable

-----------------------------------------------------------------------------
(* Every action makes a RowStep.                                           *)

\* Acknowledgements: the row must be recorded for the caller
LEMMA AckSteps ==
    ASSUME NEW p \in Procs, IInv,
           DropRow(p) \/ StartAck(p) \/ PostAck(p) \/ Ack(p) \/ OwnerAck(p) \/ SentAck(p)
             \/ RecAck(p)
    PROVE  RowStep
<1>1. row' = row \/ (Mine(p) /\ \E b : row' = Acked(row, b))
  BY DEF DropRow, StartAck, PostAck, Ack, OwnerAck, SentAck, RecAck, WriteIf, Write, Refuse
<1>2. QED
  BY <1>1, PendingGuards, AcksPending DEF Mine, RowStep

\* Writes that leave the row pending: leases, markers, failures and attempts
LEMMA KeepSteps ==
    ASSUME NEW p \in Procs, Shaped(row),
           StartLease(p) \/ Renew(p) \/ StartSend(p) \/ DispatchMark(p) \/ PostMark(p)
             \/ PostFail(p) \/ FailStep(p) \/ Claim(p) \/ Reserve(p) \/ Restore(p)
    PROVE  row' = row \/ Keeps
<1> DEFINE id == proc[p].id
           Written == \E c, s : row' \in {ClaimedBy(row, c), Renewed(row), Promoted(row, c),
                       Dispatched(row, c), OutcomeUnknown(row, c), Reserved(row),
                       Restored(row, s), FailedPlain(row), FailedBefore(row), FailedAfter(row)}
<1>1. ASSUME row.status = "pending", Written PROVE Keeps
  BY <1>1, KeptRow DEF Keeps
<1>2. CASE StartLease(p) \/ Renew(p)
  <2>1. row' = row \/ (Renewable(row, id) /\ row' = Renewed(row))
    BY <1>2 DEF StartLease, Renew, WriteIf, Write, Refuse
  <2>2. QED
    BY <2>1, <1>1, PendingGuards
<1>3. CASE StartSend(p)
  <2>1. row' = row \/ (Promotable(row, id) /\ row' = Promoted(row, id))
    BY <1>3 DEF StartSend, WriteIf, Write, Refuse
  <2>2. QED
    BY <2>1, <1>1, PendingGuards
<1>4. CASE DispatchMark(p)
  <2>1. row' = row \/ (Dispatchable(row, id) /\ row' = Dispatched(row, id))
    BY <1>4 DEF DispatchMark, WriteIf, Write, Refuse
  <2>2. QED
    BY <2>1, <1>1, PendingGuards
<1>5. CASE PostMark(p)
  <2>1. row' = row \/ (Mine(p) /\ row' = OutcomeUnknown(row, id))
    BY <1>5 DEF PostMark, WriteIf, Write, Refuse
  <2>2. QED
    BY <2>1, <1>1, PendingGuards DEF Mine
<1>6. CASE PostFail(p)
  <2>1. row' = row \/ (Mine(p) /\ row' = FailedAfter(row))
    BY <1>6 DEF PostFail, WriteIf, Write, Refuse
  <2>2. QED
    BY <2>1, <1>1, PendingGuards DEF Mine
<1>7. CASE FailStep(p)
  <2>1. row' = row \/ (Mine(p) /\ row' = Failed(row, proc[p].how))
    BY <1>7 DEF FailStep, WriteIf, Write, Refuse
  <2>2. QED
    BY <2>1, <1>1, PendingGuards DEF Mine, Failed
<1>8. CASE Claim(p)
  <2>1. row' = row \/ \E c, a : Claimable(row, a) /\ row' = ClaimedBy(row, c)
    BY <1>8 DEF Claim, WriteIf, Write, Refuse
  <2>2. QED
    BY <2>1, <1>1, PendingGuards
<1>9. CASE Reserve(p) \/ Restore(p)
  <2>1. row' = row \/ (Owned(row, id) /\ row' \in {Reserved(row), Restored(row, proc[p].snap)})
    BY <1>9 DEF Reserve, Restore, WriteIf, Write, Refuse
  <2>2. QED
    BY <2>1, <1>1, PendingGuards
<1>10. QED
  BY <1>2, <1>3, <1>4, <1>5, <1>6, <1>7, <1>8, <1>9

\* Steps that create, retire, stage or finish the row
LEMMA EndSteps ==
    ASSUME NEW p \in Procs, IInv,
           Enqueue(p) \/ RetireUnsent(p) \/ Stage(p) \/ Finalize(p)
    PROVE  RowStep
<1>1. CASE Enqueue(p)
  <2>1. row.status = "absent" /\ (row' = Ended(row, "skipped") \/ \E c : row' = Enqueued(c))
    BY <1>1 DEF Enqueue
  <2>2. ASSUME NEW c, NEW q, q = Enqueued(c) PROVE Shaped(q) /\ q.status = "pending"
    <3>1. Shaped(NoRow)
      BY DEF Shaped, NoRow
    <3>2. PICK r : r = NoRow
      OBVIOUS
    <3>3. q = [r EXCEPT !.status = "pending", !.rs = "claimed", !.claim = c, !.ttl = Lease]
      BY <2>2, <3>2, Zenon DEF Enqueued
    <3>4. QED
      BY <3>1, <3>2, <3>3 DEF Shaped
  <2>3. QED
    BY <2>1, <2>2, EndedRow DEF RowStep, BirthStep
<1>2. CASE RetireUnsent(p)
  <2>1. row' = row \/ (Retirable(row, proc[p].id) /\ row' = Ended(row, "deleted"))
    BY <1>2 DEF RetireUnsent, WriteIf, Write, Refuse
  <2>2. QED
    BY <2>1, PendingGuards, EndsPending DEF RowStep
<1>3. CASE Stage(p)
  <2>1. row' = row \/ (row' = Staged(row, proc[p].rejected)
                         /\ \E c : Owned(row, c) \/ Claimable(row, c))
    BY <1>3 DEF Stage, WriteIf, Write, Refuse
  <2>2. QED
    BY <2>1, PendingGuards, StagedRow DEF RowStep, PendingStep
<1>4. CASE Finalize(p)
  BY <1>4 DEF Finalize, WriteIf, Write, Refuse, RowStep, FinishStep
<1>5. QED
  BY <1>1, <1>2, <1>3, <1>4

\* The other steps of a process leave the row alone
LEMMA QuietSteps ==
    ASSUME NEW p \in Procs,
           \/ MarkQueued(p) \/ Expire(p) \/ Abort(p) \/ Payload(p) \/ BatchReturns(p)
           \/ AdmissionClosed(p) \/ Handoff(p) \/ Respond(p) \/ Returned(p)
           \/ PartialFailure(p) \/ Ledger(p) \/ Thrown(p) \/ ThrownPost(p) \/ Settle(p)
           \/ Recover(p) \/ Owner(p) \/ Reconcile(p) \/ SentLedger(p) \/ RecReturned(p)
           \/ RecUnknown(p) \/ RecLedger(p) \/ RecThrown(p) \/ Crash(p)
    PROVE  row' = row
BY DEF MarkQueued, Expire, Abort, Payload, BatchReturns, AdmissionClosed, Handoff, Respond,
       Returned, PartialFailure, Ledger, Thrown, ThrownPost, Settle, Recover, Owner, Reconcile,
       SentLedger, RecReturned, RecUnknown, RecLedger, RecThrown, Crash

\* Time changes a pending row only: an ended row has no lease left to run out
LEMMA TickStep ==
    ASSUME IInv, Tick
    PROVE  RowStep
<1>1. PICK n : n = Less(row.ttl)
  OBVIOUS
<1>2. row' = [row EXCEPT !.ttl = n]
  BY <1>1 DEF Tick
<1>3. CASE row.status = "pending"
  BY <1>2, <1>3 DEF IInv, Shaped, RowStep, PendingStep
<1>4. CASE row.status # "pending"
  <2>1. n = 0 /\ row.ttl = 0
    BY <1>1, <1>4 DEF Less, IInv
  <2>2. QED
    BY <1>2, <2>1 DEF IInv, Shaped, RowStep
<1>5. QED
  BY <1>3, <1>4

\* Whatever happens next, the row makes one of the steps it may make
LEMMA NextRowStep ==
    ASSUME IInv, [Next]_vars
    PROVE  RowStep
<1>1. CASE UNCHANGED vars
  BY <1>1 DEF vars, RowStep
<1>2. Shaped(row) /\ (Keeps => PendingStep)
  BY DEF IInv, Keeps, Kept, PendingStep
<1>3. CASE Tick
  BY <1>3, TickStep
<1>4. ASSUME NEW p \in Procs,
             Enqueue(p) \/ Recover(p) \/ Renew(p) \/ Expire(p) \/ Abort(p)
               \/ AdmissionClosed(p) \/ Crash(p)
      PROVE  RowStep
  BY <1>4, <1>2, EndSteps, QuietSteps, KeepSteps DEF RowStep
<1>5. ASSUME NEW p \in Procs, Advance(p)
      PROVE  RowStep
  BY <1>5, <1>2, AckSteps, KeepSteps, EndSteps, QuietSteps DEF Advance, RowStep
<1>6. QED
  BY <1>1, <1>3, <1>4, <1>5 DEF Next

-----------------------------------------------------------------------------
(* The theorems.                                                           *)

\* The row stays well formed and only a pending one carries a lease
THEOREM RowInvariant == Spec => []IInv
<1>1. Init => IInv
  BY DEF Init, IInv, Shaped, NoRow
<1>2. IInv /\ [Next]_vars => IInv'
  <2>1. ASSUME IInv, [Next]_vars PROVE IInv'
    <3>1. RowStep
      BY <2>1, NextRowStep
    <3>2. CASE row' = row
      BY <2>1, <3>2 DEF IInv, Shaped
    <3>3. CASE PendingStep \/ BirthStep
      BY <3>3 DEF PendingStep, BirthStep, IInv, Shaped
    <3>4. CASE FinishStep
      BY <3>4, EndedRow DEF FinishStep, IInv, Shaped
    <3>5. QED
      BY <3>1, <3>2, <3>3, <3>4 DEF RowStep
  <2>2. QED
    BY <2>1
<1>3. QED
  BY <1>1, <1>2, PTL DEF Spec

\* What has ended or was staged as failed is not reopened (EndIsFinal), for all
\* numbers of processes, payloads, retries and disturbances: ack, retireUnsent,
\* finalize and every fenced update touch pending or staged rows only
THEOREM DeliveryEndIsFinal == Spec => EndIsFinal
<1>1. IInv /\ [Next]_vars =>
        [/\ row.status \in Terminal => row' = row
         /\ row.status = "staged" => row'.status \in {"staged", "failed"}]_vars
  <2>1. ASSUME IInv, [Next]_vars
        PROVE  /\ row.status \in Terminal => row' = row
               /\ row.status = "staged" => row'.status \in {"staged", "failed"}
    <3>1. RowStep
      BY <2>1, NextRowStep
    <3>2. CASE FinishStep
      BY <3>2, EndedRow DEF FinishStep, Terminal
    <3>3. QED
      BY <3>1, <3>2 DEF RowStep, PendingStep, BirthStep, Terminal
  <2>2. QED
    BY <2>1
<1>2. QED
  BY <1>1, RowInvariant, PTL DEF Spec, EndIsFinal

-----------------------------------------------------------------------------
(* What a process does next, field by field.                               *)

SameOwner(a, b) ==
    /\ b.recovery = a.recovery /\ b.id = a.id /\ b.beat = a.beat /\ b.lease = a.lease
    /\ b.lost = a.lost
SameCaller(a, b) == b.aborted = a.aborted /\ b.cancel = a.cancel /\ b.snap = a.snap
SameMarks(a, b) == b.pre = a.pre /\ b.post = a.post
SameBatch(a, b) ==
    b.i = a.i /\ b.outs = a.outs /\ b.cur = a.cur /\ b.started = a.started
      /\ b.dispatched = a.dispatched
SameReturn(a, b) == b.how = a.how /\ b.ret = a.ret /\ b.esc = a.esc

\* Zero and one are where the types start
LEMMA Bounds == /\ NoClaim \in Claims \cup {NoClaim} /\ 0 \in 0 .. Lease /\ 1 \in 1 .. Batch + 1
                /\ 0 \in 0 .. MaxRetries
BY LeaseAssumption, RetryAssumption, BatchAssumption DEF NoClaim, Claims

\* The absent row is a row
LEMMA NoRowTyped == NoRow \in Rows
<1>1. /\ "absent" \in Statuses /\ "none" \in RecoveryStates
  BY DEF Statuses, RecoveryStates
<1>2. QED
  BY <1>1, Bounds DEF NoRow, Rows

\* A process without a delivery is an idle activity
LEMMA IdleTyped == Idle \in Activities /\ Idle.pc = "idle"
<1>1. /\ "idle" \in Pcs /\ "omitted" \in Outcomes /\ {} \in SUBSET Outcomes
  BY DEF Pcs, PcShared, Outcomes
<1>2. QED
  BY <1>1, Bounds, NoRowTyped DEF Idle, Activities

\* The main flow goes on elsewhere
LEMMA FlowFields ==
    ASSUME NEW a \in Activities, a.pc # "idle", NEW b, b = Flow(a)
    PROVE  /\ b \in Activities /\ b.pc = a.pc /\ b.live = ~a.lost
           /\ SameOwner(a, b) /\ SameCaller(a, b) /\ SameMarks(a, b) /\ SameBatch(a, b)
           /\ SameReturn(a, b) /\ b.byClaim = a.byClaim /\ b.rejected = a.rejected
<1>1. PICK v : v = ~a.lost
  OBVIOUS
<1>2. b = [a EXCEPT !.live = v] /\ v \in BOOLEAN
  BY <1>1 DEF Flow
<1>3. QED
  BY <1>1, <1>2, ZenonT(60) DEF Activities, SameOwner, SameCaller, SameMarks, SameBatch, SameReturn

\* To goes on at pc with everything else as it was; the activity is live unless
\* it lost its lease
LEMMA ToFields ==
    ASSUME NEW p \in Procs, proc[p] \in Activities, NEW pc \in Pcs, pc # "idle",
           NEW b, b = To(p, pc)
    PROVE  /\ b \in Activities /\ b.pc = pc /\ b.live = ~proc[p].lost
           /\ SameOwner(proc[p], b) /\ SameCaller(proc[p], b) /\ SameMarks(proc[p], b)
           /\ SameBatch(proc[p], b) /\ SameReturn(proc[p], b)
<1>1. PICK q : q = [proc[p] EXCEPT !.pc = pc]
  OBVIOUS
<1>2. b = Flow(q)
  BY <1>1 DEF To
<1>3. /\ q \in Activities /\ q.pc = pc /\ q.lost = proc[p].lost
      /\ SameOwner(proc[p], q) /\ SameCaller(proc[p], q) /\ SameMarks(proc[p], q)
      /\ SameBatch(proc[p], q) /\ SameReturn(proc[p], q)
  BY <1>1 DEF Activities, SameOwner, SameCaller, SameMarks, SameBatch, SameReturn
<1>4. QED
  BY <1>2, <1>3, FlowFields DEF SameOwner, SameCaller, SameMarks, SameBatch, SameReturn

\* An activity that goes on to idle leaves nothing behind
LEMMA ToIdle ==
    ASSUME NEW p \in Procs, proc[p] \in Activities
    PROVE  To(p, "idle") = Idle
<1>1. PICK q : q = [proc[p] EXCEPT !.pc = "idle"]
  OBVIOUS
<1>2. q.pc = "idle"
  BY <1>1 DEF Activities
<1>3. QED
  BY <1>1, <1>2 DEF To, Flow

\* Where an error leaves the payload loop to
Escape(a) == IF a.recovery THEN "recThrown" ELSE "thrown"

\* The payload at hand ends with an outcome
LEMMA AfterFields ==
    ASSUME NEW p \in Procs, proc[p] \in Activities, proc[p].i <= Batch, NEW c \in Outcomes,
           NEW b, b = After(p, c)
    PROVE  /\ b \in Activities /\ b.pc \in {"payload", Escape(proc[p])}
           /\ b.live = ~proc[p].lost
           /\ SameOwner(proc[p], b) /\ SameCaller(proc[p], b) /\ SameMarks(proc[p], b)
           /\ SameReturn(proc[p], b)
           /\ b.i = proc[p].i + 1 /\ b.outs = proc[p].outs \cup {c} /\ b.cur = "omitted"
           /\ b.started = proc[p].started /\ b.dispatched = proc[p].dispatched
<1>1. PICK pc : pc = IF c \notin Failures \/ (BestEffort /\ ~proc[p].lost) THEN "payload"
                     ELSE IF proc[p].recovery THEN "recThrown" ELSE "thrown"
  OBVIOUS
<1>2. PICK os : os = proc[p].outs \cup {c}
  OBVIOUS
<1>3. PICK n : n = proc[p].i + 1
  OBVIOUS
<1>4. PICK q : q = [proc[p] EXCEPT !.outs = os, !.i = n, !.cur = "omitted", !.pc = pc]
  OBVIOUS
<1>5. b = Flow(q)
  BY <1>1, <1>2, <1>3, <1>4, Zenon DEF After
<1>6. pc \in {"payload", Escape(proc[p])} /\ pc \in Pcs /\ pc # "idle"
  BY <1>1 DEF Pcs, Loop, PcLive, PcRecovery, Escape
<1>7. os \in SUBSET Outcomes /\ "omitted" \in Outcomes
  BY <1>2 DEF Activities, Outcomes
<1>8. n \in 1 .. Batch + 1
  BY <1>3, BatchAssumption DEF Activities
<1>9. /\ q \in Activities /\ q.pc = pc /\ q.lost = proc[p].lost
      /\ SameOwner(proc[p], q) /\ SameCaller(proc[p], q) /\ SameMarks(proc[p], q)
      /\ SameReturn(proc[p], q)
      /\ q.i = n /\ q.outs = os /\ q.cur = "omitted"
      /\ q.started = proc[p].started /\ q.dispatched = proc[p].dispatched
  BY <1>4, <1>6, <1>7, <1>8 DEF Activities, SameOwner, SameCaller, SameMarks, SameReturn
<1>10. QED
  BY <1>2, <1>3, <1>5, <1>6, <1>9, FlowFields
     DEF SameOwner, SameCaller, SameMarks, SameBatch, SameReturn

\* The send begins, or the payload fails because the caller cancelled meanwhile
LEMMA BeginFields ==
    ASSUME NEW p \in Procs, proc[p] \in Activities, proc[p].i <= Batch,
           NEW pre \in {"none", "marked", "acked"},
           NEW post \in {"none", "marked", "acked", "failed"},
           NEW b, b = Begin(p, pre, post)
    PROVE  /\ b \in Activities /\ b.live = ~proc[p].lost
           /\ SameOwner(proc[p], b) /\ SameCaller(proc[p], b) /\ SameReturn(proc[p], b)
           /\ b.pre = pre /\ b.post = post /\ b.dispatched = proc[p].dispatched
           /\ \/ /\ Aborted(p) /\ b.pc \in {"payload", Escape(proc[p])}
                 /\ b.i = proc[p].i + 1 /\ b.outs = proc[p].outs \cup {"early"}
                 /\ b.cur = "omitted"
              \/ /\ ~Aborted(p) /\ b.pc = "dispatch" /\ b.i = proc[p].i
                 /\ b.outs = proc[p].outs /\ b.cur = proc[p].cur
<1>1. CASE Aborted(p)
  <2>1. PICK q : q = After(p, "early")
    OBVIOUS
  <2>2. b = [q EXCEPT !.pre = pre, !.post = post]
    BY <1>1, <2>1 DEF Begin
  <2>3. "early" \in Outcomes
    BY DEF Outcomes, Failures
  <2>4. /\ q \in Activities /\ q.pc \in {"payload", Escape(proc[p])}
        /\ q.live = ~proc[p].lost
        /\ SameOwner(proc[p], q) /\ SameCaller(proc[p], q) /\ SameReturn(proc[p], q)
        /\ q.i = proc[p].i + 1 /\ q.outs = proc[p].outs \cup {"early"} /\ q.cur = "omitted"
        /\ q.dispatched = proc[p].dispatched
    BY <2>1, <2>3, AfterFields
  <2>5. /\ b \in Activities /\ b.pc = q.pc /\ b.live = q.live /\ SameOwner(q, b)
        /\ SameCaller(q, b) /\ SameReturn(q, b) /\ b.pre = pre /\ b.post = post
        /\ b.i = q.i /\ b.outs = q.outs /\ b.cur = q.cur /\ b.dispatched = q.dispatched
    <3>1. q \in Activities
      BY <2>4
    <3>2. b \in Activities
      BY <2>2, <3>1, ZenonT(60) DEF Activities
    <3>3. QED
      BY <2>2, <3>1, <3>2 DEF Activities, SameOwner, SameCaller, SameReturn
  <2>6. QED
    BY <1>1, <2>4, <2>5 DEF SameOwner, SameCaller, SameReturn
<1>2. CASE ~Aborted(p)
  <2>1. PICK q : q = [proc[p] EXCEPT !.pre = pre, !.post = post]
    OBVIOUS
  <2>2. PICK r : r = [q EXCEPT !.pc = "dispatch", !.started = TRUE]
    OBVIOUS
  <2>3. b = Flow(r)
    BY <1>2, <2>1, <2>2 DEF Begin
  <2>4. /\ q \in Activities /\ q.lost = proc[p].lost
        /\ SameOwner(proc[p], q) /\ SameCaller(proc[p], q) /\ SameReturn(proc[p], q)
        /\ SameBatch(proc[p], q) /\ q.pre = pre /\ q.post = post
    BY <2>1 DEF Activities, SameOwner, SameCaller, SameReturn, SameBatch
  <2>5. "dispatch" \in Pcs
    BY DEF Pcs, Loop
  <2>6. /\ r \in Activities /\ r.lost = q.lost /\ r.pc = "dispatch"
        /\ SameOwner(q, r) /\ SameCaller(q, r) /\ SameReturn(q, r) /\ SameMarks(q, r)
        /\ r.i = q.i /\ r.outs = q.outs /\ r.cur = q.cur /\ r.dispatched = q.dispatched
    BY <2>2, <2>4, <2>5 DEF Activities, SameOwner, SameCaller, SameReturn, SameMarks
  <2>7. QED
    BY <1>2, <2>3, <2>4, <2>6, FlowFields
       DEF SameOwner, SameCaller, SameReturn, SameMarks, SameBatch
<1>3. QED
  BY <1>1, <1>2

\* persistQueuedPostSendState begins
LEMMA PersistFields ==
    ASSUME NEW p \in Procs, proc[p] \in Activities, NEW good \in Pcs, NEW bad \in Pcs,
           NEW b, b = Persist(p, good, bad)
    PROVE  /\ b \in Activities /\ b.pc = "postMark" /\ b.live = ~proc[p].lost
           /\ SameOwner(proc[p], b) /\ SameCaller(proc[p], b) /\ SameMarks(proc[p], b)
           /\ SameBatch(proc[p], b) /\ b.how = proc[p].how /\ b.ret = good /\ b.esc = bad
<1>1. PICK q : q = [proc[p] EXCEPT !.pc = "postMark", !.ret = good, !.esc = bad]
  OBVIOUS
<1>2. b = Flow(q)
  BY <1>1 DEF Persist
<1>3. "postMark" \in Pcs
  BY DEF Pcs, PcShared
<1>4. /\ q \in Activities /\ q.pc = "postMark" /\ q.lost = proc[p].lost
      /\ SameOwner(proc[p], q) /\ SameCaller(proc[p], q) /\ SameMarks(proc[p], q)
      /\ SameBatch(proc[p], q) /\ q.how = proc[p].how /\ q.ret = good /\ q.esc = bad
  BY <1>1, <1>3 DEF Activities, SameOwner, SameCaller, SameMarks, SameBatch
<1>5. QED
  BY <1>2, <1>4, FlowFields DEF SameOwner, SameCaller, SameMarks, SameBatch, SameReturn

Noted(a, state) == [a EXCEPT !.post = state, !.ret = "idle", !.esc = "idle"]

\* The evidence is noted in the activity
LEMMA PostFields ==
    ASSUME NEW a \in Activities, NEW state \in {"marked", "acked", "failed"},
           NEW b, b = Noted(a, state)
    PROVE  /\ b \in Activities /\ SameOwner(a, b) /\ SameCaller(a, b) /\ b.pre = a.pre
           /\ b.post = state /\ b.how = a.how /\ b.ret = "idle" /\ b.esc = "idle"
           /\ SameBatch(a, b) /\ b.pc = a.pc
<1>1. "idle" \in Pcs
  BY DEF Pcs, PcShared
<1>2. b \in Activities
  BY <1>1 DEF Activities, Noted
<1>3. QED
  BY <1>1, <1>2 DEF Activities, Noted, SameOwner, SameCaller, SameBatch

\* It ends: inside the loop with the payload's outcome, elsewhere at its return point
LEMMA PersistedFields ==
    ASSUME NEW p \in Procs, proc[p] \in Activities, NEW state \in {"marked", "acked", "failed"},
           proc[p].ret = "payload" => proc[p].i <= Batch,
           NEW b, b = Persisted(p, state)
    PROVE  /\ b \in Activities
           /\ \/ proc[p].ret = "idle" /\ b = Idle
              \/ /\ SameOwner(proc[p], b) /\ SameCaller(proc[p], b) /\ b.pre = proc[p].pre
                 /\ b.post = state /\ b.how = proc[p].how /\ b.ret = "idle" /\ b.esc = "idle"
                 /\ b.dispatched = proc[p].dispatched
                 /\ \/ /\ proc[p].ret # "payload" /\ b.pc = proc[p].ret
                       /\ SameBatch(proc[p], b)
                    \/ /\ proc[p].ret = "payload"
                       /\ b.pc \in {"payload", Escape(proc[p])}
                       /\ b.i = proc[p].i + 1 /\ b.outs = proc[p].outs \cup {"sent"}
                       /\ b.cur = "omitted"
<1>1. PICK q : q = IF proc[p].ret = "payload" THEN After(p, "sent") ELSE To(p, proc[p].ret)
  OBVIOUS
<1>2. b = IF q.pc = "idle" THEN Idle ELSE [q EXCEPT !.post = state, !.ret = "idle", !.esc = "idle"]
  BY <1>1 DEF Persisted
<1>3. proc[p].ret \in Pcs /\ "idle" \in Pcs /\ "sent" \in Outcomes
  BY DEF Activities, Pcs, PcShared, Outcomes
<1>4. CASE proc[p].ret = "idle"
  <2>1. q = Idle
    BY <1>1, <1>4, ToIdle
  <2>2. QED
    BY <1>2, <1>4, <2>1, IdleTyped
<1>5. CASE proc[p].ret # "idle"
  <2>1. /\ q \in Activities /\ SameOwner(proc[p], q) /\ SameCaller(proc[p], q)
        /\ q.pre = proc[p].pre /\ q.how = proc[p].how /\ q.dispatched = proc[p].dispatched
        /\ \/ /\ proc[p].ret # "payload" /\ q.pc = proc[p].ret /\ SameBatch(proc[p], q)
           \/ /\ proc[p].ret = "payload" /\ q.pc \in {"payload", Escape(proc[p])}
              /\ q.i = proc[p].i + 1 /\ q.outs = proc[p].outs \cup {"sent"} /\ q.cur = "omitted"
    <3>1. CASE proc[p].ret = "payload"
      BY <1>1, <1>3, <3>1, AfterFields DEF SameMarks, SameReturn
    <3>2. CASE proc[p].ret # "payload"
      BY <1>1, <1>3, <1>5, <3>2, ToFields DEF SameMarks, SameReturn, SameBatch
    <3>3. QED
      BY <3>1, <3>2
  <2>2. b = [q EXCEPT !.post = state, !.ret = "idle", !.esc = "idle"]
    BY <1>2, <1>5, <2>1 DEF Escape
  <2>3. /\ b \in Activities /\ SameOwner(q, b) /\ SameCaller(q, b) /\ b.pre = q.pre
        /\ b.post = state /\ b.how = q.how /\ b.ret = "idle" /\ b.esc = "idle"
        /\ SameBatch(q, b) /\ b.pc = q.pc
    <3>1. q \in Activities
      BY <2>1
    <3>2. b = Noted(q, state)
      BY <2>2 DEF Noted
    <3>3. QED
      BY <3>1, <3>2, PostFields
  <2>4. QED
    BY <2>1, <2>3 DEF SameOwner, SameCaller, SameBatch
<1>6. QED
  BY <1>4, <1>5

\* or in an error, which inside the loop fails the payload that was sent
LEMMA UnpersistedFields ==
    ASSUME NEW p \in Procs, proc[p] \in Activities,
           proc[p].ret = "payload" => proc[p].i <= Batch,
           NEW b, b = Unpersisted(p)
    PROVE  /\ b \in Activities
           /\ \/ proc[p].ret # "payload" /\ proc[p].esc = "idle" /\ b = Idle
              \/ /\ SameOwner(proc[p], b) /\ SameCaller(proc[p], b) /\ SameMarks(proc[p], b)
                 /\ b.how = proc[p].how /\ b.ret = "idle" /\ b.esc = "idle"
                 /\ b.dispatched = proc[p].dispatched
                 /\ \/ /\ proc[p].ret # "payload" /\ b.pc = proc[p].esc
                       /\ SameBatch(proc[p], b)
                    \/ /\ proc[p].ret = "payload"
                       /\ b.pc \in {"payload", Escape(proc[p])}
                       /\ b.i = proc[p].i + 1 /\ b.outs = proc[p].outs \cup {"partial"}
                       /\ b.cur = "omitted"
<1>1. PICK q : q = IF proc[p].ret = "payload" THEN After(p, "partial") ELSE To(p, proc[p].esc)
  OBVIOUS
<1>2. b = IF q.pc = "idle" THEN Idle ELSE [q EXCEPT !.ret = "idle", !.esc = "idle"]
  BY <1>1 DEF Unpersisted
<1>3. proc[p].esc \in Pcs /\ "idle" \in Pcs /\ "partial" \in Outcomes
  BY DEF Activities, Pcs, PcShared, Outcomes, Failures
<1>4. CASE proc[p].ret # "payload" /\ proc[p].esc = "idle"
  <2>1. q = Idle
    BY <1>1, <1>4, ToIdle
  <2>2. QED
    BY <1>2, <1>4, <2>1, IdleTyped
<1>5. CASE proc[p].ret = "payload" \/ proc[p].esc # "idle"
  <2>1. /\ q \in Activities /\ SameOwner(proc[p], q) /\ SameCaller(proc[p], q)
        /\ SameMarks(proc[p], q) /\ q.how = proc[p].how /\ q.dispatched = proc[p].dispatched
        /\ \/ proc[p].ret # "payload" /\ q.pc = proc[p].esc /\ SameBatch(proc[p], q)
           \/ /\ proc[p].ret = "payload" /\ q.pc \in {"payload", Escape(proc[p])}
              /\ q.i = proc[p].i + 1 /\ q.outs = proc[p].outs \cup {"partial"} /\ q.cur = "omitted"
    <3>1. CASE proc[p].ret = "payload"
      BY <1>1, <1>3, <3>1, AfterFields DEF SameReturn
    <3>2. CASE proc[p].ret # "payload"
      BY <1>1, <1>3, <1>5, <3>2, ToFields DEF SameReturn, SameBatch
    <3>3. QED
      BY <3>1, <3>2
  <2>2. b = [q EXCEPT !.ret = "idle", !.esc = "idle"]
    BY <1>2, <1>5, <2>1 DEF Escape
  <2>3. /\ b \in Activities /\ SameOwner(q, b) /\ SameCaller(q, b) /\ SameMarks(q, b)
        /\ b.how = q.how /\ b.ret = "idle" /\ b.esc = "idle" /\ SameBatch(q, b) /\ b.pc = q.pc
    <3>1. q \in Activities
      BY <2>1
    <3>2. b \in Activities
      BY <1>3, <2>2, <3>1, ZenonT(60) DEF Activities
    <3>3. QED
      BY <1>3, <2>2, <3>1, <3>2 DEF Activities, SameOwner, SameCaller, SameMarks, SameBatch
  <2>4. QED
    BY <2>1, <2>3 DEF SameOwner, SameCaller, SameMarks, SameBatch
<1>6. QED
  BY <1>4, <1>5

\* What the last operation of an activity is left with
Bare(b) ==
    /\ ~b.aborted /\ b.cancel = "no" /\ b.snap = NoRow /\ b.pre = "none" /\ b.post = "none"
    /\ b.i = 1 /\ b.outs = {} /\ b.cur = "omitted" /\ ~b.started /\ ~b.dispatched
    /\ b.ret = "idle" /\ b.esc = "idle"

\* Last leaves the activity with its owner and the place of its last operation
LEMMA LastFields ==
    ASSUME NEW a \in Activities, NEW pc \in Pcs, pc # "idle", NEW b, b = Last(a, pc)
    PROVE  /\ b \in Activities /\ b.pc = pc /\ SameOwner(a, b) /\ Bare(b) /\ b.how = "plain"
<1>1. PICK r : r = Idle
  OBVIOUS
<1>2. r \in Activities /\ Bare(r) /\ r.how = "plain"
  BY <1>1, IdleTyped DEF Idle, Bare
<1>3. PICK q : q = [r EXCEPT !.pc = pc, !.recovery = a.recovery, !.id = a.id,
                             !.beat = a.beat, !.lease = a.lease, !.lost = a.lost]
  OBVIOUS
<1>4. b = Flow(q)
  BY <1>1, <1>3 DEF Last
<1>5. /\ a.recovery \in BOOLEAN /\ a.id \in Claims \cup {NoClaim} /\ a.beat \in BOOLEAN
      /\ a.lease \in 0 .. Lease /\ a.lost \in BOOLEAN
  BY DEF Activities
<1>6. q \in Activities /\ q.pc = pc /\ SameOwner(a, q) /\ Bare(q) /\ q.how = "plain"
  BY <1>2, <1>3, <1>5 DEF Activities, SameOwner, Bare
<1>7. QED
  BY <1>4, <1>6, FlowFields DEF SameOwner, SameCaller, SameMarks, SameBatch, SameReturn, Bare

\* A failure is recorded by an activity that ends with it or goes on
LEMMA FailingFields ==
    ASSUME NEW p \in Procs, proc[p] \in Activities, NEW how \in {"plain", "before", "after"},
           NEW good \in Pcs, NEW bad \in Pcs, NEW b, b = Failing(p, how, good, bad)
    PROVE  /\ b \in Activities /\ b.pc = "fail" /\ b.how = how /\ SameOwner(proc[p], b)
           /\ b.ret = good /\ b.esc = bad
           /\ \/ good = "idle" /\ bad = "idle" /\ Bare(b)
              \/ /\ ~(good = "idle" /\ bad = "idle")
                 /\ SameCaller(proc[p], b) /\ SameMarks(proc[p], b) /\ SameBatch(proc[p], b)
<1>1. "fail" \in Pcs
  BY DEF Pcs, PcShared
<1>2. CASE good = "idle" /\ bad = "idle"
  <2>1. PICK q : q = Last(proc[p], "fail")
    OBVIOUS
  <2>2. b = [q EXCEPT !.how = how]
    BY <1>2, <2>1 DEF Failing
  <2>3. q \in Activities /\ q.pc = "fail" /\ SameOwner(proc[p], q) /\ Bare(q)
    BY <1>1, <2>1, LastFields
  <2>4. b \in Activities /\ b.pc = "fail" /\ b.how = how /\ SameOwner(q, b) /\ Bare(b)
    BY <2>2, <2>3 DEF Activities, SameOwner, Bare
  <2>5. QED
    BY <1>2, <2>3, <2>4 DEF SameOwner, Bare
<1>3. CASE ~(good = "idle" /\ bad = "idle")
  <2>1. PICK q : q = [proc[p] EXCEPT !.pc = "fail", !.how = how, !.ret = good, !.esc = bad]
    OBVIOUS
  <2>2. b = Flow(q)
    BY <1>3, <2>1 DEF Failing
  <2>3. /\ q \in Activities /\ q.pc = "fail" /\ q.how = how /\ q.ret = good /\ q.esc = bad
        /\ SameOwner(proc[p], q) /\ SameCaller(proc[p], q) /\ SameMarks(proc[p], q)
        /\ SameBatch(proc[p], q)
    BY <1>1, <2>1 DEF Activities, SameOwner, SameCaller, SameMarks, SameBatch
  <2>4. QED
    BY <1>3, <2>2, <2>3, FlowFields DEF SameOwner, SameCaller, SameMarks, SameBatch, SameReturn
<1>4. QED
  BY <1>2, <1>3

\* A settlement is staged with the claim
LEMMA StagingFields ==
    ASSUME NEW p \in Procs, proc[p] \in Activities, NEW rejected \in BOOLEAN,
           NEW b, b = Staging(p, rejected)
    PROVE  b \in Activities /\ b.pc = "stage" /\ SameOwner(proc[p], b) /\ Bare(b) /\ b.byClaim
<1>1. PICK q : q = Last(proc[p], "stage")
  OBVIOUS
<1>2. b = [q EXCEPT !.byClaim = TRUE, !.rejected = rejected]
  BY <1>1 DEF Staging
<1>3. "stage" \in Pcs
  BY DEF Pcs, PcShared
<1>4. q \in Activities /\ q.pc = "stage" /\ SameOwner(proc[p], q) /\ Bare(q)
  BY <1>1, <1>3, LastFields
<1>5. q \in Activities
  BY <1>4
<1>6. /\ b \in Activities /\ b.pc = q.pc /\ b.byClaim /\ SameOwner(q, b) /\ SameCaller(q, b)
      /\ SameMarks(q, b) /\ SameBatch(q, b) /\ SameReturn(q, b)
  BY <1>2, <1>5, ZenonT(60) DEF Activities, SameOwner, SameCaller, SameMarks, SameBatch, SameReturn
<1>7. QED
  BY <1>4, <1>6 DEF SameOwner, SameCaller, SameMarks, SameBatch, SameReturn, Bare

\* A staged settlement goes on without a claim
LEMMA SettlingFields ==
    ASSUME NEW v \in BOOLEAN, NEW b, b = [Idle EXCEPT !.pc = "settle", !.rejected = v]
    PROVE  /\ b \in Activities /\ b.pc = "settle" /\ b.id = NoClaim /\ b.lease = 0 /\ ~b.beat
           /\ ~b.recovery /\ Bare(b) /\ b.how = "plain"
<1>1. PICK r : r = Idle
  OBVIOUS
<1>2. /\ r \in Activities /\ Bare(r) /\ r.id = NoClaim /\ r.lease = 0 /\ ~r.beat /\ ~r.recovery
      /\ r.how = "plain"
  BY <1>1, IdleTyped DEF Idle, Bare
<1>3. "settle" \in Pcs
  BY DEF Pcs, PcShared
<1>4. b = [r EXCEPT !.pc = "settle", !.rejected = v]
  BY <1>1
<1>5. r \in Activities
  BY <1>2
<1>6. /\ b \in Activities /\ b.pc = "settle" /\ SameOwner(r, b) /\ SameCaller(r, b)
      /\ SameMarks(r, b) /\ SameBatch(r, b) /\ SameReturn(r, b)
  BY <1>3, <1>4, <1>5, ZenonT(60) DEF Activities, SameOwner, SameCaller, SameMarks, SameBatch, SameReturn
<1>7. QED
  BY <1>2, <1>6 DEF SameOwner, SameCaller, SameMarks, SameBatch, SameReturn, Bare

-----------------------------------------------------------------------------
(* The phases of an activity.                                              *)

\* The id of the activity is not a claim of its own: none, the owner recorded
\* in a loaded row, or one that is about to be given up
Borrowed == {"idle", "dropRow", "owner", "ownerAck", "reconcile", "sentLedger", "sentAck",
             "claim", "stage", "settle", "finalize", "fail"}

\* The activity works with a claim that was made for it
Holds(a) == \/ a.pc \notin Borrowed
            \/ a.pc = "fail" /\ ~(a.ret = "idle" /\ a.esc = "idle" /\ a.how = "plain")
Genuine(a) == Holds(a) /\ a.id # NoClaim

InPost(a) == a.pc \in {"postMark", "postAck", "postFail"}
InLoop(a) == a.pc \in Loop \/ (InPost(a) /\ a.ret = "payload")

\* Between the adapter call and the outcome of its payload
MidSend(a) == a.pc = "respond" \/ (InPost(a) /\ a.ret = "payload")

\* The outcomes of the activity still tell whether it may have sent something
Telling(a) ==
    \/ a.pc \in Loop
    \/ InPost(a) /\ a.ret \in {"payload", "failures", "ledger", "recAck"}
    \/ a.pc \in {"markQueued", "startLease", "reserve", "returned", "failures", "ledger", "ack",
                 "thrown", "recReturned", "recThrown", "recLedger", "recAck"}

\* They tell that it may have
MaySent(a) == /\ SentBeforeError(a) \/ a.cur \in {"sent", "noIdentity", "ambiguous"}
              /\ InLoop(a) => a.dispatched

\* The activity is about to record that nothing was sent
Spotless(a) == a.pc = "restore" \/ (a.pc = "fail" /\ a.how = "before")

Fresh == {"markQueued", "startLease", "reserve", "owner", "reconcile", "claim"}

\* Whom the states of a row are recorded for
RowShape(r) ==
    /\ r.rs \notin {"claimed", "started", "unknown"} => r.claim = NoClaim /\ r.attempt = NoClaim
    /\ r.rs = "claimed" => r.attempt = NoClaim
    /\ r.rs \in {"started", "unknown"} => r.claim = NoClaim

\* What an activity knows by itself
HoldLocal(a) ==
    Holds(a) /\ a.id = NoClaim =>
      /\ a.pre = "acked" /\ a.post = "acked" /\ ~a.recovery
      /\ a.pc \in Loop \cup {"returned", "ledger", "thrown", "thrownLate"}
PostLocal(a) ==
    InPost(a) =>
      /\ a.post = "none"
      /\ <<a.ret, a.esc>> \in {<<"payload", "payload">>, <<"failures", "thrownLate">>,
            <<"ledger", "thrownLate">>, <<"thrownPost", "idle">>, <<"recAck", "recThrownLate">>,
            <<"idle", "idle">>}
      /\ a.ret = "payload" => a.cur = "sent"
      /\ a.ret \in {"failures", "ledger", "recAck"} => SentBeforeError(a)
SendLocal(a) ==
    /\ MidSend(a) => a.dispatched /\ a.i <= Batch
    /\ ~MidSend(a) => a.cur = "omitted"
    /\ a.pc \in Loop \ {"payload"} => a.i <= Batch
MarkLocal(a) ==
    /\ InLoop(a) /\ a.post # "none" => a.pre # "none"
    /\ a.pc = "startAck" => a.pre = "none"
    /\ a.pc = "handoff" \/ MidSend(a) => a.pre # "none"
FailLocal(a) ==
    a.pc = "fail" => {a.ret, a.esc} \subseteq {"idle", "thrownLate", "recUnknown", "recThrownLate"}
BatchLocal(a) ==
    /\ (InLoop(a) \/ a.pc \in {"returned", "recReturned"}) /\ a.i > 1 => a.outs # {}
    /\ a.pc \in {"returned", "recReturned"} => a.i > Batch
    /\ a.pc \in Fresh => a.outs = {} /\ a.i = 1 /\ a.pre = "none" /\ a.post = "none"
SnapLocal(a) ==
    /\ Holds(a) \/ a.pc = "claim" => a.snap.rs # "unknown"
    /\ RowShape(a.snap)
BeatLocal(a) ==
    /\ InLoop(a) /\ a.id # NoClaim => a.beat \/ a.aborted
    /\ TimersOnTime /\ a.beat /\ a.lease = 0 => a.lost
Local(a) == /\ HoldLocal(a) /\ PostLocal(a) /\ SendLocal(a) /\ FailLocal(a) /\ BatchLocal(a)
            /\ SnapLocal(a) /\ BeatLocal(a) /\ MarkLocal(a)

\* How an activity goes on unless it starts, takes a claim, gets a lease or sends
Identity(a, b) ==
    /\ b.snap \in {a.snap, NoRow} /\ b.id \in {a.id, NoClaim} /\ b.lease \in {a.lease, 0}
    /\ Genuine(b) => Genuine(a) /\ b.id = a.id
    /\ b.pc = "claim" => /\ b.snap = a.snap
                         /\ a.pc \in {"claim", "reconcile"} \/ b.snap.rs # "started"
Looping(a, b) ==
    InLoop(b) =>
      /\ InLoop(a) /\ b.id = a.id /\ b.lease = a.lease /\ (a.lost => b.lost)
      /\ a.aborted => b.aborted
      /\ \/ b.i = a.i /\ (MidSend(b) <=> MidSend(a))
         \/ b.i = a.i + 1 /\ ~MidSend(b)
      /\ a.pre = "acked" => b.pre = "acked"
      /\ a.post # "none" => b.post = a.post
      /\ b.post # a.post => InPost(a) \/ a.pc = "startAck"
Acknowledged(a, b) ==
    /\ b.pre = "acked" => a.pre = "acked" \/ a.pc = "startAck"
    /\ b.post = "acked" => a.post = "acked" \/ a.pc \in {"startAck", "postAck"}
Evidence(a, b) ==
    /\ Telling(b) => Telling(a) /\ b.id = a.id /\ (MaySent(a) => MaySent(b))
    /\ Spotless(b) => b.id = a.id /\ (Spotless(a) \/ (Telling(a) /\ ~MaySent(a)))
Handing(a, b) ==
    b.pc = "handoff" => \/ a.pc = "handoff" /\ SameMarks(a, b) /\ (b.beat => a.beat)
                        \/ a.pc = "dispatch"
Edge(a, b) == /\ b \in Activities /\ Local(b)
              /\ Identity(a, b) /\ Looping(a, b) /\ Acknowledged(a, b) /\ Evidence(a, b)
              /\ Handing(a, b)

\* p changes its own activity only
Moves(p) == proc' = [proc EXCEPT ![p] = proc'[p]]

-----------------------------------------------------------------------------
\* The activity may always end
LEMMA EdgeIdle ==
    ASSUME NEW a \in Activities
    PROVE  Edge(a, Idle)
<1>1. PICK b : b = Idle
  OBVIOUS
<1>2. /\ b \in Activities /\ b.pc = "idle" /\ b.id = NoClaim /\ b.lease = 0 /\ ~b.beat
      /\ b.snap = NoRow /\ b.pre = "none" /\ b.post = "none" /\ b.cur = "omitted"
  BY <1>1, IdleTyped DEF Idle
<1>3. RowShape(b.snap)
  BY <1>2 DEF RowShape, NoRow
<1>4. ~Holds(b) /\ ~InPost(b) /\ ~InLoop(b) /\ ~MidSend(b) /\ ~Telling(b) /\ ~Spotless(b)
  BY <1>2 DEF Holds, Borrowed, InPost, InLoop, Loop, MidSend, Telling, Spotless
<1>5. Local(b)
  BY <1>2, <1>3, <1>4 DEF Local, HoldLocal, PostLocal, SendLocal, FailLocal, BatchLocal,
     SnapLocal, BeatLocal, MarkLocal, Loop, Fresh
<1>6. QED
  BY <1>1, <1>2, <1>4, <1>5 DEF Edge, Identity, Looping, Acknowledged, Evidence, Handing, Genuine

\* A payload that ends keeps the activity in its loop or leaves it with the error
LEMMA EdgeAfter ==
    ASSUME NEW p \in Procs, proc[p] \in Activities, Local(proc[p]),
           proc[p].pc \in Loop \ {"respond"}, proc[p].i <= Batch,
           NEW c \in Outcomes, NEW b, b = After(p, c)
    PROVE  Edge(proc[p], b)
<1>1. PICK a : a = proc[p]
  OBVIOUS
<1>2. /\ b \in Activities /\ b.pc \in {"payload", Escape(a)}
      /\ SameOwner(a, b) /\ SameCaller(a, b) /\ SameMarks(a, b)
      /\ SameReturn(a, b)
      /\ b.i = a.i + 1 /\ b.outs = a.outs \cup {c} /\ b.cur = "omitted"
      /\ b.started = a.started /\ b.dispatched = a.dispatched
  BY <1>1, AfterFields
<1>3. /\ a \in Activities /\ Local(a) /\ a.pc \in Loop \ {"respond"} /\ a.i <= Batch
  BY <1>1
<1> HIDE DEF Activities
<1>4. /\ ~MidSend(a) /\ InLoop(a) /\ Holds(a) /\ ~InPost(a) /\ Telling(a)
  BY <1>3 DEF Loop, MidSend, InPost, InLoop, Holds, Borrowed, Telling
<1>5. /\ ~MidSend(b) /\ ~InPost(b) /\ Holds(b) /\ Telling(b) /\ ~Spotless(b)
      /\ InLoop(b) <=> b.pc = "payload"
  BY <1>2 DEF Loop, MidSend, InPost, InLoop, Holds, Borrowed, Telling, Spotless, Escape
<1>6. Local(b)
  BY <1>2, <1>3, <1>4, <1>5 DEF Local, HoldLocal, PostLocal, SendLocal, FailLocal, BatchLocal,
     SnapLocal, BeatLocal, MarkLocal, Loop, Fresh, Escape, SameOwner, SameCaller, SameMarks
<1>7. Identity(a, b) /\ Looping(a, b) /\ Acknowledged(a, b) /\ Handing(a, b)
  BY <1>2, <1>4, <1>5 DEF Identity, Looping, Acknowledged, Handing, Genuine, Escape,
     SameOwner, SameCaller, SameMarks
<1>8. Evidence(a, b)
  BY <1>2, <1>3, <1>4, <1>5 DEF Evidence, MaySent, SentBeforeError, SameOwner, Local, SendLocal
<1>9. QED
  BY <1>1, <1>2, <1>6, <1>7, <1>8 DEF Edge

\* Where the flow goes without a change but of place
Hops == {<<"markQueued", "startLease">>, <<"markQueued", "dropRow">>, <<"startLease", "recThrown">>,
         <<"payload", "start">>, <<"payload", "returned">>, <<"payload", "recReturned">>,
         <<"start", "startAck">>, <<"dispatch", "handoff">>, <<"handoff", "restore">>,
         <<"postMark", "postAck">>, <<"postMark", "postFail">>, <<"postAck", "postFail">>,
         <<"returned", "failures">>, <<"returned", "ledger">>, <<"ledger", "ack">>,
         <<"ledger", "thrownLate">>, <<"thrown", "thrownPost">>, <<"settle", "finalize">>,
         <<"owner", "ownerAck">>, <<"owner", "reconcile">>, <<"owner", "claim">>,
         <<"reconcile", "sentLedger">>, <<"reconcile", "claim">>, <<"reconcile", "stage">>,
         <<"sentLedger", "sentAck">>, <<"reserve", "startLease">>, <<"recReturned", "recThrown">>,
         <<"recReturned", "recLedger">>, <<"recUnknown", "recThrownLate">>,
         <<"recLedger", "recAck">>, <<"recLedger", "recThrownLate">>}

\* and what has to be known for it
HopGuard(a, pc) ==
    /\ pc \in {"failures", "ack", "thrownPost"} => a.id # NoClaim
    /\ pc = "start" => a.i <= Batch
    /\ pc = "startAck" => a.pre = "none"
    /\ pc = "handoff" => a.pre # "none"
    /\ pc \in {"returned", "recReturned"} => a.i > Batch
    /\ pc = "recReturned" => a.recovery
    /\ pc = "restore" => a.recovery /\ ~a.dispatched
    /\ pc = "claim" => a.snap.rs # "unknown" /\ (a.pc = "reconcile" \/ a.snap.rs # "started")

\* A change of place along Hops that keeps everything else is an edge
LEMMA EdgeHop ==
    ASSUME NEW a \in Activities, Local(a), NEW b \in Activities, <<a.pc, b.pc>> \in Hops,
           HopGuard(a, b.pc),
           SameOwner(a, b), SameCaller(a, b), SameMarks(a, b), SameBatch(a, b), SameReturn(a, b)
    PROVE  Edge(a, b)
<1> USE DEF SameOwner, SameCaller, SameMarks, SameBatch, SameReturn
<1>1. Holds(b) => Holds(a)
  BY DEF Holds, Borrowed, Hops
<1>2. /\ InPost(b) => InPost(a)
      /\ InLoop(b) => InLoop(a)
      /\ MidSend(b) <=> MidSend(a)
      /\ InLoop(a) /\ ~InLoop(b) => ~MidSend(a)
  BY DEF Hops, InPost, InLoop, MidSend, Loop
<1>3. Telling(b) => Telling(a)
  BY DEF Hops, Telling, InPost, Loop
<1>4. Spotless(b) => a.pc = "handoff" /\ b.pc = "restore"
  BY DEF Spotless, Hops
<1>5. HoldLocal(b)
  BY <1>1 DEF Local, HoldLocal, HopGuard, Hops, Loop, Holds, Borrowed
<1>6. PostLocal(b) /\ SendLocal(b)
  BY <1>2 DEF Local, PostLocal, SendLocal, SentBeforeError, HopGuard, Hops, Loop
<1>7. FailLocal(b) /\ BatchLocal(b)
  <2>1. FailLocal(b)
    BY DEF FailLocal, Hops
  <2>2. b.pc \in Fresh => a.pc \in Fresh
    BY DEF Fresh, Hops
  <2>3. b.pc \in {"returned", "recReturned"} => InLoop(a) /\ a.i > Batch
    BY DEF Hops, HopGuard, InLoop, Loop
  <2>4. QED
    BY <1>2, <2>1, <2>2, <2>3 DEF Local, BatchLocal
<1>8. SnapLocal(b) /\ BeatLocal(b) /\ MarkLocal(b)
  BY <1>1, <1>2 DEF Local, SnapLocal, BeatLocal, MarkLocal, HopGuard
<1>9. Identity(a, b) /\ Looping(a, b) /\ Acknowledged(a, b)
  BY <1>1, <1>2 DEF Identity, Looping, Acknowledged, Genuine, HopGuard, Hops
<1>10. Handing(a, b)
  BY DEF Handing, Hops
<1>11. Evidence(a, b)
  <2>1. MaySent(a) => MaySent(b)
    BY <1>2 DEF MaySent, SentBeforeError
  <2>2. b.pc = "restore" => InLoop(a) /\ ~MaySent(a) /\ Telling(a)
    BY <1>4 DEF MaySent, HopGuard, InLoop, Telling, Hops, Loop
  <2>3. QED
    BY <1>3, <1>4, <2>1, <2>2 DEF Evidence, Spotless
<1>12. QED
  BY <1>5, <1>6, <1>7, <1>8, <1>9, <1>10, <1>11 DEF Edge, Local

\* The adapter's answer ends the payload
LEMMA EdgeAnswer ==
    ASSUME NEW p \in Procs, proc[p] \in Activities, Local(proc[p]), proc[p].pc = "respond",
           NEW b, b = After(p, proc[p].cur)
    PROVE  Edge(proc[p], b)
<1>1. PICK a : a = proc[p]
  OBVIOUS
<1>2. /\ a \in Activities /\ Local(a) /\ a.pc = "respond" /\ a.cur \in Outcomes
  BY <1>1 DEF Activities
<1>3. /\ MidSend(a) /\ InLoop(a) /\ Holds(a) /\ ~InPost(a) /\ Telling(a)
  BY <1>2 DEF Loop, MidSend, InPost, InLoop, Holds, Borrowed, Telling
<1>4. a.i <= Batch /\ a.dispatched
  BY <1>2, <1>3 DEF Local, SendLocal
<1>5. /\ b \in Activities /\ b.pc \in {"payload", Escape(a)}
      /\ SameOwner(a, b) /\ SameCaller(a, b) /\ SameMarks(a, b) /\ SameReturn(a, b)
      /\ b.i = a.i + 1 /\ b.outs = a.outs \cup {a.cur} /\ b.cur = "omitted"
      /\ b.started = a.started /\ b.dispatched = a.dispatched
  <2>1. PICK c : c = a.cur
    OBVIOUS
  <2>2. b = After(p, c) /\ c \in Outcomes /\ proc[p].i <= Batch
    BY <1>1, <1>2, <1>4, <2>1
  <2>3. QED
    BY <1>1, <2>1, <2>2, AfterFields
<1>6. /\ ~MidSend(b) /\ ~InPost(b) /\ Holds(b) /\ Telling(b) /\ ~Spotless(b)
      /\ InLoop(b) <=> b.pc = "payload"
  BY <1>5 DEF Loop, MidSend, InPost, InLoop, Holds, Borrowed, Telling, Spotless, Escape
<1>7. Local(b)
  BY <1>2, <1>3, <1>5, <1>6 DEF Local, HoldLocal, PostLocal, SendLocal, FailLocal, BatchLocal,
     SnapLocal, BeatLocal, MarkLocal, Loop, Fresh, Escape, SameOwner, SameCaller, SameMarks
<1>8. Identity(a, b) /\ Looping(a, b) /\ Acknowledged(a, b) /\ Handing(a, b)
  BY <1>3, <1>5, <1>6 DEF Identity, Looping, Acknowledged, Handing, Genuine, Escape,
     SameOwner, SameCaller, SameMarks
<1>9. Evidence(a, b)
  <2>1. SentBeforeError(a) => SentBeforeError(b)
    BY <1>5 DEF SentBeforeError
  <2>2. ASSUME a.cur \in {"sent", "noIdentity", "ambiguous"} PROVE SentBeforeError(b)
    <3>1. a.cur \in b.outs
      BY <1>5
    <3>2. QED
      BY <2>2, <3>1 DEF SentBeforeError
  <2>3. QED
    BY <1>3, <1>4, <1>5, <1>6, <2>1, <2>2 DEF Evidence, MaySent, SameOwner
<1>10. QED
  BY <1>1, <1>5, <1>7, <1>8, <1>9 DEF Edge

\* The send begins with the marks it was prepared with
LEMMA EdgeBegin ==
    ASSUME NEW p \in Procs, proc[p] \in Activities, Local(proc[p]),
           proc[p].pc \in {"start", "startAck"},
           NEW pre \in {"none", "marked", "acked"},
           NEW post \in {"none", "marked", "acked", "failed"},
           proc[p].pc = "start" => post = proc[p].post /\ (pre = proc[p].pre \/ pre = "marked"),
           proc[p].pc = "start" /\ proc[p].pre = "acked" => pre = "acked",
           proc[p].pc = "startAck" => pre = "acked" /\ post \in {proc[p].post, "acked"}
                                        /\ (proc[p].post # "none" => post = proc[p].post),
           NEW b, b = Begin(p, pre, post)
    PROVE  Edge(proc[p], b)
<1>1. PICK a : a = proc[p]
  OBVIOUS
<1>2. /\ a \in Activities /\ Local(a) /\ a.pc \in {"start", "startAck"} /\ a.i <= Batch
  BY <1>1 DEF Local, SendLocal, Loop
<1>3. /\ ~MidSend(a) /\ InLoop(a) /\ Holds(a) /\ ~InPost(a) /\ Telling(a)
  BY <1>2 DEF Loop, MidSend, InPost, InLoop, Holds, Borrowed, Telling
<1>4. a.cur = "omitted"
  BY <1>2, <1>3 DEF Local, SendLocal
<1>5. /\ b \in Activities
      /\ SameOwner(a, b) /\ SameCaller(a, b) /\ SameReturn(a, b)
      /\ b.pre = pre /\ b.post = post /\ b.dispatched = a.dispatched
      /\ b.cur = "omitted" /\ b.pc \in {"payload", "dispatch", Escape(a)}
      /\ \/ b.pc # "dispatch" /\ b.i = a.i + 1 /\ b.outs = a.outs \cup {"early"}
         \/ b.pc = "dispatch" /\ b.i = a.i /\ b.outs = a.outs
  BY <1>1, <1>2, <1>4, BeginFields DEF Escape
<1>6. /\ ~MidSend(b) /\ ~InPost(b) /\ Holds(b) /\ Telling(b) /\ ~Spotless(b)
      /\ InLoop(b) <=> b.pc \in {"payload", "dispatch"}
  BY <1>5 DEF Loop, MidSend, InPost, InLoop, Holds, Borrowed, Telling, Spotless, Escape
<1>7. /\ a.post # "none" => b.post = a.post
      /\ a.pre = "acked" => b.pre = "acked"
      /\ b.post # a.post => a.pc = "startAck"
      /\ b.pre = "acked" => a.pre = "acked" \/ a.pc = "startAck"
      /\ b.post = "acked" => a.post = "acked" \/ a.pc = "startAck"
      /\ b.post # "none" => b.pre # "none"
  BY <1>1, <1>2, <1>3, <1>5 DEF Local, MarkLocal
<1>8. HoldLocal(b)
  BY <1>2, <1>3, <1>5, <1>7 DEF Local, HoldLocal, SameOwner, Escape, Loop
<1>9. Local(b)
  BY <1>2, <1>3, <1>5, <1>6, <1>7, <1>8 DEF Local, PostLocal, SendLocal, FailLocal, BatchLocal,
     SnapLocal, BeatLocal, MarkLocal, Loop, Fresh, Escape, SameOwner, SameCaller
<1>10. Identity(a, b) /\ Looping(a, b) /\ Acknowledged(a, b) /\ Handing(a, b)
  BY <1>3, <1>5, <1>6, <1>7 DEF Identity, Looping, Acknowledged, Handing, Genuine, Escape,
     SameOwner, SameCaller
<1>11. Evidence(a, b)
  BY <1>4, <1>3, <1>5, <1>6 DEF Evidence, MaySent, SentBeforeError, SameOwner
<1>12. QED
  BY <1>1, <1>5, <1>9, <1>10, <1>11 DEF Edge

\* The evidence of a send is to be recorded
LEMMA EdgePersist ==
    ASSUME NEW p \in Procs, proc[p] \in Activities, Local(proc[p]), NEW good, NEW bad,
           proc[p].post = "none", Holds(proc[p]),
           \/ good = "payload" /\ bad = "payload" /\ proc[p].pc = "respond" /\ proc[p].cur = "sent"
           \/ good \in {"failures", "ledger"} /\ bad = "thrownLate" /\ proc[p].pc = "returned"
                /\ SentBeforeError(proc[p])
           \/ good = "thrownPost" /\ bad = "idle" /\ proc[p].pc = "thrown"
           \/ good = "recAck" /\ bad = "recThrownLate" /\ proc[p].pc = "recLedger"
                /\ SentBeforeError(proc[p])
           \/ good = "idle" /\ bad = "idle" /\ proc[p].pc \in {"recThrown", "recThrownLate"},
           NEW b, b = Persist(p, good, bad)
    PROVE  Edge(proc[p], b)
<1>1. PICK a : a = proc[p]
  OBVIOUS
<1>2. good \in Pcs /\ bad \in Pcs
  BY DEF Pcs, Loop, PcLive, PcRecovery, PcShared
<1>3. /\ a \in Activities /\ Local(a) /\ a.post = "none" /\ Holds(a) /\ ~InPost(a)
      /\ a.pc \in {"respond", "returned", "thrown", "recLedger", "recThrown", "recThrownLate"}
      /\ MidSend(a) <=> a.pc = "respond"
      /\ InLoop(a) <=> a.pc = "respond"
  BY <1>1 DEF MidSend, InPost, InLoop, Loop
<1>4. /\ b \in Activities /\ b.pc = "postMark"
      /\ SameOwner(a, b) /\ SameCaller(a, b) /\ SameMarks(a, b)
      /\ SameBatch(a, b) /\ b.ret = good /\ b.esc = bad
  BY <1>1, <1>2, PersistFields
<1>5. /\ Holds(b) /\ InPost(b) /\ ~Spotless(b)
      /\ MidSend(b) <=> good = "payload"
      /\ InLoop(b) <=> good = "payload"
      /\ Telling(b) <=> good \in {"payload", "failures", "ledger", "recAck"}
  BY <1>4 DEF Holds, Borrowed, InPost, Spotless, MidSend, InLoop, Telling, Loop
<1>6. a.id # NoClaim
  BY <1>3 DEF Local, HoldLocal
<1>7. (good = "payload" <=> a.pc = "respond") /\ (Telling(b) => Telling(a))
  BY <1>1, <1>5 DEF Telling, Loop
<1>8. PostLocal(b)
  BY <1>1, <1>3, <1>4 DEF PostLocal, SameMarks, SameBatch, SentBeforeError
<1>9. SendLocal(b)
  BY <1>3, <1>4, <1>5, <1>7 DEF Local, SendLocal, SameBatch, Loop
<1>10. Local(b)
  BY <1>3, <1>4, <1>5, <1>6, <1>7, <1>8, <1>9 DEF Local, HoldLocal, FailLocal, BatchLocal,
     SnapLocal, BeatLocal, MarkLocal, Fresh, SameOwner, SameCaller, SameMarks, SameBatch
<1>11. Identity(a, b) /\ Looping(a, b) /\ Acknowledged(a, b) /\ Handing(a, b)
  BY <1>3, <1>4, <1>5, <1>6, <1>7 DEF Identity, Looping, Acknowledged, Handing, Genuine,
     SameOwner, SameCaller, SameMarks, SameBatch
<1>12. Evidence(a, b)
  BY <1>3, <1>4, <1>5, <1>7 DEF Evidence, MaySent, SentBeforeError, SameOwner, SameBatch
<1>13. QED
  BY <1>1, <1>4, <1>10, <1>11, <1>12 DEF Edge

\* The evidence is recorded
LEMMA EdgePersisted ==
    ASSUME NEW p \in Procs, proc[p] \in Activities, Local(proc[p]), InPost(proc[p]),
           NEW state \in {"marked", "acked", "failed"}, state = "acked" => proc[p].pc = "postAck",
           NEW b, b = Persisted(p, state)
    PROVE  Edge(proc[p], b)
<1>1. PICK a : a = proc[p]
  OBVIOUS
<1>2. a \in Activities /\ Local(a) /\ InPost(a)
  BY <1>1
<1>3. /\ a.post = "none"
      /\ a.ret \in {"payload", "failures", "ledger", "thrownPost", "recAck", "idle"}
      /\ a.ret = "payload" => a.cur = "sent"
  BY <1>2 DEF Local, PostLocal
<1>4. /\ Holds(a) /\ (InLoop(a) <=> a.ret = "payload") /\ (MidSend(a) <=> a.ret = "payload")
      /\ Telling(a) <=> a.ret \in {"payload", "failures", "ledger", "recAck"}
  BY <1>2 DEF Holds, Borrowed, InPost, InLoop, MidSend, Telling, Loop
<1>5. a.ret = "payload" => a.i <= Batch /\ a.dispatched
  BY <1>2, <1>4 DEF Local, SendLocal
<1>6. a.id # NoClaim
  BY <1>2, <1>4 DEF Local, HoldLocal, InPost, Loop
<1>7. CASE b = Idle
  BY <1>2, <1>7, EdgeIdle, <1>1
<1>8. CASE b # Idle
  <2>1. /\ b \in Activities
        /\ SameOwner(a, b) /\ SameCaller(a, b) /\ b.pre = a.pre
        /\ b.post = state /\ b.ret = "idle" /\ b.esc = "idle" /\ b.dispatched = a.dispatched
        /\ \/ a.ret # "payload" /\ b.pc = a.ret /\ SameBatch(a, b)
           \/ /\ a.ret = "payload" /\ b.pc \in {"payload", Escape(a)}
              /\ b.i = a.i + 1 /\ b.outs = a.outs \cup {"sent"} /\ b.cur = "omitted"
    BY <1>1, <1>5, <1>8, PersistedFields
  <2>2. b.pc \in {"payload", "thrown", "recThrown", "failures", "ledger", "thrownPost", "recAck",
                  "idle"}
    BY <1>3, <2>1 DEF Escape
  <2>3. b.pc # "idle"
    <3>1. a.ret # "idle"
      <4>1. a.ret = "idle" => Persisted(p, state) = Idle
        BY <1>1, ToIdle, IdleTyped DEF Persisted
      <4>2. QED
        BY <1>8, <4>1
    <3>2. QED
      BY <1>3, <2>1, <3>1 DEF Escape
  <2>4. /\ ~MidSend(b) /\ ~InPost(b) /\ Holds(b) /\ ~Spotless(b)
        /\ InLoop(b) <=> b.pc = "payload"
        /\ Telling(b) => Telling(a)
    <3>1. /\ ~MidSend(b) /\ ~InPost(b) /\ Holds(b) /\ ~Spotless(b)
          /\ InLoop(b) <=> b.pc = "payload"
          /\ Telling(b) <=> b.pc # "thrownPost"
      BY <2>2, <2>3 DEF Loop, MidSend, InPost, InLoop, Holds, Borrowed, Telling, Spotless
    <3>2. b.pc # "thrownPost" => a.ret \in {"payload", "failures", "ledger", "recAck"}
      BY <1>3, <2>1, <2>3
    <3>3. QED
      BY <1>4, <3>1, <3>2
  <2>5. InLoop(b) => InLoop(a)
    BY <1>3, <1>4, <2>1, <2>4
  <2>6. b.cur = "omitted"
    BY <1>2, <1>4, <2>1 DEF Local, SendLocal, SameBatch
  <2>7. InLoop(b) => b.i = a.i + 1 /\ b.outs = a.outs \cup {"sent"}
    BY <2>1, <2>4, <2>5, <1>4
  <2>8. Local(b)
    <3>1. HoldLocal(b)
      BY <1>6, <2>1 DEF HoldLocal, SameOwner
    <3>2. PostLocal(b) /\ SendLocal(b) /\ FailLocal(b)
      BY <2>2, <2>4, <2>6 DEF PostLocal, SendLocal, FailLocal, Loop
    <3>3. BatchLocal(b)
      BY <2>2, <2>4, <2>7 DEF BatchLocal, Fresh
    <3>4. SnapLocal(b) /\ BeatLocal(b)
      BY <1>2, <1>4, <2>1, <2>2, <2>5 DEF Local, SnapLocal, BeatLocal, SameOwner, SameCaller
    <3>5. MarkLocal(b)
      BY <1>2, <1>4, <2>1, <2>2, <2>4, <2>5 DEF Local, MarkLocal, SameMarks
    <3>6. QED
      BY <3>1, <3>2, <3>3, <3>4, <3>5 DEF Local
  <2>9. Identity(a, b) /\ Handing(a, b)
    BY <1>4, <1>6, <2>1, <2>2 DEF Identity, Handing, Genuine, SameOwner, SameCaller
  <2>10. Looping(a, b)
    BY <1>2, <1>3, <2>1, <2>4, <2>5, <2>7 DEF Looping, SameOwner, SameCaller
  <2>11. Acknowledged(a, b)
    BY <1>1, <2>1 DEF Acknowledged
  <2>12. Evidence(a, b)
    <3>1. MaySent(a) => MaySent(b)
      <4>1. CASE a.ret = "payload"
        BY <1>5, <2>1, <4>1 DEF MaySent, SentBeforeError
      <4>2. CASE a.ret # "payload"
        BY <1>2, <1>4, <2>1, <2>5, <4>2 DEF MaySent, SentBeforeError, SameBatch
      <4>3. QED
        BY <4>1, <4>2
    <3>2. QED
      BY <2>1, <2>4, <3>1 DEF Evidence, SameOwner
  <2>13. QED
    BY <1>1, <2>1, <2>8, <2>9, <2>10, <2>11, <2>12 DEF Edge
<1>9. QED
  BY <1>7, <1>8

\* The evidence could not be recorded
LEMMA EdgeUnpersisted ==
    ASSUME NEW p \in Procs, proc[p] \in Activities, Local(proc[p]), InPost(proc[p]),
           NEW b, b = Unpersisted(p)
    PROVE  Edge(proc[p], b)
<1>1. PICK a : a = proc[p]
  OBVIOUS
<1>2. a \in Activities /\ Local(a) /\ InPost(a)
  BY <1>1
<1>3. /\ a.post = "none"
      /\ a.esc \in {"payload", "thrownLate", "recThrownLate", "idle"}
      /\ a.ret = "payload" => a.cur = "sent"
      /\ a.ret = "payload" <=> a.esc = "payload"
  BY <1>2 DEF Local, PostLocal
<1>4. /\ Holds(a) /\ (InLoop(a) <=> a.ret = "payload") /\ (MidSend(a) <=> a.ret = "payload")
      /\ a.ret = "payload" => Telling(a)
  BY <1>2 DEF Holds, Borrowed, InPost, InLoop, MidSend, Telling, Loop
<1>5. a.ret = "payload" => a.i <= Batch /\ a.dispatched
  BY <1>2, <1>4 DEF Local, SendLocal
<1>6. a.id # NoClaim
  BY <1>2, <1>4 DEF Local, HoldLocal, InPost, Loop
<1>7. CASE b = Idle
  BY <1>2, <1>7, EdgeIdle, <1>1
<1>8. CASE b # Idle
  <2>1. /\ b \in Activities
        /\ SameOwner(a, b) /\ SameCaller(a, b) /\ SameMarks(a, b)
        /\ b.ret = "idle" /\ b.esc = "idle" /\ b.dispatched = a.dispatched
        /\ \/ a.ret # "payload" /\ b.pc = a.esc /\ SameBatch(a, b)
           \/ /\ a.ret = "payload" /\ b.pc \in {"payload", Escape(a)}
              /\ b.i = a.i + 1 /\ b.outs = a.outs \cup {"partial"} /\ b.cur = "omitted"
    BY <1>1, <1>5, <1>8, UnpersistedFields
  <2>2. /\ b.pc \in {"payload", "thrown", "recThrown", "thrownLate", "recThrownLate", "idle"}
        /\ b.pc \in {"payload", "thrown", "recThrown"} => a.ret = "payload"
    BY <1>3, <2>1 DEF Escape
  <2>3. b.pc # "idle"
    <3>1. a.ret = "payload" \/ a.esc # "idle"
      <4>1. a.ret # "payload" /\ a.esc = "idle" => Unpersisted(p) = Idle
        BY <1>1, ToIdle, IdleTyped DEF Unpersisted
      <4>2. QED
        BY <1>8, <4>1
    <3>2. QED
      BY <1>3, <2>1, <3>1 DEF Escape
  <2>4. /\ ~MidSend(b) /\ ~InPost(b) /\ Holds(b) /\ ~Spotless(b)
        /\ InLoop(b) <=> b.pc = "payload"
        /\ Telling(b) => a.ret = "payload"
    BY <2>2, <2>3 DEF Loop, MidSend, InPost, InLoop, Holds, Borrowed, Telling, Spotless
  <2>5. InLoop(b) => InLoop(a)
    BY <1>4, <2>2, <2>4
  <2>6. b.cur = "omitted"
    BY <1>2, <1>4, <2>1 DEF Local, SendLocal, SameBatch
  <2>7. InLoop(b) => b.i = a.i + 1 /\ b.outs = a.outs \cup {"partial"}
    BY <2>1, <2>4, <2>5, <1>4
  <2>8. Local(b)
    <3>1. HoldLocal(b)
      BY <1>6, <2>1 DEF HoldLocal, SameOwner
    <3>2. PostLocal(b) /\ SendLocal(b) /\ FailLocal(b)
      BY <2>2, <2>4, <2>6 DEF PostLocal, SendLocal, FailLocal, Loop
    <3>3. BatchLocal(b)
      BY <2>2, <2>4, <2>7 DEF BatchLocal, Fresh
    <3>4. SnapLocal(b) /\ BeatLocal(b)
      BY <1>2, <1>4, <2>1, <2>2, <2>5 DEF Local, SnapLocal, BeatLocal, SameOwner, SameCaller
    <3>5. MarkLocal(b)
      BY <1>2, <1>4, <2>1, <2>2, <2>4, <2>5 DEF Local, MarkLocal, SameMarks
    <3>6. QED
      BY <3>1, <3>2, <3>3, <3>4, <3>5 DEF Local
  <2>9. Identity(a, b) /\ Handing(a, b)
    BY <1>4, <1>6, <2>1, <2>2 DEF Identity, Handing, Genuine, SameOwner, SameCaller
  <2>10. Looping(a, b)
    BY <1>2, <1>3, <2>1, <2>4, <2>5, <2>7 DEF Looping, SameOwner, SameCaller, SameMarks
  <2>11. Acknowledged(a, b)
    BY <1>1, <2>1 DEF Acknowledged, SameMarks
  <2>12. Evidence(a, b)
    <3>1. a.ret = "payload" => MaySent(b)
      BY <1>5, <2>1 DEF MaySent, SentBeforeError
    <3>2. QED
      BY <1>4, <2>1, <2>4, <3>1 DEF Evidence, SameOwner
  <2>13. QED
    BY <1>1, <2>1, <2>8, <2>9, <2>10, <2>11, <2>12 DEF Edge
<1>9. QED
  BY <1>7, <1>8

\* The activity is left with its last operation
LEMMA EdgeBare ==
    ASSUME NEW a \in Activities, Local(a), NEW b \in Activities, SameOwner(a, b), Bare(b),
           b.pc \in {"dropRow", "stage", "fail"},
           Holds(b) => Genuine(a),
           Spotless(b) => Telling(a) /\ ~MaySent(a)
    PROVE  Edge(a, b)
<1>1. RowShape(b.snap) /\ b.snap.rs # "unknown"
  BY DEF RowShape, NoRow, Bare
<1>2. /\ ~MidSend(b) /\ ~InPost(b) /\ ~InLoop(b) /\ ~Telling(b)
  BY DEF MidSend, InPost, InLoop, Telling, Loop
<1>3. Local(b)
  BY <1>1, <1>2 DEF Local, HoldLocal, PostLocal, SendLocal, FailLocal, BatchLocal,
     SnapLocal, BeatLocal, MarkLocal, Fresh, Loop, Bare, SameOwner, Genuine
<1>4. QED
  BY <1>2, <1>3 DEF Edge, Identity, Looping, Acknowledged, Evidence, Handing, Genuine,
     SameOwner, Bare

\* A failure is recorded
LEMMA EdgeFailing ==
    ASSUME NEW p \in Procs, proc[p] \in Activities, Local(proc[p]),
           NEW how \in {"plain", "before", "after"},
           NEW good \in {"idle", "thrownLate", "recUnknown", "recThrownLate"},
           NEW bad \in {"idle", "thrownLate", "recUnknown", "recThrownLate"},
           ~(how = "plain" /\ good = "idle" /\ bad = "idle") => Genuine(proc[p]),
           ~(good = "idle" /\ bad = "idle") => ~MidSend(proc[p]),
           how = "before" => Telling(proc[p]) /\ ~MaySent(proc[p]),
           NEW b, b = Failing(p, how, good, bad)
    PROVE  Edge(proc[p], b)
<1>1. PICK a : a = proc[p]
  OBVIOUS
<1>2. a \in Activities /\ Local(a)
  BY <1>1
<1>3. good \in Pcs /\ bad \in Pcs
  BY DEF Pcs, PcLive, PcRecovery, PcShared
<1>4. /\ b \in Activities /\ b.pc = "fail" /\ b.how = how /\ SameOwner(a, b)
      /\ b.ret = good /\ b.esc = bad
      /\ \/ good = "idle" /\ bad = "idle" /\ Bare(b)
         \/ /\ ~(good = "idle" /\ bad = "idle")
            /\ SameCaller(a, b) /\ SameMarks(a, b) /\ SameBatch(a, b)
  BY <1>1, <1>3, FailingFields
<1>5. /\ Holds(b) => Genuine(a)
      /\ Spotless(b) => Telling(a) /\ ~MaySent(a)
  BY <1>1, <1>4 DEF Holds, Borrowed, Spotless
<1>6. CASE Bare(b)
  BY <1>1, <1>2, <1>4, <1>5, <1>6, EdgeBare
<1>7. CASE ~Bare(b)
  <2>1. /\ SameCaller(a, b) /\ SameMarks(a, b) /\ SameBatch(a, b) /\ Genuine(a) /\ ~MidSend(a)
    BY <1>1, <1>4, <1>7
  <2>2. /\ ~MidSend(b) /\ ~InPost(b) /\ ~InLoop(b) /\ ~Telling(b)
    BY <1>4 DEF MidSend, InPost, InLoop, Telling, Loop
  <2>3. Local(b)
    BY <1>2, <1>4, <2>1, <2>2 DEF Local, HoldLocal, PostLocal, SendLocal, FailLocal, BatchLocal,
       SnapLocal, BeatLocal, MarkLocal, Fresh, Loop, SameOwner, SameCaller, SameBatch, Genuine
  <2>4. QED
    BY <1>1, <1>4, <1>5, <2>1, <2>2, <2>3 DEF Edge, Identity, Looping, Acknowledged, Evidence,
       Handing, Genuine, SameOwner, SameCaller, SameMarks
<1>8. QED
  BY <1>6, <1>7

\* What was recorded as failed is over or goes on where it has to
LEMMA EdgeFailed ==
    ASSUME NEW p \in Procs, proc[p] \in Activities, Local(proc[p]), proc[p].pc = "fail",
           NEW pc \in {proc[p].ret, proc[p].esc}, NEW b, b = To(p, pc)
    PROVE  Edge(proc[p], b)
<1>1. PICK a : a = proc[p]
  OBVIOUS
<1>2. a \in Activities /\ Local(a) /\ a.pc = "fail" /\ pc \in {a.ret, a.esc}
  BY <1>1
<1>3. pc \in {"idle", "thrownLate", "recUnknown", "recThrownLate"}
  BY <1>2 DEF Local, FailLocal
<1>4. CASE pc = "idle"
  BY <1>1, <1>2, <1>4, ToIdle, EdgeIdle
<1>5. CASE pc # "idle"
  <2>1. Holds(a) /\ ~MidSend(a)
    BY <1>2, <1>5 DEF Holds, Borrowed, MidSend, InPost
  <2>2. a.id # NoClaim /\ a.cur = "omitted" /\ a.snap.rs # "unknown"
    BY <1>2, <2>1 DEF Local, HoldLocal, SendLocal, SnapLocal, Loop
  <2>3. /\ b \in Activities /\ b.pc = pc /\ SameOwner(a, b) /\ SameCaller(a, b)
        /\ SameMarks(a, b) /\ SameBatch(a, b)
    <3>1. pc \in Pcs
      BY <1>3 DEF Pcs, PcShared, PcLive, PcRecovery
    <3>2. QED
      BY <1>1, <1>5, <3>1, ToFields
  <2>4. /\ Holds(b) /\ ~InPost(b) /\ ~MidSend(b) /\ ~InLoop(b) /\ ~Telling(b) /\ ~Spotless(b)
    BY <1>3, <1>5, <2>3 DEF Holds, Borrowed, InPost, MidSend, InLoop, Telling, Spotless, Loop
  <2>5. Local(b)
    BY <1>2, <1>3, <2>2, <2>3, <2>4 DEF Local, HoldLocal, PostLocal, SendLocal, FailLocal,
       BatchLocal, SnapLocal, BeatLocal, MarkLocal, Fresh, Loop, SameOwner, SameCaller, SameBatch
  <2>6. QED
    BY <1>1, <1>3, <2>1, <2>2, <2>3, <2>4, <2>5 DEF Edge, Identity, Looping, Acknowledged,
       Evidence, Handing, Genuine, SameOwner, SameCaller, SameMarks
<1>6. QED
  BY <1>4, <1>5

\* Nothing but the lease, the caller's wish or the mark of a dispatch changes
LEMMA EdgeNote ==
    ASSUME NEW a \in Activities, Local(a), NEW b \in Activities, b.pc = a.pc \/ (a.pc = "dispatch" /\ b.pc = "handoff"),
           b.recovery = a.recovery, b.id = a.id, b.lease = a.lease, b.snap = a.snap,
           a.lost => b.lost, a.aborted => b.aborted, b.beat => a.beat,
           a.beat /\ ~b.beat => b.aborted,
           SameBatch(a, b), SameReturn(a, b), b.post = a.post,
           a.pc = "dispatch" /\ b.pc = "handoff" => b.pre # "none",
           b.pre = a.pre \/ (a.pc = "dispatch" /\ a.pre # "acked" /\ b.pre = "marked")
    PROVE  Edge(a, b)
<1> USE DEF SameBatch, SameReturn
<1>1. /\ Holds(b) <=> Holds(a)
      /\ InPost(b) <=> InPost(a)
  BY DEF Holds, Borrowed, InPost
<1>2. /\ InLoop(b) <=> InLoop(a)
      /\ MidSend(b) <=> MidSend(a)
      /\ Telling(b) <=> Telling(a)
      /\ Spotless(b) <=> Spotless(a)
  BY <1>1 DEF InPost, InLoop, MidSend, Telling, Loop, Spotless
<1>3. MaySent(a) <=> MaySent(b)
  BY <1>2 DEF MaySent, SentBeforeError
<1>4. HoldLocal(b)
  BY <1>1 DEF Local, HoldLocal, Loop
<1>5. PostLocal(b) /\ SendLocal(b)
  BY <1>1, <1>2 DEF Local, PostLocal, SendLocal, SentBeforeError, Loop
<1>6. FailLocal(b) /\ BatchLocal(b)
  BY <1>2 DEF Local, FailLocal, BatchLocal, Fresh
<1>7. SnapLocal(b) /\ BeatLocal(b) /\ MarkLocal(b)
  BY <1>1, <1>2 DEF Local, SnapLocal, BeatLocal, MarkLocal
<1>8. Identity(a, b) /\ Looping(a, b)
  BY <1>1, <1>2 DEF Identity, Looping, Genuine
<1>9. Acknowledged(a, b) /\ Handing(a, b)
  BY DEF Acknowledged, Handing, SameMarks
<1>10. Evidence(a, b)
  BY <1>2, <1>3 DEF Evidence
<1>11. QED
  BY <1>4, <1>5, <1>6, <1>7, <1>8, <1>9, <1>10 DEF Edge, Local

\* A staged settlement goes on without a claim
LEMMA EdgeSettling ==
    ASSUME NEW a \in Activities, NEW v \in BOOLEAN,
           NEW b, b = [Idle EXCEPT !.pc = "settle", !.rejected = v]
    PROVE  Edge(a, b)
<1>1. /\ b \in Activities /\ b.pc = "settle" /\ b.id = NoClaim /\ b.lease = 0 /\ ~b.beat
      /\ Bare(b)
  BY SettlingFields
<1>2. RowShape(b.snap)
  BY <1>1 DEF RowShape, NoRow, Bare
<1>3. ~Holds(b) /\ ~InPost(b) /\ ~InLoop(b) /\ ~MidSend(b) /\ ~Telling(b) /\ ~Spotless(b)
  BY <1>1 DEF Holds, Borrowed, InPost, InLoop, Loop, MidSend, Telling, Spotless
<1>4. Local(b)
  BY <1>1, <1>2, <1>3 DEF Local, HoldLocal, PostLocal, SendLocal, FailLocal, BatchLocal,
     SnapLocal, BeatLocal, MarkLocal, Loop, Fresh, Bare
<1>5. QED
  BY <1>1, <1>3, <1>4 DEF Edge, Identity, Looping, Acknowledged, Evidence, Handing, Genuine, Bare

-----------------------------------------------------------------------------
(* Every step of a process moves its activity along an edge.               *)

Known(p) == p \in Procs /\ proc \in [Procs -> Activities] /\ Local(proc[p])
Walks(p) == Moves(p) /\ Edge(proc[p], proc'[p])

\* A known process is typed and satisfies what a process knows by itself
LEMMA KnownTyped ==
    ASSUME NEW p, Known(p)
    PROVE  p \in Procs /\ proc[p] \in Activities /\ Local(proc[p])
BY DEF Known

\* Become changes the activity of its own process, to the given one
LEMMA BecomeMoves ==
    ASSUME NEW p, Known(p), NEW b, Become(p, b)
    PROVE  Moves(p) /\ proc'[p] = b
BY DEF Known, Become, Moves

\* Become with an edge is a walk
LEMMA BecomeWalks ==
    ASSUME NEW p, Known(p), NEW b, Become(p, b), Edge(proc[p], b)
    PROVE  Walks(p)
BY BecomeMoves DEF Walks

\* A write or a patch ends in one of two ways for the process
LEMMA WriteEnds ==
    ASSUME NEW p, NEW cond, NEW new, NEW good, NEW bad, WriteIf(p, cond, new, good, bad)
    PROVE  Become(p, good) \/ Become(p, bad)
BY DEF WriteIf, Write, Refuse

\* settleDeliveryCompletion ends for the process in one of the two ways it is
\* given, whether the ledger was written or not
LEMMA PatchEnds ==
    ASSUME NEW p, NEW state, NEW good, NEW bad, SettleLedger(p, state, good, bad)
    PROVE  Become(p, good) \/ Become(p, bad)
BY DEF SettleLedger

\* A process may always end its activity
LEMMA IdleWalks ==
    ASSUME NEW p, Known(p), Become(p, Idle)
    PROVE  Walks(p)
BY KnownTyped, EdgeIdle, BecomeWalks

\* A hop is an edge
LEMMA HopWalks ==
    ASSUME NEW p, Known(p), NEW pc, <<proc[p].pc, pc>> \in Hops, HopGuard(proc[p], pc),
           Become(p, To(p, pc))
    PROVE  Walks(p)
<1>1. PICK b : b = To(p, pc)
  OBVIOUS
<1>2. pc \in Pcs /\ pc # "idle"
  BY DEF Hops, Pcs, Loop, PcLive, PcRecovery, PcShared
<1>3. /\ b \in Activities /\ b.pc = pc /\ SameOwner(proc[p], b) /\ SameCaller(proc[p], b)
      /\ SameMarks(proc[p], b) /\ SameBatch(proc[p], b) /\ SameReturn(proc[p], b)
  BY <1>1, <1>2, KnownTyped, ToFields
<1>4. Edge(proc[p], b)
  BY <1>3, KnownTyped, EdgeHop
<1>5. QED
  BY <1>1, <1>4, BecomeWalks

\* Queueing the completion owner (markQueued) is a walk, and so are the steps
\* below
LEMMA WalkMarkQueued ==
    ASSUME NEW p, Known(p), MarkQueued(p)
    PROVE  Walks(p)
<1>1. At(p, "markQueued")
  BY DEF MarkQueued
<1>2. Become(p, To(p, "startLease")) \/ Become(p, To(p, "dropRow")) \/ Become(p, Idle)
  BY PatchEnds DEF MarkQueued, Goto
<1>3. <<proc[p].pc, "startLease">> \in Hops /\ <<proc[p].pc, "dropRow">> \in Hops
  BY <1>1 DEF At, Hops
<1>4. HopGuard(proc[p], "startLease") /\ HopGuard(proc[p], "dropRow")
  BY DEF HopGuard
<1>5. QED
  BY <1>2, <1>3, <1>4, HopWalks, IdleWalks

\* Steps that end the activity whatever happens
LEMMA WalkEnding ==
    ASSUME NEW p, Known(p), DropRow(p) \/ OwnerAck(p) \/ Finalize(p) \/ Restore(p) \/ Crash(p)
    PROVE  Walks(p)
BY WriteEnds, IdleWalks DEF DropRow, OwnerAck, Finalize, Restore, Crash

\* Settling a staged failure (settleFailedDelivery) is a walk
LEMMA WalkSettle ==
    ASSUME NEW p, Known(p), Settle(p)
    PROVE  Walks(p)
<1>1. Become(p, To(p, "finalize")) \/ Become(p, Idle)
  BY PatchEnds DEF Settle
<1>2. <<proc[p].pc, "finalize">> \in Hops /\ HopGuard(proc[p], "finalize")
  BY DEF Settle, At, Hops, HopGuard
<1>3. QED
  BY <1>1, <1>2, HopWalks, IdleWalks

\* A lease that was not confirmed
LEMMA WalkNoLease ==
    ASSUME NEW p, Known(p), proc[p].pc = "startLease",
           Become(p, To(p, IF proc[p].recovery THEN "recThrown" ELSE "idle"))
    PROVE  Walks(p)
<1>1. CASE proc[p].recovery
  <2>1. <<proc[p].pc, "recThrown">> \in Hops /\ HopGuard(proc[p], "recThrown")
    BY DEF Hops, HopGuard
  <2>2. QED
    BY <1>1, <2>1, HopWalks
<1>2. CASE ~proc[p].recovery
  BY <1>2, KnownTyped, ToIdle, IdleWalks
<1>3. QED
  BY <1>1, <1>2

\* The lease is lost
LEMMA WalkLost ==
    ASSUME NEW p, Known(p), NEW v \in BOOLEAN, proc[p].lost => v,
           Become(p, [proc[p] EXCEPT !.lost = v])
    PROVE  Walks(p)
<1>1. PICK a : a = proc[p]
  OBVIOUS
<1>2. PICK b : b = [a EXCEPT !.lost = v]
  OBVIOUS
<1>3. a \in Activities /\ Local(a)
  BY <1>1, KnownTyped
<1>4. /\ b \in Activities /\ b.pc = a.pc /\ b.recovery = a.recovery /\ b.id = a.id
      /\ b.lease = a.lease /\ b.snap = a.snap /\ b.lost = v /\ b.aborted = a.aborted
      /\ b.beat = a.beat /\ SameBatch(a, b) /\ SameReturn(a, b) /\ SameMarks(a, b)
  BY <1>2, <1>3 DEF Activities, SameBatch, SameReturn, SameMarks
<1>5. a.lost => b.lost
  BY <1>1, <1>4
<1>6. Edge(a, b)
  BY <1>3, <1>4, <1>5, EdgeNote DEF SameMarks
<1>7. QED
  BY <1>1, <1>2, <1>6, BecomeWalks

\* The late expiry timer, which makes the owner lose its lease, is a walk
LEMMA WalkExpire ==
    ASSUME NEW p, Known(p), Expire(p)
    PROVE  Walks(p)
BY WalkLost DEF Expire

\* The cancellation by the caller is a walk
LEMMA WalkAbort ==
    ASSUME NEW p, Known(p), Abort(p)
    PROVE  Walks(p)
<1>1. PICK a : a = proc[p]
  OBVIOUS
<1>2. a \in Activities /\ Local(a)
  BY <1>1, KnownTyped
<1>3. PICK c : c = (/\ a.pc # "thrown" /\ a.ret # "thrownPost" /\ ~a.started /\ a.post = "none")
  OBVIOUS
<1>4. PICK k : k = IF c THEN "pending" ELSE a.cancel
  OBVIOUS
<1>5. PICK h : h = (a.beat /\ ~c)
  OBVIOUS
<1>6. PICK b : b = [a EXCEPT !.aborted = TRUE, !.cancel = k, !.beat = h]
  OBVIOUS
<1>7. Become(p, b)
  BY <1>1, <1>3, <1>4, <1>5, <1>6 DEF Abort
<1>8. k \in {"no", "pending", "retired", "refused"} /\ h \in BOOLEAN
  BY <1>2, <1>4, <1>5 DEF Activities
<1>9. /\ b \in Activities /\ b.pc = a.pc /\ b.recovery = a.recovery /\ b.id = a.id
      /\ b.lease = a.lease /\ b.snap = a.snap /\ b.lost = a.lost /\ b.aborted
      /\ b.beat = h /\ SameBatch(a, b) /\ SameReturn(a, b) /\ SameMarks(a, b)
  BY <1>2, <1>6, <1>8 DEF Activities, SameBatch, SameReturn, SameMarks
<1>10. b.beat => a.beat
  BY <1>5, <1>9
<1>11. Edge(a, b)
  BY <1>2, <1>9, <1>10, EdgeNote DEF SameMarks
<1>12. QED
  BY <1>1, <1>7, <1>11, BecomeWalks

\* retireUnsent, before the batch or after the caller's cancellation, is a walk
LEMMA WalkRetireUnsent ==
    ASSUME NEW p, Known(p), RetireUnsent(p)
    PROVE  Walks(p)
<1>1. PICK a : a = proc[p]
  OBVIOUS
<1>2. a \in Activities /\ Local(a)
  BY <1>1, KnownTyped
<1>3. \E k \in {"retired", "refused"} : Become(p, [a EXCEPT !.cancel = k])
  BY <1>1, WriteEnds DEF RetireUnsent
<1>4. PICK k \in {"retired", "refused"} : Become(p, [a EXCEPT !.cancel = k])
  BY <1>3
<1>5. PICK b : b = [a EXCEPT !.cancel = k]
  OBVIOUS
<1>6. /\ b \in Activities /\ b.pc = a.pc /\ b.recovery = a.recovery /\ b.id = a.id
      /\ b.lease = a.lease /\ b.snap = a.snap /\ b.lost = a.lost /\ b.aborted = a.aborted
      /\ b.beat = a.beat /\ SameBatch(a, b) /\ SameReturn(a, b) /\ SameMarks(a, b)
  BY <1>2, <1>5 DEF Activities, SameBatch, SameReturn, SameMarks
<1>7. Edge(a, b)
  BY <1>2, <1>6, EdgeNote DEF SameMarks
<1>8. QED
  BY <1>1, <1>4, <1>5, <1>7, BecomeWalks

\* A payload that fails or is left out before it is sent
LEMMA AfterWalks ==
    ASSUME NEW p, Known(p), proc[p].pc \in Loop \ {"respond"}, proc[p].i <= Batch,
           NEW c \in Outcomes, Become(p, After(p, c))
    PROVE  Walks(p)
<1>1. PICK b : b = After(p, c)
  OBVIOUS
<1>2. QED
  BY <1>1, KnownTyped, EdgeAfter, BecomeWalks

\* In the loop there is a payload at hand
LEMMA AtHand ==
    ASSUME NEW p, Known(p), proc[p].pc \in {"start", "startAck", "dispatch", "handoff", "respond"}
    PROVE  proc[p].i <= Batch /\ proc[p].pc \in Loop
BY DEF Known, Local, SendLocal, Loop

\* The next payload is a walk: it fails, is empty or goes to its send
LEMMA WalkPayload ==
    ASSUME NEW p, Known(p), Payload(p)
    PROVE  Walks(p)
<1>1. proc[p].pc = "payload" /\ proc[p].i <= Batch /\ proc[p].pc \in Loop \ {"respond"}
  BY DEF Payload, At, Loop
<1>2. \/ \E c \in {"omitted", "early", "refused"} : Become(p, After(p, c))
      \/ Become(p, To(p, "start"))
  BY DEF Payload, Goto
<1>3. {"omitted", "early", "refused"} \subseteq Outcomes
  BY DEF Outcomes, Failures
<1>4. <<proc[p].pc, "start">> \in Hops /\ HopGuard(proc[p], "start")
  BY <1>1 DEF Hops, HopGuard
<1>5. QED
  BY <1>1, <1>2, <1>3, <1>4, AfterWalks, HopWalks

\* The return of deliverOutboundPayloadsCore is a walk
LEMMA WalkBatchReturns ==
    ASSUME NEW p, Known(p), BatchReturns(p)
    PROVE  Walks(p)
<1>1. proc[p].pc = "payload" /\ proc[p].i > Batch
  BY DEF BatchReturns, At
<1>2. PICK pc : pc = IF proc[p].recovery THEN "recReturned" ELSE "returned"
  OBVIOUS
<1>3. Become(p, To(p, pc))
  BY <1>2 DEF BatchReturns, Goto
<1>4. <<proc[p].pc, pc>> \in Hops /\ HopGuard(proc[p], pc)
  BY <1>1, <1>2 DEF Hops, HopGuard
<1>5. QED
  BY <1>3, <1>4, HopWalks

\* The start marker before the first send (startAck) is a walk
LEMMA WalkStartSend ==
    ASSUME NEW p, Known(p), StartSend(p)
    PROVE  Walks(p)
<1>1. proc[p].pc = "start" /\ proc[p].i <= Batch /\ proc[p].pc \in Loop \ {"respond"}
  BY AtHand DEF StartSend, At, Loop
<1>2. /\ proc[p].pre \in {"none", "marked", "acked"}
      /\ proc[p].post \in {"none", "marked", "acked", "failed"}
  BY KnownTyped DEF Activities
<1>3. \/ Become(p, Begin(p, proc[p].pre, proc[p].post))
      \/ proc[p].pre = "none" /\ Become(p, Begin(p, "marked", proc[p].post))
      \/ Become(p, After(p, "early"))
      \/ proc[p].pre = "none" /\ Become(p, To(p, "startAck"))
  <2>1. CASE Exact \/ proc[p].pre # "none"
    BY <2>1 DEF StartSend, Refuse
  <2>2. CASE ~(Exact \/ proc[p].pre # "none")
    BY <2>2, WriteEnds DEF StartSend
  <2>3. QED
    BY <2>1, <2>2
<1>4. CASE Become(p, Begin(p, proc[p].pre, proc[p].post))
  <2>1. PICK b : b = Begin(p, proc[p].pre, proc[p].post)
    OBVIOUS
  <2>2. PICK pre, post : pre = proc[p].pre /\ post = proc[p].post
    OBVIOUS
  <2>3. b = Begin(p, pre, post)
    BY <2>1, <2>2
  <2>4. Edge(proc[p], b)
    BY <1>1, <1>2, <2>2, <2>3, KnownTyped, EdgeBegin
  <2>5. QED
    BY <1>4, <2>1, <2>4, BecomeWalks
<1>5. CASE proc[p].pre = "none" /\ Become(p, Begin(p, "marked", proc[p].post))
  <2>1. PICK post : post = proc[p].post
    OBVIOUS
  <2>2. PICK b : b = Begin(p, "marked", post)
    OBVIOUS
  <2>3. Edge(proc[p], b)
    BY <1>1, <1>2, <1>5, <2>1, <2>2, KnownTyped, EdgeBegin
  <2>4. QED
    BY <1>5, <2>1, <2>2, <2>3, BecomeWalks
<1>6. CASE Become(p, After(p, "early"))
  <2>1. "early" \in Outcomes
    BY DEF Outcomes, Failures
  <2>2. QED
    BY <1>1, <1>6, <2>1, AfterWalks
<1>7. CASE proc[p].pre = "none" /\ Become(p, To(p, "startAck"))
  <2>1. <<proc[p].pc, "startAck">> \in Hops /\ HopGuard(proc[p], "startAck")
    BY <1>1, <1>7 DEF Hops, HopGuard
  <2>2. QED
    BY <1>7, <2>1, HopWalks
<1>8. QED
  BY <1>3, <1>4, <1>5, <1>6, <1>7

\* startAck is reached by activities that have no evidence in the row yet
LEMMA WalkStartAck ==
    ASSUME NEW p, Known(p), StartAck(p)
    PROVE  Walks(p)
<1>1. proc[p].pc = "startAck" /\ proc[p].i <= Batch /\ proc[p].pc \in Loop \ {"respond"}
  BY AtHand DEF StartAck, At, Loop
<1>2. proc[p].post = "none"
  <2>1. proc[p].pre = "none" /\ InLoop(proc[p])
    BY <1>1, KnownTyped DEF Local, MarkLocal, InLoop
  <2>2. QED
    BY <2>1, KnownTyped DEF Local, MarkLocal
<1>3. PICK post : post = IF proc[p].recovery THEN proc[p].post ELSE "acked"
  OBVIOUS
<1>4. Become(p, Begin(p, "acked", post)) \/ Become(p, After(p, "early"))
  BY <1>3, WriteEnds DEF StartAck
<1>5. CASE Become(p, Begin(p, "acked", post))
  <2>1. PICK b : b = Begin(p, "acked", post)
    OBVIOUS
  <2>2. post \in {proc[p].post, "acked"} /\ post \in {"none", "marked", "acked", "failed"}
    BY <1>2, <1>3
  <2>3. Edge(proc[p], b)
    BY <1>1, <1>2, <2>1, <2>2, KnownTyped, EdgeBegin
  <2>4. QED
    BY <1>5, <2>1, <2>3, BecomeWalks
<1>6. CASE Become(p, After(p, "early"))
  <2>1. "early" \in Outcomes
    BY DEF Outcomes, Failures
  <2>2. QED
    BY <1>1, <1>6, <2>1, AfterWalks
<1>7. QED
  BY <1>4, <1>5, <1>6

\* The proof of the claim right before the handoff (onPlatformSendDispatch) is a
\* walk
LEMMA WalkDispatchMark ==
    ASSUME NEW p, Known(p), DispatchMark(p)
    PROVE  Walks(p)
<1>1. proc[p].pc = "dispatch" /\ proc[p].i <= Batch /\ proc[p].pc \in Loop \ {"respond"}
  BY AtHand DEF DispatchMark, At, Loop
<1>2. \/ (proc[p].pre = "acked" \/ proc[p].post # "none") /\ Become(p, To(p, "handoff"))
      \/ /\ proc[p].pre # "acked"
         /\ Become(p, Flow([proc[p] EXCEPT !.pc = "handoff", !.pre = "marked"]))
      \/ Become(p, After(p, "early"))
  <2>1. CASE proc[p].pre = "acked" \/ proc[p].post # "none"
    BY <2>1 DEF DispatchMark, Refuse
  <2>2. CASE ~(proc[p].pre = "acked" \/ proc[p].post # "none")
    BY <2>2, WriteEnds DEF DispatchMark
  <2>3. QED
    BY <2>1, <2>2
<1>3. CASE (proc[p].pre = "acked" \/ proc[p].post # "none") /\ Become(p, To(p, "handoff"))
  <2>1. InLoop(proc[p])
    BY <1>1 DEF InLoop
  <2>2. proc[p].pre # "none"
    BY <1>3, <2>1, KnownTyped DEF Local, MarkLocal
  <2>3. <<proc[p].pc, "handoff">> \in Hops /\ HopGuard(proc[p], "handoff")
    BY <1>1, <2>2 DEF Hops, HopGuard
  <2>4. QED
    BY <1>3, <2>3, HopWalks
<1>4. CASE /\ proc[p].pre # "acked"
           /\ Become(p, Flow([proc[p] EXCEPT !.pc = "handoff", !.pre = "marked"]))
  <2>1. PICK a : a = proc[p]
    OBVIOUS
  <2>2. a \in Activities /\ Local(a) /\ a.pc = "dispatch" /\ a.pre # "acked"
    BY <1>1, <1>4, <2>1, KnownTyped
  <2>3. PICK q : q = [a EXCEPT !.pc = "handoff", !.pre = "marked"]
    OBVIOUS
  <2>4. "handoff" \in Pcs
    BY DEF Pcs, Loop
  <2>5. /\ q \in Activities /\ q.pc = "handoff" /\ SameOwner(a, q) /\ SameCaller(a, q)
        /\ q.pre = "marked" /\ q.post = a.post /\ SameBatch(a, q) /\ SameReturn(a, q)
    BY <2>2, <2>3, <2>4 DEF Activities, SameOwner, SameCaller, SameBatch, SameReturn
  <2>6. PICK b : b = Flow(q)
    OBVIOUS
  <2>7. /\ b \in Activities /\ b.pc = "handoff" /\ SameOwner(a, b) /\ SameCaller(a, b)
        /\ b.pre = "marked" /\ b.post = a.post /\ SameBatch(a, b) /\ SameReturn(a, b)
    BY <2>5, <2>6, FlowFields
       DEF SameOwner, SameCaller, SameMarks, SameBatch, SameReturn
  <2>8. Edge(a, b)
    BY <2>2, <2>7, EdgeNote DEF SameOwner, SameCaller
  <2>9. QED
    BY <1>4, <2>1, <2>3, <2>6, <2>8, BecomeWalks
<1>5. CASE Become(p, After(p, "early"))
  <2>1. "early" \in Outcomes
    BY DEF Outcomes, Failures
  <2>2. QED
    BY <1>1, <1>5, <2>1, AfterWalks
<1>6. QED
  BY <1>2, <1>3, <1>4, <1>5

\* Recovery that is told to stop before its first dispatch makes a walk
LEMMA WalkAdmissionClosed ==
    ASSUME NEW p, Known(p), AdmissionClosed(p)
    PROVE  Walks(p)
<1>1. proc[p].pc = "handoff" /\ proc[p].recovery /\ ~proc[p].dispatched
  BY DEF AdmissionClosed, At
<1>2. <<proc[p].pc, "restore">> \in Hops /\ HopGuard(proc[p], "restore")
  BY <1>1 DEF Hops, HopGuard
<1>3. QED
  BY <1>2, HopWalks DEF AdmissionClosed, Goto

\* The answer of the adapter is a walk
LEMMA WalkRespond ==
    ASSUME NEW p, Known(p), Respond(p)
    PROVE  Walks(p)
<1>1. proc[p].pc = "respond" /\ Holds(proc[p])
  BY DEF Respond, At, Holds, Borrowed
<1>2. CASE proc[p].cur = "sent" /\ proc[p].post = "none"
  <2>1. PICK b : b = Persist(p, "payload", "payload")
    OBVIOUS
  <2>2. Become(p, b)
    BY <1>2, <2>1 DEF Respond
  <2>3. Edge(proc[p], b)
    BY <1>1, <1>2, <2>1, KnownTyped, EdgePersist
  <2>4. QED
    BY <2>2, <2>3, BecomeWalks
<1>3. CASE ~(proc[p].cur = "sent" /\ proc[p].post = "none")
  <2>1. PICK b : b = After(p, proc[p].cur)
    OBVIOUS
  <2>2. Become(p, b)
    BY <1>3, <2>1 DEF Respond
  <2>3. Edge(proc[p], b)
    BY <1>1, <2>1, KnownTyped, EdgeAnswer
  <2>4. QED
    BY <2>2, <2>3, BecomeWalks
<1>4. QED
  BY <1>2, <1>3

\* The evidence of a send is written down, one way or another
LEMMA WalkPosts ==
    ASSUME NEW p, Known(p), PostMark(p) \/ PostAck(p) \/ PostFail(p)
    PROVE  Walks(p)
<1>1. proc[p].pc \in {"postMark", "postAck", "postFail"} /\ InPost(proc[p])
  BY DEF PostMark, PostAck, PostFail, At, InPost
<1>2. \/ \E s \in {"marked", "acked", "failed"} :
           (s = "acked" => proc[p].pc = "postAck") /\ Become(p, Persisted(p, s))
      \/ Become(p, Unpersisted(p))
      \/ proc[p].pc = "postMark" /\ \E pc \in {"postAck", "postFail"} : Become(p, To(p, pc))
      \/ proc[p].pc = "postAck" /\ Become(p, To(p, "postFail"))
  <2>1. CASE PostMark(p)
    <3>1. CASE ~proc[p].live
      BY <2>1, <3>1 DEF PostMark, Refuse
    <3>2. CASE proc[p].live
      BY <2>1, <3>2, WriteEnds DEF PostMark, At
    <3>3. QED
      BY <3>1, <3>2
  <2>2. CASE PostAck(p)
    BY <2>2, WriteEnds DEF PostAck, At
  <2>3. CASE PostFail(p)
    BY <2>3, WriteEnds DEF PostFail, At
  <2>4. QED
    BY <2>1, <2>2, <2>3
<1>3. ASSUME NEW s \in {"marked", "acked", "failed"}, s = "acked" => proc[p].pc = "postAck",
             Become(p, Persisted(p, s))
      PROVE  Walks(p)
  <2>1. PICK b : b = Persisted(p, s)
    OBVIOUS
  <2>2. Edge(proc[p], b)
    BY <1>1, <1>3, <2>1, KnownTyped, EdgePersisted
  <2>3. QED
    BY <1>3, <2>1, <2>2, BecomeWalks
<1>4. CASE Become(p, Unpersisted(p))
  <2>1. PICK b : b = Unpersisted(p)
    OBVIOUS
  <2>2. Edge(proc[p], b)
    BY <1>1, <2>1, KnownTyped, EdgeUnpersisted
  <2>3. QED
    BY <1>4, <2>1, <2>2, BecomeWalks
<1>5. ASSUME NEW pc \in {"postAck", "postFail"}, Become(p, To(p, pc)),
             proc[p].pc = "postMark" \/ (proc[p].pc = "postAck" /\ pc = "postFail")
      PROVE  Walks(p)
  <2>1. <<proc[p].pc, pc>> \in Hops /\ HopGuard(proc[p], pc)
    BY <1>5 DEF Hops, HopGuard
  <2>2. QED
    BY <1>5, <2>1, HopWalks
<1>6. QED
  BY <1>2, <1>3, <1>4, <1>5

\* Recording a failure (failDelivery and its variants) is a walk
LEMMA WalkFailStep ==
    ASSUME NEW p, Known(p), FailStep(p)
    PROVE  Walks(p)
<1>1. proc[p].pc = "fail"
  BY DEF FailStep, At
<1>2. \E pc \in {proc[p].ret, proc[p].esc} : Become(p, To(p, pc))
  BY WriteEnds DEF FailStep
<1>3. PICK pc \in {proc[p].ret, proc[p].esc} : Become(p, To(p, pc))
  BY <1>2
<1>4. PICK b : b = To(p, pc)
  OBVIOUS
<1>5. Edge(proc[p], b)
  BY <1>1, <1>4, KnownTyped, EdgeFailed
<1>6. QED
  BY <1>3, <1>4, <1>5, BecomeWalks

\* A failure is going to be recorded
LEMMA FailingWalks ==
    ASSUME NEW p, Known(p), NEW how \in {"plain", "before", "after"},
           NEW good \in {"idle", "thrownLate", "recUnknown", "recThrownLate"},
           NEW bad \in {"idle", "thrownLate", "recUnknown", "recThrownLate"},
           ~(how = "plain" /\ good = "idle" /\ bad = "idle") => Genuine(proc[p]),
           ~(good = "idle" /\ bad = "idle") => ~MidSend(proc[p]),
           how = "before" => Telling(proc[p]) /\ ~MaySent(proc[p]),
           Become(p, Failing(p, how, good, bad))
    PROVE  Walks(p)
<1>1. PICK b : b = Failing(p, how, good, bad)
  OBVIOUS
<1>2. Edge(proc[p], b)
  BY <1>1, KnownTyped, EdgeFailing
<1>3. QED
  BY <1>1, <1>2, BecomeWalks

\* A deferred recovery
LEMMA DeferWalks ==
    ASSUME NEW p, Known(p), Become(p, Failing(p, "plain", "idle", "idle"))
    PROVE  Walks(p)
BY FailingWalks

\* A failure is going to be staged
LEMMA StagingWalks ==
    ASSUME NEW p, Known(p), NEW v \in BOOLEAN, Become(p, Staging(p, v))
    PROVE  Walks(p)
<1>1. PICK b : b = Staging(p, v)
  OBVIOUS
<1>2. b \in Activities /\ b.pc = "stage" /\ SameOwner(proc[p], b) /\ Bare(b)
  BY <1>1, KnownTyped, StagingFields
<1>3. ~Holds(b) /\ ~Spotless(b)
  BY <1>2 DEF Holds, Borrowed, Spotless
<1>4. Edge(proc[p], b)
  BY <1>2, <1>3, KnownTyped, EdgeBare
<1>5. QED
  BY <1>1, <1>4, BecomeWalks

\* The row is going to be dropped
LEMMA DropWalks ==
    ASSUME NEW p, Known(p), Become(p, Last(proc[p], "dropRow"))
    PROVE  Walks(p)
<1>1. PICK b : b = Last(proc[p], "dropRow")
  OBVIOUS
<1>2. "dropRow" \in Pcs
  BY DEF Pcs, PcLive
<1>3. b \in Activities /\ b.pc = "dropRow" /\ SameOwner(proc[p], b) /\ Bare(b)
  BY <1>1, <1>2, KnownTyped, LastFields
<1>4. ~Holds(b) /\ ~Spotless(b)
  BY <1>3 DEF Holds, Borrowed, Spotless
<1>5. Edge(proc[p], b)
  BY <1>3, <1>4, KnownTyped, EdgeBare
<1>6. QED
  BY <1>1, <1>5, BecomeWalks

\* The evidence of a send is going to be recorded
LEMMA PersistWalks ==
    ASSUME NEW p, Known(p), NEW good, NEW bad, proc[p].post = "none", Holds(proc[p]),
           \/ good = "payload" /\ bad = "payload" /\ proc[p].pc = "respond" /\ proc[p].cur = "sent"
           \/ good \in {"failures", "ledger"} /\ bad = "thrownLate" /\ proc[p].pc = "returned"
                /\ SentBeforeError(proc[p])
           \/ good = "thrownPost" /\ bad = "idle" /\ proc[p].pc = "thrown"
           \/ good = "recAck" /\ bad = "recThrownLate" /\ proc[p].pc = "recLedger"
                /\ SentBeforeError(proc[p])
           \/ good = "idle" /\ bad = "idle" /\ proc[p].pc \in {"recThrown", "recThrownLate"},
           Become(p, Persist(p, good, bad))
    PROVE  Walks(p)
<1>1. PICK b : b = Persist(p, good, bad)
  OBVIOUS
<1>2. Edge(proc[p], b)
  BY <1>1, KnownTyped, EdgePersist
<1>3. QED
  BY <1>1, <1>2, BecomeWalks

\* Outside the loop the outcomes alone tell whether something may have been sent
LEMMA Clean ==
    ASSUME NEW a, Local(a), a.pc \in {"failures", "ack", "thrown", "recThrown", "recAck"},
           ~SentBeforeError(a)
    PROVE  Telling(a) /\ ~MaySent(a) /\ Holds(a) /\ ~MidSend(a)
<1>1. Telling(a) /\ Holds(a) /\ ~MidSend(a)
  BY DEF Telling, Holds, Borrowed, MidSend, InPost
<1>2. a.cur = "omitted"
  BY <1>1 DEF Local, SendLocal
<1>3. QED
  BY <1>1, <1>2 DEF MaySent

\* The end of a live batch is a walk
LEMMA WalkReturned ==
    ASSUME NEW p, Known(p), Returned(p)
    PROVE  Walks(p)
<1>1. PICK a : a = proc[p]
  OBVIOUS
<1>2. a.pc = "returned" /\ a \in Activities /\ Local(a) /\ Holds(a)
  BY <1>1, KnownTyped DEF Returned, At, Holds, Borrowed
<1>3. PICK next : next = IF FailedOuts(a) # {} /\ a.id # NoClaim THEN "failures" ELSE "ledger"
  OBVIOUS
<1>4. \/ Become(p, Idle)
      \/ Become(p, To(p, next))
      \/ /\ a.post = "none"
         /\ IF next = "failures" THEN SentBeforeError(a)
            ELSE Results(a) \/ (a.pre = "marked" /\ ~AllSuppressed(a))
         /\ Become(p, Persist(p, next, "thrownLate"))
  BY <1>1, <1>3 DEF Returned
<1>5. CASE Become(p, To(p, next))
  <2>1. <<a.pc, next>> \in Hops /\ HopGuard(a, next)
    BY <1>2, <1>3 DEF Hops, HopGuard
  <2>2. QED
    BY <1>1, <1>5, <2>1, HopWalks
<1>6. CASE /\ a.post = "none"
           /\ IF next = "failures" THEN SentBeforeError(a)
              ELSE Results(a) \/ (a.pre = "marked" /\ ~AllSuppressed(a))
           /\ Become(p, Persist(p, next, "thrownLate"))
  <2>1. a.id # NoClaim /\ a.outs # {} /\ a.outs \subseteq Outcomes
    BY <1>2, <1>6, BatchAssumption DEF Local, HoldLocal, BatchLocal, Activities
  <2>2. SentBeforeError(a)
    <3>1. CASE next = "failures"
      BY <1>6, <3>1
    <3>2. CASE next # "failures" /\ Results(a)
      BY <3>2 DEF Results, SentBeforeError
    <3>3. CASE next # "failures" /\ ~Results(a)
      <4>1. ~AllSuppressed(a) /\ FailedOuts(a) = {}
        BY <1>3, <1>6, <2>1, <3>3
      <4>2. PICK x \in a.outs : x # "omitted"
        BY <2>1, <4>1 DEF AllSuppressed
      <4>3. x \in Outcomes /\ x \notin Failures
        BY <2>1, <4>1 DEF FailedOuts
      <4>4. x \in {"sent", "noIdentity"}
        BY <4>2, <4>3 DEF Outcomes
      <4>5. QED
        BY <4>4 DEF SentBeforeError
    <3>4. QED
      BY <3>1, <3>2, <3>3
  <2>3. next \in {"failures", "ledger"}
    BY <1>3
  <2>4. QED
    BY <1>1, <1>2, <1>6, <2>2, <2>3, PersistWalks
<1>7. QED
  BY <1>4, <1>5, <1>6, IdleWalks

\* The end of a best-effort batch with failed payloads is a walk
LEMMA WalkPartialFailure ==
    ASSUME NEW p, Known(p), PartialFailure(p)
    PROVE  Walks(p)
<1>1. proc[p].pc = "failures" /\ Local(proc[p]) /\ Holds(proc[p]) /\ ~MidSend(proc[p])
  BY KnownTyped DEF PartialFailure, At, Holds, Borrowed, MidSend, InPost
<1>2. proc[p].id # NoClaim
  BY <1>1 DEF Local, HoldLocal, Loop
<1>3. \/ Become(p, Idle)
      \/ Become(p, Staging(p, TRUE))
      \/ Become(p, Failing(p, "plain", "idle", "idle"))
      \/ ~SentBeforeError(proc[p]) /\ Become(p, Failing(p, "before", "idle", "idle"))
  BY DEF PartialFailure
<1>4. CASE ~SentBeforeError(proc[p]) /\ Become(p, Failing(p, "before", "idle", "idle"))
  <2>1. Telling(proc[p]) /\ ~MaySent(proc[p])
    BY <1>1, <1>4, Clean
  <2>2. QED
    BY <1>1, <1>2, <1>4, <2>1, FailingWalks DEF Genuine
<1>5. QED
  BY <1>3, <1>4, IdleWalks, StagingWalks, DeferWalks

\* settleDeliveryCompletion of a live delivery is a walk
LEMMA WalkLedger ==
    ASSUME NEW p, Known(p), Ledger(p)
    PROVE  Walks(p)
<1>1. proc[p].pc = "ledger" /\ Local(proc[p]) /\ Holds(proc[p]) /\ ~MidSend(proc[p])
  BY KnownTyped DEF Ledger, At, Holds, Borrowed, MidSend, InPost
<1>2. \/ Become(p, Idle)
      \/ proc[p].post = "marked" /\ Become(p, Failing(p, "after", "idle", "thrownLate"))
      \/ proc[p].post \notin {"acked", "failed"} /\ Become(p, To(p, "ack"))
      \/ Become(p, To(p, "thrownLate"))
  BY PatchEnds DEF Ledger
<1>3. proc[p].post # "acked" => proc[p].id # NoClaim
  BY <1>1 DEF Local, HoldLocal
<1>4. CASE proc[p].post = "marked" /\ Become(p, Failing(p, "after", "idle", "thrownLate"))
  BY <1>1, <1>3, <1>4, FailingWalks DEF Genuine
<1>5. CASE proc[p].post \notin {"acked", "failed"} /\ Become(p, To(p, "ack"))
  <2>1. <<proc[p].pc, "ack">> \in Hops /\ HopGuard(proc[p], "ack")
    BY <1>1, <1>3, <1>5 DEF Hops, HopGuard
  <2>2. QED
    BY <1>5, <2>1, HopWalks
<1>6. CASE Become(p, To(p, "thrownLate"))
  <2>1. <<proc[p].pc, "thrownLate">> \in Hops /\ HopGuard(proc[p], "thrownLate")
    BY <1>1 DEF Hops, HopGuard
  <2>2. QED
    BY <1>6, <2>1, HopWalks
<1>7. QED
  BY <1>2, <1>4, <1>5, <1>6, IdleWalks

\* The acknowledgement of a live delivery is a walk
LEMMA WalkAck ==
    ASSUME NEW p, Known(p), Ack(p)
    PROVE  Walks(p)
<1>1. proc[p].pc = "ack" /\ Local(proc[p]) /\ Holds(proc[p]) /\ ~MidSend(proc[p])
  BY KnownTyped DEF Ack, At, Holds, Borrowed, MidSend, InPost
<1>2. proc[p].id # NoClaim
  BY <1>1 DEF Local, HoldLocal, Loop
<1>3. PICK how : how = IF Results(proc[p]) \/ (proc[p].pre # "none" /\ ~AllSuppressed(proc[p]))
                       THEN "after" ELSE IF AllSuppressed(proc[p]) THEN "before" ELSE "plain"
  OBVIOUS
<1>4. PICK end : end = IF Required THEN "thrownLate" ELSE "idle"
  OBVIOUS
<1>5. Become(p, Idle) \/ Become(p, Failing(p, how, end, end))
  BY <1>3, <1>4, WriteEnds DEF Ack
<1>6. how = "before" => ~SentBeforeError(proc[p])
  BY <1>3 DEF AllSuppressed, SentBeforeError
<1>7. how = "before" => Telling(proc[p]) /\ ~MaySent(proc[p])
  BY <1>1, <1>6, Clean
<1>8. how \in {"plain", "before", "after"} /\ end \in {"idle", "thrownLate"}
  BY <1>3, <1>4
<1>9. QED
  BY <1>1, <1>2, <1>5, <1>7, <1>8, FailingWalks, IdleWalks DEF Genuine

\* The error path of deliverOutboundPayloadsWithQueueCleanup is a walk
LEMMA WalkThrown ==
    ASSUME NEW p, Known(p), Thrown(p)
    PROVE  Walks(p)
<1>1. PICK a : a = proc[p]
  OBVIOUS
<1>2. /\ a.pc \in {"thrown", "thrownLate"} /\ Local(a) /\ Holds(a) /\ ~MidSend(a)
  BY <1>1, KnownTyped DEF Thrown, Holds, Borrowed, MidSend, InPost
<1>3. PICK proven : proven = (a.pc = "thrown" /\ ProvenBatch(a))
  OBVIOUS
<1>4. \/ Become(p, Idle)
      \/ Become(p, Last(a, "dropRow"))
      \/ Become(p, Staging(p, TRUE))
      \/ Become(p, Failing(p, "plain", "idle", "idle"))
      \/ a.id # NoClaim /\ Become(p, Failing(p, "after", "idle", "idle"))
      \/ a.id # NoClaim /\ proven /\ Become(p, Failing(p, "before", "idle", "idle"))
      \/ a.pc = "thrown" /\ a.post = "none" /\ Become(p, Persist(p, "thrownPost", "idle"))
      \/ a.id # NoClaim /\ a.pc = "thrown" /\ Become(p, To(p, "thrownPost"))
  <2>1. CASE a.lost \/ a.cancel = "retired" \/ Released(a) \/ a.id = NoClaim
    BY <1>1, <2>1 DEF Thrown
  <2>2. CASE ~(a.lost \/ a.cancel = "retired" \/ Released(a) \/ a.id = NoClaim)
    <3>1. CASE a.aborted
      BY <1>1, <1>3, <2>2, <3>1 DEF Thrown
    <3>2. CASE ~a.aborted /\ a.pc = "thrownLate"
      BY <1>1, <2>2, <3>2 DEF Thrown
    <3>3. CASE ~a.aborted /\ a.pc = "thrown"
      BY <1>1, <1>3, <2>2, <3>3 DEF Thrown
    <3>4. QED
      BY <1>2, <3>1, <3>2, <3>3
  <2>3. QED
    BY <2>1, <2>2
<1>5. CASE a.id # NoClaim /\ Become(p, Failing(p, "after", "idle", "idle"))
  BY <1>1, <1>2, <1>5, FailingWalks DEF Genuine
<1>6. CASE a.id # NoClaim /\ proven /\ Become(p, Failing(p, "before", "idle", "idle"))
  <2>1. ~SentBeforeError(a) /\ a.pc = "thrown"
    BY <1>3, <1>6 DEF ProvenBatch, SentBeforeError
  <2>2. Telling(a) /\ ~MaySent(a)
    BY <1>2, <2>1, Clean
  <2>3. QED
    BY <1>1, <1>2, <1>6, <2>2, FailingWalks DEF Genuine
<1>7. CASE a.pc = "thrown" /\ a.post = "none" /\ Become(p, Persist(p, "thrownPost", "idle"))
  BY <1>1, <1>2, <1>7, PersistWalks
<1>8. CASE a.id # NoClaim /\ a.pc = "thrown" /\ Become(p, To(p, "thrownPost"))
  <2>1. <<proc[p].pc, "thrownPost">> \in Hops /\ HopGuard(proc[p], "thrownPost")
    BY <1>1, <1>8 DEF Hops, HopGuard
  <2>2. QED
    BY <1>8, <2>1, HopWalks
<1>9. QED
  BY <1>1, <1>4, <1>5, <1>6, <1>7, <1>8, IdleWalks, DropWalks, StagingWalks, DeferWalks

\* The error path after an evidence write of that path is a walk
LEMMA WalkThrownPost ==
    ASSUME NEW p, Known(p), ThrownPost(p)
    PROVE  Walks(p)
<1>1. proc[p].pc = "thrownPost" /\ Local(proc[p]) /\ Holds(proc[p]) /\ ~MidSend(proc[p])
  BY KnownTyped DEF ThrownPost, At, Holds, Borrowed, MidSend, InPost
<1>2. proc[p].id # NoClaim
  BY <1>1 DEF Local, HoldLocal, Loop
<1>3. Become(p, Failing(p, "after", "idle", "idle")) \/ Become(p, Idle)
  BY DEF ThrownPost
<1>4. QED
  BY <1>1, <1>2, <1>3, FailingWalks, IdleWalks DEF Genuine

\* Staging a failed settlement is a walk
LEMMA WalkStage ==
    ASSUME NEW p, Known(p), Stage(p)
    PROVE  Walks(p)
<1>1. PICK v : v = proc[p].rejected
  OBVIOUS
<1>2. PICK b : b = [Idle EXCEPT !.pc = "settle", !.rejected = v]
  OBVIOUS
<1>3. Become(p, b) \/ Become(p, Idle)
  BY <1>1, <1>2, WriteEnds DEF Stage, Refuse
<1>4. v \in BOOLEAN
  BY <1>1, KnownTyped DEF Activities
<1>5. Edge(proc[p], b)
  BY <1>2, <1>4, KnownTyped, EdgeSettling
<1>6. QED
  BY <1>3, <1>5, BecomeWalks, IdleWalks

\* Asking the completion owner before a recovery is a walk
LEMMA WalkOwner ==
    ASSUME NEW p, Known(p), Owner(p)
    PROVE  Walks(p)
<1>1. proc[p].pc = "owner"
  BY DEF Owner, At
<1>2. \/ Become(p, Failing(p, "plain", "idle", "idle"))
      \/ \E pc \in {"ownerAck", "reconcile"} : Become(p, To(p, pc))
      \/ ~NeedsReconciliation(proc[p].snap) /\ Become(p, To(p, "claim"))
  <2>1. CASE LedgerAfter(ledger, "queued") # "queued"
    BY <2>1, PatchEnds DEF Owner
  <2>2. CASE LedgerAfter(ledger, "queued") = "queued" /\ NeedsReconciliation(proc[p].snap)
    BY <2>2, PatchEnds DEF Owner
  <2>3. CASE LedgerAfter(ledger, "queued") = "queued" /\ ~NeedsReconciliation(proc[p].snap)
    BY <2>3, PatchEnds DEF Owner
  <2>4. QED
    BY <2>1, <2>2, <2>3
<1>3. ASSUME NEW pc \in {"ownerAck", "reconcile"}, Become(p, To(p, pc))
      PROVE  Walks(p)
  <2>1. <<proc[p].pc, pc>> \in Hops /\ HopGuard(proc[p], pc)
    BY <1>1 DEF Hops, HopGuard
  <2>2. QED
    BY <1>3, <2>1, HopWalks
<1>4. CASE ~NeedsReconciliation(proc[p].snap) /\ Become(p, To(p, "claim"))
  <2>1. <<proc[p].pc, "claim">> \in Hops /\ HopGuard(proc[p], "claim")
    BY <1>1, <1>4 DEF Hops, HopGuard, NeedsReconciliation
  <2>2. QED
    BY <1>4, <2>1, HopWalks
<1>5. QED
  BY <1>2, <1>3, <1>4, DeferWalks

\* Reconciling an unknown send with the adapter is a walk
LEMMA WalkReconcile ==
    ASSUME NEW p, Known(p), Reconcile(p)
    PROVE  Walks(p)
<1>1. proc[p].pc = "reconcile"
  BY DEF Reconcile, At
<1>2. \/ Become(p, Failing(p, "plain", "idle", "idle"))
      \/ \E pc \in {"sentLedger", "stage"} : Become(p, To(p, pc))
      \/ proc[p].snap.rs = "started" /\ Become(p, To(p, "claim"))
  BY DEF Reconcile, Goto
<1>3. ASSUME NEW pc \in {"sentLedger", "stage"}, Become(p, To(p, pc))
      PROVE  Walks(p)
  <2>1. <<proc[p].pc, pc>> \in Hops /\ HopGuard(proc[p], pc)
    BY <1>1 DEF Hops, HopGuard
  <2>2. QED
    BY <1>3, <2>1, HopWalks
<1>4. CASE proc[p].snap.rs = "started" /\ Become(p, To(p, "claim"))
  <2>1. <<proc[p].pc, "claim">> \in Hops /\ HopGuard(proc[p], "claim")
    BY <1>1, <1>4 DEF Hops, HopGuard
  <2>2. QED
    BY <1>4, <2>1, HopWalks
<1>5. QED
  BY <1>2, <1>3, <1>4, DeferWalks

\* Ending a delivery that was reconciled as sent is a walk
LEMMA WalkSent ==
    ASSUME NEW p, Known(p), SentLedger(p) \/ SentAck(p)
    PROVE  Walks(p)
<1>1. CASE SentLedger(p)
  <2>1. Become(p, To(p, "sentAck")) \/ Become(p, Failing(p, "plain", "idle", "idle"))
    BY <1>1, PatchEnds DEF SentLedger
  <2>2. <<proc[p].pc, "sentAck">> \in Hops /\ HopGuard(proc[p], "sentAck")
    BY <1>1 DEF Hops, HopGuard, SentLedger, At
  <2>3. QED
    BY <2>1, <2>2, HopWalks, DeferWalks
<1>2. CASE SentAck(p)
  BY <1>2, WriteEnds, IdleWalks, DeferWalks DEF SentAck
<1>3. QED
  BY <1>1, <1>2

\* reserveDeliveryAttempt is a walk
LEMMA WalkReserve ==
    ASSUME NEW p, Known(p), Reserve(p)
    PROVE  Walks(p)
<1>1. Become(p, Staging(p, FALSE)) \/ Become(p, To(p, "startLease")) \/ Become(p, Idle)
  BY WriteEnds DEF Reserve, Refuse
<1>2. <<proc[p].pc, "startLease">> \in Hops /\ HopGuard(proc[p], "startLease")
  BY DEF Hops, HopGuard, Reserve, At
<1>3. QED
  BY <1>1, <1>2, HopWalks, StagingWalks, IdleWalks

\* The return of a replay is a walk
LEMMA WalkRecReturned ==
    ASSUME NEW p, Known(p), RecReturned(p)
    PROVE  Walks(p)
<1>1. proc[p].pc = "recReturned" /\ Local(proc[p]) /\ Holds(proc[p]) /\ ~MidSend(proc[p])
  BY KnownTyped DEF RecReturned, At, Holds, Borrowed, MidSend, InPost
<1>2. proc[p].id # NoClaim
  BY <1>1 DEF Local, HoldLocal, Loop
<1>3. \/ Become(p, Failing(p, "after", "recUnknown", "recThrownLate"))
      \/ \E pc \in {"recThrown", "recLedger"} : Become(p, To(p, pc))
  <2>1. CASE FailedOuts(proc[p]) # {}
    BY <2>1 DEF RecReturned
  <2>2. CASE FailedOuts(proc[p]) = {}
    BY <2>2 DEF RecReturned
  <2>3. QED
    BY <2>1, <2>2
<1>4. ASSUME NEW pc \in {"recThrown", "recLedger"}, Become(p, To(p, pc))
      PROVE  Walks(p)
  <2>1. <<proc[p].pc, pc>> \in Hops /\ HopGuard(proc[p], pc)
    BY <1>1 DEF Hops, HopGuard
  <2>2. QED
    BY <1>4, <2>1, HopWalks
<1>5. CASE Become(p, Failing(p, "after", "recUnknown", "recThrownLate"))
  BY <1>1, <1>2, <1>5, FailingWalks DEF Genuine
<1>6. QED
  BY <1>3, <1>4, <1>5

\* The settlement of a replay without identity is a walk
LEMMA WalkRecUnknown ==
    ASSUME NEW p, Known(p), RecUnknown(p)
    PROVE  Walks(p)
<1>1. Become(p, Idle) \/ Become(p, To(p, "recThrownLate"))
  BY PatchEnds DEF RecUnknown
<1>2. <<proc[p].pc, "recThrownLate">> \in Hops /\ HopGuard(proc[p], "recThrownLate")
  BY DEF Hops, HopGuard, RecUnknown, At
<1>3. QED
  BY <1>1, <1>2, HopWalks, IdleWalks

\* The settlement of a replay that was sent is a walk
LEMMA WalkRecLedger ==
    ASSUME NEW p, Known(p), RecLedger(p)
    PROVE  Walks(p)
<1>1. proc[p].pc = "recLedger" /\ Holds(proc[p])
  BY DEF RecLedger, At, Holds, Borrowed
<1>2. \/ /\ Results(proc[p]) /\ proc[p].post = "none"
         /\ Become(p, Persist(p, "recAck", "recThrownLate"))
      \/ \E pc \in {"recAck", "recThrownLate"} : Become(p, To(p, pc))
  <2>1. CASE Results(proc[p]) /\ proc[p].post = "none"
    BY <2>1, PatchEnds DEF RecLedger
  <2>2. CASE ~(Results(proc[p]) /\ proc[p].post = "none")
    BY <2>2, PatchEnds DEF RecLedger
  <2>3. QED
    BY <2>1, <2>2
<1>3. ASSUME NEW pc \in {"recAck", "recThrownLate"}, Become(p, To(p, pc))
      PROVE  Walks(p)
  <2>1. <<proc[p].pc, pc>> \in Hops /\ HopGuard(proc[p], pc)
    BY <1>1 DEF Hops, HopGuard
  <2>2. QED
    BY <1>3, <2>1, HopWalks
<1>4. CASE /\ Results(proc[p]) /\ proc[p].post = "none"
           /\ Become(p, Persist(p, "recAck", "recThrownLate"))
  <2>1. SentBeforeError(proc[p])
    BY <1>4 DEF Results, SentBeforeError
  <2>2. QED
    BY <1>1, <1>4, <2>1, PersistWalks
<1>5. QED
  BY <1>2, <1>3, <1>4

\* The acknowledgement after a replay is a walk
LEMMA WalkRecAck ==
    ASSUME NEW p, Known(p), RecAck(p)
    PROVE  Walks(p)
<1>1. proc[p].pc = "recAck" /\ Local(proc[p]) /\ Holds(proc[p]) /\ ~MidSend(proc[p])
  BY KnownTyped DEF RecAck, At, Holds, Borrowed, MidSend, InPost
<1>2. proc[p].id # NoClaim
  BY <1>1 DEF Local, HoldLocal, Loop
<1>3. PICK how : how = IF Results(proc[p]) THEN "after"
                       ELSE IF AllSuppressed(proc[p]) THEN "before" ELSE "plain"
  OBVIOUS
<1>4. Become(p, Idle) \/ Become(p, Failing(p, how, "idle", "recThrownLate"))
  BY <1>3, WriteEnds DEF RecAck, Refuse
<1>5. how = "before" => ~SentBeforeError(proc[p])
  BY <1>3 DEF AllSuppressed, SentBeforeError
<1>6. how = "before" => Telling(proc[p]) /\ ~MaySent(proc[p])
  BY <1>1, <1>5, Clean
<1>7. how \in {"plain", "before", "after"}
  BY <1>3
<1>8. QED
  BY <1>1, <1>2, <1>4, <1>6, <1>7, FailingWalks, IdleWalks DEF Genuine

\* The error path of drainQueuedEntry is a walk
LEMMA WalkRecThrown ==
    ASSUME NEW p, Known(p), RecThrown(p)
    PROVE  Walks(p)
<1>1. PICK a : a = proc[p]
  OBVIOUS
<1>2. /\ a.pc \in {"recThrown", "recThrownLate"} /\ Local(a) /\ Holds(a) /\ ~MidSend(a)
  BY <1>1, KnownTyped DEF RecThrown, Holds, Borrowed, MidSend, InPost
<1>3. a.id # NoClaim
  BY <1>2 DEF Local, HoldLocal, Loop
<1>4. PICK evidence : evidence = (\/ Results(a) \/ a.post # "none"
                                  \/ (a.pc = "recThrown" /\ SentBeforeError(a)))
  OBVIOUS
<1>5. \/ Become(p, Idle)
      \/ \E v \in BOOLEAN : Become(p, Staging(p, v))
      \/ Become(p, Failing(p, "plain", "idle", "idle"))
      \/ a.pc = "recThrown" /\ ~evidence /\ Become(p, Failing(p, "before", "idle", "idle"))
      \/ a.post = "none" /\ Become(p, Persist(p, "idle", "idle"))
  <2>1. CASE a.lost \/ evidence \/ Released(a)
    BY <1>1, <1>4, <2>1 DEF RecThrown
  <2>2. CASE ~(a.lost \/ evidence \/ Released(a))
    BY <1>1, <1>4, <2>2 DEF RecThrown
  <2>3. QED
    BY <2>1, <2>2
<1>6. CASE a.pc = "recThrown" /\ ~evidence /\ Become(p, Failing(p, "before", "idle", "idle"))
  <2>1. Telling(a) /\ ~MaySent(a)
    BY <1>2, <1>4, <1>6, Clean
  <2>2. QED
    BY <1>1, <1>2, <1>3, <1>6, <2>1, FailingWalks DEF Genuine
<1>7. CASE a.post = "none" /\ Become(p, Persist(p, "idle", "idle"))
  BY <1>1, <1>2, <1>7, PersistWalks
<1>8. QED
  BY <1>5, <1>6, <1>7, IdleWalks, StagingWalks, DeferWalks

-----------------------------------------------------------------------------
(* What a step does to the row, field by field.                            *)

\* The fields that tell who owns the row
SameOwners(r, q) == q.status = r.status /\ q.rs = r.rs /\ q.claim = r.claim /\ q.attempt = r.attempt

\* Ended is a row without owner and lease
LEMMA EndedTyped ==
    ASSUME NEW r, NEW s \in Statuses, NEW q, q = Ended(r, s)
    PROVE  /\ q \in Rows /\ q.status = s /\ q.rs = "none" /\ q.claim = NoClaim
           /\ q.attempt = NoClaim /\ q.ttl = 0 /\ ~q.rejected
<1>1. PICK n : n = NoRow
  OBVIOUS
<1>2. /\ n \in Rows /\ n.rs = "none" /\ n.claim = NoClaim /\ n.attempt = NoClaim /\ n.ttl = 0
      /\ ~n.rejected
  BY <1>1, NoRowTyped DEF NoRow
<1>3. q = [n EXCEPT !.status = s]
  BY <1>1 DEF Ended
<1>4. QED
  BY <1>2, <1>3 DEF Rows

\* Staged is a row whose settlement is staged, without owner and lease
LEMMA StagedTyped ==
    ASSUME NEW r, NEW v \in BOOLEAN, NEW q, q = Staged(r, v)
    PROVE  /\ q \in Rows /\ q.status = "staged" /\ q.rs = "settlement" /\ q.claim = NoClaim
           /\ q.attempt = NoClaim /\ q.ttl = 0 /\ q.rejected = v
<1>1. PICK n : n = Ended(r, "staged")
  OBVIOUS
<1>2. "staged" \in Statuses /\ "settlement" \in RecoveryStates
  BY DEF Statuses, RecoveryStates
<1>3. /\ n \in Rows /\ n.status = "staged" /\ n.claim = NoClaim /\ n.attempt = NoClaim
      /\ n.ttl = 0
  BY <1>1, <1>2, EndedTyped
<1>4. q = [n EXCEPT !.rs = "settlement", !.rejected = v]
  BY <1>1 DEF Staged
<1>5. QED
  BY <1>2, <1>3, <1>4 DEF Rows

\* The producer's row is claimed by its owner and leased
LEMMA EnqueuedTyped ==
    ASSUME NEW c \in Claims, NEW q, q = Enqueued(c)
    PROVE  /\ q \in Rows /\ q.status = "pending" /\ q.rs = "claimed" /\ q.claim = c
           /\ q.attempt = NoClaim /\ q.ttl = Lease /\ ~q.rejected
<1>1. PICK n : n = NoRow
  OBVIOUS
<1>2. n \in Rows /\ n.attempt = NoClaim /\ ~n.rejected
  BY <1>1, NoRowTyped DEF NoRow
<1>3. q = [n EXCEPT !.status = "pending", !.rs = "claimed", !.claim = c, !.ttl = Lease]
  BY <1>1 DEF Enqueued
<1>4. "pending" \in Statuses /\ "claimed" \in RecoveryStates /\ Lease \in 0 .. Lease
  BY LeaseAssumption DEF Statuses, RecoveryStates
<1>5. QED
  BY <1>2, <1>3, <1>4 DEF Rows

\* A claimed row has the claim and a fresh lease, and no attempt
LEMMA ClaimedTyped ==
    ASSUME NEW r \in Rows, NEW c \in Claims, NEW q, q = ClaimedBy(r, c)
    PROVE  /\ q \in Rows /\ q.status = r.status /\ q.rs = "claimed" /\ q.claim = c
           /\ q.attempt = NoClaim /\ q.ttl = Lease
<1>1. "claimed" \in RecoveryStates /\ Lease \in 0 .. Lease
  BY LeaseAssumption DEF RecoveryStates
<1>2. QED
  BY <1>1 DEF ClaimedBy, Rows

\* A renewal changes nothing but the lease
LEMMA RenewedTyped ==
    ASSUME NEW r \in Rows, NEW q, q = Renewed(r)
    PROVE  q \in Rows /\ SameOwners(r, q) /\ q.ttl = Lease
<1>1. Lease \in 0 .. Lease
  BY LeaseAssumption
<1>2. QED
  BY <1>1 DEF Renewed, Rows, SameOwners

\* The start marker turns the claim into an attempt and keeps the lease
LEMMA PromotedTyped ==
    ASSUME NEW r \in Rows, NEW c \in Claims \cup {NoClaim}, NEW q, q = Promoted(r, c)
    PROVE  /\ q \in Rows /\ q.status = r.status /\ q.rs = "started" /\ q.claim = NoClaim
           /\ q.attempt = c /\ q.ttl = r.ttl
<1>1. "started" \in RecoveryStates
  BY DEF RecoveryStates
<1>2. QED
  BY <1>1 DEF Promoted, Rows

\* The proof before the handoff records the attempt and keeps the evidence of an
\* earlier send
LEMMA DispatchedTyped ==
    ASSUME NEW r \in Rows, NEW c \in Claims \cup {NoClaim}, NEW q, q = Dispatched(r, c)
    PROVE  /\ q \in Rows /\ q.status = r.status /\ q.claim = NoClaim
           /\ q.rs = IF r.rs = "unknown" THEN "unknown" ELSE "started"
           /\ q.attempt = c /\ q.ttl = r.ttl
<1>1. PICK s : s = IF r.rs = "unknown" THEN "unknown" ELSE "started"
  OBVIOUS
<1>2. q = [r EXCEPT !.rs = s, !.claim = NoClaim, !.attempt = c]
  BY <1>1 DEF Dispatched, Rows
<1>3. s \in RecoveryStates
  BY <1>1 DEF RecoveryStates
<1>4. QED
  BY <1>1, <1>2, <1>3 DEF Rows

\* The evidence of a send keeps the attempt
LEMMA UnknownTyped ==
    ASSUME NEW r \in Rows, NEW c, NEW q, q = OutcomeUnknown(r, c)
    PROVE  /\ q \in Rows /\ q.status = r.status /\ q.rs = "unknown" /\ q.claim = NoClaim
           /\ q.attempt = r.attempt /\ q.ttl \in {r.ttl, 0}
<1>1. PICK t : t = IF c # NoClaim /\ r.attempt = c THEN r.ttl ELSE 0
  OBVIOUS
<1>2. q = [r EXCEPT !.rs = "unknown", !.claim = NoClaim, !.ttl = t]
  BY <1>1 DEF OutcomeUnknown, Rows
<1>3. "unknown" \in RecoveryStates /\ t \in {r.ttl, 0} /\ 0 \in 0 .. Lease
  BY <1>1, Bounds DEF RecoveryStates
<1>4. t \in 0 .. Lease
  BY <1>3 DEF Rows
<1>5. QED
  BY <1>2, <1>3, <1>4 DEF Rows

\* An attempt that is counted as a retry releases the row and keeps its state
LEMMA RetriedTyped ==
    ASSUME NEW r \in Rows, NEW q, q = Retried(r)
    PROVE  /\ q \in Rows /\ q.status = r.status /\ q.rs = r.rs /\ q.claim = NoClaim
           /\ q.attempt = r.attempt /\ q.ttl = 0
<1>1. PICK n : n = IF r.retries < MaxRetries THEN r.retries + 1 ELSE r.retries
  OBVIOUS
<1>2. q = [r EXCEPT !.retries = n, !.claim = NoClaim, !.ttl = 0]
  BY <1>1 DEF Retried, Rows
<1>3. r.retries \in 0 .. MaxRetries
  BY DEF Rows
<1>4. n \in 0 .. MaxRetries /\ 0 \in 0 .. Lease
  BY <1>1, <1>3, RetryAssumption, Bounds
<1>5. QED
  BY <1>2, <1>4 DEF Rows

\* A failure releases the row; what is left of its state depends on what is
\* known of the send
LEMMA FailedTyped ==
    ASSUME NEW r \in Rows, NEW how \in {"plain", "before", "after"}, NEW q, q = Failed(r, how)
    PROVE  /\ q \in Rows /\ q.status = r.status /\ q.claim = NoClaim /\ q.ttl = 0
           /\ how = "plain" => /\ q.rs = IF r.rs = "claimed" THEN "none" ELSE r.rs
                               /\ q.attempt = r.attempt
           /\ how = "before" => q.rs = "none" /\ q.attempt = NoClaim
           /\ how = "after" => q.rs = "unknown" /\ q.attempt = r.attempt
<1>1. PICK t : t = Retried(r)
  OBVIOUS
<1>2. /\ t \in Rows /\ t.status = r.status /\ t.rs = r.rs /\ t.claim = NoClaim
      /\ t.attempt = r.attempt /\ t.ttl = 0
  BY <1>1, RetriedTyped
<1>3. CASE how = "plain"
  <2>1. PICK s : s = IF t.rs = "claimed" THEN "none" ELSE t.rs
    OBVIOUS
  <2>2. q = [t EXCEPT !.rs = s]
    BY <1>1, <1>2, <1>3, <2>1 DEF Failed, FailedPlain, Rows
  <2>3. s \in RecoveryStates
    BY <1>2, <2>1 DEF Rows, RecoveryStates
  <2>4. QED
    BY <1>2, <1>3, <2>1, <2>2, <2>3 DEF Rows
<1>4. CASE how = "before"
  <2>1. q = [t EXCEPT !.rs = "none", !.attempt = NoClaim]
    BY <1>1, <1>4 DEF Failed, FailedBefore
  <2>2. "none" \in RecoveryStates
    BY DEF RecoveryStates
  <2>3. QED
    BY <1>2, <1>4, <2>1, <2>2 DEF Rows
<1>5. CASE how = "after"
  <2>1. q = [t EXCEPT !.rs = "unknown"]
    BY <1>1, <1>5 DEF Failed, FailedAfter
  <2>2. "unknown" \in RecoveryStates
    BY DEF RecoveryStates
  <2>3. QED
    BY <1>2, <1>5, <2>1, <2>2 DEF Rows
<1>6. QED
  BY <1>3, <1>4, <1>5

\* An attempt that is reserved changes neither the owner nor the lease
LEMMA ReservedTyped ==
    ASSUME NEW r \in Rows, ~BudgetExhausted(r), NEW q, q = Reserved(r)
    PROVE  q \in Rows /\ SameOwners(r, q) /\ q.ttl = r.ttl
<1>1. PICK n : n = r.attempts + 1
  OBVIOUS
<1>2. q = [r EXCEPT !.attempts = n]
  BY <1>1 DEF Reserved, Rows
<1>3. r.attempts \in 0 .. MaxRetries /\ r.attempts < MaxRetries
  BY RetryAssumption DEF Rows, BudgetExhausted
<1>4. n \in 0 .. MaxRetries
  BY <1>1, <1>3, RetryAssumption
<1>5. QED
  BY <1>2, <1>4 DEF Rows, SameOwners

\* An attempt that is taken back brings the owner fields of the snapshot back,
\* without a lease
LEMMA RestoredTyped ==
    ASSUME NEW r \in Rows, NEW s \in Rows, NEW q, q = Restored(r, s)
    PROVE  /\ q \in Rows /\ q.status = r.status /\ q.rs = s.rs /\ q.claim = s.claim
           /\ q.attempt = s.attempt /\ q.ttl = 0
<1>1. 0 \in 0 .. Lease
  BY Bounds
<1>2. QED
  BY <1>1 DEF Restored, Rows

-----------------------------------------------------------------------------
(* The kinds of steps.                                                     *)

Quiet == row' = row
\* The row leaves the pending or the staged state: its owner ends it, or it has
\* no active owner
Closes(p) ==
          /\ \/ row.status = "staged" \/ Owned(row, proc[p].id)
             \/ row.status = "pending" /\ ~HasActiveOwner(row)
          /\ proc[p].pc = "handoff" => row.rs = "claimed"
          /\ row'.status \in Terminal \cup {"staged"}
          /\ row'.rs \in {"none", "settlement"} /\ row'.claim = NoClaim /\ row'.attempt = NoClaim
          /\ row'.status = "staged" => row'.rs = "settlement"
          /\ row'.ttl = 0
\* A failure that says nothing of the send
Postpones(p) ==
    /\ proc[p].pc = "fail" /\ proc[p].how = "plain" /\ Owned(row, proc[p].id)
    /\ row'.status = "pending" /\ row'.rs = IF row.rs = "claimed" THEN "none" ELSE row.rs
    /\ row'.claim = NoClaim /\ row'.attempt = row.attempt /\ row'.ttl = 0
\* A failure that says that nothing was sent
Reopens(p) ==
    /\ proc[p].pc = "fail" /\ proc[p].how = "before" /\ Owned(row, proc[p].id)
    /\ row'.status = "pending" /\ row'.rs = "none" /\ row'.claim = NoClaim
    /\ row'.attempt = NoClaim /\ row'.ttl = 0
\* The row gets or keeps the evidence of a send
Testifies(p) ==
    /\ InPost(proc[p]) \/ (proc[p].pc = "fail" /\ proc[p].how = "after")
    /\ Owned(row, proc[p].id)
    /\ row'.status = "pending" /\ row'.rs = "unknown" /\ row'.claim = NoClaim
    /\ row'.attempt = row.attempt /\ row'.ttl \in {row.ttl, 0}
\* The row gets the start marker
Marks(p) ==
    /\ proc[p].pc \in {"start", "dispatch"}
    /\ proc[p].pre # "acked"
    /\ row.status = "pending" /\ proc[p].id \in {row.claim, row.attempt} /\ row.ttl > 0
    /\ row.rs \in {"claimed", "started", "unknown"}
    /\ row'.status = "pending" /\ row'.rs = IF row.rs = "unknown" THEN "unknown" ELSE "started"
    /\ row'.claim = NoClaim /\ row'.attempt = proc[p].id /\ row'.ttl = row.ttl
\* The lease is extended
Extends(p) ==
    /\ proc[p].pc = "startLease" \/ proc[p].beat
    /\ row.status = "pending" /\ proc[p].id \in {row.claim, row.attempt} /\ row.ttl > 0
    /\ SameOwners(row, row') /\ row'.ttl = Lease
\* An attempt is counted
Counts(p) ==
    /\ Owned(row, proc[p].id) /\ SameOwners(row, row') /\ row'.ttl = row.ttl
\* The row is claimed for a new owner
Takes(p, c) ==
    /\ proc[p].pc = "claim" /\ c \in NewClaims /\ row.status = "pending"
    /\ \/ row.rs = "none"
       \/ row.rs = "claimed" /\ row.ttl = 0
       \/ row.rs = "started" /\ proc[p].snap.rs = "started" /\ row.attempt = proc[p].snap.attempt
    /\ row'.status = "pending" /\ row'.rs = "claimed" /\ row'.claim = c
    /\ row'.attempt = NoClaim /\ row'.ttl = Lease
\* The owner fields of a snapshot come back
Restores(p) ==
    /\ proc[p].pc = "restore" /\ Owned(row, proc[p].id)
    /\ row'.status = "pending" /\ row'.rs = proc[p].snap.rs /\ row'.claim = proc[p].snap.claim
    /\ row'.attempt = proc[p].snap.attempt /\ row'.ttl = 0

Fate(p) == /\ row' \in Rows
           /\ \/ Quiet \/ Closes(p) \/ Postpones(p) \/ Reopens(p) \/ Testifies(p) \/ Marks(p)
              \/ Extends(p) \/ Counts(p) \/ Restores(p)
              \/ \E c \in Claims : Takes(p, c)

Sent == \E i \in 1 .. Batch : visible[i] > 0

\* What the activity and the row learn together
Agrees(p) ==
    LET a == proc[p]
        b == proc'[p]
    IN /\ \/ b.pre = "acked" /\ a.pre # "acked"
          \/ b.post = "acked" /\ a.post # "acked"
          => Owned(row, a.id) /\ row'.status \in Terminal
       /\ InLoop(b) /\ b.post \in {"marked", "failed"} /\ b.post # a.post =>
            InPost(a) /\ Testifies(p)
       /\ b.pc = "handoff" /\ a.pc = "dispatch" =>
            \/ row' = row /\ (a.pre = "acked" \/ a.post # "none") /\ SameMarks(a, b)
            \/ Marks(p) /\ b.post = a.post /\ a.pre # "acked"
       /\ b.pc = "claim" /\ a.pc = "reconcile" => row' = row /\ ~Sent

WalkStep(p) == Walks(p) /\ Fate(p) /\ Agrees(p) /\ visible' = visible

\* Most steps leave nothing to agree on
LEMMA PlainAgrees ==
    ASSUME NEW p, Walks(p),
           \/ proc[p].pc \notin {"startAck", "postMark", "postAck", "postFail", "dispatch", "reconcile"}
           \/ proc'[p] = Idle
           \/ proc'[p].pc = proc[p].pc /\ SameMarks(proc[p], proc'[p])
    PROVE  Agrees(p)
<1>1. PICK a, b : a = proc[p] /\ b = proc'[p]
  OBVIOUS
<1>2. Edge(a, b)
  BY <1>1 DEF Walks
<1>3. CASE a.pc \notin {"startAck", "postMark", "postAck", "postFail", "dispatch", "reconcile"}
  BY <1>1, <1>2, <1>3 DEF Agrees, Edge, Looping, Acknowledged, InPost
<1>4. CASE b = Idle
  <2>1. b.pc = "idle" /\ b.pre = "none" /\ b.post = "none" /\ ~InLoop(b)
    BY <1>4 DEF Idle, InLoop, Loop, InPost
  <2>2. QED
    BY <1>1, <2>1 DEF Agrees
<1>5. CASE b.pc = a.pc /\ SameMarks(a, b)
  BY <1>1, <1>5 DEF Agrees, SameMarks
<1>6. QED
  BY <1>1, <1>3, <1>4, <1>5

\* A write ends with the new row or the old one
LEMMA WriteRow ==
    ASSUME NEW p, NEW cond, NEW new, NEW good, NEW bad, WriteIf(p, cond, new, good, bad)
    PROVE  \/ row' = row /\ Become(p, bad)
           \/ cond /\ row' = new /\ (Become(p, good) \/ Become(p, bad))
BY DEF WriteIf, Write, Refuse

\* Ends of the row
LEMMA ClosesEnded ==
    ASSUME NEW p, NEW s \in Terminal, row' = Ended(row, s),
           row.status = "staged" \/ Owned(row, proc[p].id),
           proc[p].pc = "handoff" => row.rs = "claimed"
    PROVE  Closes(p) /\ row' \in Rows
<1>1. s \in Statuses
  BY DEF Terminal, Statuses
<1>2. s # "staged"
  BY DEF Terminal
<1>3. QED
  BY <1>1, <1>2, EndedTyped DEF Closes

\* An acknowledgement by the owner of the row closes it
LEMMA ClosesAcked ==
    ASSUME NEW p, NEW v, Owned(row, proc[p].id), row' = Acked(row, v), proc[p].pc # "handoff"
    PROVE  Closes(p) /\ row' \in Rows /\ row'.status \in Terminal
<1>1. PICK s : s = IF v THEN "deleted" ELSE "completed"
  OBVIOUS
<1>2. s \in Terminal /\ row' = Ended(row, s) /\ row.status = "pending" /\ s \in Statuses
  BY <1>1 DEF Acked, Terminal, Owned, Statuses
<1>3. QED
  BY <1>2, ClosesEnded, EndedTyped

Ready(p) == Known(p) /\ row \in Rows

\* A step that leaves the row alone has one of the fates of a row
LEMMA QuietFate ==
    ASSUME NEW p, Ready(p), row' = row
    PROVE  Fate(p)
BY DEF Fate, Quiet, Ready

\* The steps that do not touch the row are steps of this kind
LEMMA WalkQuiet ==
    ASSUME NEW p, Ready(p),
           \/ MarkQueued(p) \/ Payload(p) \/ BatchReturns(p) \/ AdmissionClosed(p) \/ Respond(p)
           \/ Returned(p) \/ PartialFailure(p) \/ Ledger(p) \/ Thrown(p) \/ ThrownPost(p)
           \/ Settle(p) \/ Owner(p) \/ SentLedger(p) \/ RecReturned(p) \/ RecUnknown(p)
           \/ RecLedger(p) \/ RecThrown(p)
    PROVE  WalkStep(p)
<1>1. Known(p) /\ p \in Procs
  BY KnownTyped DEF Ready
<1>2. row' = row
  BY <1>1, QuietSteps
<1>3. Walks(p)
  BY <1>1, WalkMarkQueued, WalkPayload, WalkBatchReturns, WalkAdmissionClosed, WalkRespond,
     WalkReturned, WalkPartialFailure, WalkLedger, WalkThrown, WalkThrownPost, WalkSettle,
     WalkOwner, WalkSent, WalkRecReturned, WalkRecUnknown, WalkRecLedger, WalkRecThrown
<1>4. proc[p].pc \notin {"startAck", "postMark", "postAck", "postFail", "dispatch", "reconcile"}
  BY DEF MarkQueued, Payload, BatchReturns, AdmissionClosed, Respond, Returned, PartialFailure,
     Ledger, Thrown, ThrownPost, Settle, Owner, SentLedger, RecReturned, RecUnknown, RecLedger,
     RecThrown, At
<1>5. visible' = visible
  BY DEF MarkQueued, Payload, BatchReturns, AdmissionClosed, Respond, Returned, PartialFailure,
     Ledger, Thrown, ThrownPost, Settle, Owner, SentLedger, RecReturned, RecUnknown, RecLedger,
     RecThrown
<1>6. QED
  BY <1>2, <1>3, <1>4, <1>5, QuietFate, PlainAgrees DEF WalkStep

\* A crash is such a step: the activity ends and the row stays
LEMMA StepCrash ==
    ASSUME NEW p, Ready(p), Crash(p)
    PROVE  WalkStep(p)
<1>1. Known(p) /\ row' = row /\ visible' = visible /\ Become(p, Idle)
  BY DEF Ready, Crash
<1>2. Walks(p) /\ proc'[p] = Idle
  BY <1>1, WalkEnding, BecomeMoves
<1>3. QED
  BY <1>1, <1>2, QuietFate, PlainAgrees DEF WalkStep

\* and so is the loss of the lease
LEMMA StepExpire ==
    ASSUME NEW p, Ready(p), Expire(p)
    PROVE  WalkStep(p)
<1>1. Known(p) /\ row' = row /\ visible' = visible
  BY DEF Ready, Expire
<1>2. PICK a, b : a = proc[p] /\ b = [a EXCEPT !.lost = TRUE]
  OBVIOUS
<1>3. proc'[p] = b
  BY <1>1, <1>2, BecomeMoves DEF Expire
<1>4. a \in Activities
  BY <1>1, <1>2, KnownTyped
<1>5. b.pc = a.pc /\ SameMarks(a, b)
  BY <1>2, <1>4 DEF Activities, SameMarks
<1>6. QED
  BY <1>1, <1>2, <1>3, <1>5, WalkExpire, QuietFate, PlainAgrees DEF WalkStep

\* and the cancellation by the caller
LEMMA StepAbort ==
    ASSUME NEW p, Ready(p), Abort(p)
    PROVE  WalkStep(p)
<1>1. Known(p) /\ row' = row /\ visible' = visible
  BY DEF Ready, Abort
<1>2. PICK a : a = proc[p]
  OBVIOUS
<1>3. PICK c : c = (/\ a.pc # "thrown" /\ a.ret # "thrownPost" /\ ~a.started /\ a.post = "none")
  OBVIOUS
<1>4. PICK k : k = IF c THEN "pending" ELSE a.cancel
  OBVIOUS
<1>5. PICK h : h = (a.beat /\ ~c)
  OBVIOUS
<1>6. PICK b : b = [a EXCEPT !.aborted = TRUE, !.cancel = k, !.beat = h]
  OBVIOUS
<1>7. Become(p, b)
  BY <1>2, <1>3, <1>4, <1>5, <1>6 DEF Abort
<1>8. proc'[p] = b /\ a \in Activities
  BY <1>1, <1>2, <1>7, BecomeMoves, KnownTyped
<1>9. b.pc = a.pc /\ SameMarks(a, b)
  BY <1>6, <1>8 DEF Activities, SameMarks
<1>10. QED
  BY <1>1, <1>2, <1>8, <1>9, WalkAbort, QuietFate, PlainAgrees DEF WalkStep

\* and retireUnsent, which only its owner can do
LEMMA StepRetireUnsent ==
    ASSUME NEW p, Ready(p), RetireUnsent(p)
    PROVE  WalkStep(p)
<1>1. Known(p) /\ visible' = visible
  BY DEF Ready, RetireUnsent
<1>2. PICK a : a = proc[p]
  OBVIOUS
<1>3. a \in Activities
  BY <1>1, <1>2, KnownTyped
<1>4. PICK k \in {"retired", "refused"} : Become(p, [a EXCEPT !.cancel = k])
  BY <1>2, WriteEnds DEF RetireUnsent
<1>5. PICK b : b = [a EXCEPT !.cancel = k]
  OBVIOUS
<1>6. proc'[p] = b /\ b.pc = a.pc /\ SameMarks(a, b)
  BY <1>1, <1>3, <1>4, <1>5, BecomeMoves DEF Activities, SameMarks
<1>7. Agrees(p)
  BY <1>1, <1>2, <1>6, WalkRetireUnsent, PlainAgrees
<1>8. Fate(p)
  <2>1. row' = row \/ (Retirable(row, proc[p].id) /\ row' = Ended(row, "deleted"))
    BY WriteRow DEF RetireUnsent
  <2>2. ASSUME Retirable(row, proc[p].id), row' = Ended(row, "deleted")
        PROVE  Closes(p) /\ row' \in Rows
    <3>1. Owned(row, proc[p].id) /\ row.rs = "claimed"
      BY <2>2 DEF Retirable, Promotable, Owned
    <3>2. "deleted" \in Terminal
      BY DEF Terminal
    <3>3. QED
      BY <2>2, <3>1, <3>2, ClosesEnded
  <2>3. QED
    BY <2>1, <2>2, QuietFate DEF Fate
<1>9. QED
  BY <1>1, <1>7, <1>8, WalkRetireUnsent DEF WalkStep

\* Acknowledgements outside the loop
LEMMA StepAcks ==
    ASSUME NEW p, Ready(p), DropRow(p) \/ Ack(p) \/ OwnerAck(p) \/ SentAck(p) \/ RecAck(p)
    PROVE  WalkStep(p)
<1>1. Known(p) /\ visible' = visible
  BY DEF Ready, DropRow, Ack, OwnerAck, SentAck, RecAck
<1>2. Walks(p)
  BY <1>1, WalkEnding, WalkAck, WalkSent, WalkRecAck
<1>3. /\ proc[p].pc \notin {"startAck", "postMark", "postAck", "postFail", "dispatch", "reconcile"}
      /\ proc[p].pc # "handoff"
  BY DEF DropRow, Ack, OwnerAck, SentAck, RecAck, At
<1>4. row' = row \/ (Mine(p) /\ \E v : row' = Acked(row, v))
  BY DEF DropRow, Ack, OwnerAck, SentAck, RecAck, WriteIf, Write, Refuse
<1>5. Fate(p)
  BY <1>3, <1>4, QuietFate, ClosesAcked DEF Fate, Mine
<1>6. QED
  BY <1>1, <1>2, <1>3, <1>5, PlainAgrees DEF WalkStep

\* and staging or finalizing a failed settlement
LEMMA StepStage ==
    ASSUME NEW p, Ready(p), Stage(p) \/ Finalize(p)
    PROVE  WalkStep(p)
<1>1. Known(p) /\ visible' = visible
  BY DEF Ready, Stage, Finalize
<1>2. Walks(p)
  BY <1>1, WalkStage, WalkEnding
<1>3. /\ proc[p].pc \notin {"startAck", "postMark", "postAck", "postFail", "dispatch", "reconcile"}
      /\ proc[p].pc # "handoff"
  BY DEF Stage, Finalize, At
<1>4. CASE Stage(p)
  <2>1. row' = row \/ (row' = Staged(row, proc[p].rejected)
                         /\ \/ Owned(row, proc[p].id)
                            \/ Claimable(row, NoClaim)
                            \/ \E c : Owned(row, c) /\ ~HasActiveOwner(row))
    BY <1>4 DEF Stage, WriteIf, Write, Refuse
  <2>2. CASE /\ row' = Staged(row, proc[p].rejected)
             /\ \/ Owned(row, proc[p].id)
                \/ Claimable(row, NoClaim)
                \/ \E c : Owned(row, c) /\ ~HasActiveOwner(row)
    <3>1. row.status = "pending" /\ proc[p].rejected \in BOOLEAN
      BY <1>1, <2>2, PendingGuards, KnownTyped DEF Activities
    <3>5. Claimable(row, NoClaim) => ~HasActiveOwner(row)
      BY DEF Claimable, HasActiveOwner
    <3>2. PICK v : v = proc[p].rejected
      OBVIOUS
    <3>3. Closes(p) /\ row' \in Rows
      BY <1>3, <2>2, <3>1, <3>2, <3>5, StagedTyped DEF Closes
    <3>4. QED
      BY <1>1, <1>2, <1>3, <3>3, PlainAgrees DEF WalkStep, Fate
  <2>3. QED
    BY <1>1, <1>2, <1>3, <2>1, <2>2, QuietFate, PlainAgrees DEF WalkStep
<1>5. CASE Finalize(p)
  <2>1. row' = row \/ (row.status = "staged" /\ row' = Ended(row, "failed"))
    BY <1>5, WriteRow DEF Finalize
  <2>2. Fate(p)
    BY <1>3, <2>1, QuietFate, ClosesEnded DEF Fate, Terminal
  <2>3. QED
    BY <1>1, <1>2, <1>3, <2>2, PlainAgrees DEF WalkStep
<1>6. QED
  BY <1>4, <1>5

\* The start marker is written or refused
LEMMA StepStartSend ==
    ASSUME NEW p, Ready(p), StartSend(p)
    PROVE  WalkStep(p)
<1>1. Known(p) /\ row \in Rows /\ visible' = visible /\ proc[p].pc = "start"
  BY DEF Ready, StartSend, At
<1>2. \/ row' = row
      \/ /\ proc[p].pre = "none"
         /\ Promotable(row, proc[p].id) /\ row' = Promoted(row, proc[p].id)
  <2>1. CASE Exact \/ proc[p].pre # "none"
    BY <2>1 DEF StartSend, Refuse
  <2>2. CASE ~(Exact \/ proc[p].pre # "none")
    BY <2>2, WriteRow DEF StartSend
  <2>3. QED
    BY <2>1, <2>2
<1>3. Fate(p)
  <2>1. PICK c : c = proc[p].id
    OBVIOUS
  <2>2. c \in Claims \cup {NoClaim}
    BY <1>1, <2>1, KnownTyped DEF Activities
  <2>3. CASE proc[p].pre = "none" /\ Promotable(row, c) /\ row' = Promoted(row, c)
    <3>1. /\ row' \in Rows /\ row'.status = row.status /\ row'.rs = "started"
          /\ row'.claim = NoClaim /\ row'.attempt = c /\ row'.ttl = row.ttl
      BY <1>1, <2>2, <2>3, PromotedTyped
    <3>2. Marks(p)
      BY <1>1, <2>1, <2>3, <3>1 DEF Marks, Promotable
    <3>3. QED
      BY <3>1, <3>2 DEF Fate
  <2>4. QED
    BY <1>2, <2>1, <2>3, QuietFate
<1>4. QED
  BY <1>1, <1>3, WalkStartSend, PlainAgrees DEF WalkStep

\* The queued intent is removed before a send without a marker
LEMMA StepStartAck ==
    ASSUME NEW p, Ready(p), StartAck(p)
    PROVE  WalkStep(p)
<1>1. Known(p) /\ row \in Rows /\ visible' = visible /\ proc[p].pc = "startAck"
  BY DEF Ready, StartAck, At
<1>2. proc[p].i <= Batch /\ p \in Procs /\ proc[p] \in Activities /\ Local(proc[p])
  BY <1>1, AtHand, KnownTyped
<1>3. PICK post : post = IF proc[p].recovery THEN proc[p].post ELSE "acked"
  OBVIOUS
<1>4. WriteIf(p, Mine(p), Acked(row, FALSE), Begin(p, "acked", post), After(p, "early"))
  BY <1>3 DEF StartAck
<1>5. \/ row' = row /\ Become(p, After(p, "early"))
      \/ /\ Owned(row, proc[p].id) /\ row' = Acked(row, FALSE)
         /\ Become(p, After(p, "early")) \/ Become(p, Begin(p, "acked", post))
  BY <1>4, WriteRow DEF Mine
<1>6. Fate(p) /\ (row' # row => row'.status \in Terminal)
  BY <1>1, <1>5, ClosesAcked, QuietFate DEF Fate
<1>7. Agrees(p)
  <2>1. CASE Become(p, After(p, "early"))
    <3>1. PICK b : b = After(p, "early")
      OBVIOUS
    <3>2. "early" \in Outcomes
      BY DEF Outcomes, Failures
    <3>3. SameMarks(proc[p], b) /\ b.pc \in {"payload", Escape(proc[p])}
      BY <1>2, <3>1, <3>2, AfterFields
    <3>4. proc'[p] = b
      BY <1>1, <2>1, <3>1, BecomeMoves
    <3>5. b.pc # "handoff" /\ b.pc # "claim"
      BY <3>3 DEF Escape
    <3>6. QED
      BY <3>3, <3>4, <3>5 DEF Agrees, SameMarks
  <2>2. CASE Owned(row, proc[p].id) /\ row' = Acked(row, FALSE) /\ Become(p, Begin(p, "acked", post))
    <3>1. PICK b : b = Begin(p, "acked", post)
      OBVIOUS
    <3>2. post \in {"none", "marked", "acked", "failed"}
      BY <1>2, <1>3 DEF Activities
    <3>3. /\ b.pre = "acked" /\ b.post = post
          /\ b.pc \in {"payload", Escape(proc[p]), "dispatch"}
      BY <1>2, <3>1, <3>2, BeginFields
    <3>4. proc'[p] = b
      BY <1>1, <2>2, <3>1, BecomeMoves
    <3>5. b.pc # "handoff" /\ b.pc # "claim" /\ b.post \in {proc[p].post, "acked"}
      BY <1>3, <3>3 DEF Escape
    <3>6. row'.status \in Terminal
      BY <1>1, <2>2, ClosesAcked
    <3>7. QED
      BY <2>2, <3>4, <3>5, <3>6 DEF Agrees
  <2>3. QED
    BY <1>5, <2>1, <2>2
<1>8. QED
  BY <1>1, <1>6, <1>7, WalkStartAck DEF WalkStep

\* The claim is proved before the handoff
LEMMA StepDispatchMark ==
    ASSUME NEW p, Ready(p), DispatchMark(p)
    PROVE  WalkStep(p)
<1>1. Known(p) /\ row \in Rows /\ visible' = visible /\ proc[p].pc = "dispatch"
  BY DEF Ready, DispatchMark, At
<1>2. PICK a : a = proc[p]
  OBVIOUS
<1>3. PICK q : q = [a EXCEPT !.pc = "handoff", !.pre = "marked"]
  OBVIOUS
<1>4. /\ a.i <= Batch /\ a \in Activities /\ a.pc = "dispatch" /\ p \in Procs
  BY <1>1, <1>2, AtHand, KnownTyped
<1>5. \/ /\ row' = row /\ (a.pre = "acked" \/ a.post # "none")
         /\ Become(p, To(p, "handoff"))
      \/ row' = row /\ Become(p, After(p, "early"))
      \/ /\ a.pre # "acked" /\ Dispatchable(row, a.id) /\ row' = Dispatched(row, a.id)
         /\ Become(p, Flow(q)) \/ Become(p, After(p, "early"))
  <2>1. CASE a.pre = "acked" \/ a.post # "none"
    BY <1>2, <2>1 DEF DispatchMark, Refuse
  <2>2. CASE ~(a.pre = "acked" \/ a.post # "none")
    BY <1>2, <1>3, <2>2, WriteRow DEF DispatchMark
  <2>3. QED
    BY <2>1, <2>2
<1>6. ASSUME a.pre # "acked", Dispatchable(row, a.id), row' = Dispatched(row, a.id)
      PROVE  row' \in Rows /\ Marks(p)
  <2>1. PICK c : c = a.id
    OBVIOUS
  <2>2. c \in Claims \cup {NoClaim}
    BY <1>4, <2>1 DEF Activities
  <2>3. /\ row' \in Rows /\ row'.status = row.status /\ row'.claim = NoClaim
        /\ row'.rs = IF row.rs = "unknown" THEN "unknown" ELSE "started"
        /\ row'.attempt = c /\ row'.ttl = row.ttl
    BY <1>1, <1>6, <2>1, <2>2, DispatchedTyped
  <2>4. QED
    BY <1>2, <1>4, <1>6, <2>1, <2>3 DEF Marks, Dispatchable
<1>7. Fate(p)
  BY <1>5, <1>6, QuietFate DEF Fate
<1>8. ASSUME Become(p, After(p, "early"))
      PROVE  Agrees(p)
  <2>1. PICK b : b = After(p, "early")
    OBVIOUS
  <2>2. "early" \in Outcomes
    BY DEF Outcomes, Failures
  <2>3. SameMarks(a, b) /\ b.pc \in {"payload", Escape(a)}
    BY <1>2, <1>4, <2>1, <2>2, AfterFields
  <2>4. proc'[p] = b
    BY <1>1, <1>8, <2>1, BecomeMoves
  <2>5. b.pc # "handoff" /\ b.pc # "claim"
    BY <2>3 DEF Escape
  <2>6. QED
    BY <1>2, <2>3, <2>4, <2>5 DEF Agrees, SameMarks
<1>9. CASE row' = row /\ (a.pre = "acked" \/ a.post # "none") /\ Become(p, To(p, "handoff"))
  <2>1. PICK b : b = To(p, "handoff")
    OBVIOUS
  <2>2. "handoff" \in Pcs
    BY DEF Pcs, Loop
  <2>3. SameMarks(a, b) /\ b.pc = "handoff"
    BY <1>2, <1>4, <2>1, <2>2, ToFields
  <2>4. proc'[p] = b
    BY <1>1, <1>9, <2>1, BecomeMoves
  <2>5. Agrees(p)
    BY <1>2, <1>9, <2>3, <2>4 DEF Agrees, SameMarks
  <2>6. QED
    BY <1>1, <1>7, <2>5, WalkDispatchMark DEF WalkStep
<1>10. CASE /\ a.pre # "acked" /\ Dispatchable(row, a.id) /\ row' = Dispatched(row, a.id)
            /\ Become(p, Flow(q))
  <2>1. PICK b : b = Flow(q)
    OBVIOUS
  <2>2. "handoff" \in Pcs
    BY DEF Pcs, Loop
  <2>3. /\ q \in Activities /\ q.pc = "handoff" /\ q.pre = "marked" /\ q.post = a.post
    BY <1>3, <1>4, <2>2 DEF Activities
  <2>4. b.pc = "handoff" /\ b.pre = "marked" /\ b.post = a.post
    BY <2>1, <2>3, FlowFields DEF SameMarks
  <2>5. proc'[p] = b
    BY <1>1, <1>10, <2>1, BecomeMoves
  <2>6. Agrees(p)
    BY <1>2, <1>6, <1>10, <2>4, <2>5 DEF Agrees
  <2>7. QED
    BY <1>1, <1>7, <2>6, WalkDispatchMark DEF WalkStep
<1>11. QED
  BY <1>1, <1>5, <1>7, <1>8, <1>9, <1>10, WalkDispatchMark DEF WalkStep

\* The adapter says that nothing was sent only when nothing was
LEMMA StepReconcile ==
    ASSUME NEW p, Ready(p), Reconcile(p), visible \in [1 .. Batch -> 0 .. 2]
    PROVE  WalkStep(p)
<1>1. Known(p) /\ row' = row /\ visible' = visible /\ proc[p].pc = "reconcile"
  BY DEF Ready, Reconcile, At
<1>2. p \in Procs /\ proc[p] \in Activities
  BY <1>1, KnownTyped
<1>3. \/ \E pc \in {"sentLedger", "stage"} : Become(p, To(p, pc))
      \/ ~Sent /\ Become(p, To(p, "claim"))
      \/ Become(p, Failing(p, "plain", "idle", "idle"))
  BY DEF Reconcile, Goto, Sent
<1>4. Agrees(p)
  <2>1. ASSUME NEW pc \in {"sentLedger", "stage", "claim"}, Become(p, To(p, pc)), pc = "claim" => ~Sent
        PROVE  Agrees(p)
    <3>1. PICK b : b = To(p, pc)
      OBVIOUS
    <3>2. pc \in Pcs /\ pc # "idle"
      BY DEF Pcs, PcRecovery, PcShared
    <3>3. b.pc = pc /\ SameMarks(proc[p], b)
      BY <1>2, <3>1, <3>2, ToFields
    <3>4. proc'[p] = b
      BY <1>1, <2>1, <3>1, BecomeMoves
    <3>5. QED
      BY <1>1, <2>1, <3>3, <3>4 DEF Agrees, SameMarks
  <2>2. CASE Become(p, Failing(p, "plain", "idle", "idle"))
    <3>1. PICK b : b = Failing(p, "plain", "idle", "idle")
      OBVIOUS
    <3>2. "idle" \in Pcs
      BY DEF Pcs, PcShared
    <3>3. b.pc = "fail" /\ Bare(b)
      BY <1>2, <3>1, <3>2, FailingFields
    <3>4. proc'[p] = b
      BY <1>1, <2>2, <3>1, BecomeMoves
    <3>5. QED
      BY <3>3, <3>4 DEF Agrees, Bare
  <2>3. QED
    BY <1>3, <2>1, <2>2
<1>5. QED
  BY <1>1, <1>4, WalkReconcile, QuietFate DEF WalkStep

\* What a row operation of persistQueuedPostSendState or of a failure says
LEMMA TestifiesFate ==
    ASSUME NEW p, Ready(p), Owned(row, proc[p].id),
           InPost(proc[p]) \/ (proc[p].pc = "fail" /\ proc[p].how = "after"),
           \/ row' = FailedAfter(row)
           \/ row' = OutcomeUnknown(row, proc[p].id)
    PROVE  row' \in Rows /\ Testifies(p)
<1>1. row \in Rows /\ row.status = "pending"
  BY DEF Ready, Owned
<1>2. CASE row' = FailedAfter(row)
  <2>1. row' = Failed(row, "after")
    BY <1>2 DEF Failed
  <2>2. /\ row' \in Rows /\ row'.status = row.status /\ row'.claim = NoClaim /\ row'.ttl = 0
        /\ row'.rs = "unknown" /\ row'.attempt = row.attempt
    BY <1>1, <2>1, FailedTyped
  <2>3. QED
    BY <1>1, <2>2 DEF Testifies
<1>3. CASE row' = OutcomeUnknown(row, proc[p].id)
  <2>1. PICK c : c = proc[p].id
    OBVIOUS
  <2>2. /\ row' \in Rows /\ row'.status = row.status /\ row'.rs = "unknown" /\ row'.claim = NoClaim
        /\ row'.attempt = row.attempt /\ row'.ttl \in {row.ttl, 0}
    BY <1>1, <1>3, <2>1, UnknownTyped
  <2>3. QED
    BY <1>1, <2>2 DEF Testifies
<1>4. QED
  BY <1>2, <1>3

\* The evidence of a send is recorded, the row acknowledged instead, or neither
LEMMA StepPosts ==
    ASSUME NEW p, Ready(p), PostMark(p) \/ PostAck(p) \/ PostFail(p)
    PROVE  WalkStep(p)
<1>1. /\ Known(p) /\ row \in Rows /\ visible' = visible
      /\ proc[p].pc \in {"postMark", "postAck", "postFail"} /\ InPost(proc[p])
  BY DEF Ready, PostMark, PostAck, PostFail, At, InPost
<1>2. /\ p \in Procs /\ proc[p] \in Activities /\ Local(proc[p])
      /\ proc[p].ret = "payload" => proc[p].i <= Batch
  BY <1>1, KnownTyped DEF Local, SendLocal, MidSend
<1>3. \/ /\ row' = row
         /\ Become(p, Unpersisted(p)) \/ \E pc \in {"postAck", "postFail"} : Become(p, To(p, pc))
      \/ /\ Owned(row, proc[p].id)
         /\ row' = FailedAfter(row) \/ row' = OutcomeUnknown(row, proc[p].id)
         /\ \/ \E s \in {"marked", "failed"} : Become(p, Persisted(p, s))
            \/ Become(p, Unpersisted(p)) \/ \E pc \in {"postAck", "postFail"} : Become(p, To(p, pc))
      \/ /\ Owned(row, proc[p].id) /\ row' = Acked(row, FALSE)
         /\ Become(p, Persisted(p, "acked")) \/ Become(p, To(p, "postFail"))
  <2>1. CASE PostMark(p)
    <3>1. CASE ~proc[p].live
      BY <2>1, <3>1 DEF PostMark, Refuse
    <3>2. CASE proc[p].live
      BY <2>1, <3>2, WriteRow DEF PostMark, Mine
    <3>3. QED
      BY <3>1, <3>2
  <2>2. CASE PostAck(p)
    BY <2>2, WriteRow DEF PostAck, Mine
  <2>3. CASE PostFail(p)
    BY <2>3, WriteRow DEF PostFail, Mine
  <2>4. QED
    BY <2>1, <2>2, <2>3
<1>4. Fate(p)
  BY <1>1, <1>3, TestifiesFate, ClosesAcked, QuietFate DEF Fate
<1>5. ASSUME Become(p, Unpersisted(p)) \/ \E pc \in {"postAck", "postFail"} : Become(p, To(p, pc))
      PROVE  Agrees(p)
  <2>1. PICK b : /\ Become(p, b)
                 /\ b = Unpersisted(p) \/ \E pc \in {"postAck", "postFail"} : b = To(p, pc)
    BY <1>5
  <2>2. CASE b = Unpersisted(p)
    <3>1. b = Idle \/ (SameMarks(proc[p], b) /\ b.pc \in {proc[p].esc, "payload", Escape(proc[p])})
      BY <1>2, <2>2, UnpersistedFields
    <3>2. proc[p].esc # "handoff" /\ proc[p].esc # "claim"
      BY <1>1, <1>2 DEF Local, PostLocal
    <3>3. proc'[p] = b
      BY <1>1, <2>1, BecomeMoves
    <3>4. CASE b = Idle
      BY <1>1, <3>3, <3>4, WalkPosts, PlainAgrees
    <3>5. CASE b # Idle
      <4>1. SameMarks(proc[p], b) /\ b.pc # "handoff" /\ b.pc # "claim"
        BY <3>1, <3>2, <3>5 DEF Escape
      <4>2. QED
        BY <3>3, <4>1 DEF Agrees, SameMarks
    <3>6. QED
      BY <3>4, <3>5
  <2>3. CASE \E pc \in {"postAck", "postFail"} : b = To(p, pc)
    <3>1. PICK pc \in {"postAck", "postFail"} : b = To(p, pc)
      BY <2>3
    <3>2. pc \in Pcs /\ pc # "idle"
      BY DEF Pcs, PcShared
    <3>3. b.pc = pc /\ SameMarks(proc[p], b)
      BY <1>2, <3>1, <3>2, ToFields
    <3>4. proc'[p] = b
      BY <1>1, <2>1, BecomeMoves
    <3>5. QED
      BY <3>3, <3>4 DEF Agrees, SameMarks
  <2>4. QED
    BY <2>1, <2>2, <2>3
<1>6. ASSUME NEW s \in {"marked", "failed", "acked"}, Become(p, Persisted(p, s)),
             s = "acked" => Owned(row, proc[p].id) /\ row'.status \in Terminal, s # "acked" => Testifies(p)
      PROVE  Agrees(p)
  <2>1. PICK b : b = Persisted(p, s)
    OBVIOUS
  <2>2. b = Idle \/ (b.pre = proc[p].pre /\ b.post = s /\ b.pc \in {proc[p].ret, "payload", Escape(proc[p])})
    BY <1>2, <2>1, PersistedFields
  <2>3. proc[p].ret # "handoff" /\ proc[p].ret # "claim"
    BY <1>1, <1>2 DEF Local, PostLocal
  <2>4. proc'[p] = b
    BY <1>1, <1>6, <2>1, BecomeMoves
  <2>5. CASE b = Idle
    BY <1>1, <2>4, <2>5, WalkPosts, PlainAgrees
  <2>6. CASE b # Idle
    <3>1. b.pre = proc[p].pre /\ b.post = s /\ b.pc # "handoff" /\ b.pc # "claim"
      BY <2>2, <2>3, <2>6 DEF Escape
    <3>2. QED
      BY <1>1, <1>6, <2>4, <3>1 DEF Agrees
  <2>7. QED
    BY <2>5, <2>6
<1>7. Agrees(p)
  BY <1>1, <1>3, <1>5, <1>6, TestifiesFate, ClosesAcked
<1>8. QED
  BY <1>1, <1>4, <1>7, WalkPosts DEF WalkStep

\* A failure is recorded
LEMMA StepFail ==
    ASSUME NEW p, Ready(p), FailStep(p)
    PROVE  WalkStep(p)
<1>1. Known(p) /\ row \in Rows /\ visible' = visible /\ proc[p].pc = "fail"
  BY DEF Ready, FailStep, At
<1>2. row' = row \/ (Owned(row, proc[p].id) /\ row' = Failed(row, proc[p].how))
  BY WriteRow DEF FailStep, Mine
<1>3. PICK how : how = proc[p].how
  OBVIOUS
<1>4. how \in {"plain", "before", "after"}
  BY <1>1, <1>3, KnownTyped DEF Activities
<1>5. ASSUME Owned(row, proc[p].id), row' = Failed(row, how)
      PROVE  Fate(p)
  <2>1. row.status = "pending"
    BY <1>5 DEF Owned
  <2>2. /\ row' \in Rows /\ row'.status = row.status /\ row'.claim = NoClaim /\ row'.ttl = 0
        /\ how = "plain" => /\ row'.rs = IF row.rs = "claimed" THEN "none" ELSE row.rs
                            /\ row'.attempt = row.attempt
        /\ how = "before" => row'.rs = "none" /\ row'.attempt = NoClaim
        /\ how = "after" => row'.rs = "unknown" /\ row'.attempt = row.attempt
    BY <1>1, <1>4, <1>5, FailedTyped
  <2>3. Postpones(p) \/ Reopens(p) \/ Testifies(p)
    BY <1>1, <1>3, <1>4, <1>5, <2>1, <2>2 DEF Postpones, Reopens, Testifies
  <2>4. QED
    BY <2>2, <2>3 DEF Fate
<1>6. QED
  BY <1>1, <1>2, <1>3, <1>5, QuietFate, WalkFailStep, PlainAgrees DEF WalkStep

\* An attempt is counted
LEMMA StepReserve ==
    ASSUME NEW p, Ready(p), Reserve(p)
    PROVE  WalkStep(p)
<1>1. Known(p) /\ row \in Rows /\ visible' = visible /\ proc[p].pc = "reserve"
  BY DEF Ready, Reserve, At
<1>2. row' = row \/ (Owned(row, proc[p].id) /\ ~BudgetExhausted(row) /\ row' = Reserved(row))
  <2>1. CASE Owned(row, proc[p].id) /\ BudgetExhausted(row)
    BY <2>1 DEF Reserve, Refuse
  <2>2. CASE ~(Owned(row, proc[p].id) /\ BudgetExhausted(row))
    BY <2>2 DEF Reserve, WriteIf, Write, Refuse
  <2>3. QED
    BY <2>1, <2>2
<1>3. Fate(p)
  BY <1>1, <1>2, QuietFate, ReservedTyped DEF Fate, Counts
<1>4. QED
  BY <1>1, <1>3, WalkReserve, PlainAgrees DEF WalkStep

\* An attempt is taken back
LEMMA StepRestore ==
    ASSUME NEW p, Ready(p), Restore(p)
    PROVE  WalkStep(p)
<1>1. Known(p) /\ row \in Rows /\ visible' = visible /\ proc[p].pc = "restore"
  BY DEF Ready, Restore, At
<1>2. row' = row \/ (Owned(row, proc[p].id) /\ row' = Restored(row, proc[p].snap))
  BY WriteRow DEF Restore
<1>3. PICK s : s = proc[p].snap
  OBVIOUS
<1>4. s \in Rows
  BY <1>1, <1>3, KnownTyped DEF Activities
<1>5. ASSUME Owned(row, proc[p].id), row' = Restored(row, s)
      PROVE  Fate(p)
  <2>1. row.status = "pending"
    BY <1>5 DEF Owned
  <2>2. /\ row' \in Rows /\ row'.status = row.status /\ row'.rs = s.rs /\ row'.claim = s.claim
        /\ row'.attempt = s.attempt /\ row'.ttl = 0
    BY <1>1, <1>4, <1>5, RestoredTyped
  <2>3. Restores(p)
    BY <1>1, <1>3, <1>5, <2>1, <2>2 DEF Restores
  <2>4. QED
    BY <2>2, <2>3 DEF Fate
<1>6. QED
  BY <1>1, <1>2, <1>3, <1>5, QuietFate, WalkEnding, PlainAgrees DEF WalkStep

\* The lease that the row grants is extended or not
LEMMA RenewFate ==
    ASSUME NEW p, Ready(p), proc[p].pc = "startLease" \/ proc[p].beat,
           row' = row \/ (Renewable(row, proc[p].id) /\ row' = Renewed(row))
    PROVE  Fate(p)
<1>1. CASE Renewable(row, proc[p].id) /\ row' = Renewed(row)
  <2>1. row' \in Rows /\ SameOwners(row, row') /\ row'.ttl = Lease
    BY <1>1, RenewedTyped DEF Ready
  <2>2. Extends(p)
    BY <1>1, <2>1 DEF Extends, Renewable
  <2>3. QED
    BY <2>1, <2>2 DEF Fate
<1>2. QED
  BY <1>1, QuietFate

\* A lease is not confirmed, or its renewal fails
LEMMA StepNoLease ==
    ASSUME NEW p, Ready(p), StartLease(p), ~Become(p, Flow([proc[p] EXCEPT !.pc = "payload",
                                              !.beat = TRUE, !.lease = Lease]))
    PROVE  WalkStep(p)
<1>1. Known(p) /\ row \in Rows /\ visible' = visible /\ proc[p].pc = "startLease"
  BY DEF Ready, StartLease, At
<1>2. /\ row' = row \/ (Renewable(row, proc[p].id) /\ row' = Renewed(row))
      /\ Become(p, To(p, IF proc[p].recovery THEN "recThrown" ELSE "idle"))
  BY WriteRow DEF StartLease
<1>3. QED
  BY <1>1, <1>2, RenewFate, WalkNoLease, PlainAgrees DEF WalkStep

\* A renewal that does not confirm the lease is an ordinary step
LEMMA StepNoRenewal ==
    ASSUME NEW p, Ready(p), Renew(p), ~Become(p, [proc[p] EXCEPT !.lease = Lease])
    PROVE  WalkStep(p)
<1>1. Known(p) /\ row \in Rows /\ visible' = visible /\ proc[p].beat /\ ~proc[p].lost
  BY DEF Ready, Renew
<1>2. PICK a : a = proc[p]
  OBVIOUS
<1>3. PICK v : v = (~Renewable(row, a.id) \/ a.lease = 0)
  OBVIOUS
<1>4. PICK b : b = [a EXCEPT !.lost = v]
  OBVIOUS
<1>5. /\ row' = row \/ (Renewable(row, proc[p].id) /\ row' = Renewed(row))
      /\ Become(p, b)
  BY <1>2, <1>3, <1>4, WriteRow DEF Renew
<1>6. v \in BOOLEAN /\ a \in Activities
  BY <1>1, <1>2, <1>3, KnownTyped
<1>7. b.pc = a.pc /\ SameMarks(a, b)
  BY <1>4, <1>6 DEF Activities, SameMarks
<1>8. Walks(p) /\ proc'[p] = b
  BY <1>1, <1>2, <1>4, <1>5, <1>6, WalkLost, BecomeMoves
<1>9. QED
  BY <1>1, <1>2, <1>5, <1>7, <1>8, RenewFate, PlainAgrees DEF WalkStep

\* A claim that committed without the process learning of it, or was refused
LEMMA TakesFate ==
    ASSUME NEW p, Ready(p), proc[p].pc = "claim", NEW c \in NewClaims,
           Claimable(row, IF proc[p].snap.rs = "started" THEN proc[p].snap.attempt ELSE NoClaim),
           row' = ClaimedBy(row, c)
    PROVE  row' \in Rows /\ Takes(p, c)
<1>1. c \in Claims
  BY DEF NewClaims
<1>2. /\ row' \in Rows /\ row'.status = row.status /\ row'.rs = "claimed" /\ row'.claim = c
      /\ row'.attempt = NoClaim /\ row'.ttl = Lease
  BY <1>1, ClaimedTyped DEF Ready
<1>3. QED
  BY <1>2 DEF Takes, Claimable

\* A recoverer that does not learn of a new claim makes an ordinary step
LEMMA StepNoClaim ==
    ASSUME NEW p, Ready(p), Claim(p),
           \A c \in NewClaims : ~Become(p, Flow([proc[p] EXCEPT !.pc = "reserve", !.id = c]))
    PROVE  WalkStep(p)
<1>1. Known(p) /\ row \in Rows /\ visible' = visible /\ proc[p].pc = "claim"
  BY DEF Ready, Claim, At
<1>2. PICK d : d = IF proc[p].snap.rs = "started" THEN proc[p].snap.attempt ELSE NoClaim
  OBVIOUS
<1>3. PICK c \in NewClaims : WriteIf(p, Claimable(row, d), ClaimedBy(row, c),
                               Flow([proc[p] EXCEPT !.pc = "reserve", !.id = c]), Idle)
  BY <1>2 DEF Claim
<1>4. /\ row' = row \/ (Claimable(row, d) /\ row' = ClaimedBy(row, c))
      /\ Become(p, Idle)
  BY <1>3, WriteRow
<1>5. c \in Claims
  BY DEF NewClaims
<1>6. Fate(p)
  BY <1>1, <1>2, <1>4, <1>5, TakesFate, QuietFate DEF Fate
<1>7. Walks(p) /\ proc'[p] = Idle
  BY <1>1, <1>4, IdleWalks, BecomeMoves
<1>8. QED
  BY <1>1, <1>6, <1>7, PlainAgrees DEF WalkStep

\* The payload is not handed over any more
LEMMA StepNoHandoff ==
    ASSUME NEW p, Ready(p), Handoff(p), Aborted(p)
    PROVE  WalkStep(p)
<1>1. Known(p) /\ row' = row /\ visible' = visible /\ proc[p].pc = "handoff"
      /\ Become(p, After(p, "early"))
  BY DEF Ready, Handoff, At
<1>2. proc[p].i <= Batch /\ proc[p].pc \in Loop \ {"respond"} /\ "early" \in Outcomes
  BY <1>1, AtHand DEF Loop, Outcomes, Failures
<1>3. QED
  BY <1>1, <1>2, AfterWalks, QuietFate, PlainAgrees DEF WalkStep

-----------------------------------------------------------------------------
(* The steps that begin, own, lease or send something.                     *)

Steps(p) == Moves(p) /\ proc'[p] \in Activities /\ Local(proc'[p])

\* The first lease is confirmed
Starts(p) ==
    LET a == proc[p]
        b == proc'[p]
    IN /\ Steps(p) /\ a.pc = "startLease" /\ b.pc = "payload"
       /\ b.beat /\ b.lease = Lease /\ b.id = a.id /\ b.snap = a.snap /\ b.id # NoClaim
       /\ b.pre = "none" /\ b.post = "none" /\ b.outs = {} /\ b.cur = "omitted" /\ b.i = 1
       /\ Extends(p) /\ row' \in Rows /\ visible' = visible

\* The lease is renewed
Renews(p) ==
    LET a == proc[p]
        b == proc'[p]
    IN /\ Steps(p) /\ a.beat /\ ~a.lost
       /\ b.pc = a.pc /\ b.recovery = a.recovery /\ b.id = a.id /\ b.beat = a.beat
       /\ b.lease = Lease /\ b.lost = a.lost
       /\ SameCaller(a, b) /\ SameMarks(a, b) /\ SameBatch(a, b) /\ SameReturn(a, b)
       /\ Extends(p) /\ row' \in Rows /\ visible' = visible

\* A recoverer claims the row
Owns(p, c) ==
    LET a == proc[p]
        b == proc'[p]
    IN /\ Steps(p) /\ a.pc = "claim" /\ b.pc = "reserve" /\ b.id = c /\ b.lease = a.lease
       /\ b.beat = a.beat /\ b.snap = a.snap /\ b.outs = {} /\ b.cur = "omitted"
       /\ b.pre = "none" /\ b.post = "none" /\ b.i = 1
       /\ Takes(p, c) /\ row' \in Rows /\ visible' = visible

\* An activity that begins
Begun(b) == /\ b.lease = 0 /\ ~b.beat /\ b.outs = {} /\ b.cur = "omitted" /\ b.i = 1
            /\ b.pc \in {"markQueued", "stage", "owner"} => b.pre = "none" /\ b.post = "none"

\* The producer writes the row, or goes on without one
Enqueues(p) ==
    LET a == proc[p]
        b == proc'[p]
    IN /\ Steps(p) /\ a.pc = "idle" /\ row.status = "absent" /\ row' \in Rows
       /\ visible' = visible
       /\ \/ \E c \in NewClaims :
               /\ row'.status = "pending" /\ row'.rs = "claimed" /\ row'.claim = c
               /\ row'.attempt = NoClaim /\ row'.ttl = Lease
               /\ \/ Begun(b) /\ b.pc = "markQueued" /\ b.id = c /\ b.snap = NoRow
                  \/ b = a
          \/ /\ row'.status = "skipped" /\ row'.rs = "none" /\ row'.claim = NoClaim
             /\ row'.attempt = NoClaim /\ row'.ttl = 0
             /\ \/ b = Idle
                \/ /\ Begun(b) /\ b.pc = "payload" /\ b.id = NoClaim /\ b.snap = NoRow
                   /\ b.pre = "acked" /\ b.post = "acked"

\* A process loads the row to recover it
Recovers(p) ==
    LET a == proc[p]
        b == proc'[p]
    IN /\ Steps(p) /\ a.pc = "idle" /\ row' = row /\ visible' = visible
       /\ row.status \in {"pending", "staged"}
       /\ row.status = "pending" => ~HasActiveOwner(row)
       /\ b.pc \in {"stage", "owner"} /\ Begun(b)
       /\ b.id \in {NoClaim, row.claim, row.attempt}
       /\ SameOwners(row, b.snap) /\ b.snap.ttl = row.ttl

\* The payload is handed to the adapter
Hands(p) ==
    LET a == proc[p]
        b == proc'[p]
    IN /\ Steps(p) /\ a.pc = "handoff" /\ ~a.lost /\ ~a.aborted
       /\ row' = row /\ b.pc = "respond"
       /\ SameOwner(a, b) /\ b.aborted = a.aborted /\ SameMarks(a, b) /\ b.i = a.i
       /\ b.snap = NoRow /\ b.dispatched /\ b.i <= Batch
       /\ MaySent(a) => MaySent(b)
       /\ \/ visible' = visible
          \/ /\ MaySent(b)
             /\ visible' = [visible EXCEPT ![a.i] = IF @ < 2 THEN @ + 1 ELSE @]

\* Time passes
Passes ==
    /\ row' \in Rows /\ SameOwners(row, row') /\ row'.ttl = Less(row.ttl)
    /\ visible' = visible
    /\ proc' \in [Procs -> Activities]
    /\ \A p \in Procs :
         LET a == proc[p]
             b == proc'[p]
         IN /\ Local(b) /\ b.pc = a.pc /\ b.recovery = a.recovery /\ b.id = a.id /\ b.beat = a.beat
            /\ b.lease = Less(a.lease) /\ (a.lost => b.lost)
            /\ SameCaller(a, b) /\ SameMarks(a, b) /\ SameBatch(a, b) /\ SameReturn(a, b)

\* What a process knows by itself depends on little of it
LEMMA LocalKept ==
    ASSUME NEW a \in Activities, Local(a), NEW b, b.pc = a.pc, b.recovery = a.recovery, b.id = a.id,
           b.beat => a.beat, b.beat = a.beat \/ b.aborted, a.aborted => b.aborted,
           b.snap = a.snap, SameMarks(a, b), SameBatch(a, b),
           SameReturn(a, b), TimersOnTime /\ b.beat /\ b.lease = 0 => b.lost
    PROVE  Local(b)
<1> HIDE DEF Activities
<1>1. (Holds(b) <=> Holds(a)) /\ (InPost(b) <=> InPost(a)) /\ (InLoop(b) <=> InLoop(a))
      /\ (MidSend(b) <=> MidSend(a))
  BY DEF Holds, InPost, InLoop, MidSend, SameReturn
<1>2. HoldLocal(b) /\ PostLocal(b) /\ SendLocal(b) /\ FailLocal(b)
  BY <1>1 DEF Local, HoldLocal, PostLocal, SendLocal, FailLocal, SameMarks, SameBatch, SameReturn,
     SentBeforeError
<1>3. BatchLocal(b) /\ SnapLocal(b) /\ BeatLocal(b) /\ MarkLocal(b)
  BY <1>1 DEF Local, BatchLocal, SnapLocal, BeatLocal, MarkLocal, SameMarks, SameBatch, SameReturn
<1>4. QED
  BY <1>2, <1>3 DEF Local

\* startLease is an ordinary step or confirms the first lease
LEMMA StepStarts ==
    ASSUME NEW p, Ready(p), StartLease(p),
           Become(p, Flow([proc[p] EXCEPT !.pc = "payload", !.beat = TRUE, !.lease = Lease])),
           ~WalkStep(p)
    PROVE  Starts(p)
<1>1. Known(p) /\ row \in Rows /\ visible' = visible /\ proc[p].pc = "startLease"
  BY DEF Ready, StartLease, At
<1>2. PICK a : a = proc[p]
  OBVIOUS
<1>3. PICK q : q = [a EXCEPT !.pc = "payload", !.beat = TRUE, !.lease = Lease]
  OBVIOUS
<1>4. PICK b : b = Flow(q)
  OBVIOUS
<1>5. a \in Activities /\ Local(a) /\ a.pc = "startLease" /\ p \in Procs
  BY <1>1, <1>2, KnownTyped
<1>6. "payload" \in Pcs /\ Lease \in 0 .. Lease /\ Lease > 0
  BY LeaseAssumption DEF Pcs, Loop
<1>7. /\ q \in Activities /\ q.pc = "payload" /\ q.beat /\ q.lease = Lease /\ q.id = a.id
      /\ q.recovery = a.recovery /\ SameCaller(a, q) /\ SameMarks(a, q) /\ SameBatch(a, q)
      /\ SameReturn(a, q)
  BY <1>3, <1>5, <1>6 DEF Activities, SameCaller, SameMarks, SameBatch, SameReturn
<1>8. /\ b \in Activities /\ b.pc = "payload" /\ b.beat /\ b.lease = Lease /\ b.id = a.id
      /\ b.recovery = a.recovery /\ SameCaller(a, b) /\ SameMarks(a, b) /\ SameBatch(a, b)
      /\ SameReturn(a, b)
  BY <1>4, <1>7, FlowFields DEF SameOwner, SameCaller, SameMarks, SameBatch, SameReturn
<1>9. proc'[p] = b /\ Moves(p)
  BY <1>1, <1>2, <1>3, <1>4, BecomeMoves
<1> HIDE DEF Activities
<1>10. Holds(a) /\ ~InPost(a) /\ ~MidSend(a) /\ a.pc \in Fresh
  BY <1>5 DEF Holds, Borrowed, InPost, MidSend, Fresh
<1>11. a.id # NoClaim
  BY <1>5, <1>10 DEF Local, HoldLocal, Loop
<1>12. a.outs = {} /\ a.i = 1 /\ a.pre = "none" /\ a.post = "none" /\ a.cur = "omitted"
       /\ a.snap.rs # "unknown" /\ RowShape(a.snap)
  BY <1>5, <1>10 DEF Local, BatchLocal, SendLocal, SnapLocal
<1>13. Holds(b) /\ InLoop(b) /\ ~InPost(b) /\ ~MidSend(b)
  BY <1>8 DEF Holds, Borrowed, InLoop, Loop, InPost, MidSend
<1>14. Local(b)
  <2>1. b.outs = {} /\ b.i = 1 /\ b.pre = "none" /\ b.post = "none" /\ b.cur = "omitted"
        /\ b.snap = a.snap
    BY <1>8, <1>12 DEF SameCaller, SameMarks, SameBatch
  <2>2. HoldLocal(b) /\ PostLocal(b) /\ SendLocal(b) /\ FailLocal(b)
    BY <1>8, <1>11, <1>13, <2>1 DEF HoldLocal, PostLocal, SendLocal, FailLocal
  <2>3. BatchLocal(b) /\ SnapLocal(b) /\ BeatLocal(b) /\ MarkLocal(b)
    BY <1>6, <1>8, <1>12, <1>13, <2>1 DEF BatchLocal, SnapLocal, BeatLocal, MarkLocal, Fresh
  <2>4. QED
    BY <2>2, <2>3 DEF Local
<1>15. Renewable(row, a.id) /\ row' = Renewed(row)
  <2>1. PICK c : c = To(p, IF proc[p].recovery THEN "recThrown" ELSE "idle")
    OBVIOUS
  <2>2. WriteIf(p, Renewable(row, a.id), Renewed(row), b, c)
    BY <1>2, <1>3, <1>4, <2>1 DEF StartLease
  <2>3. b # c
    <3>1. CASE proc[p].recovery
      <4>1. "recThrown" \in Pcs
        BY DEF Pcs, PcRecovery
      <4>2. c.pc = "recThrown"
        BY <1>2, <1>5, <2>1, <3>1, <4>1, ToFields
      <4>3. QED
        BY <1>8, <4>2
    <3>2. CASE ~proc[p].recovery
      <4>1. c.pc = "idle"
        BY <1>2, <1>5, <2>1, <3>2, ToIdle, IdleTyped
      <4>2. QED
        BY <1>8, <4>1
    <3>3. QED
      BY <3>1, <3>2
  <2>4. ~Become(p, c)
    BY <1>1, <1>9, <2>3, BecomeMoves
  <2>5. QED
    BY <2>2, <2>4, WriteRow
<1>16. row' \in Rows /\ SameOwners(row, row') /\ row'.ttl = Lease
  BY <1>1, <1>15, RenewedTyped
<1>17. Extends(p)
  BY <1>2, <1>5, <1>15, <1>16 DEF Extends, Renewable
<1>18. QED
  BY <1>1, <1>2, <1>5, <1>8, <1>9, <1>11, <1>12, <1>14, <1>16, <1>17
     DEF Starts, Steps, SameCaller, SameMarks, SameBatch

\* renewLease is an ordinary step or confirms the lease again
LEMMA StepRenews ==
    ASSUME NEW p, Ready(p), Renew(p), Become(p, [proc[p] EXCEPT !.lease = Lease])
    PROVE  WalkStep(p) \/ Renews(p)
<1>1. Known(p) /\ row \in Rows /\ visible' = visible /\ proc[p].beat /\ ~proc[p].lost
      /\ proc[p].lease < Lease
  BY DEF Ready, Renew
<1>2. PICK a : a = proc[p]
  OBVIOUS
<1>3. PICK b : b = [a EXCEPT !.lease = Lease]
  OBVIOUS
<1>4. a \in Activities /\ Local(a) /\ Lease \in 0 .. Lease /\ Lease > 0 /\ a.beat /\ ~a.lost
  BY <1>1, <1>2, KnownTyped, LeaseAssumption
<1>5. /\ b \in Activities /\ b.pc = a.pc /\ b.recovery = a.recovery /\ b.id = a.id /\ b.beat = a.beat
      /\ b.lease = Lease /\ b.lost = a.lost
      /\ SameCaller(a, b) /\ SameMarks(a, b) /\ SameBatch(a, b) /\ SameReturn(a, b)
  BY <1>3, <1>4 DEF Activities, SameCaller, SameMarks, SameBatch, SameReturn
<1>6. proc'[p] = b /\ Moves(p)
  BY <1>1, <1>2, <1>3, BecomeMoves
<1>7. Local(b)
  <2>1. /\ b.snap = a.snap /\ (a.aborted => b.aborted) /\ (b.beat => a.beat)
        /\ b.beat = a.beat \/ b.aborted
        /\ TimersOnTime /\ b.beat /\ b.lease = 0 => b.lost
    BY <1>4, <1>5 DEF SameCaller
  <2>2. a \in Activities /\ Local(a)
    BY <1>4
  <2>3. QED
    BY <1>5, <2>1, <2>2, LocalKept
<1>8. PICK v : v = (~Renewable(row, a.id) \/ a.lease = 0)
  OBVIOUS
<1>9. PICK c : c = [a EXCEPT !.lost = v]
  OBVIOUS
<1>10. b # c
  <2>1. c.lease = a.lease /\ a.lease # Lease
    BY <1>1, <1>2, <1>4, <1>9 DEF Activities
  <2>2. QED
    BY <1>5, <2>1
<1>11. WriteIf(p, Renewable(row, a.id), Renewed(row), b, c)
  BY <1>2, <1>3, <1>8, <1>9 DEF Renew
<1>12. ~Become(p, c)
  BY <1>1, <1>6, <1>10, BecomeMoves
<1>13. Renewable(row, a.id) /\ row' = Renewed(row)
  BY <1>11, <1>12, WriteRow
<1>14. row' \in Rows /\ SameOwners(row, row') /\ row'.ttl = Lease
  BY <1>1, <1>13, RenewedTyped
<1>15. Extends(p)
  BY <1>2, <1>4, <1>13, <1>14 DEF Extends, Renewable
<1>16. Renews(p)
  BY <1>1, <1>2, <1>4, <1>5, <1>6, <1>7, <1>14, <1>15 DEF Renews, Steps
<1>17. QED
  BY <1>16

\* claimForRecovery is an ordinary step or takes the row over with a new claim
LEMMA StepOwns ==
    ASSUME NEW p, Ready(p), Claim(p), ~WalkStep(p)
    PROVE  \E c \in NewClaims : Owns(p, c)
<1>1. Known(p) /\ row \in Rows /\ visible' = visible /\ proc[p].pc = "claim"
  BY DEF Ready, Claim, At
<1>2. PICK a : a = proc[p]
  OBVIOUS
<1>3. PICK e \in NewClaims : Become(p, Flow([a EXCEPT !.pc = "reserve", !.id = e]))
  BY <1>2, StepNoClaim
<1>4. PICK b : b = Flow([a EXCEPT !.pc = "reserve", !.id = e])
  OBVIOUS
<1>5. a \in Activities /\ Local(a) /\ a.pc = "claim"
  BY <1>1, <1>2, KnownTyped
<1>6. "reserve" \in Pcs
  BY DEF Pcs, PcRecovery
<1>7. ASSUME NEW d \in NewClaims, NEW g, g = Flow([a EXCEPT !.pc = "reserve", !.id = d])
      PROVE  /\ g \in Activities /\ g.pc = "reserve" /\ g.id = d /\ g.lease = a.lease
             /\ g.beat = a.beat /\ g.lost = a.lost /\ g.recovery = a.recovery
             /\ SameCaller(a, g) /\ SameMarks(a, g) /\ SameBatch(a, g) /\ SameReturn(a, g)
  <2>1. PICK q : q = [a EXCEPT !.pc = "reserve", !.id = d]
    OBVIOUS
  <2>2. d \in Claims
    BY DEF NewClaims
  <2>3. /\ q \in Activities /\ q.pc = "reserve" /\ q.id = d /\ q.lease = a.lease
        /\ q.beat = a.beat /\ q.lost = a.lost /\ q.recovery = a.recovery
        /\ SameCaller(a, q) /\ SameMarks(a, q) /\ SameBatch(a, q) /\ SameReturn(a, q)
    BY <1>5, <1>6, <2>1, <2>2 DEF Activities, SameCaller, SameMarks, SameBatch, SameReturn
  <2>4. g = Flow(q)
    BY <1>7, <2>1
  <2>5. QED
    BY <2>3, <2>4, FlowFields DEF SameOwner, SameCaller, SameMarks, SameBatch, SameReturn
<1>8. proc'[p] = b /\ Moves(p)
  BY <1>1, <1>3, <1>4, BecomeMoves
<1>9. PICK c \in NewClaims :
        WriteIf(p, Claimable(row, IF proc[p].snap.rs = "started" THEN proc[p].snap.attempt
                                  ELSE NoClaim),
                ClaimedBy(row, c), Flow([a EXCEPT !.pc = "reserve", !.id = c]), Idle)
  BY <1>2 DEF Claim
<1>10. PICK g : g = Flow([a EXCEPT !.pc = "reserve", !.id = c])
  OBVIOUS
<1>11. ~Become(p, Idle)
  <2>1. b # Idle
    BY <1>4, <1>7, IdleTyped
  <2>2. QED
    BY <1>1, <1>8, <2>1, BecomeMoves
<1>12. /\ Become(p, g) /\ row' = ClaimedBy(row, c)
       /\ Claimable(row, IF proc[p].snap.rs = "started" THEN proc[p].snap.attempt ELSE NoClaim)
  BY <1>9, <1>10, <1>11, WriteRow
<1>13. proc'[p] = g
  BY <1>1, <1>12, BecomeMoves
<1>14. row' \in Rows /\ Takes(p, c)
  BY <1>1, <1>12, TakesFate
<1>15. /\ g \in Activities /\ g.pc = "reserve" /\ g.id = c /\ g.lease = a.lease
       /\ g.beat = a.beat /\ g.lost = a.lost /\ g.recovery = a.recovery
       /\ SameCaller(a, g) /\ SameMarks(a, g) /\ SameBatch(a, g) /\ SameReturn(a, g)
  BY <1>7, <1>10
<1> HIDE DEF Activities
<1>16. /\ a.pc \in Fresh /\ ~MidSend(a) /\ ~InPost(a)
  BY <1>5 DEF Fresh, MidSend, InPost
<1>17. /\ g.outs = {} /\ g.i = 1 /\ g.pre = "none" /\ g.post = "none" /\ g.cur = "omitted"
       /\ g.snap = a.snap /\ g.snap.rs # "unknown" /\ RowShape(g.snap)
  BY <1>5, <1>15, <1>16 DEF Local, BatchLocal, SendLocal, SnapLocal, SameCaller, SameMarks,
     SameBatch
<1>18. c # NoClaim
  BY DEF NewClaims, Claims, NoClaim
<1>19. Holds(g) /\ ~InPost(g) /\ ~MidSend(g) /\ ~InLoop(g)
  BY <1>15 DEF Holds, Borrowed, InPost, MidSend, InLoop, Loop
<1>20. Local(g)
  <2>1. HoldLocal(g) /\ PostLocal(g) /\ SendLocal(g) /\ FailLocal(g)
    BY <1>15, <1>17, <1>18, <1>19 DEF HoldLocal, PostLocal, SendLocal, FailLocal, Loop
  <2>2. BatchLocal(g) /\ SnapLocal(g) /\ MarkLocal(g)
    BY <1>15, <1>17, <1>19 DEF BatchLocal, SnapLocal, MarkLocal, Fresh
  <2>3. BeatLocal(g)
    BY <1>5, <1>15, <1>19 DEF Local, BeatLocal
  <2>4. QED
    BY <2>1, <2>2, <2>3 DEF Local
<1>21. QED
  BY <1>1, <1>2, <1>5, <1>8, <1>13, <1>14, <1>15, <1>17, <1>20 DEF Owns, Steps

\* Nothing is known of an activity that just begins
LEMMA NewLocal ==
    ASSUME NEW b, b.pc \in {"markQueued", "stage", "owner"}, ~b.beat,
           b.pc = "markQueued" => b.id # NoClaim /\ b.snap = NoRow,
           b.outs = {}, b.i = 1, b.pre = "none", b.post = "none", b.cur = "omitted",
           RowShape(b.snap)
    PROVE  Local(b)
<1>1. ~InPost(b) /\ ~MidSend(b) /\ ~InLoop(b) /\ (Holds(b) => b.pc = "markQueued")
  BY DEF InPost, MidSend, InLoop, Loop, Holds, Borrowed
<1>2. HoldLocal(b) /\ PostLocal(b) /\ SendLocal(b) /\ FailLocal(b)
  BY <1>1 DEF HoldLocal, PostLocal, SendLocal, FailLocal, Loop
<1>3. BatchLocal(b) /\ MarkLocal(b) /\ BeatLocal(b)
  BY <1>1 DEF BatchLocal, MarkLocal, BeatLocal
<1>4. SnapLocal(b)
  BY <1>1 DEF SnapLocal, NoRow
<1>5. QED
  BY <1>2, <1>3, <1>4 DEF Local

\* A producer begins with its row, or without one if it could not be written
LEMMA StepEnqueues ==
    ASSUME NEW p, Ready(p), Enqueue(p)
    PROVE  Enqueues(p)
<1>1. Known(p) /\ visible' = visible /\ proc[p].pc = "idle" /\ row.status = "absent"
  BY DEF Ready, Enqueue, At
<1>2. PICK c \in NewClaims :
        \/ row' = Enqueued(c) /\ Become(p, [Idle EXCEPT !.pc = "markQueued", !.id = c])
        \/ row' = Enqueued(c) /\ UNCHANGED proc
        \/ /\ row' = Ended(row, "skipped")
           /\ Become(p, IF Required THEN Idle
                        ELSE [Idle EXCEPT !.pc = "payload", !.pre = "acked", !.post = "acked"])
  BY DEF Enqueue
<1>3. c \in Claims /\ c # NoClaim
  BY DEF NewClaims, Claims, NoClaim
<1>4. PICK n : n = Idle
  OBVIOUS
<1>5. /\ n \in Activities /\ n.pc = "idle" /\ n.lease = 0 /\ n.beat = FALSE /\ n.outs = {} /\ n.cur = "omitted"
      /\ n.i = 1 /\ n.pre = "none" /\ n.post = "none" /\ n.id = NoClaim /\ n.snap = NoRow
      /\ ~n.recovery /\ ~n.lost
  BY <1>4, IdleTyped DEF Idle
<1>6. RowShape(NoRow)
  BY DEF RowShape, NoRow
<1>7. ASSUME row' = Enqueued(c)
      PROVE  /\ row' \in Rows /\ row'.status = "pending" /\ row'.rs = "claimed" /\ row'.claim = c
             /\ row'.attempt = NoClaim /\ row'.ttl = Lease
  BY <1>3, <1>7, EnqueuedTyped
<1>8. CASE row' = Enqueued(c) /\ Become(p, [Idle EXCEPT !.pc = "markQueued", !.id = c])
  <2>1. PICK b : b = [n EXCEPT !.pc = "markQueued", !.id = c]
    OBVIOUS
  <2>2. "markQueued" \in Pcs
    BY DEF Pcs, PcLive
  <2>3. /\ b \in Activities /\ b.pc = "markQueued" /\ b.id = c /\ b.snap = NoRow /\ b.beat = FALSE
        /\ b.outs = {} /\ b.i = 1 /\ b.pre = "none" /\ b.post = "none" /\ b.cur = "omitted"
        /\ b.lease = 0
    BY <1>3, <1>5, <2>1, <2>2, ZenonT(60) DEF Activities
  <2>4. Local(b)
    <3>1. RowShape(b.snap) /\ ~b.beat /\ b.id # NoClaim
      BY <1>3, <1>6, <2>3
    <3>2. QED
      BY <2>3, <3>1, NewLocal
  <2>5. proc'[p] = b /\ Moves(p)
    BY <1>1, <1>4, <1>8, <2>1, BecomeMoves
  <2>6. QED
    BY <1>1, <1>7, <1>8, <2>3, <2>4, <2>5 DEF Enqueues, Steps, Begun
<1>9. CASE row' = Enqueued(c) /\ UNCHANGED proc
  <2>1. proc'[p] = proc[p] /\ Moves(p) /\ proc[p] \in Activities /\ Local(proc[p])
    BY <1>1, <1>9, KnownTyped DEF Moves, Known
  <2>2. QED
    BY <1>1, <1>7, <1>9, <2>1 DEF Enqueues, Steps
<1>10. CASE /\ row' = Ended(row, "skipped")
            /\ Become(p, IF Required THEN Idle
                         ELSE [Idle EXCEPT !.pc = "payload", !.pre = "acked", !.post = "acked"])
  <2>1. "skipped" \in Statuses
    BY DEF Statuses
  <2>2. /\ row' \in Rows /\ row'.status = "skipped" /\ row'.rs = "none" /\ row'.claim = NoClaim
        /\ row'.attempt = NoClaim /\ row'.ttl = 0
    BY <1>10, <2>1, EndedTyped
  <2>3. CASE Required
    <3>1. Edge(proc[p], Idle) /\ proc'[p] = Idle /\ Moves(p)
      BY <1>1, <1>10, <2>3, EdgeIdle, KnownTyped, BecomeMoves
    <3>2. QED
      BY <1>1, <2>2, <3>1 DEF Enqueues, Steps, Edge
  <2>4. CASE ~Required
    <3>1. PICK b : b = [n EXCEPT !.pc = "payload", !.pre = "acked", !.post = "acked"]
      OBVIOUS
    <3>2. "payload" \in Pcs
      BY DEF Pcs, Loop
    <3>3. /\ b \in Activities /\ b.pc = "payload" /\ b.id = NoClaim /\ b.snap = NoRow /\ b.beat = FALSE
          /\ b.outs = {} /\ b.i = 1 /\ b.pre = "acked" /\ b.post = "acked" /\ b.cur = "omitted"
          /\ b.lease = 0 /\ ~b.recovery
      BY <1>5, <3>1, <3>2, ZenonT(60) DEF Activities
    <3>4. proc'[p] = b /\ Moves(p)
      BY <1>1, <1>4, <1>10, <2>4, <3>1, BecomeMoves
    <3>5. Local(b)
      <4>1. ~InPost(b) /\ ~MidSend(b) /\ InLoop(b) /\ Holds(b)
        BY <3>3 DEF InPost, MidSend, InLoop, Loop, Holds, Borrowed
      <4>2. b.snap.rs # "unknown"
        BY <3>3 DEF NoRow
      <4>3. HoldLocal(b) /\ PostLocal(b) /\ SendLocal(b) /\ FailLocal(b)
        BY <3>3, <4>1 DEF HoldLocal, PostLocal, SendLocal, FailLocal, Loop
      <4>4. BatchLocal(b) /\ MarkLocal(b) /\ BeatLocal(b) /\ SnapLocal(b)
        BY <1>6, <3>3, <4>1, <4>2 DEF BatchLocal, MarkLocal, BeatLocal, SnapLocal, Fresh
      <4>5. QED
        BY <4>3, <4>4 DEF Local
    <3>6. QED
      BY <1>1, <2>2, <3>3, <3>4, <3>5 DEF Enqueues, Steps, Begun
  <2>5. QED
    BY <2>3, <2>4
<1>11. QED
  BY <1>2, <1>8, <1>9, <1>10

\* A recoverer begins with a snapshot of the row
LEMMA StepRecovers ==
    ASSUME NEW p, Ready(p), Recover(p), RowShape(row)
    PROVE  Recovers(p)
<1>1. Known(p) /\ row' = row /\ visible' = visible /\ proc[p].pc = "idle" /\ row \in Rows
  BY DEF Ready, Recover, At
<1>2. PICK k : k = IF BudgetExhausted(row) THEN MaxRetries ELSE 0
  OBVIOUS
<1>3. PICK s : s = [row EXCEPT !.retries = k]
  OBVIOUS
<1>4. k \in 0 .. MaxRetries
  BY <1>2, RetryAssumption
<1>5. s \in Rows /\ SameOwners(row, s) /\ s.ttl = row.ttl
  BY <1>1, <1>3, <1>4 DEF Rows, SameOwners
<1>6. Snapshot = s
  BY <1>2, <1>3 DEF Snapshot
<1>7. PICK n : n = [Idle EXCEPT !.recovery = TRUE, !.snap = s]
  OBVIOUS
<1>8. /\ n \in Activities /\ n.lease = 0 /\ n.beat = FALSE /\ n.outs = {} /\ n.cur = "omitted"
      /\ n.i = 1 /\ n.pre = "none" /\ n.post = "none" /\ n.id = NoClaim /\ n.snap = s
  <2>1. PICK m : m = Idle
    OBVIOUS
  <2>2. /\ m \in Activities /\ m.lease = 0 /\ m.beat = FALSE /\ m.outs = {} /\ m.cur = "omitted"
        /\ m.i = 1 /\ m.pre = "none" /\ m.post = "none" /\ m.id = NoClaim
    BY <2>1, IdleTyped DEF Idle
  <2>3. n = [m EXCEPT !.recovery = TRUE, !.snap = s]
    BY <1>7, <2>1
  <2>4. QED
    BY <1>5, <2>2, <2>3, ZenonT(60) DEF Activities
<1>9. /\ row.status \in {"pending", "staged"}
      /\ row.status = "pending" => ~HasActiveOwner(row)
      /\ \/ \E v \in BOOLEAN : Become(p, [n EXCEPT !.pc = "stage", !.rejected = v])
         \/ Become(p, [n EXCEPT !.pc = "stage"])
         \/ Become(p, [n EXCEPT !.pc = "owner", !.id = RecordedOwner(row)])
  BY <1>1, <1>6, <1>7 DEF Recover, Rows
<1>10. RecordedOwner(row) \in {NoClaim, row.claim, row.attempt} /\ RecordedOwner(row) \in Claims \cup {NoClaim}
  BY <1>1, Bounds DEF RecordedOwner, Rows
<1>11. {"stage", "owner"} \subseteq Pcs
  BY DEF Pcs, PcShared, PcRecovery
<1>12. PICK b : /\ Become(p, b)
                /\ \/ \E v \in BOOLEAN : b = [n EXCEPT !.pc = "stage", !.rejected = v]
                   \/ b = [n EXCEPT !.pc = "stage"]
                   \/ b = [n EXCEPT !.pc = "owner", !.id = RecordedOwner(row)]
  BY <1>9
<1>13. PICK o \in Claims \cup {NoClaim} : o = RecordedOwner(row)
  BY <1>10
<1>14. /\ b \in Activities /\ b.pc \in {"stage", "owner"} /\ b.lease = 0 /\ b.beat = FALSE /\ b.outs = {}
       /\ b.cur = "omitted" /\ b.i = 1 /\ b.pre = "none" /\ b.post = "none" /\ b.snap = s
       /\ b.id \in {NoClaim, o}
  <2>1. CASE \E v \in BOOLEAN : b = [n EXCEPT !.pc = "stage", !.rejected = v]
    <3>1. PICK v \in BOOLEAN : b = [n EXCEPT !.pc = "stage", !.rejected = v]
      BY <2>1
    <3>2. "stage" \in Pcs /\ n \in Activities
      BY <1>8, <1>11
    <3>3. b \in Activities /\ b.pc = "stage"
      BY <3>1, <3>2 DEF Activities
    <3>4. /\ b.lease = n.lease /\ b.beat = n.beat /\ b.outs = n.outs /\ b.cur = n.cur /\ b.i = n.i
          /\ b.pre = n.pre /\ b.post = n.post /\ b.snap = n.snap /\ b.id = n.id
      BY <3>1, <3>2 DEF Activities
    <3>5. QED
      BY <1>8, <3>3, <3>4
  <2>2. CASE b = [n EXCEPT !.pc = "stage"]
    BY <1>8, <1>11, <2>2 DEF Activities
  <2>3. CASE b = [n EXCEPT !.pc = "owner", !.id = o]
    <3>1. "owner" \in Pcs /\ n \in Activities
      BY <1>8, <1>11
    <3>2. b \in Activities /\ b.pc = "owner" /\ b.id = o
      BY <2>3, <3>1 DEF Activities
    <3>3. /\ b.lease = n.lease /\ b.beat = n.beat /\ b.outs = n.outs /\ b.cur = n.cur /\ b.i = n.i
          /\ b.pre = n.pre /\ b.post = n.post /\ b.snap = n.snap
      BY <2>3, <3>1 DEF Activities
    <3>4. QED
      BY <1>8, <3>2, <3>3
  <2>4. QED
    BY <1>12, <1>13, <2>1, <2>2, <2>3
<1>15. RowShape(b.snap)
  BY <1>5, <1>14 DEF RowShape, SameOwners
<1>16. Local(b)
  <2>1. ~b.beat /\ b.pc # "markQueued"
    BY <1>14
  <2>2. QED
    BY <1>14, <1>15, <2>1, NewLocal
<1>17. proc'[p] = b /\ Moves(p)
  BY <1>1, <1>12, BecomeMoves
<1>18. QED
  BY <1>1, <1>5, <1>9, <1>10, <1>13, <1>14, <1>16, <1>17 DEF Recovers, Steps, Begun

\* A handoff that was not cancelled reaches the adapter once for the payload at
\* hand
LEMMA StepHands ==
    ASSUME NEW p, Ready(p), Handoff(p), ~Aborted(p), visible \in [1 .. Batch -> 0 .. 2]
    PROVE  Hands(p)
<1>1. Known(p) /\ row' = row /\ proc[p].pc = "handoff" /\ row \in Rows
  BY DEF Ready, Handoff, At
<1>2. PICK a : a = proc[p]
  OBVIOUS
<1>3. a \in Activities /\ Local(a) /\ a.pc = "handoff" /\ a.i <= Batch /\ ~a.lost /\ ~a.aborted
  BY <1>1, <1>2, AtHand, KnownTyped DEF Aborted
<1>4. PICK c \in {"sent", "noIdentity", "omitted", "rejected", "refused", "ambiguous"} :
        \E reached \in Reaches(c) :
          /\ visible' = [visible EXCEPT ![a.i] = IF reached /\ @ < 2 THEN @ + 1 ELSE @]
          /\ Become(p, [a EXCEPT !.pc = "respond", !.cur = c, !.dispatched = TRUE, !.snap = NoRow])
  BY <1>2 DEF Handoff
<1>5. PICK reached \in Reaches(c) :
          /\ visible' = [visible EXCEPT ![a.i] = IF reached /\ @ < 2 THEN @ + 1 ELSE @]
          /\ Become(p, [a EXCEPT !.pc = "respond", !.cur = c, !.dispatched = TRUE, !.snap = NoRow])
  BY <1>4
<1>6. PICK b : b = [a EXCEPT !.pc = "respond", !.cur = c, !.dispatched = TRUE, !.snap = NoRow]
  OBVIOUS
<1>7. "respond" \in Pcs /\ c \in Outcomes
  BY DEF Pcs, Loop, Outcomes, Failures
<1>8. /\ b \in Activities /\ b.pc = "respond" /\ SameOwner(a, b) /\ b.aborted = a.aborted
      /\ SameMarks(a, b) /\ b.i = a.i /\ b.outs = a.outs /\ b.cur = c /\ b.snap = NoRow /\ b.dispatched
  BY <1>3, <1>6, <1>7, NoRowTyped DEF Activities, SameOwner, SameMarks
<1>9. proc'[p] = b /\ Moves(p)
  BY <1>1, <1>2, <1>5, <1>6, BecomeMoves
<1> HIDE DEF Activities
<1>10. Holds(a) /\ InLoop(a) /\ ~MidSend(a) /\ ~InPost(a) /\ a.pc \in Loop
  BY <1>3 DEF Holds, Borrowed, InLoop, MidSend, InPost, Loop
<1>11. Holds(b) /\ InLoop(b) /\ MidSend(b) /\ ~InPost(b) /\ b.pc \in Loop
  BY <1>8 DEF Holds, Borrowed, InLoop, MidSend, InPost, Loop
<1>12. Local(b)
  <2>1. b.snap.rs # "unknown" /\ RowShape(b.snap)
    BY <1>8 DEF NoRow, RowShape
  <2>2. HoldLocal(b)
    BY <1>3, <1>8, <1>10, <1>11 DEF Local, HoldLocal, SameOwner, SameMarks
  <2>3. PostLocal(b) /\ SendLocal(b) /\ FailLocal(b)
    BY <1>3, <1>8, <1>11 DEF PostLocal, SendLocal, FailLocal
  <2>4. MarkLocal(b)
    BY <1>3, <1>8, <1>10 DEF Local, MarkLocal, SameMarks
  <2>5. BatchLocal(b)
    BY <1>3, <1>8, <1>10 DEF Local, BatchLocal, Fresh
  <2>6. SnapLocal(b) /\ BeatLocal(b)
    BY <1>3, <1>8, <1>10, <2>1 DEF Local, SnapLocal, BeatLocal, SameOwner
  <2>7. QED
    BY <2>2, <2>3, <2>4, <2>5, <2>6 DEF Local
<1>13. MaySent(a) => MaySent(b)
  <2>1. a.cur = "omitted"
    BY <1>3, <1>10 DEF Local, SendLocal
  <2>2. QED
    BY <1>8, <2>1 DEF MaySent, SentBeforeError
<1>14. MaySent(b) \/ ~reached
  <2>1. reached => c \in {"sent", "noIdentity", "ambiguous"}
    BY DEF Reaches
  <2>2. QED
    BY <1>8, <2>1 DEF MaySent
<1>15. \/ visible' = visible
       \/ MaySent(b) /\ visible' = [visible EXCEPT ![a.i] = IF @ < 2 THEN @ + 1 ELSE @]
  <2>1. CASE ~reached
    <3>1. visible' = [visible EXCEPT ![a.i] = @]
      BY <1>5, <2>1
    <3>2. QED
      BY <3>1
  <2>2. CASE reached
    <3>1. visible' = [visible EXCEPT ![a.i] = IF @ < 2 THEN @ + 1 ELSE @]
      BY <1>5, <2>2
    <3>2. QED
      BY <1>14, <2>2, <3>1
  <2>3. QED
    BY <2>1, <2>2
<1>16. QED
  BY <1>1, <1>2, <1>3, <1>8, <1>9, <1>12, <1>13, <1>15 DEF Hands, Steps

\* When time passes the leases of the row and of the processes run down together
LEMMA StepPasses ==
    ASSUME Tick, row \in Rows, proc \in [Procs -> Activities], \A p \in Procs : Local(proc[p])
    PROVE  Passes
<1>1. PICK t : t = Less(row.ttl)
  OBVIOUS
<1>2. row.ttl \in 0 .. Lease /\ t \in 0 .. Lease
  BY <1>1, LeaseAssumption DEF Rows, Less
<1>3. row' = [row EXCEPT !.ttl = t] /\ visible' = visible
  BY <1>1 DEF Tick
<1>4. row' \in Rows /\ SameOwners(row, row') /\ row'.ttl = t
  BY <1>2, <1>3 DEF Rows, SameOwners
<1>5. ASSUME NEW p \in Procs, NEW a, a = proc[p], NEW b, b = proc'[p]
      PROVE  /\ b \in Activities /\ Local(b)
             /\ b.pc = a.pc /\ b.recovery = a.recovery /\ b.id = a.id /\ b.beat = a.beat
             /\ b.lease = Less(a.lease) /\ (a.lost => b.lost)
             /\ SameCaller(a, b) /\ SameMarks(a, b) /\ SameBatch(a, b) /\ SameReturn(a, b)
  <2>1. PICK n : n = Less(a.lease)
    OBVIOUS
  <2>2. PICK v : v = (a.lost \/ (TimersOnTime /\ a.beat /\ a.lease <= 1))
    OBVIOUS
  <2>3. b = [a EXCEPT !.lease = n, !.lost = v]
    BY <1>5, <2>1, <2>2 DEF Tick
  <2>4. a \in Activities /\ Local(a)
    BY <1>5
  <2>5. v \in BOOLEAN /\ a.lease \in 0 .. Lease /\ n \in 0 .. Lease
    <3>1. a.lease \in 0 .. Lease
      BY <2>4 DEF Activities
    <3>2. n \in 0 .. Lease
      BY <2>1, <3>1, LeaseAssumption DEF Less
    <3>3. QED
      BY <2>2, <3>1, <3>2
  <2>6. /\ b \in Activities
        /\ b.pc = a.pc /\ b.recovery = a.recovery /\ b.id = a.id /\ b.beat = a.beat
        /\ b.lease = n /\ b.lost = v
        /\ SameCaller(a, b) /\ SameMarks(a, b) /\ SameBatch(a, b) /\ SameReturn(a, b)
    BY <2>3, <2>4, <2>5 DEF Activities, SameCaller, SameMarks, SameBatch, SameReturn
  <2>7. /\ b.snap = a.snap /\ (a.aborted => b.aborted) /\ (b.beat => a.beat)
        /\ b.beat = a.beat \/ b.aborted
    BY <2>6 DEF SameCaller
  <2>8. TimersOnTime /\ b.beat /\ b.lease = 0 => b.lost
    <3>1. n = 0 => a.lease <= 1
      BY <2>1, <2>5, LeaseAssumption DEF Less
    <3>2. b.beat => a.beat
      BY <2>6
    <3>3. b.lost = v /\ b.lease = n
      BY <2>6
    <3>4. ASSUME TimersOnTime, b.beat, b.lease = 0 PROVE v
      BY <2>2, <3>1, <3>2, <3>3, <3>4
    <3>5. QED
      BY <3>3, <3>4
  <2>9. Local(b)
    BY <2>4, <2>6, <2>7, <2>8, LocalKept
  <2>10. a.lost => b.lost
    BY <2>2, <2>6
  <2>11. QED
    BY <2>1, <2>6, <2>9, <2>10
<1>6. proc' \in [Procs -> Activities]
  <2>1. proc' = [p \in Procs |-> proc'[p]]
    BY DEF Tick
  <2>2. \A p \in Procs : proc'[p] \in Activities
    BY <1>5
  <2>3. QED
    BY <2>1, <2>2
<1>7. QED
  BY <1>1, <1>3, <1>4, <1>5, <1>6 DEF Passes

\* What is known of the state: the types, the owner fields of the row, and what
\* every process knows by itself
BaseInv ==
    /\ row \in Rows /\ RowShape(row)
    /\ proc \in [Procs -> Activities] /\ (\A p \in Procs : Local(proc[p]))
    /\ visible \in [1 .. Batch -> 0 .. 2]

\* Every step is one of these
StepOf(p) == \/ WalkStep(p) \/ Starts(p) \/ Renews(p) \/ Enqueues(p) \/ Recovers(p) \/ Hands(p)
             \/ \E c \in NewClaims : Owns(p, c)
Kinds == \/ UNCHANGED vars
         \/ Passes
         \/ \E p \in Procs : StepOf(p)

\* An operation of a process takes a step of one of the kinds
LEMMA EachStep ==
    ASSUME BaseInv, NEW p \in Procs,
           \/ Enqueue(p) \/ Recover(p) \/ Advance(p) \/ Renew(p) \/ Expire(p)
           \/ Abort(p) \/ AdmissionClosed(p) \/ Crash(p)
    PROVE  StepOf(p)
<1>1. Ready(p) /\ RowShape(row) /\ visible \in [1 .. Batch -> 0 .. 2]
  BY DEF Ready, Known, BaseInv
<1>2. CASE Enqueue(p) \/ Recover(p)
  BY <1>1, <1>2, StepEnqueues, StepRecovers DEF StepOf
<1>3. CASE Renew(p) \/ Expire(p) \/ Abort(p) \/ AdmissionClosed(p) \/ Crash(p)
  BY <1>1, <1>3, StepRenews, StepNoRenewal, StepExpire, StepAbort, WalkQuiet, StepCrash DEF StepOf
<1>4. CASE Advance(p)
  <2>1. CASE \/ MarkQueued(p) \/ Payload(p) \/ BatchReturns(p) \/ Respond(p)
             \/ Returned(p) \/ PartialFailure(p) \/ Ledger(p) \/ Thrown(p) \/ ThrownPost(p)
             \/ Settle(p) \/ Owner(p) \/ SentLedger(p) \/ RecReturned(p) \/ RecUnknown(p)
             \/ RecLedger(p) \/ RecThrown(p)
    BY <1>1, <2>1, WalkQuiet DEF StepOf
  <2>2. CASE DropRow(p) \/ Ack(p) \/ OwnerAck(p) \/ SentAck(p) \/ RecAck(p) \/ Stage(p) \/ Finalize(p)
    BY <1>1, <2>2, StepAcks, StepStage DEF StepOf
  <2>3. CASE StartSend(p) \/ StartAck(p) \/ DispatchMark(p) \/ PostMark(p) \/ PostAck(p) \/ PostFail(p)
    BY <1>1, <2>3, StepStartSend, StepStartAck, StepDispatchMark, StepPosts DEF StepOf
  <2>4. CASE FailStep(p) \/ Reconcile(p) \/ Reserve(p) \/ Restore(p) \/ RetireUnsent(p)
    BY <1>1, <2>4, StepFail, StepReconcile, StepReserve, StepRestore, StepRetireUnsent DEF StepOf
  <2>5. CASE StartLease(p)
    BY <1>1, <2>5, StepStarts, StepNoLease DEF StepOf
  <2>6. CASE Handoff(p)
    BY <1>1, <2>6, StepHands, StepNoHandoff DEF StepOf
  <2>7. CASE Claim(p)
    BY <1>1, <2>7, StepOwns DEF StepOf
  <2>8. QED
    BY <1>4, <2>1, <2>2, <2>3, <2>4, <2>5, <2>6, <2>7 DEF Advance
<1>5. QED
  BY <1>2, <1>3, <1>4

\* Every step of the system is of one of these kinds
LEMMA EveryStep ==
    ASSUME BaseInv, [Next]_vars
    PROVE  Kinds
<1>1. CASE UNCHANGED vars
  BY <1>1 DEF Kinds
<1>2. CASE Tick
  BY <1>2, StepPasses DEF Kinds, BaseInv
<1>3. QED
  BY <1>1, <1>2, EachStep DEF Next, Kinds

-----------------------------------------------------------------------------
(* The base invariant and the types.                                       *)

\* Whatever a step does to the row, the row stays a row
LEMMA RowKept ==
    ASSUME BaseInv, Kinds
    PROVE  row' \in Rows /\ RowShape(row')
<1>1. CASE UNCHANGED vars
  BY <1>1 DEF vars, BaseInv
<1>2. CASE Passes
  BY <1>2 DEF Passes, BaseInv, RowShape, SameOwners
<1>3. ASSUME NEW p \in Procs, WalkStep(p)
      PROVE  row' \in Rows /\ RowShape(row')
  <2>1. row' \in Rows
    BY <1>3 DEF WalkStep, Fate
  <2>2. CASE Quiet \/ Closes(p)
    BY <2>1, <2>2 DEF Quiet, Closes, BaseInv, RowShape
  <2>3. CASE Postpones(p) \/ Reopens(p)
    BY <2>1, <2>3 DEF Postpones, Reopens, BaseInv, RowShape
  <2>4. CASE Testifies(p) \/ Marks(p)
    BY <2>1, <2>4 DEF Testifies, Marks, BaseInv, RowShape
  <2>5. CASE Extends(p) \/ Counts(p)
    BY <2>1, <2>5 DEF Extends, Counts, SameOwners, BaseInv, RowShape
  <2>6. CASE Restores(p)
    <3>1. RowShape(proc[p].snap)
      BY DEF BaseInv, Local, SnapLocal
    <3>2. QED
      BY <2>1, <2>6, <3>1 DEF Restores, RowShape
  <2>7. CASE \E c \in Claims : Takes(p, c)
    BY <2>1, <2>7 DEF Takes, RowShape
  <2>8. QED
    BY <1>3, <2>1, <2>2, <2>3, <2>4, <2>5, <2>6, <2>7 DEF WalkStep, Fate
<1>4. ASSUME NEW p \in Procs, Starts(p) \/ Renews(p)
      PROVE  row' \in Rows /\ RowShape(row')
  BY <1>4 DEF Starts, Renews, Extends, SameOwners, BaseInv, RowShape
<1>5. ASSUME NEW p \in Procs, Enqueues(p)
      PROVE  row' \in Rows /\ RowShape(row')
  BY <1>5 DEF Enqueues, RowShape
<1>6. ASSUME NEW p \in Procs, Recovers(p) \/ Hands(p)
      PROVE  row' \in Rows /\ RowShape(row')
  BY <1>6 DEF Recovers, Hands, BaseInv
<1>7. ASSUME NEW p \in Procs, NEW c \in NewClaims, Owns(p, c)
      PROVE  row' \in Rows /\ RowShape(row')
  BY <1>7 DEF Owns, Takes, RowShape
<1>8. QED
  BY <1>1, <1>2, <1>3, <1>4, <1>5, <1>6, <1>7 DEF Kinds, StepOf

\* A step changes the activity of one process, or time passes
LEMMA StepMoves ==
    ASSUME NEW p \in Procs, StepOf(p)
    PROVE  Steps(p)
BY DEF StepOf, WalkStep, Walks, Edge, Steps, Starts, Renews, Enqueues, Recovers, Hands, Owns

\* The activities stay typed, and every process knows what it knew of itself
LEMMA ProcKept ==
    ASSUME BaseInv, Kinds
    PROVE  proc' \in [Procs -> Activities] /\ \A q \in Procs : Local(proc'[q])
<1>1. CASE UNCHANGED vars
  BY <1>1 DEF vars, BaseInv
<1>2. CASE Passes
  BY <1>2 DEF Passes
<1>3. ASSUME NEW p \in Procs, StepOf(p)
      PROVE  proc' \in [Procs -> Activities] /\ \A q \in Procs : Local(proc'[q])
  <2>1. Steps(p)
    BY <1>3, StepMoves
  <2>2. PICK b : b = proc'[p]
    OBVIOUS
  <2>3. proc' = [proc EXCEPT ![p] = b] /\ b \in Activities /\ Local(b)
    BY <2>1, <2>2 DEF Steps, Moves
  <2>4. proc' \in [Procs -> Activities]
    BY <2>3 DEF BaseInv
  <2>5. ASSUME NEW q \in Procs PROVE Local(proc'[q])
    BY <2>3 DEF BaseInv
  <2>6. QED
    BY <2>4, <2>5
<1>4. QED
  BY <1>1, <1>2, <1>3 DEF Kinds

\* The counts of the sends stay typed
LEMMA VisibleKept ==
    ASSUME BaseInv, Kinds
    PROVE  visible' \in [1 .. Batch -> 0 .. 2]
<1>1. CASE UNCHANGED vars
  BY <1>1 DEF vars, BaseInv
<1>2. CASE visible' = visible
  BY <1>2 DEF BaseInv
<1>3. ASSUME NEW p \in Procs, Hands(p)
      PROVE  visible' \in [1 .. Batch -> 0 .. 2]
  <2>1. PICK i : i = proc[p].i
    OBVIOUS
  <2>2. CASE visible' = [visible EXCEPT ![i] = IF @ < 2 THEN @ + 1 ELSE @]
    <3>1. PICK n : n = IF visible[i] < 2 THEN visible[i] + 1 ELSE visible[i]
      OBVIOUS
    <3>2. visible' = [visible EXCEPT ![i] = n]
      BY <2>2, <3>1
    <3>3. i \in 1 .. Batch => n \in 0 .. 2
      BY <3>1 DEF BaseInv
    <3>4. QED
      BY <3>2, <3>3 DEF BaseInv
  <2>3. QED
    BY <1>2, <1>3, <2>1, <2>2 DEF Hands
<1>4. QED
  BY <1>1, <1>2, <1>3 DEF Kinds, Passes, StepOf, WalkStep, Starts, Renews, Enqueues, Recovers, Owns

\* Every step keeps the base invariant
LEMMA BaseKept ==
    ASSUME BaseInv, [Next]_vars
    PROVE  BaseInv'
BY EveryStep, RowKept, ProcKept, VisibleKept DEF BaseInv, RowShape

\* The base invariant holds at the start
LEMMA BaseInit ==
    ASSUME Init
    PROVE  BaseInv
<1>1. row \in Rows /\ RowShape(row)
  BY NoRowTyped DEF Init, RowShape, NoRow
<1>2. proc \in [Procs -> Activities] /\ \A p \in Procs : proc[p] = Idle
  BY IdleTyped DEF Init
<1>3. Local(Idle)
  BY IdleTyped, EdgeIdle DEF Edge
<1>4. visible \in [1 .. Batch -> 0 .. 2]
  BY DEF Init
<1>5. QED
  BY <1>1, <1>2, <1>3, <1>4 DEF BaseInv

\* The completion owner keeps one of its states, and disturbances only go down
LEMMA PatchTyped ==
    ASSUME NEW p, NEW s \in LedgerStates, NEW good, NEW bad, SettleLedger(p, s, good, bad),
           ledger \in LedgerStates, trouble \in 0 .. MaxTrouble
    PROVE  ledger' \in LedgerStates /\ trouble' \in 0 .. MaxTrouble
<1>1. LedgerAfter(ledger, s) \in LedgerStates
  BY DEF LedgerAfter
<1>2. trouble' = trouble \/ (trouble > 0 /\ trouble' = trouble - 1)
  BY DEF SettleLedger
<1>3. QED
  BY <1>1, <1>2, TroubleAssumption DEF SettleLedger

\* The completion owner and the bound on disturbances stay typed
LEMMA LedgerKept ==
    ASSUME ledger \in LedgerStates, trouble \in 0 .. MaxTrouble, [Next]_vars
    PROVE  ledger' \in LedgerStates /\ trouble' \in 0 .. MaxTrouble
<1>1. {"queued", "delivered", "suppressed", "unknown"} \subseteq LedgerStates
  BY DEF LedgerStates
<1>2. ASSUME NEW p \in Procs,
             \/ MarkQueued(p) \/ Ledger(p) \/ Settle(p) \/ Owner(p) \/ SentLedger(p)
             \/ RecUnknown(p) \/ RecLedger(p)
      PROVE  ledger' \in LedgerStates /\ trouble' \in 0 .. MaxTrouble
  <2>1. \/ ledger' = ledger /\ trouble' = trouble
        \/ \E s \in LedgerStates : \E good, bad : SettleLedger(p, s, good, bad)
    <3>1. CASE MarkQueued(p)
      BY <1>1, <3>1 DEF MarkQueued
    <3>2. CASE Ledger(p)
      <4>1. PICK s : s = IF Results(proc[p]) THEN "delivered"
                         ELSE IF proc[p].started /\ ~AllSuppressed(proc[p]) THEN "unknown"
                         ELSE "suppressed"
        OBVIOUS
      <4>2. s \in LedgerStates
        BY <1>1, <4>1
      <4>3. \E good, bad : SettleLedger(p, s, good, bad)
        BY <3>2, <4>1 DEF Ledger
      <4>4. QED
        BY <4>2, <4>3
    <3>3. CASE Settle(p)
      BY <1>1, <3>3 DEF Settle
    <3>4. CASE Owner(p) \/ SentLedger(p) \/ RecUnknown(p)
      BY <1>1, <3>4 DEF Owner, SentLedger, RecUnknown
    <3>5. CASE RecLedger(p)
      BY <1>1, <3>5 DEF RecLedger
    <3>6. QED
      BY <1>2, <3>1, <3>2, <3>3, <3>4, <3>5
  <2>2. QED
    BY <2>1, PatchTyped
<1>3. ASSUME ledger' = ledger, trouble' = trouble \/ (trouble > 0 /\ trouble' = trouble - 1)
      PROVE  ledger' \in LedgerStates /\ trouble' \in 0 .. MaxTrouble
  BY <1>3, TroubleAssumption
<1>4. ASSUME NEW p \in Procs,
             \/ DropRow(p) \/ StartLease(p) \/ Renew(p) \/ RetireUnsent(p) \/ StartSend(p)
             \/ StartAck(p) \/ DispatchMark(p) \/ PostMark(p) \/ PostAck(p) \/ PostFail(p)
             \/ FailStep(p) \/ Ack(p) \/ Stage(p) \/ Finalize(p) \/ OwnerAck(p) \/ SentAck(p)
             \/ Claim(p) \/ Reserve(p) \/ RecAck(p) \/ Restore(p)
      PROVE  ledger' = ledger /\ (trouble' = trouble \/ (trouble > 0 /\ trouble' = trouble - 1))
  BY <1>4 DEF DropRow, StartLease, Renew, RetireUnsent, StartSend, StartAck, DispatchMark,
     PostMark, PostAck, PostFail, FailStep, Ack, Stage, Finalize, OwnerAck, SentAck, Claim, Reserve,
     RecAck, Restore, WriteIf, Write, Refuse
<1>5. ASSUME NEW p \in Procs,
             \/ Enqueue(p) \/ Expire(p) \/ Abort(p) \/ Payload(p) \/ BatchReturns(p)
             \/ AdmissionClosed(p) \/ Handoff(p) \/ Respond(p) \/ Returned(p)
             \/ PartialFailure(p) \/ Thrown(p) \/ ThrownPost(p) \/ Recover(p) \/ Reconcile(p)
             \/ RecReturned(p) \/ RecThrown(p) \/ Crash(p)
      PROVE  ledger' = ledger /\ (trouble' = trouble \/ (trouble > 0 /\ trouble' = trouble - 1))
  BY <1>5 DEF Enqueue, Expire, Abort, Payload, BatchReturns, AdmissionClosed, Handoff, Respond,
     Returned, PartialFailure, Thrown, ThrownPost, Recover, Reconcile, RecReturned, RecThrown, Crash
<1>6. QED
  <2>1. CASE UNCHANGED vars \/ Tick
    BY <1>3, <2>1 DEF vars, Tick
  <2>2. QED
    BY <1>2, <1>3, <1>4, <1>5, <2>1 DEF Next, Advance

\* The base invariant and the types of the other variables
TypedInv == BaseInv /\ ledger \in LedgerStates /\ trouble \in 0 .. MaxTrouble

\* Every variable of the queue keeps its type: row, completion owner, sends and
\* the activity of every process (deliver-queue-execute.ts, drainQueuedEntry)
THEOREM DeliveryTypes == Spec => []TypeOK
<1>1. Init => TypedInv
  BY BaseInit, TroubleAssumption DEF Init, LedgerStates, TypedInv
<1>2. TypedInv /\ [Next]_vars => TypedInv'
  BY BaseKept, LedgerKept DEF TypedInv
<1>3. TypedInv => TypeOK
  BY DEF TypedInv, BaseInv, TypeOK
<1>4. QED
  BY <1>1, <1>2, <1>3, PTL DEF Spec

-----------------------------------------------------------------------------
(* The lease of the row fences its owner.                                  *)

\* The row is recorded for id
Recorded(r, id) == id # NoClaim /\ r.status = "pending" /\ id \in {r.claim, r.attempt}

\* What is recorded for id has no lease: neither an owner of this id nor who
\* takes the row over can act on it without the lease of the row being over
Stale(id) == Recorded(row, id) => row.ttl = 0

\* A confirmed lease is not longer than the lease of the row
LeaseHeld(p) == proc[p].lease > 0 /\ Recorded(row, proc[p].id) /\ row.ttl > 0
                  => row.ttl >= proc[p].lease
SnapStale(p) == Stale(proc[p].snap.claim) /\ Stale(proc[p].snap.attempt)
SharedStale(p, q) == p # q /\ proc[p].id = proc[q].id => Stale(proc[p].id)

\* At the handoff a row that is still recorded for the process is marked
MarkHeld(p) ==
    /\ proc[p].pc = "handoff" /\ proc[p].pre # "acked" /\ proc[p].post = "none"
    /\ Recorded(row, proc[p].id) /\ row.ttl > 0
    => row.attempt = proc[p].id /\ NeedsReconciliation(row)

FenceInv ==
    /\ \A p \in Procs : LeaseHeld(p) /\ SnapStale(p) /\ MarkHeld(p)
    /\ \A p, q \in Procs : SharedStale(p, q)

\* A new claim is in nobody's hands
LEMMA NewIsNew ==
    ASSUME NEW c \in NewClaims
    PROVE  /\ c # row.claim /\ c # row.attempt /\ c \in Claims /\ c # NoClaim
           /\ \A p \in Procs : c # proc[p].id /\ c # proc[p].snap.claim /\ c # proc[p].snap.attempt
<1>1. c \in Claims /\ c \notin UsedClaims
  BY DEF NewClaims
<1>2. c # NoClaim
  BY <1>1 DEF Claims, NoClaim
<1>3. QED
  BY <1>1, <1>2 DEF UsedClaims

\* Who does not move stays the same
LEMMA Unmoved ==
    ASSUME BaseInv, NEW p \in Procs, Steps(p), NEW q \in Procs, q # p
    PROVE  proc'[q] = proc[q]
BY DEF Steps, Moves, BaseInv

\* A row that is recorded for an id and leased was so before, unless the id is new
LEMMA RecordedBefore ==
    ASSUME BaseInv, Kinds, NEW id, id \notin NewClaims, Recorded(row', id), row'.ttl > 0
    PROVE  /\ Recorded(row, id) /\ row.ttl > 0
           /\ row'.ttl >= row.ttl \/ Passes
<1>1. row.ttl \in 0 .. Lease /\ row' \in Rows /\ row'.ttl \in 0 .. Lease /\ Lease \in Nat
  BY RowKept, LeaseAssumption DEF BaseInv, Rows
<1>2. CASE row' = row
  BY <1>1, <1>2
<1>3. CASE UNCHANGED vars
  BY <1>2, <1>3 DEF vars
<1>4. CASE Passes
  BY <1>1, <1>4 DEF Passes, Recorded, SameOwners, Less
<1>5. ASSUME NEW p \in Procs, Extends(p)
      PROVE  Recorded(row, id) /\ row.ttl > 0 /\ row'.ttl >= row.ttl
  BY <1>1, <1>5 DEF Extends, Recorded, SameOwners
<1>6. ASSUME NEW p \in Procs, NEW c, Takes(p, c)
      PROVE  FALSE
  BY <1>6 DEF Takes, Recorded
<1>7. ASSUME NEW p \in Procs, WalkStep(p)
      PROVE  Recorded(row, id) /\ row.ttl > 0 /\ row'.ttl >= row.ttl
  <2>1. CASE Quiet
    BY <1>2, <2>1, <1>1 DEF Quiet
  <2>2. CASE Closes(p)
    BY <2>2 DEF Closes, Recorded
  <2>3. CASE Postpones(p) \/ Reopens(p) \/ Restores(p)
    BY <1>1, <2>3 DEF Postpones, Reopens, Restores
  <2>4. CASE Testifies(p)
    BY <1>1, <2>4 DEF Testifies, Recorded, Owned
  <2>5. CASE Marks(p)
    BY <1>1, <2>5 DEF Marks, Recorded
  <2>6. CASE Counts(p)
    BY <1>1, <2>6 DEF Counts, Recorded, SameOwners
  <2>7. QED
    BY <1>5, <1>6, <1>7, <2>1, <2>2, <2>3, <2>4, <2>5, <2>6 DEF WalkStep, Fate
<1>8. ASSUME NEW p \in Procs, Enqueues(p)
      PROVE  FALSE
  BY <1>8 DEF Enqueues, Recorded
<1>9. QED
  BY <1>2, <1>3, <1>4, <1>5, <1>6, <1>7, <1>8 DEF Kinds, StepOf, Starts, Renews, Recovers, Hands, Owns

\* An id whose lease is over stays without one: a claim is never leased again
\* once another step may hold it
LEMMA StaleKept ==
    ASSUME BaseInv, Kinds, NEW id, id \notin NewClaims, Stale(id)
    PROVE  Stale(id)'
<1>1. row' \in Rows /\ row'.ttl \in 0 .. Lease /\ Lease \in Nat
  BY RowKept, LeaseAssumption DEF Rows
<1>2. CASE row'.ttl > 0 /\ Recorded(row', id)
  BY <1>2, RecordedBefore DEF Stale
<1>3. QED
  BY <1>1, <1>2 DEF Stale

\* What a recoverer loads is stale
LEMMA LoadedStale ==
    ASSUME BaseInv, NEW p \in Procs, Recovers(p)
    PROVE  \A id \in {NoClaim, row.claim, row.attempt} : Stale(id)'
<1>1. row' = row /\ row.ttl \in 0 .. Lease /\ Lease \in Nat
  BY LeaseAssumption DEF Recovers, BaseInv, Rows
<1>2. row.status = "pending" => ~HasActiveOwner(row)
  BY DEF Recovers
<1>3. row.ttl = 0 \/ row.rs \notin {"claimed", "started", "unknown"} \/ row.status # "pending"
  BY <1>1, <1>2 DEF HasActiveOwner
<1>4. QED
  BY <1>1, <1>3 DEF Stale, Recorded, BaseInv, RowShape

\* What a recoverer loaded stays stale while it decides
LEMMA SnapStaleKept ==
    ASSUME BaseInv, Kinds, NEW q \in Procs, SnapStale(q)
    PROVE  SnapStale(q)'
<1>1. ASSUME proc'[q].snap = proc[q].snap
      PROVE  SnapStale(q)'
  <2>1. proc[q].snap.claim \notin NewClaims /\ proc[q].snap.attempt \notin NewClaims
    BY NewIsNew
  <2>2. PICK c, d : c = proc[q].snap.claim /\ d = proc[q].snap.attempt
    OBVIOUS
  <2>3. Stale(c)' /\ Stale(d)'
    BY <2>1, <2>2, StaleKept DEF SnapStale
  <2>4. QED
    BY <1>1, <2>2, <2>3 DEF SnapStale, Stale
<1>2. ASSUME proc'[q].snap = NoRow
      PROVE  SnapStale(q)'
  BY <1>2 DEF SnapStale, Stale, Recorded, NoRow
<1>3. CASE UNCHANGED vars
  BY <1>1, <1>3 DEF vars
<1>4. CASE Passes
  BY <1>1, <1>4 DEF Passes, SameCaller
<1>5. ASSUME NEW p \in Procs, StepOf(p), p # q
      PROVE  SnapStale(q)'
  BY <1>1, <1>5, StepMoves, Unmoved
<1>6. CASE WalkStep(q)
  BY <1>1, <1>2, <1>6 DEF WalkStep, Walks, Edge, Identity
<1>7. CASE Starts(q) \/ Renews(q) \/ \E c \in NewClaims : Owns(q, c)
  BY <1>1, <1>7 DEF Starts, Renews, Owns, SameCaller
<1>8. CASE Enqueues(q)
  <2>1. proc'[q].snap \in {NoRow, proc[q].snap}
    BY <1>8, IdleTyped DEF Enqueues, Idle
  <2>2. QED
    BY <1>1, <1>2, <2>1
<1>9. CASE Recovers(q)
  <2>1. SameOwners(row, proc'[q].snap)
    BY <1>9 DEF Recovers
  <2>2. QED
    BY <1>9, <2>1, LoadedStale DEF SnapStale, Stale, SameOwners
<1>10. CASE Hands(q)
  BY <1>2, <1>10 DEF Hands
<1>11. QED
  BY <1>3, <1>4, <1>5, <1>6, <1>7, <1>8, <1>9, <1>10 DEF Kinds, StepOf

\* How a step names its process anew
LEMMA IdMoves ==
    ASSUME BaseInv, NEW p \in Procs, StepOf(p)
    PROVE  \/ proc'[p].id \in {proc[p].id, NoClaim}
           \/ proc'[p].id \in NewClaims
           \/ Recovers(p) /\ proc'[p].id \in {row.claim, row.attempt}
<1>1. Enqueues(p) => proc'[p].id \in {proc[p].id, NoClaim} \/ proc'[p].id \in NewClaims
  BY IdleTyped DEF Enqueues, Idle
<1>2. QED
  BY <1>1 DEF StepOf, WalkStep, Walks, Edge, Identity, Starts, Renews, Recovers, Hands, Owns, SameOwner

\* Two processes share an id only when its lease is over
LEMMA SharedStaleKept ==
    ASSUME BaseInv, Kinds, NEW p \in Procs, NEW q \in Procs, SharedStale(p, q)
    PROVE  SharedStale(p, q)'
<1> SUFFICES ASSUME p # q, NEW id, id = proc'[p].id, id = proc'[q].id
             PROVE  Stale(id)'
  BY DEF SharedStale, Stale
<1>2. Stale(NoClaim)'
  BY DEF Stale, Recorded
<1>3. ASSUME proc[p].id = id, proc[q].id = id
      PROVE  Stale(id)'
  BY <1>3, NewIsNew, StaleKept DEF SharedStale
<1>4. CASE UNCHANGED vars
  BY <1>3, <1>4 DEF vars
<1>5. CASE Passes
  BY <1>3, <1>5 DEF Passes
<1>6. ASSUME NEW r \in Procs, NEW s \in Procs, {r, s} = {p, q}, r # s, StepOf(r)
      PROVE  Stale(id)'
  <2>1. proc'[s] = proc[s] /\ proc'[r].id = id /\ proc[s].id = id
    BY <1>6, StepMoves, Unmoved
  <2>2. CASE proc'[r].id \in {proc[r].id, NoClaim}
    BY <1>2, <1>3, <1>6, <2>1, <2>2
  <2>3. CASE proc'[r].id \in NewClaims
    BY <2>1, <2>3, NewIsNew
  <2>4. CASE Recovers(r) /\ proc'[r].id \in {row.claim, row.attempt}
    BY <2>1, <2>4, LoadedStale
  <2>5. QED
    BY <1>6, <2>2, <2>3, <2>4, IdMoves
<1>7. ASSUME NEW r \in Procs, StepOf(r), r # p, r # q
      PROVE  Stale(id)'
  BY <1>3, <1>7, StepMoves, Unmoved
<1>8. QED
  BY <1>4, <1>5, <1>6, <1>7 DEF Kinds

\* The lease a process counts on stays covered by the lease of the row
LEMMA LeaseHeldKept ==
    ASSUME BaseInv, Kinds, NEW q \in Procs, LeaseHeld(q)
    PROVE  LeaseHeld(q)'
<1> SUFFICES ASSUME NEW id, id = proc'[q].id, NEW n, n = proc'[q].lease, n > 0,
                    Recorded(row', id), row'.ttl > 0
             PROVE  row'.ttl >= n
  BY DEF LeaseHeld
<1>1. /\ row.ttl \in 0 .. Lease /\ row'.ttl \in 0 .. Lease /\ Lease \in Nat
      /\ n \in 0 .. Lease /\ proc[q].lease \in 0 .. Lease
  BY RowKept, ProcKept, LeaseAssumption DEF BaseInv, Rows, Activities
<1>2. id # NoClaim
  BY DEF Recorded
<1>3. ASSUME proc[q].id = id, proc[q].lease >= n, ~Passes
      PROVE  row'.ttl >= n
  <2>1. id \notin NewClaims
    BY <1>3, NewIsNew
  <2>2. Recorded(row, id) /\ row.ttl > 0 /\ row'.ttl >= row.ttl
    BY <1>3, <2>1, RecordedBefore
  <2>3. QED
    BY <1>1, <1>3, <2>2 DEF LeaseHeld
<1>4. CASE Passes
  <2>1. proc[q].id = id /\ n = Less(proc[q].lease) /\ row'.ttl = Less(row.ttl)
    BY <1>4 DEF Passes
  <2>2. id \notin NewClaims
    BY <2>1, NewIsNew
  <2>3. Recorded(row, id) /\ row.ttl > 0
    BY <2>2, RecordedBefore
  <2>4. proc[q].lease > 0 => row.ttl >= proc[q].lease
    BY <2>1, <2>3 DEF LeaseHeld
  <2>5. QED
    BY <1>1, <2>1, <2>4 DEF Less
<1>5. CASE UNCHANGED vars /\ ~Passes
  BY <1>1, <1>3, <1>5 DEF vars
<1>6. ASSUME NEW p \in Procs, StepOf(p), p # q, ~Passes
      PROVE  row'.ttl >= n
  BY <1>1, <1>3, <1>6, StepMoves, Unmoved
<1>7. CASE WalkStep(q) /\ ~Passes
  <2>1. id \in {proc[q].id, NoClaim} /\ n \in {proc[q].lease, 0}
    BY <1>7 DEF WalkStep, Walks, Edge, Identity
  <2>2. QED
    BY <1>1, <1>2, <1>3, <1>7, <2>1
<1>8. CASE Starts(q) \/ Renews(q)
  BY <1>1, <1>8 DEF Starts, Renews, Extends
<1>9. CASE \E c \in NewClaims : Owns(q, c)
  BY <1>1, <1>9 DEF Owns, Takes
<1>10. CASE Enqueues(q)
  <2>1. row'.ttl = Lease
    BY <1>1, <1>10 DEF Enqueues
  <2>2. QED
    BY <1>1, <2>1
<1>11. CASE Recovers(q)
  BY <1>1, <1>11 DEF Recovers, Begun
<1>12. CASE Hands(q) /\ ~Passes
  BY <1>1, <1>3, <1>12 DEF Hands, SameOwner
<1>13. QED
  BY <1>4, <1>5, <1>6, <1>7, <1>8, <1>9, <1>10, <1>11, <1>12 DEF Kinds, StepOf

\* The row keeps a marker that it has for a leased owner
LEMMA MarkerKept ==
    ASSUME BaseInv, Kinds, NEW id, id \notin NewClaims, Recorded(row', id), row'.ttl > 0,
           row.attempt = id, NeedsReconciliation(row)
    PROVE  row'.attempt = id /\ NeedsReconciliation(row')
<1>1. id # NoClaim /\ row.claim = NoClaim
  BY DEF Recorded, NeedsReconciliation, BaseInv, RowShape
<1>2. CASE row' = row \/ UNCHANGED vars \/ Passes
  BY <1>2 DEF vars, Passes, SameOwners, NeedsReconciliation
<1>3. ASSUME NEW p \in Procs, Extends(p)
      PROVE  row'.attempt = id /\ NeedsReconciliation(row')
  BY <1>3 DEF Extends, SameOwners, NeedsReconciliation
<1>4. ASSUME NEW p \in Procs, NEW c, Takes(p, c)
      PROVE  id = c /\ c \in NewClaims
  BY <1>1, <1>4 DEF Takes, Recorded
<1>5. ASSUME NEW p \in Procs, WalkStep(p)
      PROVE  row'.attempt = id /\ NeedsReconciliation(row')
  <2>1. CASE Quiet
    BY <1>2, <2>1 DEF Quiet
  <2>2. CASE Closes(p)
    BY <2>2 DEF Closes, Recorded
  <2>3. CASE Postpones(p) \/ Reopens(p) \/ Restores(p)
    BY <2>3 DEF Postpones, Reopens, Restores
  <2>4. CASE Testifies(p)
    BY <2>4 DEF Testifies, NeedsReconciliation
  <2>5. CASE Marks(p)
    BY <1>1, <2>5 DEF Marks, Recorded, NeedsReconciliation
  <2>6. CASE Counts(p)
    BY <2>6 DEF Counts, SameOwners, NeedsReconciliation
  <2>7. QED
    BY <1>3, <1>4, <1>5, <2>1, <2>2, <2>3, <2>4, <2>5, <2>6 DEF WalkStep, Fate
<1>6. ASSUME NEW p \in Procs, Enqueues(p)
      PROVE  FALSE
  BY <1>6 DEF Enqueues, Recorded, NeedsReconciliation
<1>7. QED
  BY <1>2, <1>3, <1>4, <1>5, <1>6 DEF Kinds, StepOf, Starts, Renews, Recovers, Hands, Owns

\* The row stays marked until its owner called the adapter
LEMMA MarkHeldKept ==
    ASSUME BaseInv, Kinds, NEW q \in Procs, MarkHeld(q)
    PROVE  MarkHeld(q)'
<1> SUFFICES ASSUME NEW b, b = proc'[q], b.pc = "handoff", b.pre # "acked", b.post = "none",
                    Recorded(row', b.id), row'.ttl > 0
             PROVE  row'.attempt = b.id /\ NeedsReconciliation(row')
  BY DEF MarkHeld, NeedsReconciliation
<1>1. PICK a : a = proc[q]
  OBVIOUS
<1>2. ASSUME a.pc = "handoff", SameMarks(a, b), a.id = b.id
      PROVE  row'.attempt = b.id /\ NeedsReconciliation(row')
  <2>1. b.id \notin NewClaims
    BY <1>1, <1>2, NewIsNew
  <2>2. Recorded(row, b.id) /\ row.ttl > 0
    BY <2>1, RecordedBefore
  <2>3. row.attempt = b.id /\ NeedsReconciliation(row)
    BY <1>1, <1>2, <2>2 DEF MarkHeld, SameMarks
  <2>4. PICK id : id = b.id
    OBVIOUS
  <2>5. QED
    BY <2>1, <2>3, <2>4, MarkerKept
<1>3. CASE UNCHANGED vars \/ Passes
  BY <1>1, <1>2, <1>3 DEF vars, Passes, SameMarks
<1>4. ASSUME NEW p \in Procs, StepOf(p), p # q
      PROVE  row'.attempt = b.id /\ NeedsReconciliation(row')
  BY <1>1, <1>2, <1>4, StepMoves, Unmoved DEF SameMarks
<1>5. CASE WalkStep(q)
  <2>1. b.id # NoClaim /\ b.id \in {a.id, NoClaim}
    BY <1>1, <1>5 DEF WalkStep, Walks, Edge, Identity, Recorded
  <2>2. CASE a.pc = "handoff" /\ SameMarks(a, b)
    BY <1>2, <2>1, <2>2
  <2>3. CASE a.pc = "dispatch"
    <3>1. \/ (a.pre = "acked" \/ a.post # "none") /\ SameMarks(a, b)
          \/ Marks(q)
      BY <1>1, <1>5, <2>3 DEF WalkStep, Agrees
    <3>2. Marks(q)
      BY <3>1 DEF SameMarks
    <3>3. row'.attempt = a.id /\ row'.rs \in {"started", "unknown"}
      BY <1>1, <3>2 DEF Marks
    <3>4. QED
      BY <2>1, <3>3 DEF NeedsReconciliation
  <2>4. QED
    BY <1>1, <1>5, <2>2, <2>3 DEF WalkStep, Walks, Edge, Handing
<1>6. CASE Renews(q)
  BY <1>1, <1>2, <1>6 DEF Renews
<1>7. CASE Starts(q) \/ (\E c \in NewClaims : Owns(q, c)) \/ Recovers(q) \/ Hands(q)
  BY <1>7 DEF Starts, Owns, Recovers, Hands
<1>8. CASE Enqueues(q)
  BY <1>8, IdleTyped DEF Enqueues, Idle
<1>9. QED
  BY <1>3, <1>4, <1>5, <1>6, <1>7, <1>8 DEF Kinds, StepOf

\* Every step keeps the fence invariant
LEMMA FenceKept ==
    ASSUME BaseInv, FenceInv, [Next]_vars
    PROVE  FenceInv'
<1>1. Kinds
  BY EveryStep
<1>2. ASSUME NEW p \in Procs
      PROVE  LeaseHeld(p)' /\ SnapStale(p)' /\ MarkHeld(p)'
  BY <1>1, LeaseHeldKept, SnapStaleKept, MarkHeldKept DEF FenceInv
<1>3. ASSUME NEW p \in Procs, NEW q \in Procs
      PROVE  SharedStale(p, q)'
  BY <1>1, SharedStaleKept DEF FenceInv
<1>4. QED
  BY <1>2, <1>3 DEF FenceInv

\* Others leave a leased and marked row alone, or extend its lease
LEMMA OthersRespect ==
    ASSUME BaseInv, FenceInv, NEW p \in Procs, StepOf(p), NEW q \in Procs, p # q,
           NEW id, id = proc[q].id, id # NoClaim,
           row.status = "pending", row.attempt = id, NeedsReconciliation(row), row.ttl > 0
    PROVE  /\ row'.status = "pending" /\ row'.attempt = id /\ NeedsReconciliation(row')
           /\ row'.ttl >= row.ttl
<1>1. row.ttl \in 0 .. Lease /\ row.claim = NoClaim /\ Recorded(row, id) /\ Lease \in Nat
  BY LeaseAssumption DEF BaseInv, Rows, RowShape, NeedsReconciliation, Recorded
<1>2. proc[p].id # id
  BY <1>1 DEF FenceInv, SharedStale, Stale
<1>3. ~Owned(row, proc[p].id)
  BY <1>1, <1>2 DEF Owned
<1>4. CASE row' = row
  BY <1>1, <1>4
<1>5. CASE Extends(p)
  BY <1>1, <1>5 DEF Extends, SameOwners, NeedsReconciliation
<1>6. ASSUME NEW c, Takes(p, c)
      PROVE  FALSE
  <2>1. row.attempt = proc[p].snap.attempt
    BY <1>1, <1>6 DEF Takes, NeedsReconciliation
  <2>2. Stale(row.attempt)
    BY <2>1 DEF FenceInv, SnapStale
  <2>3. QED
    BY <1>1, <2>2 DEF Stale
<1>7. ASSUME Marks(p)
      PROVE  FALSE
  <2>1. proc[p].id = NoClaim
    BY <1>1, <1>2, <1>7 DEF Marks
  <2>2. Holds(proc[p]) /\ proc[p].pre # "acked"
    BY <1>7 DEF Marks, Holds, Borrowed
  <2>3. QED
    BY <2>1, <2>2 DEF BaseInv, Local, HoldLocal
<1>8. CASE WalkStep(p)
  <2>1. ~(Postpones(p) \/ Reopens(p) \/ Testifies(p) \/ Counts(p) \/ Restores(p))
    BY <1>3 DEF Postpones, Reopens, Testifies, Counts, Restores
  <2>2. ~Closes(p)
    BY <1>1, <1>3 DEF Closes, HasActiveOwner, NeedsReconciliation
  <2>3. QED
    BY <1>4, <1>5, <1>6, <1>7, <1>8, <2>1, <2>2 DEF WalkStep, Fate, Quiet
<1>9. ~Enqueues(p)
  BY DEF Enqueues
<1>10. QED
  BY <1>4, <1>5, <1>6, <1>8, <1>9 DEF StepOf, Starts, Renews, Recovers, Hands, Owns

\* HandoffIsFenced for one process
Fenced(p) ==
    (At(p, "handoff") /\ proc[p].pre # "acked" /\ proc[p].post = "none" /\ proc[p].lease > 0
        /\ proc[p].beat)
    => /\ row.status = "pending" /\ row.attempt = proc[p].id
       /\ NeedsReconciliation(row) /\ row.ttl >= proc[p].lease

\* Every step keeps HandoffIsFenced for one process
LEMMA FencedKept ==
    ASSUME BaseInv, FenceInv, Kinds, NEW q \in Procs, Fenced(q)
    PROVE  Fenced(q)'
<1> SUFFICES ASSUME NEW b, b = proc'[q], b.pc = "handoff", b.pre # "acked", b.post = "none",
                    b.lease > 0, b.beat
             PROVE  /\ row'.status = "pending" /\ row'.attempt = b.id
                    /\ NeedsReconciliation(row') /\ row'.ttl >= b.lease
  BY DEF Fenced, At, NeedsReconciliation
<1>1. PICK a : a = proc[q]
  OBVIOUS
<1>2. /\ row.ttl \in 0 .. Lease /\ row'.ttl \in 0 .. Lease /\ Lease \in Nat
      /\ a.lease \in 0 .. Lease /\ b.lease \in 0 .. Lease /\ Local(b) /\ Local(a)
  BY <1>1, RowKept, ProcKept, LeaseAssumption DEF BaseInv, Rows, Activities
<1>3. b.id # NoClaim
  <2>1. Holds(b)
    BY DEF Holds, Borrowed
  <2>2. QED
    BY <1>2, <2>1 DEF Local, HoldLocal
<1> DEFINE WasFenced == /\ row.status = "pending" /\ row.attempt = b.id
                        /\ NeedsReconciliation(row) /\ row.ttl >= b.lease
<1>4. ASSUME a.pc = "handoff", SameMarks(a, b), a.id = b.id, a.beat, a.lease >= b.lease
      PROVE  WasFenced
  <2>1. a.lease > 0
    BY <1>2, <1>4
  <2>2. row.ttl >= a.lease /\ row.status = "pending" /\ row.attempt = a.id /\ NeedsReconciliation(row)
    BY <1>1, <1>4, <2>1 DEF Fenced, At, SameMarks
  <2>3. QED
    BY <1>2, <1>4, <2>2
<1>5. CASE UNCHANGED vars
  <2>1. a = b /\ row' = row
    BY <1>1, <1>5 DEF vars
  <2>2. WasFenced
    BY <1>2, <1>4, <2>1 DEF SameMarks
  <2>3. QED
    BY <2>1, <2>2
<1>6. CASE Passes
  <2>1. /\ a.pc = "handoff" /\ SameMarks(a, b) /\ a.id = b.id /\ a.beat
        /\ b.lease = Less(a.lease) /\ SameOwners(row, row') /\ row'.ttl = Less(row.ttl)
    BY <1>1, <1>6 DEF Passes
  <2>2. a.lease > 0 /\ a.pre # "acked" /\ a.post = "none"
    BY <1>2, <2>1 DEF Less, SameMarks
  <2>3. /\ row.status = "pending" /\ row.attempt = b.id
        /\ NeedsReconciliation(row) /\ row.ttl >= a.lease
    BY <1>1, <2>1, <2>2 DEF Fenced, At
  <2>4. Less(row.ttl) >= Less(a.lease)
    BY <1>2, <2>3 DEF Less
  <2>5. QED
    BY <2>1, <2>3, <2>4 DEF SameOwners, NeedsReconciliation
<1>7. ASSUME NEW p \in Procs, StepOf(p), p # q
      PROVE  /\ row'.status = "pending" /\ row'.attempt = b.id
             /\ NeedsReconciliation(row') /\ row'.ttl >= b.lease
  <2>1. b = a
    BY <1>1, <1>7, StepMoves, Unmoved
  <2>2. WasFenced
    BY <1>2, <1>4, <2>1 DEF SameMarks
  <2>3. PICK id : id = b.id
    OBVIOUS
  <2>4. row.ttl > 0
    BY <1>2, <2>2
  <2>5. /\ row'.status = "pending" /\ row'.attempt = id /\ NeedsReconciliation(row')
        /\ row'.ttl >= row.ttl
    BY <1>1, <1>3, <1>7, <2>1, <2>2, <2>3, <2>4, OthersRespect
  <2>6. QED
    BY <1>2, <2>2, <2>3, <2>5
<1>8. CASE WalkStep(q)
  <2>1. Edge(a, b) /\ Fate(q) /\ Agrees(q)
    BY <1>1, <1>8 DEF WalkStep, Walks
  <2>2. b.id = a.id /\ b.lease = a.lease
    BY <1>2, <1>3, <2>1 DEF Edge, Identity
  <2>3. CASE a.pc = "handoff" /\ SameMarks(a, b) /\ a.beat
    <3>1. WasFenced
      BY <1>2, <1>4, <2>2, <2>3
    <3>2. row.claim = NoClaim /\ row.rs # "none" /\ row.rs # "claimed"
      BY <3>1 DEF NeedsReconciliation, BaseInv, RowShape
    <3>3. ~Closes(q)
      BY <1>1, <2>3, <3>2, <3>1 DEF Closes
    <3>4. ~(Postpones(q) \/ Reopens(q) \/ Testifies(q) \/ Marks(q) \/ Restores(q)
              \/ \E c \in Claims : Takes(q, c))
      BY <1>1, <2>3 DEF Postpones, Reopens, Testifies, Marks, Restores, Takes, InPost
    <3>5. Quiet \/ Extends(q) \/ Counts(q)
      BY <2>1, <3>3, <3>4 DEF Fate
    <3>6. SameOwners(row, row') /\ row'.ttl >= row.ttl
      BY <1>2, <3>5 DEF Quiet, Extends, Counts, SameOwners
    <3>7. QED
      BY <1>2, <3>1, <3>6 DEF SameOwners, NeedsReconciliation
  <2>4. CASE a.pc = "dispatch"
    <3>1. \/ (a.pre = "acked" \/ a.post # "none") /\ SameMarks(a, b)
          \/ Marks(q)
      BY <1>1, <2>1, <2>4 DEF Agrees
    <3>2. Marks(q)
      BY <3>1 DEF SameMarks
    <3>3. /\ row'.attempt = a.id /\ row'.rs \in {"started", "unknown"} /\ row'.ttl = row.ttl
          /\ row'.status = "pending" /\ row.ttl > 0 /\ Recorded(row, a.id)
      BY <1>1, <1>3, <2>2, <3>2 DEF Marks, Recorded
    <3>4. row.ttl >= a.lease
      BY <1>1, <2>2, <3>3 DEF FenceInv, LeaseHeld
    <3>5. QED
      BY <2>2, <3>3, <3>4 DEF NeedsReconciliation
  <2>5. QED
    BY <2>1, <2>3, <2>4 DEF Edge, Handing
<1>9. CASE Renews(q)
  <2>1. /\ a.pc = "handoff" /\ SameMarks(a, b) /\ a.id = b.id /\ Extends(q)
    BY <1>1, <1>9 DEF Renews
  <2>2. Recorded(row, a.id) /\ row.ttl > 0 /\ SameOwners(row, row') /\ row'.ttl = Lease
        /\ row.status = "pending"
    BY <1>1, <1>3, <2>1 DEF Extends, Recorded
  <2>3. row.attempt = a.id /\ NeedsReconciliation(row)
    BY <1>1, <2>1, <2>2 DEF FenceInv, MarkHeld, SameMarks
  <2>4. QED
    BY <1>2, <2>1, <2>2, <2>3 DEF SameOwners, NeedsReconciliation
<1>10. CASE Starts(q) \/ (\E c \in NewClaims : Owns(q, c)) \/ Recovers(q) \/ Hands(q)
  BY <1>10 DEF Starts, Owns, Recovers, Hands
<1>11. CASE Enqueues(q)
  BY <1>11, IdleTyped DEF Enqueues, Idle
<1>12. QED
  BY <1>5, <1>6, <1>7, <1>8, <1>9, <1>10, <1>11 DEF Kinds, StepOf

\* All that the fence rests on
GuardInv == BaseInv /\ FenceInv /\ HandoffIsFenced

\* The guard invariant holds at the start: nobody has an activity
LEMMA GuardInit ==
    ASSUME Init
    PROVE  GuardInv
<1>1. BaseInv /\ \A p \in Procs : proc[p] = Idle
  BY BaseInit DEF Init
<1>2. row.status = "absent"
  BY DEF Init, NoRow
<1>3. \A id : Stale(id)
  BY <1>2 DEF Stale, Recorded
<1>4. FenceInv
  BY <1>1, <1>2, <1>3 DEF FenceInv, LeaseHeld, SnapStale, MarkHeld, SharedStale, Recorded
<1>5. HandoffIsFenced
  BY <1>1, IdleTyped DEF HandoffIsFenced, At
<1>6. QED
  BY <1>1, <1>4, <1>5 DEF GuardInv

\* Every step keeps the guard invariant
LEMMA GuardKept ==
    ASSUME GuardInv, [Next]_vars
    PROVE  GuardInv'
<1>1. Kinds /\ BaseInv' /\ FenceInv'
  BY EveryStep, BaseKept, FenceKept DEF GuardInv
<1>2. ASSUME NEW p \in Procs PROVE Fenced(p)'
  BY <1>1, FencedKept DEF GuardInv, HandoffIsFenced, Fenced
<1>3. HandoffIsFenced'
  BY <1>2 DEF HandoffIsFenced, Fenced
<1>4. QED
  BY <1>1, <1>3 DEF GuardInv

\* Inside its confirmed lease a process that is about to call the adapter is the
\* recorded owner of a marked row that nobody can take (onPlatformSendDispatch,
\* startQueuedDeliveryLease)
THEOREM DeliveryHandoffIsFenced == Spec => []HandoffIsFenced
<1>1. Init => GuardInv
  BY GuardInit
<1>2. GuardInv /\ [Next]_vars => GuardInv'
  BY GuardKept
<1>3. GuardInv => HandoffIsFenced
  BY DEF GuardInv
<1>4. QED
  BY <1>1, <1>2, <1>3, PTL DEF Spec

-----------------------------------------------------------------------------
(* The evidence of a send is never taken back.                             *)

\* Activities with a claim of their own have different claims
Apart(p, q) == p # q /\ Genuine(proc[p]) /\ Genuine(proc[q]) => proc[p].id # proc[q].id

\* When the row of an activity has the evidence of a send, its outcomes tell so,
\* and it is not about to record that nothing was sent
Tells(p) == Telling(proc[p]) /\ Recorded(row, proc[p].id) /\ row.rs = "unknown" => MaySent(proc[p])
Admits(p) == Spotless(proc[p]) /\ Recorded(row, proc[p].id) => row.rs # "unknown"

\* and only a row that was published has evidence
EvidenceInv ==
    /\ \A p, q \in Procs : Apart(p, q)
    /\ row.rs = "unknown" => row.status # "absent"
    /\ \A p \in Procs : Tells(p) /\ Admits(p)

\* Who tells or records something about its send has a claim of its own
LEMMA TellersHold ==
    ASSUME NEW a, Local(a), Telling(a) \/ Spotless(a) \/ InPost(a) \/ (a.pc = "fail" /\ a.how = "after")
    PROVE  Holds(a) /\ (~Telling(a) \/ InPost(a) => Genuine(a))
<1>1. Holds(a)
  BY DEF Telling, Spotless, InPost, Holds, Borrowed, Loop
<1>2. a.id = NoClaim => a.pc \in Loop \cup {"returned", "ledger", "thrown", "thrownLate"}
  BY <1>1 DEF Local, HoldLocal
<1>3. ~Telling(a) \/ InPost(a) => a.id # NoClaim
  BY <1>2 DEF Telling, Spotless, InPost, Loop
<1>4. QED
  BY <1>1, <1>3 DEF Genuine

\* Activities with claims of their own keep different claims
LEMMA ApartKept ==
    ASSUME BaseInv, Kinds, NEW p \in Procs, NEW q \in Procs, Apart(p, q)
    PROVE  Apart(p, q)'
<1> SUFFICES ASSUME p # q, NEW a, a = proc'[p], NEW b, b = proc'[q], Genuine(a), Genuine(b),
                    a.id = b.id
             PROVE  FALSE
  BY DEF Apart, Genuine, Holds, Borrowed
<1>1. ASSUME Genuine(proc[p]), Genuine(proc[q]), proc[p].id = a.id, proc[q].id = b.id
      PROVE  FALSE
  BY <1>1 DEF Apart
<1>2. CASE UNCHANGED vars
  BY <1>1, <1>2 DEF vars
<1>3. CASE Passes
  BY <1>1, <1>3 DEF Passes, Genuine, Holds, SameReturn
<1>4. ASSUME NEW r \in Procs, NEW s \in Procs, {r, s} = {p, q}, r # s, StepOf(r)
      PROVE  FALSE
  <2>1. PICK c : c = proc'[r]
    OBVIOUS
  <2>2. proc'[s] = proc[s] /\ Genuine(proc[s]) /\ Genuine(c) /\ proc[s].id = c.id
    BY <1>4, <2>1, StepMoves, Unmoved
  <2>3. CASE Genuine(proc[r]) /\ proc[r].id = c.id
    BY <1>1, <1>4, <2>1, <2>2, <2>3
  <2>4. CASE c.id \in NewClaims
    BY <2>2, <2>4, NewIsNew
  <2>5. CASE WalkStep(r)
    BY <2>1, <2>2, <2>3, <2>5 DEF WalkStep, Walks, Edge, Identity
  <2>6. CASE Starts(r)
    <3>1. proc[r].pc = "startLease" /\ c.id = proc[r].id
      BY <2>1, <2>6 DEF Starts
    <3>2. Genuine(proc[r])
      BY <2>2, <3>1 DEF Genuine, Holds, Borrowed
    <3>3. QED
      BY <2>3, <3>1, <3>2
  <2>7. CASE Renews(r)
    <3>1. c.pc = proc[r].pc /\ SameReturn(proc[r], c) /\ c.id = proc[r].id
      BY <2>1, <2>7 DEF Renews
    <3>2. Genuine(proc[r])
      BY <2>2, <3>1 DEF Genuine, Holds, SameReturn
    <3>3. QED
      BY <2>3, <3>1, <3>2
  <2>8. CASE Enqueues(r)
    <3>1. proc[r].pc = "idle"
      BY <2>8 DEF Enqueues
    <3>2. ~Genuine(proc[r]) /\ ~Genuine(Idle)
      BY <3>1, IdleTyped DEF Genuine, Holds, Borrowed
    <3>3. c.id \in NewClaims
      BY <2>1, <2>2, <2>8, <3>2 DEF Enqueues, Genuine
    <3>4. QED
      BY <2>4, <3>3
  <2>9. CASE Recovers(r)
    BY <2>1, <2>2, <2>9 DEF Recovers, Genuine, Holds, Borrowed
  <2>10. CASE Hands(r)
    <3>1. proc[r].pc = "handoff" /\ c.id = proc[r].id
      BY <2>1, <2>10 DEF Hands, SameOwner
    <3>2. Genuine(proc[r])
      BY <2>2, <3>1 DEF Genuine, Holds, Borrowed
    <3>3. QED
      BY <2>3, <3>1, <3>2
  <2>11. CASE \E e \in NewClaims : Owns(r, e)
    BY <2>1, <2>4, <2>11 DEF Owns
  <2>12. QED
    BY <1>4, <2>5, <2>6, <2>7, <2>8, <2>9, <2>10, <2>11 DEF StepOf
<1>5. ASSUME NEW r \in Procs, StepOf(r), r # p, r # q
      PROVE  FALSE
  BY <1>1, <1>5, StepMoves, Unmoved
<1>6. QED
  BY <1>2, <1>3, <1>4, <1>5 DEF Kinds

\* A row with evidence that is recorded for an id had it before, or its owner of
\* that id records it now
LEMMA UnknownBefore ==
    ASSUME BaseInv, Kinds, NEW id, Recorded(row', id), row'.rs = "unknown"
    PROVE  \/ Recorded(row, id) /\ row.rs = "unknown"
           \/ \E r \in Procs : WalkStep(r) /\ Testifies(r) /\ proc[r].id = id /\ Genuine(proc[r])
<1>1. CASE row' = row \/ UNCHANGED vars \/ Passes
  BY <1>1 DEF vars, Passes, Recorded, SameOwners
<1>2. ASSUME NEW p \in Procs, Extends(p)
      PROVE  Recorded(row, id) /\ row.rs = "unknown"
  BY <1>2 DEF Extends, Recorded, SameOwners
<1>3. ASSUME NEW p \in Procs, NEW c, Takes(p, c)
      PROVE  FALSE
  BY <1>3 DEF Takes
<1>4. ASSUME NEW p \in Procs, Enqueues(p)
      PROVE  FALSE
  BY <1>4 DEF Enqueues
<1>5. ASSUME NEW p \in Procs, WalkStep(p)
      PROVE  \/ Recorded(row, id) /\ row.rs = "unknown"
             \/ Testifies(p) /\ proc[p].id = id /\ Genuine(proc[p])
  <2>1. CASE Quiet \/ Counts(p)
    BY <1>1, <2>1 DEF Quiet, Counts, Recorded, SameOwners
  <2>2. CASE Closes(p) \/ Reopens(p)
    BY <2>2 DEF Closes, Reopens
  <2>3. CASE Postpones(p)
    BY <2>3 DEF Postpones, Recorded, Owned
  <2>4. CASE Marks(p)
    BY <2>4 DEF Marks, Recorded
  <2>5. CASE Restores(p)
    <3>1. Holds(proc[p]) /\ row'.rs = proc[p].snap.rs
      BY <2>5 DEF Restores, Holds, Borrowed
    <3>2. QED
      BY <3>1 DEF BaseInv, Local, SnapLocal
  <2>6. CASE Testifies(p)
    <3>1. row'.attempt = row.attempt /\ row'.claim = NoClaim /\ Owned(row, proc[p].id)
          /\ (InPost(proc[p]) \/ (proc[p].pc = "fail" /\ proc[p].how = "after"))
      BY <2>6 DEF Testifies
    <3>2. row.attempt = id /\ id # NoClaim
      BY <3>1 DEF Recorded
    <3>3. row.claim = NoClaim
      BY <3>2 DEF BaseInv, RowShape
    <3>4. proc[p].id = id
      BY <3>1, <3>2, <3>3 DEF Owned
    <3>5. Holds(proc[p])
      BY <3>1, TellersHold DEF BaseInv
    <3>6. QED
      BY <2>6, <3>2, <3>4, <3>5 DEF Genuine
  <2>7. QED
    BY <1>2, <1>3, <1>5, <2>1, <2>2, <2>3, <2>4, <2>5, <2>6 DEF WalkStep, Fate
<1>6. QED
  BY <1>1, <1>2, <1>3, <1>4, <1>5 DEF Kinds, StepOf, Starts, Renews, Recovers, Hands, Owns

\* Who is about to record a send, and still tells of it, tells that it was sent
LEMMA PostTells ==
    ASSUME NEW a, Local(a), InPost(a), Telling(a)
    PROVE  MaySent(a)
<1>1. /\ a.ret \in {"payload", "failures", "ledger", "recAck"}
      /\ a.ret = "payload" => a.cur = "sent"
      /\ a.ret \in {"failures", "ledger", "recAck"} => SentBeforeError(a)
  BY DEF Local, PostLocal, Telling, InPost, Loop
<1>2. InLoop(a) => MidSend(a)
  BY DEF InLoop, MidSend, InPost, Loop
<1>3. InLoop(a) => a.dispatched
  BY <1>2 DEF Local, SendLocal
<1>4. QED
  BY <1>1, <1>3 DEF MaySent

\* Nothing happens to what a process tells while another one moves or time passes
LEMMA SameEvidence ==
    ASSUME NEW a, NEW b, b.pc = a.pc, b.id = a.id, SameBatch(a, b), SameReturn(a, b)
    PROVE  /\ Telling(b) <=> Telling(a)
           /\ MaySent(b) <=> MaySent(a)
           /\ Spotless(b) <=> Spotless(a)
           /\ Holds(b) <=> Holds(a)
<1>1. (InPost(b) <=> InPost(a)) /\ (InLoop(b) <=> InLoop(a))
  BY DEF InPost, InLoop, SameReturn
<1>2. QED
  BY <1>1 DEF Telling, MaySent, Spotless, Holds, SentBeforeError, SameBatch, SameReturn

\* The outcomes of an activity go on telling of a send that its row has the
\* evidence of
LEMMA TellsKept ==
    ASSUME BaseInv, Kinds, EvidenceInv, NEW q \in Procs
    PROVE  Tells(q)'
<1> SUFFICES ASSUME NEW b, b = proc'[q], Telling(b), NEW id, id = b.id, Recorded(row', id),
                    row'.rs = "unknown"
             PROVE  MaySent(b)
  BY DEF Tells, Telling, MaySent, InPost, InLoop, SentBeforeError, Recorded
<1>1. PICK a : a = proc[q]
  OBVIOUS
<1>2. Local(a) /\ Local(b) /\ id # NoClaim
  BY <1>1, ProcKept DEF BaseInv, Recorded
<1>3. CASE Recorded(row, id) /\ row.rs = "unknown"
  <2>1. Telling(a) /\ a.id = id => MaySent(a)
    BY <1>1, <1>3 DEF EvidenceInv, Tells
  <2>2. CASE UNCHANGED vars \/ Passes
    <3>1. b.pc = a.pc /\ b.id = a.id /\ SameBatch(a, b) /\ SameReturn(a, b)
      BY <1>1, <2>2 DEF vars, Passes, SameBatch, SameReturn
    <3>2. QED
      BY <2>1, <3>1, SameEvidence
  <2>3. ASSUME NEW p \in Procs, StepOf(p), p # q
        PROVE  MaySent(b)
    BY <1>1, <2>1, <2>3, StepMoves, Unmoved
  <2>4. CASE WalkStep(q)
    BY <1>1, <2>1, <2>4 DEF WalkStep, Walks, Edge, Evidence
  <2>5. CASE Starts(q)
    <3>1. a.pc = "startLease" /\ a.id = id
      BY <1>1, <2>5 DEF Starts
    <3>2. Telling(a) /\ ~MidSend(a)
      BY <3>1 DEF Telling, MidSend, InPost
    <3>3. a.outs = {} /\ a.cur = "omitted"
      BY <1>2, <3>1, <3>2 DEF Local, BatchLocal, SendLocal, Fresh
    <3>4. QED
      BY <2>1, <3>1, <3>2, <3>3 DEF MaySent, SentBeforeError
  <2>6. CASE Renews(q)
    <3>1. b.pc = a.pc /\ b.id = a.id /\ SameBatch(a, b) /\ SameReturn(a, b)
      BY <1>1, <2>6 DEF Renews
    <3>2. QED
      BY <2>1, <3>1, SameEvidence
  <2>7. CASE Enqueues(q) \/ \E c \in NewClaims : Owns(q, c)
    BY <2>7 DEF Enqueues, Owns, Takes
  <2>8. CASE Recovers(q)
    BY <2>8 DEF Recovers, Telling, InPost, Loop
  <2>9. CASE Hands(q)
    <3>1. a.pc = "handoff" /\ a.id = id /\ (MaySent(a) => MaySent(b))
      BY <1>1, <2>9 DEF Hands, SameOwner
    <3>2. Telling(a)
      BY <3>1 DEF Telling, Loop
    <3>3. QED
      BY <2>1, <3>1, <3>2
  <2>10. QED
    BY <2>2, <2>3, <2>4, <2>5, <2>6, <2>7, <2>8, <2>9 DEF Kinds, StepOf
<1>4. ASSUME NEW r \in Procs, WalkStep(r), Testifies(r), proc[r].id = id, Genuine(proc[r])
      PROVE  MaySent(b)
  <2>1. CASE r # q
    <3>1. b = a
      BY <1>1, <1>4, <2>1, StepMoves, Unmoved DEF StepOf
    <3>2. Genuine(a)
      BY <1>2, <3>1, TellersHold DEF Genuine
    <3>3. QED
      BY <1>1, <1>4, <2>1, <3>1, <3>2 DEF EvidenceInv, Apart
  <2>2. CASE r = q
    <3>1. Telling(a) /\ (MaySent(a) => MaySent(b))
      BY <1>1, <1>4, <2>2 DEF WalkStep, Walks, Edge, Evidence
    <3>2. InPost(a)
      BY <1>1, <1>4, <2>2, <3>1 DEF Testifies, Telling, InPost, Loop
    <3>3. QED
      BY <1>2, <3>1, <3>2, PostTells
  <2>3. QED
    BY <2>1, <2>2
<1>5. QED
  BY <1>3, <1>4, UnknownBefore

\* Nobody gets to record that nothing was sent when its row has the evidence of
\* a send
LEMMA AdmitsKept ==
    ASSUME BaseInv, Kinds, EvidenceInv, NEW q \in Procs
    PROVE  Admits(q)'
<1> SUFFICES ASSUME NEW b, b = proc'[q], Spotless(b), NEW id, id = b.id, Recorded(row', id),
                    row'.rs = "unknown"
             PROVE  FALSE
  BY DEF Admits, Spotless, Recorded
<1>1. PICK a : a = proc[q]
  OBVIOUS
<1>2. Local(a) /\ Local(b) /\ id # NoClaim
  BY <1>1, ProcKept DEF BaseInv, Recorded
<1>3. CASE Recorded(row, id) /\ row.rs = "unknown"
  <2>1. ~(Spotless(a) /\ a.id = id) /\ (Telling(a) /\ a.id = id => MaySent(a))
    BY <1>1, <1>3 DEF EvidenceInv, Tells, Admits
  <2>2. CASE UNCHANGED vars \/ Passes
    <3>1. b.pc = a.pc /\ b.id = a.id /\ SameBatch(a, b) /\ SameReturn(a, b)
      BY <1>1, <2>2 DEF vars, Passes, SameBatch, SameReturn
    <3>2. QED
      BY <2>1, <3>1, SameEvidence
  <2>3. ASSUME NEW p \in Procs, StepOf(p), p # q
        PROVE  FALSE
    BY <1>1, <2>1, <2>3, StepMoves, Unmoved
  <2>4. CASE WalkStep(q)
    BY <1>1, <2>1, <2>4 DEF WalkStep, Walks, Edge, Evidence
  <2>5. CASE Renews(q)
    <3>1. b.pc = a.pc /\ b.id = a.id /\ SameBatch(a, b) /\ SameReturn(a, b)
      BY <1>1, <2>5 DEF Renews
    <3>2. QED
      BY <2>1, <3>1, SameEvidence
  <2>6. CASE Enqueues(q) \/ \E c \in NewClaims : Owns(q, c)
    BY <2>6 DEF Enqueues, Owns, Takes
  <2>7. CASE Starts(q) \/ Recovers(q) \/ Hands(q)
    BY <2>7 DEF Starts, Recovers, Hands, Spotless
  <2>8. QED
    BY <2>2, <2>3, <2>4, <2>5, <2>6, <2>7 DEF Kinds, StepOf
<1>4. ASSUME NEW r \in Procs, WalkStep(r), Testifies(r), proc[r].id = id, Genuine(proc[r])
      PROVE  FALSE
  <2>1. CASE r # q
    <3>1. b = a
      BY <1>1, <1>4, <2>1, StepMoves, Unmoved DEF StepOf
    <3>2. Genuine(a)
      BY <1>2, <3>1, TellersHold DEF Genuine
    <3>3. QED
      BY <1>1, <1>4, <2>1, <3>1, <3>2 DEF EvidenceInv, Apart
  <2>2. CASE r = q
    <3>1. Spotless(a) \/ (Telling(a) /\ ~MaySent(a))
      BY <1>1, <1>4, <2>2 DEF WalkStep, Walks, Edge, Evidence
    <3>2. InPost(a) \/ (a.pc = "fail" /\ a.how = "after")
      BY <1>1, <1>4, <2>2 DEF Testifies
    <3>3. ~Spotless(a)
      BY <3>2 DEF Spotless, InPost
    <3>4. Telling(a) => InPost(a)
      BY <3>2 DEF Telling, InPost, Loop
    <3>5. QED
      BY <1>2, <3>1, <3>3, <3>4, PostTells
  <2>3. QED
    BY <2>1, <2>2
<1>5. QED
  BY <1>3, <1>4, UnknownBefore

\* The evidence of a send is not taken back by any step
UnknownStays == row.rs = "unknown" =>
                  row'.rs \in {"unknown", "settlement"} \/ row'.status \in Terminal

\* No step takes the evidence of a send back
LEMMA UnknownStaysStep ==
    ASSUME BaseInv, Kinds, EvidenceInv
    PROVE  UnknownStays
<1> SUFFICES ASSUME row.rs = "unknown"
             PROVE  row'.rs \in {"unknown", "settlement"} \/ row'.status \in Terminal
  BY DEF UnknownStays
<1>1. CASE row' = row \/ UNCHANGED vars \/ Passes
  BY <1>1 DEF vars, Passes, SameOwners
<1>2. ASSUME NEW p \in Procs, Extends(p)
      PROVE  row'.rs = "unknown"
  BY <1>2 DEF Extends, SameOwners
<1>3. ASSUME NEW p \in Procs, NEW c, Takes(p, c)
      PROVE  FALSE
  BY <1>3 DEF Takes
<1>4. ASSUME NEW p \in Procs, Enqueues(p)
      PROVE  FALSE
  BY <1>4 DEF Enqueues, EvidenceInv
<1>5. ASSUME NEW p \in Procs, WalkStep(p)
      PROVE  row'.rs \in {"unknown", "settlement"} \/ row'.status \in Terminal
  <2>1. CASE Quiet \/ Counts(p)
    BY <1>1, <2>1 DEF Quiet, Counts, SameOwners
  <2>2. CASE Closes(p)
    BY <2>2 DEF Closes
  <2>3. CASE Postpones(p) \/ Testifies(p) \/ Marks(p)
    BY <2>3 DEF Postpones, Testifies, Marks
  <2>4. ASSUME Reopens(p) \/ Restores(p)
        PROVE  FALSE
    <3>1. Spotless(proc[p]) /\ Owned(row, proc[p].id)
      BY <2>4 DEF Reopens, Restores, Spotless
    <3>2. Genuine(proc[p])
      <4>1. ~Telling(proc[p])
        BY <3>1 DEF Spotless, Telling, InPost, Loop
      <4>2. QED
        BY <3>1, <4>1, TellersHold DEF BaseInv
    <3>3. Recorded(row, proc[p].id)
      BY <3>1, <3>2 DEF Recorded, Owned, Genuine
    <3>4. QED
      BY <3>1, <3>3 DEF EvidenceInv, Admits
  <2>5. QED
    BY <1>2, <1>3, <1>5, <2>1, <2>2, <2>3, <2>4 DEF WalkStep, Fate
<1>6. QED
  BY <1>1, <1>2, <1>3, <1>4, <1>5 DEF Kinds, StepOf, Starts, Renews, Recovers, Hands, Owns

\* All that the evidence rests on
TraceInv == BaseInv /\ EvidenceInv

\* The trace invariant holds at the start: there is no evidence yet
LEMMA TraceInit ==
    ASSUME Init
    PROVE  TraceInv
<1>1. BaseInv /\ \A p \in Procs : proc[p] = Idle
  BY BaseInit DEF Init
<1>2. row.status = "absent" /\ row.rs = "none"
  BY DEF Init, NoRow
<1>3. Idle.pc = "idle"
  BY IdleTyped
<1>4. \A p, q \in Procs : Apart(p, q)
  BY <1>1, <1>3 DEF Apart, Genuine, Holds, Borrowed
<1>5. \A p \in Procs : Tells(p) /\ Admits(p)
  BY <1>2 DEF Tells, Admits
<1>6. QED
  BY <1>1, <1>2, <1>4, <1>5 DEF TraceInv, EvidenceInv

\* A row gets evidence only after it was published
LEMMA PublishedKept ==
    ASSUME BaseInv, Kinds, EvidenceInv, row'.rs = "unknown"
    PROVE  row'.status # "absent"
<1>1. CASE row.status = row'.status /\ row.rs = row'.rs
  BY <1>1 DEF EvidenceInv
<1>2. CASE row'.status \in {"pending", "staged"} \cup Terminal
  BY <1>2 DEF Terminal
<1>3. ASSUME NEW p \in Procs, Fate(p)
      PROVE  row'.status # "absent"
  BY <1>1, <1>2, <1>3 DEF Fate, Quiet, Closes, Postpones, Reopens, Testifies, Marks, Extends,
     Counts, Restores, Takes, SameOwners
<1>4. QED
  BY <1>1, <1>2, <1>3, SMTT(30) DEF Kinds, StepOf, WalkStep, vars, Passes, Starts, Renews, Enqueues,
     Recovers, Hands, Owns, Extends, Takes, SameOwners

\* Every step keeps the trace invariant and the evidence
LEMMA TraceKept ==
    ASSUME TraceInv, [Next]_vars
    PROVE  TraceInv' /\ UnknownStays
<1>1. Kinds /\ BaseInv /\ EvidenceInv
  BY EveryStep DEF TraceInv
<1>2. BaseInv' /\ UnknownStays
  BY <1>1, BaseKept, UnknownStaysStep
<1>3. \A p \in Procs : Tells(p)' /\ Admits(p)'
  BY <1>1, TellsKept, AdmitsKept
<1>4. \A p, q \in Procs : Apart(p, q)'
  BY <1>1, ApartKept DEF EvidenceInv
<1>5. row'.rs = "unknown" => row'.status # "absent"
  BY <1>1, PublishedKept
<1>6. QED
  BY <1>2, <1>3, <1>4, <1>5 DEF TraceInv, EvidenceInv

\* A row with post-send evidence never becomes sendable again, whatever failures,
\* restores and recoveries follow (persistQueuedPostSendState, failDelivery)
THEOREM DeliveryUnknownNeverReplayed == Spec => UnknownNeverReplayed
<1>1. Init => TraceInv
  BY TraceInit
<1>2. TraceInv /\ [Next]_vars => TraceInv'
  BY TraceKept
<1>3. TraceInv /\ [Next]_vars => [UnknownStays]_vars
  BY TraceKept
<1>4. [][UnknownStays]_vars <=> UnknownNeverReplayed
  BY PTL DEF UnknownStays, UnknownNeverReplayed
<1>5. QED
  BY <1>1, <1>2, <1>3, <1>4, PTL DEF Spec

-----------------------------------------------------------------------------
(* At most one send.                                                       *)

\* The activity can still reach the adapter
Can(a) == InLoop(a) /\ ~a.lost /\ ~a.aborted

\* It would: the row is gone, has its evidence already, or is its own
Sender(p) == /\ Can(proc[p])
             /\ proc[p].post # "none" \/ proc[p].pre = "acked" \/ Owned(row, proc[p].id)

\* While the loop of a process holds its lease, the row that is recorded for it is
\* leased too, and no recoverer works with a snapshot of it
LeaseSound(p) ==
    InLoop(proc[p]) /\ proc[p].lease > 0 /\ Recorded(row, proc[p].id) /\ row.rs # "unknown"
      => row.ttl > 0
Unloaded(p, q) ==
    /\ InLoop(proc[p]) /\ proc[p].id # NoClaim
    /\ proc[p].id \in {proc[q].snap.claim, proc[q].snap.attempt} /\ proc[q].snap.rs # "unknown"
    => proc[p].lease = 0

\* The row of a process that sends has its marker, then its evidence
Marked(p) ==
    /\ Can(proc[p]) /\ proc[p].id # NoClaim /\ Owned(row, proc[p].id)
    /\ proc[p].pc = "handoff" \/ MidSend(proc[p])
    => row.attempt = proc[p].id /\ row.rs \in {"started", "unknown"}
Proved(p) ==
    Can(proc[p]) /\ proc[p].post \in {"marked", "failed"} =>
      /\ row.status # "absent"
      /\ row.status = "pending" => row.rs = "unknown" /\ row.attempt = proc[p].id
Over(p) == proc[p].pre = "acked" \/ proc[p].post = "acked" => row.status \in Terminal

\* What was sent shows: a row that can be taken, an attempt that was proved unsent,
\* a process that is about to reopen its row, and one that has nothing to tell
\* were not sent
Unsent == \/ row.status = "absent"
          \/ row.status = "pending" /\ row.rs \in {"none", "claimed"}
          => ~Sent
Proven(p) ==
    /\ proc[p].pc = "claim" /\ proc[p].snap.rs = "started" /\ row.status = "pending"
    /\ row.rs = "started" /\ row.attempt = proc[p].snap.attempt
    => ~Sent
Clears(p) == Spotless(proc[p]) /\ Owned(row, proc[p].id) => ~Sent
Reports(p) ==
    Telling(proc[p]) /\ Recorded(row, proc[p].id) /\ Sent => MaySent(proc[p])

\* There is one sender, and what it has not reached is not sent
Alone(p, q) == Sender(p) /\ Sender(q) => p = q
Progress(p) ==
    Sender(p) => \A j \in 1 .. Batch :
                   visible[j] > 0 => j < proc[p].i \/ (j = proc[p].i /\ MidSend(proc[p]))

HoldInv == /\ \A p \in Procs : LeaseSound(p) /\ Marked(p) /\ Proved(p) /\ Over(p)
           /\ \A p, q \in Procs : Unloaded(p, q)
           /\ row.status # "pending" => row.claim = NoClaim /\ row.attempt = NoClaim
ShowInv == Unsent /\ \A p \in Procs : Proven(p) /\ Clears(p) /\ Reports(p)
SoleInv == (\A p, q \in Procs : Alone(p, q)) /\ (\A p \in Procs : Progress(p)) /\ AtMostOnce

\* What the proofs below start from
HoldFacts == /\ BaseInv /\ Kinds /\ FenceInv /\ HandoffIsFenced /\ EvidenceInv
          /\ TimersOnTime /\ HoldInv

-----------------------------------------------------------------------------
\* A process that can send holds its lease
LEMMA CanLeased ==
    ASSUME BaseInv, TimersOnTime, NEW p \in Procs, Can(proc[p]), proc[p].id # NoClaim
    PROVE  proc[p].lease > 0 /\ proc[p].beat
<1>1. PICK a : a = proc[p]
  OBVIOUS
<1>2. a \in Activities /\ Local(a) /\ Can(a) /\ a.id # NoClaim
  BY <1>1 DEF BaseInv
<1>3. a.lease \in 0 .. Lease /\ Lease \in Nat
  BY <1>2, LeaseAssumption DEF Activities
<1> HIDE DEF Activities
<1>4. a.beat /\ a.lease # 0
  BY <1>2 DEF Can, Local, BeatLocal
<1>5. QED
  BY <1>1, <1>3, <1>4

\* In the loop no claim means no row
LEMMA LoopClaim ==
    ASSUME BaseInv, NEW p \in Procs, InLoop(proc[p]), proc[p].id = NoClaim
    PROVE  proc[p].pre = "acked" /\ proc[p].post = "acked"
<1>1. PICK a : a = proc[p]
  OBVIOUS
<1>2. Local(a) /\ Holds(a)
  BY <1>1 DEF BaseInv, InLoop, Loop, InPost, Holds, Borrowed
<1>3. QED
  BY <1>1, <1>2 DEF Local, HoldLocal

\* A row has one owner
LEMMA OneOwner ==
    ASSUME NEW r, RowShape(r), NEW c, NEW d, c # NoClaim, d # NoClaim,
           c \in {r.claim, r.attempt}, d \in {r.claim, r.attempt}
    PROVE  c = d
BY DEF RowShape

\* Who is recorded was so before, or the id is new, or a restored snapshot names it
LEMMA OwnerBefore ==
    ASSUME BaseInv, Kinds, NEW id, Recorded(row', id)
    PROVE  \/ Recorded(row, id)
           \/ /\ visible' = visible /\ id \in NewClaims
              /\ \E p \in Procs : Owns(p, id) \/ (Takes(p, id) /\ WalkStep(p)) \/ Enqueues(p)
           \/ \E p \in Procs : /\ WalkStep(p) /\ Restores(p)
                               /\ id \in {proc[p].snap.claim, proc[p].snap.attempt}
<1>1. CASE row' = row \/ UNCHANGED vars \/ Passes
  BY <1>1 DEF vars, Passes, Recorded, SameOwners
<1>2. ASSUME NEW p \in Procs, Extends(p)
      PROVE  Recorded(row, id)
  BY <1>2 DEF Extends, Recorded, SameOwners
<1>3. ASSUME NEW p \in Procs, NEW c \in NewClaims, Owns(p, c)
      PROVE  visible' = visible /\ id \in NewClaims /\ Owns(p, id)
  <2>1. id = c
    BY <1>3 DEF Owns, Takes, Recorded
  <2>2. QED
    BY <1>3, <2>1 DEF Owns
<1>4. ASSUME NEW p \in Procs, Enqueues(p)
      PROVE  visible' = visible /\ id \in NewClaims
  BY <1>4 DEF Enqueues, Recorded
<1>5. ASSUME NEW p \in Procs, WalkStep(p)
      PROVE  \/ Recorded(row, id)
             \/ visible' = visible /\ id \in NewClaims /\ Takes(p, id)
             \/ Restores(p) /\ id \in {proc[p].snap.claim, proc[p].snap.attempt}
  <2>1. CASE Quiet \/ Counts(p)
    BY <2>1 DEF Quiet, Counts, SameOwners, Recorded
  <2>2. CASE Closes(p) \/ Reopens(p)
    BY <2>2 DEF Closes, Reopens, Recorded
  <2>3. CASE Postpones(p) \/ Testifies(p)
    BY <2>3 DEF Postpones, Testifies, Recorded, Owned
  <2>4. CASE Marks(p)
    BY <2>4 DEF Marks, Recorded
  <2>5. CASE Restores(p)
    BY <2>5 DEF Restores, Recorded
  <2>6. ASSUME NEW c \in Claims, Takes(p, c)
        PROVE  visible' = visible /\ id \in NewClaims /\ Takes(p, id)
    <3>1. id = c /\ c \in NewClaims
      BY <2>6 DEF Takes, Recorded
    <3>2. QED
      BY <1>5, <2>6, <3>1 DEF WalkStep
  <2>7. QED
    BY <1>2, <1>5, <2>1, <2>2, <2>3, <2>4, <2>5, <2>6 DEF WalkStep, Fate
<1>6. QED
  BY <1>1, <1>2, <1>3, <1>4, <1>5 DEF Kinds, StepOf, Starts, Renews, Recovers, Hands

\* Who is in the loop was there before, unless its first lease was confirmed now
\* or it begins without a row
LEMMA LoopBefore ==
    ASSUME BaseInv, Kinds, NEW q \in Procs, NEW a, a = proc[q], NEW b, b = proc'[q], InLoop(b)
    PROVE  \/ Starts(q)
           \/ Enqueues(q) /\ b.id = NoClaim
           \/ /\ InLoop(a) /\ b.id = a.id /\ (a.lost => b.lost) /\ (a.aborted => b.aborted)
              /\ \/ Renews(q)
                 \/ b.lease = a.lease
                 \/ Passes /\ b.lease = Less(a.lease)
<1>1. CASE UNCHANGED vars
  BY <1>1 DEF vars
<1>2. ASSUME b.pc = a.pc, SameReturn(a, b)
      PROVE  InLoop(a)
  BY <1>2 DEF InLoop, InPost, SameReturn
<1>3. CASE Passes
  BY <1>2, <1>3 DEF Passes, SameCaller
<1>4. ASSUME NEW p \in Procs, StepOf(p), p # q
      PROVE  b = a
  BY <1>4, StepMoves, Unmoved
<1>5. CASE WalkStep(q)
  BY <1>5 DEF WalkStep, Walks, Edge, Looping
<1>6. CASE Renews(q)
  BY <1>2, <1>6 DEF Renews, SameCaller
<1>7. CASE Enqueues(q)
  <2>1. ~InLoop(Idle) /\ a.pc = "idle"
    BY <1>7, IdleTyped DEF InLoop, Loop, InPost, Enqueues
  <2>2. ~InLoop(a)
    BY <2>1 DEF InLoop, Loop, InPost
  <2>3. b.pc # "markQueued"
    BY DEF InLoop, Loop, InPost
  <2>4. QED
    BY <1>7, <2>1, <2>2, <2>3 DEF Enqueues
<1>8. CASE Recovers(q) \/ \E c \in NewClaims : Owns(q, c)
  BY <1>8 DEF Recovers, Owns, InLoop, Loop, InPost
<1>9. CASE Hands(q)
  BY <1>9 DEF Hands, SameOwner, InLoop, Loop
<1>10. QED
  BY <1>1, <1>3, <1>4, <1>5, <1>6, <1>7, <1>8, <1>9 DEF Kinds, StepOf

\* A snapshot that is being restored has no evidence
LEMMA RestoresClean ==
    ASSUME BaseInv, NEW p \in Procs, Restores(p)
    PROVE  proc[p].snap.rs # "unknown" /\ ~InLoop(proc[p])
<1>1. Holds(proc[p]) /\ ~InLoop(proc[p])
  BY DEF Restores, Holds, Borrowed, InLoop, Loop, InPost
<1>2. QED
  BY <1>1 DEF BaseInv, Local, SnapLocal

\* Another process does not give up the row of a leased loop
LEMMA LeaseSoundKept ==
    ASSUME HoldFacts, NEW q \in Procs
    PROVE  LeaseSound(q)'
<1> SUFFICES ASSUME NEW b, b = proc'[q], InLoop(b), b.lease > 0, NEW id, id = b.id,
                    Recorded(row', id), row'.rs # "unknown"
             PROVE  row'.ttl > 0
  BY DEF LeaseSound, InLoop, InPost, Recorded
<1> USE DEF HoldFacts
<1>1. PICK a : a = proc[q]
  OBVIOUS
<1>2. /\ row.ttl \in 0 .. Lease /\ Lease \in Nat /\ Lease > 0 /\ id # NoClaim
      /\ a.lease \in 0 .. Lease
  BY <1>1, LeaseAssumption DEF BaseInv, Rows, Activities, Recorded
<1>3. CASE Starts(q) \/ Renews(q)
  BY <1>2, <1>3 DEF Starts, Renews, Extends
<1>4. CASE /\ InLoop(a) /\ id = a.id
           /\ b.lease = a.lease \/ (Passes /\ b.lease = Less(a.lease))
  <2>1. a.lease > 0
    BY <1>2, <1>4 DEF Less
  <2>2. Recorded(row, id) /\ row.rs # "unknown" => row.ttl > 0 /\ row.ttl >= a.lease
    BY <1>1, <1>4, <2>1 DEF HoldInv, LeaseSound, FenceInv, LeaseHeld
  <2>3. CASE row' = row
    BY <2>2, <2>3
  <2>4. CASE UNCHANGED vars
    BY <2>3, <2>4 DEF vars
  <2>5. CASE Passes
    <3>1. b.lease = Less(a.lease) /\ row'.ttl = Less(row.ttl) /\ SameOwners(row, row')
      BY <1>1, <2>5 DEF Passes
    <3>2. row.ttl >= a.lease
      BY <2>2, <3>1 DEF SameOwners, Recorded
    <3>3. QED
      BY <1>2, <3>1, <3>2 DEF Less
  <2>6. ASSUME NEW p \in Procs, Extends(p)
        PROVE  row'.ttl > 0
    BY <1>2, <2>6 DEF Extends
  <2>7. ASSUME NEW p \in Procs, NEW c, Takes(p, c)
        PROVE  row'.ttl > 0
    BY <1>2, <2>7 DEF Takes
  <2>8. ASSUME NEW p \in Procs, WalkStep(p)
        PROVE  row'.ttl > 0
    <3>1. CASE Quiet
      BY <2>3, <3>1 DEF Quiet
    <3>2. CASE Closes(p) \/ Reopens(p)
      BY <1>2, <3>2 DEF Closes, Reopens, Recorded
    <3>3. CASE Postpones(p)
      <4>1. /\ row'.claim = NoClaim /\ row'.attempt = row.attempt /\ Owned(row, proc[p].id)
            /\ row.status = "pending" /\ proc[p].pc = "fail" /\ row.rs # "unknown"
        BY <3>3 DEF Postpones, Owned
      <4>2. row.attempt = id /\ Recorded(row, id)
        BY <1>2, <4>1 DEF Recorded
      <4>3. row.claim = NoClaim
        BY <1>2, <4>2 DEF BaseInv, RowShape
      <4>4. proc[p].id = id
        BY <1>2, <4>1, <4>2, <4>3 DEF Owned
      <4>5. p # q
        BY <1>1, <1>4, <4>1 DEF InLoop, InPost, Loop
      <4>6. Stale(id)
        BY <1>1, <1>4, <4>4, <4>5 DEF FenceInv, SharedStale
      <4>7. QED
        BY <1>2, <2>2, <4>1, <4>2, <4>6 DEF Stale
    <3>4. CASE Testifies(p)
      BY <3>4 DEF Testifies
    <3>5. CASE Marks(p)
      BY <3>5 DEF Marks
    <3>6. CASE Counts(p)
      BY <2>2, <3>6 DEF Counts, SameOwners, Recorded
    <3>7. CASE Restores(p)
      <4>1. id \in {proc[p].snap.claim, proc[p].snap.attempt} /\ proc[p].snap.rs # "unknown"
        BY <3>7, RestoresClean DEF Restores, Recorded
      <4>2. a.lease = 0
        BY <1>1, <1>2, <1>4, <4>1 DEF HoldInv, Unloaded
      <4>3. QED
        BY <2>1, <4>2
    <3>8. QED
      BY <2>6, <2>7, <2>8, <3>1, <3>2, <3>3, <3>4, <3>5, <3>6, <3>7 DEF WalkStep, Fate
  <2>9. ASSUME NEW p \in Procs, Enqueues(p)
        PROVE  row'.ttl > 0
    BY <1>2, <2>9 DEF Enqueues, Recorded
  <2>10. QED
    BY <2>3, <2>4, <2>5, <2>6, <2>7, <2>8, <2>9 DEF Kinds, StepOf, Starts, Renews, Recovers,
       Hands, Owns
<1>5. QED
  BY <1>1, <1>2, <1>3, <1>4, LoopBefore

\* No recoverer gets hold of the row of a leased loop
LEMMA UnloadedKept ==
    ASSUME HoldFacts, NEW q \in Procs, NEW p \in Procs
    PROVE  Unloaded(q, p)'
<1> SUFFICES ASSUME NEW b, b = proc'[q], InLoop(b), NEW id, id = b.id, id # NoClaim,
                    NEW s, s = proc'[p].snap, id \in {s.claim, s.attempt}, s.rs # "unknown"
             PROVE  b.lease = 0
  BY DEF Unloaded, InLoop, InPost
<1> USE DEF HoldFacts
<1>1. PICK a : a = proc[q]
  OBVIOUS
<1>2. s = proc[p].snap \/ Recovers(p)
  <2>1. s # NoRow
    BY DEF NoRow
  <2>2. CASE UNCHANGED vars \/ Passes
    BY <2>2 DEF vars, Passes, SameCaller
  <2>3. ASSUME NEW r \in Procs, StepOf(r), r # p
        PROVE  s = proc[p].snap
    BY <2>3, StepMoves, Unmoved
  <2>4. CASE WalkStep(p)
    BY <2>1, <2>4 DEF WalkStep, Walks, Edge, Identity
  <2>5. CASE Starts(p) \/ Renews(p) \/ \E c \in NewClaims : Owns(p, c)
    BY <2>5 DEF Starts, Renews, Owns, SameCaller
  <2>6. CASE Enqueues(p)
    BY <2>1, <2>6, IdleTyped DEF Enqueues, Idle
  <2>7. CASE Hands(p)
    BY <2>1, <2>7 DEF Hands
  <2>8. QED
    BY <2>2, <2>3, <2>4, <2>5, <2>6, <2>7 DEF Kinds, StepOf
<1>3. ASSUME s = proc[p].snap, Extends(q), a.id = id
      PROVE  FALSE
  <2>1. Recorded(row, id) /\ row.ttl > 0
    BY <1>1, <1>3 DEF Extends, Recorded
  <2>2. Stale(id)
    BY <1>3 DEF FenceInv, SnapStale
  <2>3. QED
    BY <2>1, <2>2 DEF Stale
<1>4. CASE s = proc[p].snap
  <2>1. CASE Starts(q) \/ Renews(q)
    BY <1>1, <1>3, <1>4, <2>1 DEF Starts, Renews
  <2>2. CASE InLoop(a) /\ id = a.id /\ (b.lease = a.lease \/ b.lease = Less(a.lease))
    <3>1. a.lease = 0
      BY <1>1, <1>4, <2>2 DEF HoldInv, Unloaded
    <3>2. QED
      BY <2>2, <3>1 DEF Less
  <2>3. QED
    BY <1>1, <2>1, <2>2, LoopBefore
<1>5. CASE Recovers(p)
  <2>1. /\ row' = row /\ SameOwners(row, s) /\ row.status \in {"pending", "staged"}
        /\ row.status = "pending" => ~HasActiveOwner(row)
        /\ proc'[p].pc \in {"stage", "owner"}
    BY <1>5 DEF Recovers
  <2>2. p # q
    BY <2>1 DEF InLoop, Loop, InPost
  <2>3. b = a
    BY <1>1, <1>5, <2>2, StepMoves, Unmoved DEF StepOf
  <2>4. row.status = "pending" /\ Recorded(row, id)
    BY <2>1 DEF HoldInv, SameOwners, Recorded
  <2>5. row.rs \in {"claimed", "started"} /\ row.ttl \in 0 .. Lease /\ Lease \in Nat
    BY <2>1, <2>4, LeaseAssumption DEF BaseInv, RowShape, SameOwners, Recorded, Rows
  <2>6. row.ttl = 0
    BY <2>1, <2>4, <2>5 DEF HasActiveOwner
  <2>7. ~(a.lease > 0) /\ a.lease \in 0 .. Lease
    BY <1>1, <2>3, <2>4, <2>5, <2>6 DEF HoldInv, LeaseSound, BaseInv, Activities
  <2>8. QED
    BY <2>3, <2>5, <2>7
<1>6. QED
  BY <1>2, <1>4, <1>5

\* Who can reach the adapter after a step begins with it or could before
LEMMA CanBefore ==
    ASSUME BaseInv, Kinds, NEW q \in Procs, NEW b, b = proc'[q], Can(b)
    PROVE  \/ Starts(q)
           \/ Enqueues(q) /\ b.id = NoClaim
           \/ Can(proc[q]) /\ b.id = proc[q].id
BY LoopBefore DEF Can

\* Nobody restores a snapshot of the row of a process that can send
LEMMA NotRestored ==
    ASSUME HoldFacts, NEW q \in Procs, Can(proc[q]), NEW id, id = proc[q].id, id # NoClaim,
           NEW p \in Procs, Restores(p)
    PROVE  id \notin {proc[p].snap.claim, proc[p].snap.attempt}
<1> SUFFICES ASSUME id \in {proc[p].snap.claim, proc[p].snap.attempt}
             PROVE  FALSE
  OBVIOUS
<1>1. proc[p].snap.rs # "unknown"
  BY RestoresClean DEF HoldFacts
<1>2. proc[q].lease = 0
  BY <1>1 DEF HoldFacts, HoldInv, Unloaded, Can
<1>3. proc[q].lease > 0
  BY CanLeased DEF HoldFacts
<1>4. QED
  BY <1>2, <1>3

\* so the row of such a process was its own before
LEMMA SenderOwned ==
    ASSUME HoldFacts, NEW q \in Procs, Can(proc[q]), NEW id, id = proc[q].id, Recorded(row', id)
    PROVE  Recorded(row, id)
<1>1. id # NoClaim
  BY DEF Recorded
<1>2. id \notin NewClaims
  BY NewIsNew
<1>3. ASSUME NEW p \in Procs, Restores(p), id \in {proc[p].snap.claim, proc[p].snap.attempt}
      PROVE  FALSE
  BY <1>1, <1>3, NotRestored
<1>4. QED
  BY <1>2, <1>3, OwnerBefore DEF HoldFacts

\* A marker or evidence stays with the owner, unless a snapshot is restored
LEMMA MarkerStays ==
    ASSUME BaseInv, Kinds, NEW id, id \notin NewClaims, Recorded(row', id),
           row.attempt = id, row.rs \in {"started", "unknown"},
           \A p \in Procs : Restores(p) => id \notin {proc[p].snap.claim, proc[p].snap.attempt}
    PROVE  row'.attempt = id /\ row'.rs \in {"started", "unknown"}
<1>1. id # NoClaim /\ row.claim = NoClaim
  BY DEF Recorded, BaseInv, RowShape
<1>2. CASE row' = row \/ UNCHANGED vars \/ Passes
  BY <1>2 DEF vars, Passes, SameOwners
<1>3. ASSUME NEW p \in Procs, Extends(p)
      PROVE  row'.attempt = id /\ row'.rs \in {"started", "unknown"}
  BY <1>3 DEF Extends, SameOwners
<1>4. ASSUME NEW p \in Procs, NEW c, Takes(p, c)
      PROVE  id = c /\ c \in NewClaims
  BY <1>1, <1>4 DEF Takes, Recorded
<1>5. ASSUME NEW p \in Procs, WalkStep(p)
      PROVE  row'.attempt = id /\ row'.rs \in {"started", "unknown"}
  <2>1. CASE Quiet
    BY <1>2, <2>1 DEF Quiet
  <2>2. CASE Closes(p) \/ Reopens(p)
    BY <1>1, <2>2 DEF Closes, Reopens, Recorded
  <2>3. CASE Postpones(p)
    BY <2>3 DEF Postpones
  <2>4. CASE Testifies(p)
    BY <2>4 DEF Testifies
  <2>5. CASE Marks(p)
    BY <1>1, <2>5 DEF Marks, Recorded
  <2>6. CASE Counts(p)
    BY <2>6 DEF Counts, SameOwners
  <2>7. CASE Restores(p)
    BY <2>7 DEF Restores, Recorded
  <2>8. QED
    BY <1>3, <1>4, <1>5, <2>1, <2>2, <2>3, <2>4, <2>5, <2>6, <2>7 DEF WalkStep, Fate
<1>6. ASSUME NEW p \in Procs, Enqueues(p)
      PROVE  id \in NewClaims
  BY <1>1, <1>6 DEF Enqueues, Recorded
<1>7. QED
  BY <1>2, <1>3, <1>4, <1>5, <1>6 DEF Kinds, StepOf, Starts, Renews, Recovers, Hands, Owns

\* The row of an owner at or after its handoff stays marked by its attempt
LEMMA MarkedKept ==
    ASSUME HoldFacts, NEW q \in Procs
    PROVE  Marked(q)'
<1> SUFFICES ASSUME NEW b, b = proc'[q], Can(b), NEW id, id = b.id, id # NoClaim,
                    Owned(row', id), b.pc = "handoff" \/ MidSend(b)
             PROVE  row'.attempt = id /\ row'.rs \in {"started", "unknown"}
  BY DEF Marked, Can, InLoop, InPost, MidSend, Owned
<1> USE DEF HoldFacts
<1>1. PICK a : a = proc[q]
  OBVIOUS
<1>2. Can(a) /\ a.id = id
  <2>1. ~Starts(q)
    BY DEF Starts, MidSend, InPost
  <2>2. QED
    BY <1>1, <2>1, CanBefore
<1>3. Recorded(row', id)
  BY DEF Recorded, Owned
<1>4. Recorded(row, id) /\ id \notin NewClaims
  BY <1>1, <1>2, <1>3, SenderOwned, NewIsNew
<1>5. CASE a.pc = "handoff" \/ MidSend(a)
  <2>1. row.attempt = id /\ row.rs \in {"started", "unknown"}
    BY <1>1, <1>2, <1>4, <1>5 DEF HoldInv, Marked, Recorded, Owned
  <2>2. \A p \in Procs : Restores(p) => id \notin {proc[p].snap.claim, proc[p].snap.attempt}
    BY <1>1, <1>2, NotRestored
  <2>3. QED
    BY <1>3, <1>4, <2>1, <2>2, MarkerStays
<1>6. ASSUME b.pc = a.pc, SameReturn(a, b)
      PROVE  a.pc = "handoff" \/ MidSend(a)
  BY <1>6 DEF MidSend, InPost, SameReturn
<1>7. CASE UNCHANGED vars \/ Passes
  BY <1>1, <1>5, <1>6, <1>7 DEF vars, Passes, SameReturn
<1>8. ASSUME NEW p \in Procs, StepOf(p), p # q
      PROVE  row'.attempt = id /\ row'.rs \in {"started", "unknown"}
  BY <1>1, <1>5, <1>8, StepMoves, Unmoved
<1>9. CASE WalkStep(q)
  <2>1. Edge(a, b) /\ Agrees(q)
    BY <1>1, <1>9 DEF WalkStep, Walks
  <2>2. CASE MidSend(b)
    <3>1. MidSend(a)
      BY <2>1, <2>2 DEF Edge, Looping, Can
    <3>2. QED
      BY <1>5, <3>1
  <2>3. CASE b.pc = "handoff" /\ a.pc = "dispatch"
    <3>1. \/ row' = row /\ (a.pre = "acked" \/ a.post # "none")
          \/ Marks(q)
      BY <1>1, <2>1, <2>3 DEF Agrees
    <3>2. CASE Marks(q)
      BY <1>1, <1>2, <3>2 DEF Marks
    <3>3. CASE row' = row /\ (a.pre = "acked" \/ a.post # "none")
      <4>1. row.status = "pending"
        BY <1>4 DEF Recorded
      <4>2. a.pre # "acked" /\ a.post # "acked"
        BY <1>1, <4>1 DEF HoldInv, Over, Terminal
      <4>3. a.post \in {"none", "marked", "acked", "failed"}
        BY <1>1 DEF BaseInv, Activities
      <4>4. row.rs = "unknown" /\ row.attempt = id
        BY <1>1, <1>2, <3>3, <4>1, <4>2, <4>3 DEF HoldInv, Proved
      <4>5. QED
        BY <3>3, <4>4
    <3>4. QED
      BY <3>1, <3>2, <3>3
  <2>4. QED
    BY <1>5, <2>1, <2>2, <2>3 DEF Edge, Handing
<1>10. CASE Renews(q)
  BY <1>1, <1>5, <1>6, <1>10 DEF Renews
<1>11. CASE Hands(q)
  BY <1>1, <1>5, <1>11 DEF Hands
<1>12. CASE Starts(q) \/ Recovers(q) \/ \E c \in NewClaims : Owns(q, c)
  BY <1>12 DEF Starts, Recovers, Owns, MidSend, InPost
<1>13. CASE Enqueues(q)
  <2>1. Idle.pc = "idle"
    BY IdleTyped
  <2>2. QED
    BY <1>13, <2>1 DEF Enqueues, MidSend, InPost
<1>14. QED
  BY <1>7, <1>8, <1>9, <1>10, <1>11, <1>12, <1>13 DEF Kinds, StepOf

\* Rows are published once and end for good
LEMMA StatusMoves ==
    ASSUME BaseInv, Kinds
    PROVE  /\ row'.status = "absent" => row.status = "absent"
           /\ row'.status = "pending" => row.status = "pending" \/ row.status = "absent"
           /\ row.status \in Terminal => row'.status \in Terminal
           /\ row'.status # "pending" =>
                \/ row'.claim = NoClaim /\ row'.attempt = NoClaim
                \/ row'.status = row.status /\ row'.claim = row.claim /\ row'.attempt = row.attempt
<1>1. CASE row'.status = row.status /\ row'.claim = row.claim /\ row'.attempt = row.attempt
  BY <1>1
<1>2. CASE row.status = "pending" /\ row'.status = "pending"
  BY <1>2 DEF Terminal
<1>3. ASSUME NEW p, Closes(p)
      PROVE  /\ row'.status \in Terminal \cup {"staged"} /\ row.status \notin Terminal
             /\ row'.claim = NoClaim /\ row'.attempt = NoClaim
  BY <1>3 DEF Closes, Owned, Terminal
<1>4. ASSUME NEW p, Enqueues(p)
      PROVE  /\ row.status = "absent" /\ row'.status \in {"pending", "skipped"}
             /\ row'.status # "pending" => row'.claim = NoClaim /\ row'.attempt = NoClaim
  BY <1>4 DEF Enqueues
<1>5. ASSUME NEW p, Fate(p), ~Closes(p)
      PROVE  \/ row'.status = row.status /\ row'.claim = row.claim /\ row'.attempt = row.attempt
             \/ row.status = "pending" /\ row'.status = "pending"
  BY <1>5 DEF Fate, Quiet, Postpones, Reopens, Testifies, Marks, Extends, Counts, Restores, Takes,
     SameOwners, Owned
<1>6. CASE \E p \in Procs : WalkStep(p)
  <2>1. PICK p \in Procs : Fate(p)
    BY <1>6 DEF WalkStep
  <2>2. CASE Closes(p)
    BY <1>3, <2>2 DEF Terminal
  <2>3. CASE ~Closes(p)
    BY <1>1, <1>2, <1>5, <2>1, <2>3
  <2>4. QED
    BY <2>2, <2>3
<1>7. CASE \E p \in Procs : Enqueues(p)
  BY <1>4, <1>7 DEF Terminal
<1>8. CASE \E p \in Procs : Starts(p) \/ Renews(p) \/ Recovers(p) \/ Hands(p)
                              \/ \E c \in NewClaims : Owns(p, c)
  BY <1>1, <1>2, <1>8 DEF Starts, Renews, Recovers, Hands, Owns, Extends, Takes, SameOwners
<1>9. CASE UNCHANGED vars \/ Passes
  BY <1>1, <1>9 DEF vars, Passes, SameOwners
<1>10. QED
  BY <1>6, <1>7, <1>8, <1>9 DEF Kinds, StepOf

\* Who marks the row has a claim of its own
LEMMA MarkerHolds ==
    ASSUME BaseInv, NEW p \in Procs, Marks(p)
    PROVE  proc[p].id # NoClaim
<1>1. Holds(proc[p]) /\ proc[p].pre # "acked" /\ Local(proc[p])
  BY DEF Marks, Holds, Borrowed, BaseInv
<1>2. QED
  BY <1>1 DEF Local, HoldLocal

\* A pending row with evidence keeps it, and its owner
LEMMA EvidenceStays ==
    ASSUME BaseInv, Kinds, EvidenceInv, row.rs = "unknown", row.status = "pending",
           row'.status = "pending"
    PROVE  row'.rs = "unknown" /\ row'.attempt = row.attempt
<1>1. CASE row' = row \/ UNCHANGED vars \/ Passes
  BY <1>1 DEF vars, Passes, SameOwners
<1>2. ASSUME NEW p \in Procs, Extends(p)
      PROVE  row'.rs = "unknown" /\ row'.attempt = row.attempt
  BY <1>2 DEF Extends, SameOwners
<1>3. ASSUME NEW p \in Procs, NEW c, Takes(p, c)
      PROVE  FALSE
  BY <1>3 DEF Takes
<1>4. ASSUME NEW p \in Procs, Enqueues(p)
      PROVE  FALSE
  BY <1>4 DEF Enqueues
<1>5. ASSUME NEW p \in Procs, WalkStep(p)
      PROVE  row'.rs = "unknown" /\ row'.attempt = row.attempt
  <2>1. CASE Quiet \/ Counts(p)
    BY <1>1, <2>1 DEF Quiet, Counts, SameOwners
  <2>2. CASE Closes(p)
    BY <2>2 DEF Closes, Terminal
  <2>3. CASE Postpones(p) \/ Testifies(p)
    BY <2>3 DEF Postpones, Testifies
  <2>4. CASE Marks(p)
    <3>1. row.claim = NoClaim /\ proc[p].id # NoClaim
      BY <2>4, MarkerHolds DEF BaseInv, RowShape
    <3>2. QED
      BY <2>4, <3>1 DEF Marks
  <2>5. ASSUME Reopens(p) \/ Restores(p)
        PROVE  FALSE
    <3>1. Spotless(proc[p]) /\ Owned(row, proc[p].id)
      BY <2>5 DEF Reopens, Restores, Spotless
    <3>2. Genuine(proc[p])
      <4>1. ~Telling(proc[p])
        BY <3>1 DEF Spotless, Telling, InPost, Loop
      <4>2. QED
        BY <3>1, <4>1, TellersHold DEF BaseInv
    <3>3. Recorded(row, proc[p].id)
      BY <3>1, <3>2 DEF Recorded, Owned, Genuine
    <3>4. QED
      BY <3>1, <3>3 DEF EvidenceInv, Admits
  <2>6. QED
    BY <1>2, <1>3, <1>5, <2>1, <2>2, <2>3, <2>4, <2>5 DEF WalkStep, Fate
<1>6. QED
  BY <1>1, <1>2, <1>3, <1>4, <1>5 DEF Kinds, StepOf, Starts, Renews, Recovers, Hands, Owns

\* Who is in the loop gets its marks there
LEMMA PostBefore ==
    ASSUME BaseInv, Kinds, NEW q \in Procs, NEW a, a = proc[q], NEW b, b = proc'[q], InLoop(b)
    PROVE  \/ SameMarks(a, b)
           \/ WalkStep(q)
           \/ Starts(q) /\ b.pre = "none" /\ b.post = "none"
           \/ Enqueues(q) /\ b.pre = "acked" /\ b.post = "acked"
<1>1. CASE UNCHANGED vars \/ Passes
  BY <1>1 DEF vars, Passes, SameMarks
<1>2. ASSUME NEW p \in Procs, StepOf(p), p # q
      PROVE  b = a
  BY <1>2, StepMoves, Unmoved
<1>3. CASE Renews(q) \/ Starts(q) \/ Hands(q) \/ WalkStep(q)
  BY <1>3 DEF Renews, Starts, Hands
<1>4. CASE Enqueues(q)
  <2>1. ~InLoop(Idle) /\ b.pc # "markQueued"
    BY IdleTyped DEF InLoop, Loop, InPost
  <2>2. QED
    BY <1>4, <2>1 DEF Enqueues, SameMarks
<1>5. CASE Recovers(q) \/ \E c \in NewClaims : Owns(q, c)
  BY <1>5 DEF Recovers, Owns, InLoop, Loop, InPost
<1>6. QED
  BY <1>1, <1>2, <1>3, <1>4, <1>5 DEF Kinds, StepOf, SameMarks

\* An owner that recorded evidence finds it in the row as long as the row is
\* pending
LEMMA ProvedKept ==
    ASSUME HoldFacts, NEW q \in Procs
    PROVE  Proved(q)'
<1> SUFFICES ASSUME NEW b, b = proc'[q], Can(b), b.post \in {"marked", "failed"}
             PROVE  /\ row'.status # "absent"
                    /\ row'.status = "pending" => row'.rs = "unknown" /\ row'.attempt = b.id
  BY DEF Proved, Can, InLoop, InPost
<1> USE DEF HoldFacts
<1>1. PICK a : a = proc[q]
  OBVIOUS
<1>2. SameMarks(a, b) \/ WalkStep(q)
  BY <1>1, PostBefore DEF Can
<1>3. ASSUME Can(a), a.id = b.id, a.post = b.post
      PROVE  /\ row'.status # "absent"
             /\ row'.status = "pending" => row'.rs = "unknown" /\ row'.attempt = b.id
  <2>1. /\ row.status # "absent"
        /\ row.status = "pending" => row.rs = "unknown" /\ row.attempt = b.id
    BY <1>1, <1>3 DEF HoldInv, Proved
  <2>2. QED
    BY <2>1, StatusMoves, EvidenceStays
<1>4. Can(a) /\ a.id = b.id
  <2>1. ~Starts(q)
    BY DEF Starts
  <2>2. CASE Enqueues(q)
    <3>1. a.pc = "idle" /\ ~InLoop(Idle) /\ b.pc # "markQueued" /\ InLoop(b) /\ ~InLoop(a)
      BY <1>1, <2>2, IdleTyped DEF InLoop, Loop, InPost, Enqueues, Can
    <3>2. QED
      BY <1>1, <2>2, <3>1 DEF Enqueues
  <2>3. QED
    BY <1>1, <2>1, <2>2, CanBefore
<1>5. CASE a.post = b.post
  BY <1>3, <1>4, <1>5
<1>6. CASE a.post # b.post
  <2>1. WalkStep(q)
    BY <1>2, <1>6 DEF SameMarks
  <2>2. InPost(a) /\ Testifies(q)
    BY <1>1, <1>6, <2>1 DEF WalkStep, Agrees, Can
  <2>3. MidSend(a) /\ a.id # NoClaim
    <3>1. MidSend(a)
      BY <1>4, <2>2 DEF Can, InLoop, InPost, MidSend, Loop
    <3>2. Genuine(a)
      BY <1>1, <2>2, TellersHold DEF BaseInv
    <3>3. QED
      BY <3>1, <3>2 DEF Genuine
  <2>4. row.attempt = a.id
    BY <1>1, <1>4, <2>2, <2>3 DEF HoldInv, Marked, Testifies
  <2>5. QED
    BY <1>4, <2>2, <2>4 DEF Testifies
<1>7. QED
  BY <1>5, <1>6

\* A row that an owner acknowledged stays ended
LEMMA OverKept ==
    ASSUME HoldFacts, NEW q \in Procs
    PROVE  Over(q)'
<1> SUFFICES ASSUME NEW b, b = proc'[q], b.pre = "acked" \/ b.post = "acked"
             PROVE  row'.status \in Terminal
  BY DEF Over, Terminal
<1> USE DEF HoldFacts
<1>1. PICK a : a = proc[q]
  OBVIOUS
<1>2. ASSUME a.pre = "acked" \/ a.post = "acked"
      PROVE  row'.status \in Terminal
  BY <1>1, <1>2, StatusMoves DEF HoldInv, Over
<1>3. CASE UNCHANGED vars \/ Passes
  BY <1>1, <1>2, <1>3 DEF vars, Passes, SameMarks
<1>4. ASSUME NEW p \in Procs, StepOf(p), p # q
      PROVE  row'.status \in Terminal
  BY <1>1, <1>2, <1>4, StepMoves, Unmoved
<1>5. CASE WalkStep(q)
  BY <1>1, <1>2, <1>5 DEF WalkStep, Agrees
<1>6. CASE Starts(q) \/ Renews(q) \/ Recovers(q) \/ Hands(q) \/ \E c \in NewClaims : Owns(q, c)
  BY <1>1, <1>2, <1>6 DEF Starts, Renews, Recovers, Hands, Owns, SameMarks, Begun
<1>7. CASE Enqueues(q)
  <2>1. Idle.pre = "none" /\ Idle.post = "none"
    BY DEF Idle
  <2>2. CASE row'.status = "skipped"
    BY <2>2 DEF Terminal
  <2>3. CASE row'.status # "skipped"
    BY <1>1, <1>2, <1>7, <2>1, <2>3 DEF Enqueues, Begun
  <2>4. QED
    BY <2>2, <2>3
<1>8. QED
  BY <1>3, <1>4, <1>5, <1>6, <1>7 DEF Kinds, StepOf

\* Every step keeps the hold invariant
LEMMA HoldKept ==
    ASSUME HoldFacts
    PROVE  HoldInv'
<1>1. \A p \in Procs : LeaseSound(p)' /\ Marked(p)' /\ Proved(p)' /\ Over(p)'
  BY LeaseSoundKept, MarkedKept, ProvedKept, OverKept
<1>2. \A p, q \in Procs : Unloaded(p, q)'
  BY UnloadedKept
<1>3. row'.status # "pending" => row'.claim = NoClaim /\ row'.attempt = NoClaim
  BY StatusMoves DEF HoldFacts, HoldInv
<1>4. QED
  BY <1>1, <1>2, <1>3 DEF HoldInv

-----------------------------------------------------------------------------
(* What was sent shows in the row and in the activities.                   *)

ShowFacts == HoldFacts /\ ShowInv

\* Who is about to call the adapter is a sender, and a row that is still pending
\* is its own and marked
LEMMA HandoffOwns ==
    ASSUME HoldFacts, NEW q \in Procs, NEW a, a = proc[q], Can(a), a.pc = "handoff"
    PROVE  /\ Sender(q) /\ row.status # "absent"
           /\ row.status = "pending" =>
                /\ a.id # NoClaim /\ row.attempt = a.id /\ row.rs \in {"started", "unknown"}
                /\ Recorded(row, a.id)
<1> USE DEF HoldFacts
<1>1. a \in Activities /\ InLoop(a)
  BY DEF BaseInv, Can
<1>2. CASE a.pre = "acked" \/ a.post = "acked"
  <2>1. row.status \in Terminal
    BY <1>2 DEF HoldInv, Over
  <2>2. QED
    BY <1>2, <2>1 DEF Sender, Terminal
<1>3. CASE a.post \in {"marked", "failed"}
  <2>1. /\ row.status # "absent"
        /\ row.status = "pending" => row.rs = "unknown" /\ row.attempt = a.id
    BY <1>3 DEF HoldInv, Proved
  <2>2. a.id # NoClaim
    BY <1>1, <1>3, LoopClaim
  <2>3. QED
    BY <1>3, <2>1, <2>2 DEF Sender, Recorded
<1>4. CASE a.pre # "acked" /\ a.post = "none"
  <2>1. a.id # NoClaim
    BY <1>1, <1>4, LoopClaim
  <2>2. a.lease > 0 /\ a.beat
    BY <2>1, CanLeased
  <2>3. row.status = "pending" /\ row.attempt = a.id /\ NeedsReconciliation(row)
    BY <1>4, <2>2 DEF HandoffIsFenced, At
  <2>4. QED
    BY <2>1, <2>3 DEF Sender, Recorded, Owned, NeedsReconciliation
<1>5. a.post \in {"none", "marked", "acked", "failed"}
  BY <1>1 DEF Activities
<1>6. QED
  BY <1>2, <1>3, <1>4, <1>5

\* Nothing but a handoff makes something visible
LEMMA VisibleMoves ==
    ASSUME HoldFacts
    PROVE  \/ visible' = visible
           \/ \E q \in Procs :
                /\ Hands(q) /\ row' = row /\ Can(proc[q]) /\ proc[q].pc = "handoff"
                /\ MaySent(proc'[q]) /\ proc'[q].pc = "respond"
                /\ visible' = [visible EXCEPT ![proc[q].i] = IF @ < 2 THEN @ + 1 ELSE @]
<1>1. ASSUME NEW q \in Procs, Hands(q), visible' # visible
      PROVE  /\ row' = row /\ Can(proc[q]) /\ proc[q].pc = "handoff"
             /\ MaySent(proc'[q]) /\ proc'[q].pc = "respond"
             /\ visible' = [visible EXCEPT ![proc[q].i] = IF @ < 2 THEN @ + 1 ELSE @]
  BY <1>1 DEF Hands, Can, InLoop, Loop
<1>2. QED
  BY <1>1 DEF HoldFacts, Kinds, StepOf, vars, Passes, WalkStep, Starts, Renews, Enqueues, Recovers, Owns

\* What was sent depends on the counts of the sends alone
LEMMA SentMoves ==
    ASSUME visible' = visible
    PROVE  Sent' <=> Sent
BY DEF Sent

\* A row that is not there, queued or just claimed belongs to a delivery of
\* which nothing was sent
LEMMA UnsentKept ==
    ASSUME ShowFacts
    PROVE  Unsent'
<1> USE DEF ShowFacts, HoldFacts
<1>1. CASE visible' # visible
  <2>1. PICK q \in Procs : row' = row /\ Can(proc[q]) /\ proc[q].pc = "handoff"
    BY <1>1, VisibleMoves
  <2>2. QED
    BY <2>1, HandoffOwns DEF Unsent
<1>2. CASE visible' = visible
  <2> SUFFICES ASSUME \/ row'.status = "absent"
                      \/ row'.status = "pending" /\ row'.rs \in {"none", "claimed"}
               PROVE  ~Sent
    BY <1>2, SentMoves DEF Unsent
  <2>1. CASE row.status = "absent" \/ (row.status = "pending" /\ row.rs \in {"none", "claimed"})
    BY <2>1 DEF ShowInv, Unsent
  <2>2. SUFFICES ASSUME row'.status = "pending", row'.rs \in {"none", "claimed"}
                 PROVE  ~Sent
    BY <2>1, StatusMoves
  <2>3. CASE row' = row \/ UNCHANGED vars \/ Passes
    BY <2>1, <2>2, <2>3 DEF vars, Passes, SameOwners
  <2>4. ASSUME NEW p \in Procs, Extends(p)
        PROVE  ~Sent
    BY <2>1, <2>2, <2>4 DEF Extends, SameOwners
  <2>5. ASSUME NEW p \in Procs, NEW c, Takes(p, c)
        PROVE  ~Sent
    <3>1. CASE row.rs = "started"
      BY <2>5, <3>1 DEF Takes, ShowInv, Proven
    <3>2. QED
      BY <2>1, <2>5, <3>1 DEF Takes
  <2>6. ASSUME NEW p \in Procs, Enqueues(p)
        PROVE  ~Sent
    BY <2>1, <2>6 DEF Enqueues
  <2>7. ASSUME NEW p \in Procs, WalkStep(p)
        PROVE  ~Sent
    <3>1. CASE Quiet
      BY <2>3, <3>1 DEF Quiet
    <3>2. CASE Closes(p)
      BY <2>2, <3>2 DEF Closes, Terminal
    <3>3. CASE Postpones(p)
      BY <2>1, <2>2, <3>3 DEF Postpones, Owned
    <3>4. CASE Reopens(p) \/ Restores(p)
      BY <3>4 DEF Reopens, Restores, ShowInv, Clears, Spotless
    <3>5. CASE Testifies(p) \/ Marks(p)
      BY <2>2, <3>5 DEF Testifies, Marks
    <3>6. CASE Counts(p)
      BY <2>1, <2>2, <3>6 DEF Counts, SameOwners
    <3>7. QED
      BY <2>4, <2>5, <2>7, <3>1, <3>2, <3>3, <3>4, <3>5, <3>6 DEF WalkStep, Fate
  <2>8. QED
    BY <2>3, <2>4, <2>5, <2>6, <2>7 DEF Kinds, StepOf, Starts, Renews, Recovers, Hands, Owns
<1>3. QED
  BY <1>1, <1>2

\* A recoverer that may claim a started row again was told by the adapter that
\* nothing was sent
LEMMA ProvenKept ==
    ASSUME ShowFacts, NEW p \in Procs
    PROVE  Proven(p)'
<1> SUFFICES ASSUME NEW b, b = proc'[p], b.pc = "claim", b.snap.rs = "started",
                    NEW d, d = b.snap.attempt, row'.status = "pending", row'.rs = "started",
                    row'.attempt = d
             PROVE  ~Sent'
  BY DEF Proven, Sent
<1> USE DEF ShowFacts, HoldFacts
<1>1. PICK a : a = proc[p]
  OBVIOUS
<1>2. CASE a.pc = "claim" /\ a.snap = b.snap
  <2>1. row.status = "pending" /\ row.rs = "started" /\ row.attempt = d => ~Sent
    BY <1>1, <1>2 DEF ShowInv, Proven
  <2>2. CASE visible' # visible
    <3>1. PICK q \in Procs : row' = row /\ Can(proc[q]) /\ proc[q].pc = "handoff"
      BY <2>2, VisibleMoves
    <3>2. proc[q].id # NoClaim /\ d = proc[q].id
      BY <3>1, HandoffOwns
    <3>3. proc[q].lease = 0
      BY <1>1, <1>2, <3>1, <3>2 DEF HoldInv, Unloaded, Can
    <3>4. QED
      BY <3>1, <3>2, <3>3, CanLeased
  <2>3. CASE visible' = visible
    <3> SUFFICES ~Sent
      BY <2>3, SentMoves
    <3>1. CASE row' = row \/ UNCHANGED vars \/ Passes
      BY <2>1, <3>1 DEF vars, Passes, SameOwners
    <3>2. ASSUME NEW q \in Procs, Extends(q)
          PROVE  ~Sent
      BY <2>1, <3>2 DEF Extends, SameOwners
    <3>3. ASSUME NEW q \in Procs, NEW c, Takes(q, c)
          PROVE  FALSE
      BY <3>3 DEF Takes
    <3>4. ASSUME NEW q \in Procs, Enqueues(q)
          PROVE  FALSE
      BY <3>4 DEF Enqueues
    <3>5. ASSUME NEW q \in Procs, WalkStep(q)
          PROVE  ~Sent
      <4>1. CASE Quiet \/ Counts(q)
        BY <2>1, <4>1 DEF Quiet, Counts, SameOwners
      <4>2. CASE Closes(q) \/ Reopens(q) \/ Testifies(q)
        BY <4>2 DEF Closes, Reopens, Testifies, Terminal
      <4>3. CASE Postpones(q)
        <5>1. row.rs = "started" /\ row.attempt = d /\ row.status = "pending"
          BY <4>3 DEF Postpones, Owned
        <5>2. QED
          BY <2>1, <5>1
      <4>4. ASSUME Marks(q)
            PROVE  FALSE
        <5>1. d = proc[q].id /\ d # NoClaim
          BY <4>4, MarkerHolds DEF Marks
        <5>2. Recorded(row, d) /\ row.ttl > 0
          BY <4>4, <5>1 DEF Marks, Recorded
        <5>3. Stale(d)
          BY <1>1, <1>2 DEF FenceInv, SnapStale
        <5>4. QED
          BY <5>2, <5>3 DEF Stale
      <4>5. CASE Restores(q)
        BY <4>5 DEF Restores, ShowInv, Clears, Spotless
      <4>6. QED
        BY <3>2, <3>3, <3>5, <4>1, <4>2, <4>3, <4>4, <4>5 DEF WalkStep, Fate
    <3>6. QED
      BY <3>1, <3>2, <3>3, <3>4, <3>5 DEF Kinds, StepOf, Starts, Renews, Recovers, Hands, Owns
  <2>4. QED
    BY <2>2, <2>3
<1>3. CASE UNCHANGED vars \/ Passes
  BY <1>1, <1>2, <1>3 DEF vars, Passes, SameCaller
<1>4. ASSUME NEW q \in Procs, StepOf(q), q # p
      PROVE  ~Sent'
  BY <1>1, <1>2, <1>4, StepMoves, Unmoved
<1>5. CASE WalkStep(p)
  <2>1. b.snap = a.snap /\ a.pc \in {"claim", "reconcile"}
    BY <1>1, <1>5 DEF WalkStep, Walks, Edge, Identity
  <2>2. CASE a.pc = "reconcile"
    BY <1>1, <1>5, <2>2, SentMoves DEF WalkStep, Agrees
  <2>3. QED
    BY <1>2, <2>1, <2>2
<1>6. CASE Renews(p)
  BY <1>1, <1>2, <1>6 DEF Renews, SameCaller
<1>7. CASE Starts(p) \/ Recovers(p) \/ Hands(p) \/ \E c \in NewClaims : Owns(p, c)
  BY <1>7 DEF Starts, Recovers, Hands, Owns
<1>8. CASE Enqueues(p)
  BY <1>8, IdleTyped DEF Enqueues
<1>9. QED
  BY <1>3, <1>4, <1>5, <1>6, <1>7, <1>8 DEF Kinds, StepOf

\* Two processes that tell something about their own rows have different rows, so
\* nobody else tells of what a process hands over now
LEMMA OthersSilent ==
    ASSUME HoldFacts, NEW r \in Procs, Can(proc[r]), proc[r].pc = "handoff",
           NEW q \in Procs, q # r, Genuine(proc[q]), Recorded(row, proc[q].id)
    PROVE  FALSE
<1>1. /\ Recorded(row, proc[r].id) /\ proc[r].id # NoClaim
  BY HandoffOwns DEF Recorded
<1>2. proc[q].id = proc[r].id
  BY <1>1, OneOwner DEF HoldFacts, BaseInv, Recorded
<1>3. Genuine(proc[r])
  BY <1>1 DEF Genuine, Holds, Borrowed
<1>4. QED
  BY <1>2, <1>3 DEF HoldFacts, EvidenceInv, Apart

\* A row that its teller did not own before is unsent
LEMMA NewlyOwned ==
    ASSUME ShowFacts, NEW q \in Procs, NEW b, b = proc'[q], NEW id, id = b.id, Recorded(row', id),
           ~Recorded(row, id)
    PROVE  ~Sent'
<1> USE DEF ShowFacts, HoldFacts
<1>1. ASSUME NEW p \in Procs, WalkStep(p), Restores(p)
      PROVE  ~Sent'
  BY <1>1, SentMoves DEF Restores, ShowInv, Clears, Spotless, WalkStep
<1>2. ASSUME visible' = visible, NEW p \in Procs, Enqueues(p) \/ \E c : Takes(p, c)
      PROVE  ~Sent'
  <2>1. CASE Enqueues(p)
    BY <1>2, <2>1, SentMoves DEF Enqueues, ShowInv, Unsent
  <2>2. CASE \E c : Takes(p, c)
    <3>1. CASE row.rs = "started"
      BY <1>2, <2>2, <3>1, SentMoves DEF Takes, ShowInv, Proven
    <3>2. CASE row.rs # "started"
      BY <1>2, <2>2, <3>2, SentMoves DEF Takes, ShowInv, Unsent
    <3>3. QED
      BY <3>1, <3>2
  <2>3. QED
    BY <1>2, <2>1, <2>2
<1>3. QED
  BY <1>1, <1>2, OwnerBefore DEF Owns

\* The outcomes of an owner go on telling of every send there was
LEMMA ReportsKept ==
    ASSUME ShowFacts, NEW q \in Procs
    PROVE  Reports(q)'
<1> SUFFICES ASSUME NEW b, b = proc'[q], Telling(b), NEW id, id = b.id, Recorded(row', id), Sent'
             PROVE  MaySent(b)
  BY DEF Reports, Telling, MaySent, InPost, InLoop, SentBeforeError, Recorded, Sent
<1> USE DEF ShowFacts, HoldFacts
<1>1. PICK a : a = proc[q]
  OBVIOUS
<1>2. Local(a) /\ Local(b) /\ id # NoClaim /\ Recorded(row, id)
  BY <1>1, ProcKept, NewlyOwned DEF BaseInv, Recorded
<1>3. Genuine(b)
  BY <1>2, TellersHold DEF Genuine
<1>4. CASE Sent
  <2>1. Telling(a) /\ a.id = id => MaySent(a)
    BY <1>1, <1>2, <1>4 DEF ShowInv, Reports
  <2>2. CASE UNCHANGED vars \/ Passes
    <3>1. b.pc = a.pc /\ b.id = a.id /\ SameBatch(a, b) /\ SameReturn(a, b)
      BY <1>1, <2>2 DEF vars, Passes, SameBatch, SameReturn
    <3>2. QED
      BY <2>1, <3>1, SameEvidence
  <2>3. ASSUME NEW p \in Procs, StepOf(p), p # q
        PROVE  MaySent(b)
    BY <1>1, <2>1, <2>3, StepMoves, Unmoved
  <2>4. CASE WalkStep(q)
    BY <1>1, <2>1, <2>4 DEF WalkStep, Walks, Edge, Evidence
  <2>5. CASE Starts(q)
    <3>1. a.pc = "startLease" /\ a.id = id
      BY <1>1, <2>5 DEF Starts
    <3>2. Telling(a) /\ ~MidSend(a)
      BY <3>1 DEF Telling, MidSend, InPost
    <3>3. a.outs = {} /\ a.cur = "omitted"
      BY <1>2, <3>1, <3>2 DEF Local, BatchLocal, SendLocal, Fresh
    <3>4. QED
      BY <2>1, <3>1, <3>2, <3>3 DEF MaySent, SentBeforeError
  <2>6. CASE Renews(q)
    <3>1. b.pc = a.pc /\ b.id = a.id /\ SameBatch(a, b) /\ SameReturn(a, b)
      BY <1>1, <2>6 DEF Renews
    <3>2. QED
      BY <2>1, <3>1, SameEvidence
  <2>7. CASE Enqueues(q)
    BY <1>2, <2>7 DEF Enqueues, Recorded
  <2>8. CASE Recovers(q)
    BY <2>8 DEF Recovers, Telling, InPost, Loop
  <2>9. CASE Hands(q)
    <3>1. a.pc = "handoff" /\ a.id = id /\ (MaySent(a) => MaySent(b))
      BY <1>1, <2>9 DEF Hands, SameOwner
    <3>2. Telling(a)
      BY <3>1 DEF Telling, Loop
    <3>3. QED
      BY <2>1, <3>1, <3>2
  <2>10. CASE \E c \in NewClaims : Owns(q, c)
    <3>1. id \in NewClaims
      BY <2>10 DEF Owns
    <3>2. QED
      BY <1>2, <3>1, NewIsNew DEF Recorded
  <2>11. QED
    BY <2>2, <2>3, <2>4, <2>5, <2>6, <2>7, <2>8, <2>9, <2>10 DEF Kinds, StepOf
<1>5. CASE ~Sent
  <2>1. PICK r \in Procs : /\ Hands(r) /\ Can(proc[r]) /\ proc[r].pc = "handoff"
                           /\ MaySent(proc'[r])
    BY <1>5, VisibleMoves, SentMoves
  <2>2. CASE r = q
    BY <2>1, <2>2
  <2>3. CASE r # q
    <3>1. b = a
      BY <1>1, <2>1, <2>3, StepMoves, Unmoved DEF StepOf
    <3>2. QED
      BY <1>1, <1>2, <1>3, <2>1, <2>3, <3>1, OthersSilent
  <2>4. QED
    BY <2>2, <2>3
<1>6. QED
  BY <1>4, <1>5

\* Who is about to record that nothing was sent is right
LEMMA ClearsKept ==
    ASSUME ShowFacts, NEW q \in Procs
    PROVE  Clears(q)'
<1> SUFFICES ASSUME NEW b, b = proc'[q], Spotless(b), NEW id, id = b.id, Owned(row', id), Sent'
             PROVE  FALSE
  BY DEF Clears, Spotless, Owned, Sent
<1> USE DEF ShowFacts, HoldFacts
<1>1. PICK a : a = proc[q]
  OBVIOUS
<1>2. Local(a) /\ Local(b) /\ Genuine(b)
  <2>1. Local(a) /\ Local(b)
    BY <1>1, ProcKept DEF BaseInv
  <2>2. ~Telling(b)
    BY DEF Spotless, Telling, InPost, Loop
  <2>3. QED
    BY <2>1, <2>2, TellersHold
<1>3. id # NoClaim /\ Recorded(row', id) /\ Recorded(row, id)
  <2>1. id # NoClaim /\ Recorded(row', id)
    BY <1>2 DEF Genuine, Recorded, Owned
  <2>2. QED
    BY <2>1, NewlyOwned
<1>4. CASE Sent
  <2>1. ~(Spotless(a) /\ a.id = id) /\ (Telling(a) /\ a.id = id => MaySent(a))
    BY <1>1, <1>3, <1>4 DEF ShowInv, Reports, Clears, Recorded, Owned
  <2>2. CASE UNCHANGED vars \/ Passes
    <3>1. b.pc = a.pc /\ b.id = a.id /\ SameBatch(a, b) /\ SameReturn(a, b)
      BY <1>1, <2>2 DEF vars, Passes, SameBatch, SameReturn
    <3>2. QED
      BY <2>1, <3>1, SameEvidence
  <2>3. ASSUME NEW p \in Procs, StepOf(p), p # q
        PROVE  FALSE
    BY <1>1, <2>1, <2>3, StepMoves, Unmoved
  <2>4. CASE WalkStep(q)
    BY <1>1, <2>1, <2>4 DEF WalkStep, Walks, Edge, Evidence
  <2>5. CASE Renews(q)
    <3>1. b.pc = a.pc /\ b.id = a.id /\ SameBatch(a, b) /\ SameReturn(a, b)
      BY <1>1, <2>5 DEF Renews
    <3>2. QED
      BY <2>1, <3>1, SameEvidence
  <2>6. CASE Enqueues(q)
    BY <1>3, <2>6 DEF Enqueues, Recorded
  <2>7. CASE Starts(q) \/ Recovers(q) \/ Hands(q) \/ \E c \in NewClaims : Owns(q, c)
    BY <2>7 DEF Starts, Recovers, Hands, Owns, Spotless
  <2>8. QED
    BY <2>2, <2>3, <2>4, <2>5, <2>6, <2>7 DEF Kinds, StepOf
<1>5. CASE ~Sent
  <2>1. PICK r \in Procs : /\ Hands(r) /\ Can(proc[r]) /\ proc[r].pc = "handoff"
                           /\ proc'[r].pc = "respond"
    BY <1>5, VisibleMoves, SentMoves
  <2>2. r # q
    BY <2>1 DEF Spotless
  <2>3. b = a
    BY <1>1, <2>1, <2>2, StepMoves, Unmoved DEF StepOf
  <2>4. QED
    BY <1>1, <1>2, <1>3, <2>1, <2>2, <2>3, OthersSilent
<1>6. QED
  BY <1>4, <1>5

\* Every step keeps the show invariant
LEMMA ShowKept ==
    ASSUME ShowFacts
    PROVE  ShowInv'
<1>1. \A p \in Procs : Proven(p)' /\ Clears(p)' /\ Reports(p)'
  BY ProvenKept, ClearsKept, ReportsKept
<1>2. Unsent'
  BY UnsentKept
<1>3. QED
  BY <1>1, <1>2 DEF ShowInv

-----------------------------------------------------------------------------
(* One sender, and no payload twice.                                       *)

SoleFacts == ShowFacts /\ SoleInv

\* Who would reach the adapter after a step would have before, or begins as the
\* owner of the row
LEMMA SenderBefore ==
    ASSUME HoldFacts, NEW q \in Procs, Sender(q)'
    PROVE  \/ Sender(q)
           \/ Starts(q)
           \/ Enqueues(q) /\ row.status = "absent"
<1> USE DEF HoldFacts
<1>1. PICK a, b : a = proc[q] /\ b = proc'[q]
  OBVIOUS
<1>2. Can(b) /\ (b.post # "none" \/ b.pre = "acked" \/ Owned(row', b.id))
  BY <1>1 DEF Sender, Can, InLoop, InPost, Owned
<1>3. SUFFICES ASSUME ~Starts(q), ~Enqueues(q)
               PROVE  Sender(q)
  BY DEF Enqueues
<1>4. Can(a) /\ b.id = a.id
  BY <1>1, <1>2, <1>3, CanBefore
<1>5. CASE b.post # "none" \/ b.pre = "acked"
  <2>1. CASE SameMarks(a, b)
    BY <1>1, <1>4, <1>5, <2>1 DEF Sender, SameMarks
  <2>2. CASE ~SameMarks(a, b)
    <3>1. WalkStep(q)
      BY <1>1, <1>2, <1>3, <2>2, PostBefore DEF Can
    <3>2. Agrees(q) /\ InLoop(b)
      BY <1>2, <3>1 DEF WalkStep, Can
    <3>3. CASE b.pre = "acked" /\ a.pre # "acked"
      BY <1>1, <1>4, <3>2, <3>3 DEF Agrees, Sender
    <3>4. CASE b.post = "acked" /\ a.post # "acked"
      BY <1>1, <1>4, <3>2, <3>4 DEF Agrees, Sender
    <3>5. CASE b.post \in {"marked", "failed"} /\ b.post # a.post
      BY <1>1, <1>4, <3>2, <3>5 DEF Agrees, Sender, Testifies
    <3>6. CASE (b.pre = "acked" /\ a.pre = "acked") \/ (b.post # "none" /\ b.post = a.post)
      BY <1>1, <1>4, <3>6 DEF Sender
    <3>7. b.post \in {"none", "marked", "acked", "failed"}
      BY <1>1, ProcKept DEF Activities
    <3>8. QED
      BY <1>5, <3>3, <3>4, <3>5, <3>6, <3>7
  <2>3. QED
    BY <2>1, <2>2
<1>6. CASE Owned(row', b.id)
  <2>1. CASE b.id = NoClaim
    BY <1>1, <1>4, <2>1, LoopClaim DEF Can, Sender
  <2>2. CASE b.id # NoClaim
    <3>1. PICK id : id = a.id
      OBVIOUS
    <3>2. Recorded(row', id)
      BY <1>4, <1>6, <2>2, <3>1 DEF Recorded, Owned
    <3>3. Recorded(row, id)
      BY <1>1, <1>4, <3>1, <3>2, SenderOwned
    <3>4. QED
      BY <1>1, <1>4, <3>1, <3>3 DEF Sender, Owned, Recorded
  <2>3. QED
    BY <2>1, <2>2
<1>7. QED
  BY <1>2, <1>5, <1>6

\* A process that starts finds no other sender
LEMMA NewSenderAlone ==
    ASSUME SoleFacts, NEW p \in Procs, NEW q \in Procs, p # q, Sender(q)',
           Starts(p) \/ (Enqueues(p) /\ row.status = "absent" /\ Sender(p)')
    PROVE  FALSE
<1> USE DEF SoleFacts, ShowFacts, HoldFacts
<1>1. PICK a : a = proc[q]
  OBVIOUS
<1>2. proc'[q] = a
  BY <1>1, StepMoves, Unmoved DEF StepOf
<1>3. Can(a) /\ (a.post # "none" \/ a.pre = "acked" \/ Owned(row', a.id))
  BY <1>2 DEF Sender, Can, InLoop, InPost, Owned
<1>4. a.post \in {"none", "marked", "acked", "failed"}
  BY <1>1 DEF BaseInv, Activities
<1>5. CASE Starts(p)
  <2>1. PICK c : c = proc[p].id
    OBVIOUS
  <2>2. /\ proc[p].pc = "startLease" /\ c # NoClaim /\ SameOwners(row, row')
        /\ row.status = "pending" /\ c \in {row.claim, row.attempt}
    BY <1>5, <2>1 DEF Starts, Extends
  <2>3. Genuine(proc[p]) /\ Recorded(row, c)
    BY <2>1, <2>2 DEF Genuine, Holds, Borrowed, Recorded
  <2>4. a.pre # "acked" /\ a.post # "acked"
    BY <1>1, <2>2 DEF HoldInv, Over, Terminal
  <2>5. a.id # NoClaim
    BY <1>1, <1>3, <2>4, LoopClaim DEF Can
  <2>6. Recorded(row, a.id)
    <3>1. CASE a.post = "none"
      BY <1>3, <2>2, <2>4, <2>5, <3>1 DEF Owned, Recorded, SameOwners
    <3>2. CASE a.post \in {"marked", "failed"}
      BY <1>1, <1>3, <2>2, <2>5, <3>2 DEF HoldInv, Proved, Recorded
    <3>3. QED
      BY <1>4, <2>4, <3>1, <3>2
  <2>7. a.id = c
    BY <2>3, <2>6, OneOwner DEF BaseInv, Recorded
  <2>8. Genuine(a)
    BY <1>3, <2>5 DEF Genuine, Holds, Borrowed, Can, InLoop, InPost, Loop
  <2>9. QED
    BY <1>1, <2>1, <2>3, <2>7, <2>8 DEF EvidenceInv, Apart
<1>6. CASE Enqueues(p) /\ row.status = "absent" /\ Sender(p)'
  <2>1. a.pre # "acked" /\ a.post # "acked"
    BY <1>1, <1>6 DEF HoldInv, Over, Terminal
  <2>2. a.post = "none"
    BY <1>1, <1>3, <1>4, <1>6, <2>1 DEF HoldInv, Proved
  <2>3. Owned(row', a.id) /\ a.id # NoClaim
    BY <1>1, <1>3, <2>1, <2>2, LoopClaim DEF Can
  <2>4. Recorded(row', a.id)
    BY <2>3 DEF Recorded, Owned
  <2>5. a.id \in NewClaims
    BY <1>6, <2>4 DEF Enqueues, Recorded
  <2>6. QED
    BY <1>1, <2>5, NewIsNew
<1>7. QED
  BY <1>5, <1>6

\* There is one sender at most after every step
LEMMA AloneKept ==
    ASSUME SoleFacts, NEW p \in Procs, NEW q \in Procs
    PROVE  Alone(p, q)'
<1> SUFFICES ASSUME Sender(p)', Sender(q)', p # q
             PROVE  FALSE
  BY DEF Alone, Sender, Can, InLoop, InPost, Owned
<1>1. ~(Sender(p) /\ Sender(q))
  BY DEF SoleFacts, SoleInv, Alone
<1>2. QED
  BY <1>1, SenderBefore, NewSenderAlone DEF SoleFacts, ShowFacts

\* How far a loop gets in a step
LEMMA LoopProgress ==
    ASSUME BaseInv, Kinds, NEW q \in Procs, NEW a, a = proc[q], NEW b, b = proc'[q], InLoop(b),
           ~Starts(q), ~Enqueues(q)
    PROVE  \/ b.i = a.i /\ (MidSend(a) => MidSend(b))
           \/ b.i = a.i + 1
<1>1. ASSUME b.pc = a.pc, SameReturn(a, b), SameBatch(a, b)
      PROVE  b.i = a.i /\ (MidSend(a) => MidSend(b))
  BY <1>1 DEF MidSend, InPost, SameReturn, SameBatch
<1>2. CASE UNCHANGED vars \/ Passes
  BY <1>1, <1>2 DEF vars, Passes, SameReturn, SameBatch
<1>3. ASSUME NEW p \in Procs, StepOf(p), p # q
      PROVE  b = a
  BY <1>3, StepMoves, Unmoved
<1>4. CASE WalkStep(q)
  BY <1>4 DEF WalkStep, Walks, Edge, Looping
<1>5. CASE Renews(q)
  BY <1>1, <1>5 DEF Renews
<1>6. CASE Hands(q)
  BY <1>6 DEF Hands, MidSend
<1>7. CASE Recovers(q) \/ \E c \in NewClaims : Owns(q, c)
  BY <1>7 DEF Recovers, Owns, InLoop, Loop, InPost
<1>8. QED
  BY <1>2, <1>3, <1>4, <1>5, <1>6, <1>7 DEF Kinds, StepOf

\* The payloads that a sender has before it stay unsent until it gets to them
LEMMA ProgressKept ==
    ASSUME SoleFacts, NEW q \in Procs
    PROVE  Progress(q)'
<1> SUFFICES ASSUME Sender(q)', NEW b, b = proc'[q], NEW j \in 1 .. Batch, visible'[j] > 0
             PROVE  j < b.i \/ (j = b.i /\ MidSend(b))
  BY DEF Progress, MidSend, InPost
<1> USE DEF SoleFacts, ShowFacts, HoldFacts
<1>1. PICK a : a = proc[q]
  OBVIOUS
<1>2. /\ a.i \in 1 .. Batch + 1 /\ b.i \in 1 .. Batch + 1 /\ Batch \in Nat
      /\ visible \in [1 .. Batch -> 0 .. 2] /\ InLoop(b)
  BY <1>1, ProcKept, BatchAssumption DEF BaseInv, Activities, Sender, Can, InLoop, InPost
<1>3. CASE Starts(q)
  <2>1. /\ a.pc = "startLease" /\ visible' = visible /\ Recorded(row, a.id) /\ Local(a)
    BY <1>1, <1>3 DEF Starts, Extends, Recorded, BaseInv
  <2>2. Telling(a) /\ ~MidSend(a)
    BY <2>1 DEF Telling, MidSend, InPost
  <2>3. a.outs = {} /\ a.cur = "omitted"
    BY <2>1, <2>2 DEF Local, BatchLocal, SendLocal, Fresh
  <2>4. Sent
    BY <2>1 DEF Sent
  <2>5. QED
    BY <1>1, <2>1, <2>2, <2>3, <2>4 DEF ShowInv, Reports, MaySent, SentBeforeError
<1>4. CASE Enqueues(q)
  BY <1>4 DEF Enqueues, ShowInv, Unsent, Sent
<1>5. CASE ~Starts(q) /\ ~Enqueues(q)
  <2>1. Sender(q)
    BY <1>5, SenderBefore
  <2>2. visible[j] > 0 => j < a.i \/ (j = a.i /\ MidSend(a))
    BY <1>1, <2>1 DEF SoleInv, Progress
  <2>3. \/ b.i = a.i /\ (MidSend(a) => MidSend(b))
        \/ b.i = a.i + 1
    BY <1>1, <1>2, <1>5, LoopProgress
  <2>4. CASE visible' = visible
    BY <1>2, <2>2, <2>3, <2>4
  <2>5. CASE visible' # visible
    <3>1. PICK r \in Procs :
            /\ Hands(r) /\ Can(proc[r]) /\ proc[r].pc = "handoff"
            /\ visible' = [visible EXCEPT ![proc[r].i] = IF @ < 2 THEN @ + 1 ELSE @]
      BY <2>5, VisibleMoves
    <3>2. r = q
      BY <2>1, <3>1, HandoffOwns DEF SoleInv, Alone
    <3>3. b.i = a.i /\ MidSend(b)
      BY <1>1, <3>1, <3>2 DEF Hands, MidSend
    <3>4. j = a.i \/ visible[j] > 0
      BY <1>1, <1>2, <3>1, <3>2
    <3>5. QED
      BY <1>2, <2>2, <3>3, <3>4
  <2>6. QED
    BY <2>4, <2>5
<1>6. QED
  BY <1>3, <1>4, <1>5

\* A handoff sends a payload that was not sent before
LEMMA OnceKept ==
    ASSUME SoleFacts
    PROVE  AtMostOnce'
<1> USE DEF SoleFacts, ShowFacts, HoldFacts
<1>1. visible \in [1 .. Batch -> 0 .. 2] /\ \A j \in 1 .. Batch : visible[j] <= 1
  BY DEF BaseInv, SoleInv, AtMostOnce
<1>2. CASE visible' = visible
  BY <1>1, <1>2 DEF AtMostOnce
<1>3. CASE visible' # visible
  <2>1. PICK q \in Procs :
          /\ Hands(q) /\ Can(proc[q]) /\ proc[q].pc = "handoff"
          /\ visible' = [visible EXCEPT ![proc[q].i] = IF @ < 2 THEN @ + 1 ELSE @]
    BY <1>3, VisibleMoves
  <2>2. PICK i : i = proc[q].i
    OBVIOUS
  <2>3. i \in 1 .. Batch
    <3>1. proc[q].i <= Batch /\ proc[q].i \in 1 .. Batch + 1 /\ Batch \in Nat
      BY <2>1, BatchAssumption DEF BaseInv, Activities, Local, SendLocal, Loop
    <3>2. QED
      BY <2>2, <3>1
  <2>4. ~MidSend(proc[q])
    BY <2>1 DEF MidSend, InPost
  <2>5. Sender(q)
    BY <2>1, HandoffOwns
  <2>6. ~(visible[i] > 0)
    BY <2>2, <2>3, <2>4, <2>5 DEF SoleInv, Progress
  <2>7. visible[i] \in 0 .. 2
    BY <1>1, <2>3
  <2>8. visible[i] = 0
    BY <2>6, <2>7
  <2>9. \A j \in 1 .. Batch : visible'[j] <= 1
    BY <1>1, <2>1, <2>2, <2>3, <2>8
  <2>10. QED
    BY <2>9 DEF AtMostOnce
<1>4. QED
  BY <1>2, <1>3

\* All that one send rests on, with expiry timers on time
OnceInv == GuardInv /\ EvidenceInv /\ TimersOnTime /\ HoldInv /\ ShowInv /\ SoleInv

\* The invariant of the theorem holds at the start
LEMMA OnceInit ==
    ASSUME Init, TimersOnTime
    PROVE  OnceInv
<1>1. GuardInv /\ EvidenceInv
  BY GuardInit, TraceInit DEF TraceInv
<1>2. \A p \in Procs : proc[p] = Idle
  BY DEF Init
<1>3. /\ row.status = "absent" /\ row.claim = NoClaim /\ row.attempt = NoClaim
      /\ \A j \in 1 .. Batch : visible[j] = 0
  BY DEF Init, NoRow
<1>4. ~Sent /\ AtMostOnce
  BY <1>3 DEF Sent, AtMostOnce
<1>5. PICK a : a = Idle
  OBVIOUS
<1>6. a.pc = "idle" /\ a.pre = "none" /\ a.post = "none"
  BY <1>5 DEF Idle
<1>7. ~InLoop(a) /\ ~MidSend(a) /\ ~Can(a) /\ ~Spotless(a) /\ ~Telling(a)
  BY <1>6 DEF InLoop, MidSend, InPost, Loop, Can, Spotless, Telling
<1>8. HoldInv
  BY <1>2, <1>3, <1>5, <1>6, <1>7 DEF HoldInv, LeaseSound, Marked, Proved, Over, Unloaded
<1>9. ShowInv
  BY <1>4 DEF ShowInv, Unsent, Proven, Clears, Reports
<1>10. SoleInv
  BY <1>2, <1>4, <1>5, <1>7 DEF SoleInv, Alone, Progress, Sender
<1>11. QED
  BY <1>1, <1>8, <1>9, <1>10 DEF OnceInv

\* and every step keeps it
LEMMA OnceStep ==
    ASSUME OnceInv, [Next]_vars
    PROVE  OnceInv'
<1>1. SoleFacts
  BY EveryStep DEF OnceInv, GuardInv, SoleFacts, ShowFacts, HoldFacts
<1>2. GuardInv' /\ EvidenceInv'
  BY GuardKept, TraceKept DEF OnceInv, TraceInv, GuardInv
<1>3. HoldInv' /\ ShowInv'
  BY <1>1, HoldKept, ShowKept DEF SoleFacts, ShowFacts
<1>4. SoleInv'
  BY <1>1, AloneKept, ProgressKept, OnceKept DEF SoleInv
<1>5. QED
  BY <1>2, <1>3, <1>4 DEF OnceInv

\* No payload reaches the recipient twice, when expiry timers are on time: over
\* any number of crashes, storage errors, replays and competing processes
\* (deliverOutboundPayloadsWithQueueCleanup, drainQueuedEntry)
THEOREM DeliveryAtMostOnce == TimersOnTime /\ Spec => []AtMostOnce
<1>1. Init /\ TimersOnTime => OnceInv
  BY OnceInit
<1>2. OnceInv /\ [Next]_vars => OnceInv'
  BY OnceStep
<1>3. OnceInv => AtMostOnce
  BY DEF OnceInv, SoleInv
<1>4. QED
  BY <1>1, <1>2, <1>3, PTL DEF Spec

-----------------------------------------------------------------------------
(* What an activity knows of its outcomes: the plain steps.                *)

\* On the way to the first payload, or among the payloads
Heading == {"startLease", "reserve", "reconcile", "claim"}
Engaged(a) == InLoop(a) \/ a.pc \in Heading

\* Where an activity comes to in one way only
Gates == {"markQueued", "owner", "claim", "sentLedger", "finalize"}
Settled == {"delivered", "suppressed", "unknown"}

\* What an activity knows of its own outcomes
Frank(a) ==
    /\ a.pc \in {"dispatch", "handoff"} \/ MidSend(a) \/ SentBeforeError(a) => a.started
    /\ a.cur # "partial"
    /\ a.pc = "recLedger" => a.outs \cap ({"noIdentity"} \cup Failures) = {}
    /\ a.pc \in {"markQueued", "owner"} => a.cancel = "no"

\* An activity that goes on without news for the completion owner
Plain(a, b) ==
    /\ Frank(b)
    /\ b.cur = "sent" => a.cur = "sent"
    /\ Results(b) => Results(a) \/ a.cur = "sent"
    /\ Engaged(b) => Engaged(a)
    /\ b.pc \in Gates => b.pc = a.pc /\ b.snap = a.snap
    /\ b.rejected => a.rejected
    /\ a.pc = "idle" => b.pc = "idle"
    /\ b.snap.rs = "settlement" => b.snap = a.snap /\ (a.pc = "stage" => b.pc = "stage")

\* A process whose activity is known and frank
Open(p) == Known(p) /\ Frank(proc[p])

\* Only a change of the activity that is plain has to be shown
LEMMA BecomePlain ==
    ASSUME NEW p, Open(p), NEW b, Become(p, b), Plain(proc[p], b)
    PROVE  Plain(proc[p], proc'[p])
BY BecomeMoves DEF Open

\* An activity that ends is plain
LEMMA PlainIdle ==
    ASSUME NEW p, Open(p), Become(p, Idle)
    PROVE  Plain(proc[p], proc'[p])
<1>1. PICK b : b = Idle
  OBVIOUS
<1>2. /\ b.pc = "idle" /\ b.outs = {} /\ b.cur = "omitted" /\ b.snap.rs = "none" /\ ~b.rejected
  BY <1>1 DEF Idle, NoRow
<1>3. ~Engaged(b) /\ ~MidSend(b) /\ ~SentBeforeError(b) /\ ~Results(b)
  BY <1>2 DEF Engaged, InLoop, Loop, InPost, Heading, MidSend, SentBeforeError, Results
<1>4. Plain(proc[p], b)
  BY <1>2, <1>3 DEF Plain, Frank, Gates
<1>5. QED
  BY <1>1, <1>4, BecomePlain

\* The last operations of an activity are plain
LEMMA PlainBare ==
    ASSUME NEW a, NEW b, Bare(b), b.pc \in {"fail", "stage", "dropRow", "settle"},
           b.rejected => a.rejected, a.pc # "idle"
    PROVE  Plain(a, b)
<1>1. b.outs = {} /\ b.cur = "omitted" /\ b.snap.rs = "none"
  BY DEF Bare, NoRow
<1>2. ~Engaged(b) /\ ~MidSend(b) /\ ~SentBeforeError(b) /\ ~Results(b)
  BY <1>1 DEF Engaged, InLoop, Loop, InPost, Heading, MidSend, SentBeforeError, Results
<1>3. QED
  BY <1>1, <1>2 DEF Plain, Frank, Gates

\* So is a change of place, to the loop or the way to it from there only
LEMMA PlainMove ==
    ASSUME NEW a, Frank(a), NEW b, SameBatch(a, b), b.ret = a.ret, b.snap = a.snap,
           b.rejected => a.rejected, a.pc \notin {"idle", "stage"}, b.pc \notin Gates \cup {"recLedger"},
           b.pc \in Loop \cup Heading => Engaged(a),
           InPost(b) => InPost(a),
           b.pc \in {"dispatch", "handoff", "respond"} => a.started
    PROVE  Plain(a, b)
<1>1. InPost(b) /\ b.ret = "payload" => MidSend(a) /\ InLoop(a)
  BY DEF MidSend, InLoop
<1>2. Engaged(b) => Engaged(a)
  BY <1>1 DEF Engaged, InLoop
<1>3. (Results(b) => Results(a)) /\ (SentBeforeError(b) => SentBeforeError(a))
  BY DEF Results, SentBeforeError, SameBatch
<1>4. Frank(b)
  BY <1>1, <1>3 DEF Frank, MidSend, SameBatch, Gates
<1>5. QED
  BY <1>2, <1>3, <1>4 DEF Plain, SameBatch

\* To leaves what was rejected as it is
LEMMA ToRejected ==
    ASSUME NEW p \in Procs, proc[p] \in Activities, NEW pc \in Pcs, pc # "idle",
           NEW b, b = To(p, pc)
    PROVE  b.rejected = proc[p].rejected
<1>1. PICK q : q = [proc[p] EXCEPT !.pc = pc]
  OBVIOUS
<1>2. b = Flow(q)
  BY <1>1 DEF To
<1>3. q \in Activities /\ q.pc = pc /\ q.rejected = proc[p].rejected
  BY <1>1 DEF Activities
<1>4. QED
  BY <1>2, <1>3, FlowFields

\* The flow goes on elsewhere
LEMMA PlainTo ==
    ASSUME NEW p, Open(p), NEW pc \in Pcs \ (Gates \cup {"idle", "recLedger"}), Become(p, To(p, pc)),
           proc[p].pc \notin {"idle", "stage"},
           pc \in Loop \cup Heading => Engaged(proc[p]),
           pc \in {"postMark", "postAck", "postFail"} => InPost(proc[p]),
           pc \in {"dispatch", "handoff", "respond"} => proc[p].started
    PROVE  Plain(proc[p], proc'[p])
<1>1. PICK b : b = To(p, pc)
  OBVIOUS
<1>2. PICK a : a = proc[p]
  OBVIOUS
<1>3. p \in Procs /\ a \in Activities /\ Frank(a)
  BY <1>2, KnownTyped DEF Open
<1>4. b.pc = pc /\ SameCaller(a, b) /\ SameBatch(a, b) /\ SameReturn(a, b)
  BY <1>1, <1>2, <1>3, ToFields
<1>5. b.rejected = a.rejected
  BY <1>1, <1>2, <1>3, ToRejected
<1>6. InPost(b) => InPost(a)
  BY <1>2, <1>4 DEF InPost
<1>7. b.ret = a.ret /\ b.snap = a.snap
  BY <1>4 DEF SameReturn, SameCaller
<1>8. Plain(a, b)
  BY <1>2, <1>3, <1>4, <1>5, <1>6, <1>7, PlainMove
<1>9. QED
  BY <1>1, <1>2, <1>8, BecomePlain

\* A record of a payload is left in the flow
LEMMA AfterRejected ==
    ASSUME NEW p \in Procs, proc[p] \in Activities, proc[p].i <= Batch, NEW c \in Outcomes,
           NEW b, b = After(p, c)
    PROVE  b.rejected = proc[p].rejected
<1>1. PICK pc : pc = IF c \notin Failures \/ (BestEffort /\ ~proc[p].lost) THEN "payload"
                     ELSE IF proc[p].recovery THEN "recThrown" ELSE "thrown"
  OBVIOUS
<1>2. PICK os : os = proc[p].outs \cup {c}
  OBVIOUS
<1>3. PICK n : n = proc[p].i + 1
  OBVIOUS
<1>4. PICK q : q = [proc[p] EXCEPT !.outs = os, !.i = n, !.cur = "omitted", !.pc = pc]
  OBVIOUS
<1>5. b = Flow(q)
  BY <1>1, <1>2, <1>3, <1>4, Zenon DEF After
<1>6. pc \in Pcs /\ pc # "idle"
  BY <1>1 DEF Pcs, Loop, PcLive, PcRecovery
<1>7. os \in SUBSET Outcomes /\ "omitted" \in Outcomes
  BY <1>2 DEF Activities, Outcomes
<1>8. n \in 1 .. Batch + 1
  BY <1>3, BatchAssumption DEF Activities
<1>9. q \in Activities /\ q.pc = pc /\ q.rejected = proc[p].rejected
  BY <1>4, <1>6, <1>7, <1>8 DEF Activities
<1>10. QED
  BY <1>5, <1>6, <1>9, FlowFields

\* The payload at hand ends: what counts as sent was announced by the adapter
LEMMA PlainEnding ==
    ASSUME NEW a, Frank(a), Engaged(a), a.pc \notin {"idle", "stage"}, NEW c,
           c \in {"sent", "partial", "noIdentity", "ambiguous"} => a.started,
           c \in {"sent", "partial"} => a.cur = "sent",
           NEW b, b.pc \in {"payload", "thrown", "recThrown"}, b.outs = a.outs \cup {c},
           b.cur = "omitted", b.started = a.started, b.rejected => a.rejected, b.snap = a.snap
    PROVE  Plain(a, b)
<1>1. ~MidSend(b) /\ ~InPost(b)
  BY DEF MidSend, InPost
<1>2. SentBeforeError(b) => b.started
  BY DEF SentBeforeError, Frank
<1>3. Results(b) => Results(a) \/ a.cur = "sent"
  BY DEF Results
<1>4. QED
  BY <1>1, <1>2, <1>3 DEF Plain, Frank, Gates

\* An outcome that counts as sent was announced by the adapter: with it the
\* payload at hand ends plainly
LEMMA PlainAfter ==
    ASSUME NEW p, Open(p), InLoop(proc[p]), proc[p].i <= Batch, NEW c \in Outcomes,
           c \in {"sent", "partial", "noIdentity", "ambiguous"} => proc[p].started,
           c \in {"sent", "partial"} => proc[p].cur = "sent",
           Become(p, After(p, c))
    PROVE  Plain(proc[p], proc'[p])
<1>1. PICK a, b : a = proc[p] /\ b = After(p, c)
  OBVIOUS
<1>2. p \in Procs /\ a \in Activities /\ Frank(a) /\ Engaged(a) /\ a.pc \notin {"idle", "stage"}
  BY <1>1, KnownTyped DEF Open, Engaged, InLoop, InPost, Loop
<1>3. /\ b.pc \in {"payload", "thrown", "recThrown"} /\ SameCaller(a, b)
      /\ b.outs = a.outs \cup {c} /\ b.cur = "omitted" /\ b.started = a.started
  BY <1>1, <1>2, AfterFields DEF Escape
<1>4. b.rejected = a.rejected
  BY <1>1, <1>2, AfterRejected
<1>5. Plain(a, b)
  BY <1>1, <1>2, <1>3, <1>4, PlainEnding DEF SameCaller
<1>6. QED
  BY <1>1, <1>5, BecomePlain

\* What was begun is plain
LEMMA PlainBegin ==
    ASSUME NEW p, Open(p), proc[p].pc \in {"start", "startAck"},
           NEW pre \in {"none", "marked", "acked"},
           NEW post \in {"none", "marked", "acked", "failed"},
           Become(p, Begin(p, pre, post))
    PROVE  Plain(proc[p], proc'[p])
<1>1. PICK a : a = proc[p]
  OBVIOUS
<1>2. /\ p \in Procs /\ a \in Activities /\ Frank(a) /\ Engaged(a) /\ a.i <= Batch
      /\ ~MidSend(a) /\ ~InPost(a)
  BY <1>1, KnownTyped, AtHand DEF Open, Engaged, InLoop, InPost, Loop, MidSend
<1>3. CASE Aborted(p)
  <2>1. PICK q : q = After(p, "early")
    OBVIOUS
  <2>2. PICK b : b = [q EXCEPT !.pre = pre, !.post = post]
    OBVIOUS
  <2>3. Become(p, b)
    BY <1>3, <2>1, <2>2 DEF Begin
  <2>4. "early" \in Outcomes
    BY DEF Outcomes, Failures
  <2>5. /\ q \in Activities /\ q.pc \in {"payload", "thrown", "recThrown"} /\ SameCaller(a, q)
        /\ q.outs = a.outs \cup {"early"} /\ q.cur = "omitted" /\ q.started = a.started
    BY <1>1, <1>2, <2>1, <2>4, AfterFields DEF Escape
  <2>6. q.rejected = a.rejected
    BY <1>1, <1>2, <2>1, <2>4, AfterRejected
  <2>7. /\ b.pc = q.pc /\ b.snap = q.snap /\ b.outs = q.outs /\ b.cur = q.cur
        /\ b.started = q.started /\ b.rejected = q.rejected
    <3> HIDE <2>1
    <3>1. QED
      BY <2>2, <2>5 DEF Activities
  <2>8. Plain(a, b)
    BY <1>1, <1>2, <2>5, <2>6, <2>7, PlainEnding DEF SameCaller
  <2>9. QED
    BY <1>1, <2>3, <2>8, BecomePlain
<1>4. CASE ~Aborted(p)
  <2>1. PICK q : q = [a EXCEPT !.pre = pre, !.post = post]
    OBVIOUS
  <2>2. PICK r : r = [q EXCEPT !.pc = "dispatch", !.started = TRUE]
    OBVIOUS
  <2>3. PICK b : b = Flow(r)
    OBVIOUS
  <2>4. Become(p, b)
    BY <1>1, <1>4, <2>1, <2>2, <2>3 DEF Begin
  <2>5. /\ q \in Activities /\ SameCaller(a, q) /\ SameBatch(a, q) /\ q.rejected = a.rejected
    BY <1>2, <2>1 DEF Activities, SameCaller, SameBatch
  <2>6. "dispatch" \in Pcs
    BY DEF Pcs, Loop
  <2>7. /\ r \in Activities /\ r.pc = "dispatch" /\ r.snap = q.snap /\ r.outs = q.outs
        /\ r.cur = q.cur /\ r.started /\ r.rejected = q.rejected
    BY <2>2, <2>5, <2>6 DEF Activities
  <2>8. /\ b.pc = "dispatch" /\ b.snap = a.snap /\ b.outs = a.outs
        /\ b.cur = a.cur /\ b.started /\ b.rejected = a.rejected
    BY <2>3, <2>5, <2>7, FlowFields DEF SameCaller, SameBatch
  <2>9. Plain(a, b)
    BY <1>1, <1>2, <2>8 DEF Plain, Frank, Gates, Results
  <2>10. QED
    BY <1>1, <2>4, <2>9, BecomePlain
<1>5. QED
  BY <1>3, <1>4

\* A send that has to be recorded changes nothing else
LEMMA PlainPersist ==
    ASSUME NEW p, Open(p), NEW good \in Pcs, NEW bad \in Pcs, Become(p, Persist(p, good, bad)),
           proc[p].pc \in {"respond", "returned", "thrown", "recLedger", "recThrown", "recThrownLate"},
           good = "payload" => proc[p].pc = "respond"
    PROVE  Plain(proc[p], proc'[p])
<1>1. PICK a, b : a = proc[p] /\ b = Persist(p, good, bad)
  OBVIOUS
<1>2. p \in Procs /\ a \in Activities /\ Frank(a)
  BY <1>1, KnownTyped DEF Open
<1>3. b.pc = "postMark" /\ SameCaller(a, b) /\ SameBatch(a, b) /\ b.ret = good
  BY <1>1, <1>2, PersistFields
<1>4. b.rejected = a.rejected
  <2>1. PICK q : q = [a EXCEPT !.pc = "postMark", !.ret = good, !.esc = bad]
    OBVIOUS
  <2>2. b = Flow(q)
    BY <1>1, <2>1 DEF Persist
  <2>3. "postMark" \in Pcs
    BY DEF Pcs, PcShared
  <2>4. q \in Activities /\ q.pc = "postMark" /\ q.rejected = a.rejected
    BY <1>2, <2>1, <2>3 DEF Activities
  <2>5. QED
    BY <2>2, <2>4, FlowFields
<1>5. b.ret = "payload" => MidSend(a) /\ InLoop(a)
  BY <1>1, <1>3 DEF MidSend, InLoop, Loop
<1>6. /\ Engaged(b) => Engaged(a)
      /\ MidSend(b) => MidSend(a)
  BY <1>3, <1>5 DEF Engaged, InLoop, InPost, Loop, Heading, MidSend
<1>7. (Results(b) => Results(a)) /\ (SentBeforeError(b) => SentBeforeError(a))
  BY <1>3 DEF Results, SentBeforeError, SameBatch
<1>8. Plain(a, b)
  BY <1>1, <1>2, <1>3, <1>4, <1>6, <1>7 DEF Plain, Frank, Gates, SameBatch, SameCaller
<1>9. QED
  BY <1>1, <1>8, BecomePlain

\* Where the record of a send returns to
LEMMA PostReturns ==
    ASSUME NEW p, Open(p), InPost(proc[p]), NEW a, a = proc[p]
    PROVE  /\ p \in Procs /\ a \in Activities /\ Local(a) /\ Frank(a)
           /\ a.pc \notin {"idle", "stage", "recLedger"}
           /\ a.ret = "payload" => MidSend(a) /\ Engaged(a) /\ a.started /\ a.cur = "sent"
                                    /\ a.i <= Batch /\ a.esc = "payload"
           /\ a.ret # "payload" =>
                {a.ret, a.esc} \subseteq {"failures", "ledger", "thrownPost", "thrownLate", "recAck",
                                          "recThrownLate", "idle"}
<1>1. p \in Procs /\ a \in Activities /\ Local(a) /\ Frank(a)
  BY KnownTyped DEF Open
<1>2. a.pc \notin {"idle", "stage", "recLedger"}
  BY DEF InPost
<1>3. a.ret = "payload" => MidSend(a) /\ Engaged(a)
  BY DEF MidSend, Engaged, InLoop
<1>4. a.ret = "payload" => a.started /\ a.i <= Batch
  BY <1>1, <1>3 DEF Frank, Local, SendLocal
<1>5. /\ a.ret = "payload" => a.cur = "sent" /\ a.esc = "payload"
      /\ a.ret # "payload" =>
           {a.ret, a.esc} \subseteq {"failures", "ledger", "thrownPost", "thrownLate", "recAck",
                                     "recThrownLate", "idle"}
  BY <1>1 DEF Local, PostLocal
<1>6. QED
  BY <1>1, <1>2, <1>3, <1>4, <1>5

\* An activity that was given the return of a record, which outside the loop is
\* a change of place
LEMMA PlainReturn ==
    ASSUME NEW p, Open(p), InPost(proc[p]), NEW a, a = proc[p],
           NEW q, NEW b,
           \/ /\ a.ret = "payload"
              /\ \E c \in {"sent", "partial"} : q = After(p, c)
           \/ /\ a.ret # "payload"
              /\ \E pc \in {a.ret, a.esc} \ {"idle"} : q = To(p, pc),
           q \in Activities => /\ b.pc = q.pc /\ SameBatch(q, b) /\ b.snap = q.snap
                               /\ b.rejected = q.rejected /\ b.ret = "idle"
    PROVE  Plain(a, b)
<1>1. /\ p \in Procs /\ a \in Activities /\ Frank(a)
      /\ a.pc \notin {"idle", "stage", "recLedger"}
      /\ a.ret = "payload" => MidSend(a) /\ Engaged(a) /\ a.started /\ a.cur = "sent"
                               /\ a.i <= Batch
      /\ a.ret # "payload" =>
           {a.ret, a.esc} \subseteq {"failures", "ledger", "thrownPost", "thrownLate", "recAck",
                                     "recThrownLate", "idle"}
  BY PostReturns
<1>2. CASE a.ret = "payload"
  <2>1. PICK c \in {"sent", "partial"} : q = After(p, c)
    BY <1>2
  <2>2. c \in Outcomes
    BY DEF Outcomes, Failures
  <2>3. /\ q \in Activities /\ q.pc \in {"payload", "thrown", "recThrown"} /\ SameCaller(a, q)
        /\ q.outs = a.outs \cup {c} /\ q.cur = "omitted" /\ q.started = a.started
    BY <1>1, <1>2, <2>1, <2>2, AfterFields DEF Escape
  <2>4. q.rejected = a.rejected
    BY <1>1, <1>2, <2>1, <2>2, AfterRejected
  <2>5. QED
    BY <1>1, <1>2, <2>3, <2>4, PlainEnding DEF SameCaller, SameBatch
<1>3. CASE a.ret # "payload"
  <2>1. PICK pc \in {a.ret, a.esc} \ {"idle"} : q = To(p, pc)
    BY <1>3
  <2>2. pc \in {"failures", "ledger", "thrownPost", "thrownLate", "recAck", "recThrownLate"}
    BY <1>1, <1>3, <2>1
  <2>3. pc \in Pcs /\ pc # "idle"
    BY <2>2 DEF Pcs, PcLive, PcRecovery
  <2>4. q \in Activities /\ q.pc = pc /\ SameCaller(a, q) /\ SameBatch(a, q)
    BY <1>1, <2>1, <2>3, ToFields
  <2>5. q.rejected = a.rejected
    BY <1>1, <2>1, <2>3, ToRejected
  <2>6. b.pc = pc /\ SameBatch(a, b) /\ b.snap = a.snap /\ b.rejected = a.rejected
    BY <2>4, <2>5 DEF SameCaller, SameBatch
  <2>7. ~Engaged(b) /\ ~MidSend(b)
    BY <2>2, <2>6 DEF Engaged, InLoop, InPost, Loop, Heading, MidSend
  <2>8. (Results(b) => Results(a)) /\ (SentBeforeError(b) => SentBeforeError(a))
    BY <2>6 DEF Results, SentBeforeError, SameBatch
  <2>9. QED
    BY <1>1, <2>2, <2>6, <2>7, <2>8 DEF Plain, Frank, Gates, SameBatch
<1>4. QED
  BY <1>2, <1>3

\* The evidence of a send is recorded
LEMMA PlainPersisted ==
    ASSUME NEW p, Open(p), InPost(proc[p]), NEW state \in {"marked", "acked", "failed"},
           Become(p, Persisted(p, state))
    PROVE  Plain(proc[p], proc'[p])
<1>1. PICK a : a = proc[p]
  OBVIOUS
<1>2. PICK q : q = IF a.ret = "payload" THEN After(p, "sent") ELSE To(p, a.ret)
  OBVIOUS
<1>3. Become(p, IF q.pc = "idle" THEN Idle ELSE Noted(q, state))
  BY <1>1, <1>2 DEF Persisted, Noted
<1>4. CASE q.pc = "idle"
  BY <1>3, <1>4, PlainIdle
<1>5. CASE q.pc # "idle"
  <2>1. PICK b : b = Noted(q, state)
    OBVIOUS
  <2>2. a.ret # "payload" => a.ret # "idle"
    <3>1. ASSUME a.ret = "idle" PROVE q = Idle
      BY <1>1, <1>2, <3>1, ToIdle, KnownTyped DEF Open
    <3>2. QED
      BY <1>5, <3>1, IdleTyped
  <2>3. ASSUME q \in Activities
        PROVE  /\ b.pc = q.pc /\ SameBatch(q, b) /\ b.snap = q.snap /\ b.ret = "idle"
               /\ b.rejected = q.rejected
    <3>1. b.pc = q.pc /\ SameBatch(q, b) /\ SameCaller(q, b) /\ b.ret = "idle"
      BY <2>1, <2>3, PostFields
    <3>2. b.rejected = q.rejected
      BY <2>1, <2>3 DEF Activities, Noted
    <3>3. QED
      BY <3>1, <3>2 DEF SameCaller
  <2>4. CASE a.ret = "payload"
    <3>1. q = After(p, "sent")
      BY <1>2, <2>4
    <3>2. Plain(a, b)
      BY <1>1, <2>4, <3>1, <2>3, PlainReturn
    <3>3. QED
      BY <1>1, <1>3, <1>5, <2>1, <3>2, BecomePlain
  <2>5. CASE a.ret # "payload"
    <3>1. q = To(p, a.ret) /\ a.ret \in {a.ret, a.esc} \ {"idle"}
      BY <1>1, <1>2, <2>2, <2>5
    <3>2. Plain(a, b)
      BY <1>1, <2>5, <3>1, <2>3, PlainReturn
    <3>3. QED
      BY <1>1, <1>3, <1>5, <2>1, <3>2, BecomePlain
  <2>6. QED
    BY <2>4, <2>5
<1>6. QED
  BY <1>4, <1>5

\* or it cannot be recorded
LEMMA PlainUnpersisted ==
    ASSUME NEW p, Open(p), InPost(proc[p]), Become(p, Unpersisted(p))
    PROVE  Plain(proc[p], proc'[p])
<1>1. PICK a : a = proc[p]
  OBVIOUS
<1>2. PICK q : q = IF a.ret = "payload" THEN After(p, "partial") ELSE To(p, a.esc)
  OBVIOUS
<1>3. Become(p, IF q.pc = "idle" THEN Idle ELSE [q EXCEPT !.ret = "idle", !.esc = "idle"])
  BY <1>1, <1>2 DEF Unpersisted
<1>4. CASE q.pc = "idle"
  BY <1>3, <1>4, PlainIdle
<1>5. CASE q.pc # "idle"
  <2>1. PICK b : b = [q EXCEPT !.ret = "idle", !.esc = "idle"]
    OBVIOUS
  <2>2. a.ret # "payload" => a.esc # "idle"
    <3>1. ASSUME a.ret # "payload", a.esc = "idle" PROVE q = Idle
      BY <1>1, <1>2, <3>1, ToIdle, KnownTyped DEF Open
    <3>2. QED
      BY <1>5, <3>1, IdleTyped
  <2>3. q \in Activities => /\ b.pc = q.pc /\ SameBatch(q, b) /\ b.snap = q.snap /\ b.ret = "idle"
                            /\ b.rejected = q.rejected
    <3> HIDE <1>2
    <3>1. QED
      BY <2>1 DEF Activities, SameBatch
  <2>4. CASE a.ret = "payload"
    <3>1. q = After(p, "partial")
      BY <1>2, <2>4
    <3>2. Plain(a, b)
      BY <1>1, <2>4, <3>1, <2>3, PlainReturn
    <3>3. QED
      BY <1>1, <1>3, <1>5, <2>1, <3>2, BecomePlain
  <2>5. CASE a.ret # "payload"
    <3>1. q = To(p, a.esc) /\ a.esc \in {a.ret, a.esc} \ {"idle"}
      BY <1>1, <1>2, <2>2, <2>5
    <3>2. Plain(a, b)
      BY <1>1, <2>5, <3>1, <2>3, PlainReturn
    <3>3. QED
      BY <1>1, <1>3, <1>5, <2>1, <3>2, BecomePlain
  <2>6. QED
    BY <2>4, <2>5
<1>6. QED
  BY <1>4, <1>5

\* Last keeps nothing of what was rejected
LEMMA LastRejected ==
    ASSUME NEW a \in Activities, NEW pc \in Pcs, pc # "idle", NEW b, b = Last(a, pc)
    PROVE  ~b.rejected
<1>1. PICK r : r = Idle
  OBVIOUS
<1>2. r \in Activities /\ ~r.rejected
  BY <1>1, IdleTyped DEF Idle
<1>3. PICK q : q = [r EXCEPT !.pc = pc, !.recovery = a.recovery, !.id = a.id,
                             !.beat = a.beat, !.lease = a.lease, !.lost = a.lost]
  OBVIOUS
<1>4. b = Flow(q)
  BY <1>1, <1>3 DEF Last
<1>5. /\ a.recovery \in BOOLEAN /\ a.id \in Claims \cup {NoClaim} /\ a.beat \in BOOLEAN
      /\ a.lease \in 0 .. Lease /\ a.lost \in BOOLEAN
  BY DEF Activities
<1>6. q \in Activities /\ q.pc = pc /\ ~q.rejected
  BY <1>2, <1>3, <1>5 DEF Activities
<1>7. QED
  BY <1>4, <1>6, FlowFields

\* A failure is going to be recorded
LEMMA PlainFailing ==
    ASSUME NEW p, Open(p), NEW how \in {"plain", "before", "after"}, NEW good \in Pcs, NEW bad \in Pcs,
           proc[p].pc \notin {"idle", "stage"}, Become(p, Failing(p, how, good, bad))
    PROVE  Plain(proc[p], proc'[p])
<1>1. PICK a, b : a = proc[p] /\ b = Failing(p, how, good, bad)
  OBVIOUS
<1>2. p \in Procs /\ a \in Activities /\ Frank(a)
  BY <1>1, KnownTyped DEF Open
<1>3. /\ b \in Activities /\ b.pc = "fail"
      /\ \/ good = "idle" /\ bad = "idle" /\ Bare(b)
         \/ ~(good = "idle" /\ bad = "idle") /\ SameCaller(a, b) /\ SameBatch(a, b)
  BY <1>1, <1>2, FailingFields
<1>4. "fail" \in Pcs
  BY DEF Pcs, PcShared
<1>5. CASE good = "idle" /\ bad = "idle"
  <2>1. PICK q : q = Last(a, "fail")
    OBVIOUS
  <2>2. b = [q EXCEPT !.how = how]
    BY <1>1, <1>5, <2>1 DEF Failing
  <2>3. q \in Activities /\ ~q.rejected
    BY <1>2, <1>4, <2>1, LastFields, LastRejected
  <2>4. ~b.rejected
    BY <2>2, <2>3 DEF Activities
  <2>5. QED
    BY <1>1, <1>3, <1>5, <2>4, PlainBare, BecomePlain
<1>6. CASE ~(good = "idle" /\ bad = "idle")
  <2>1. PICK q : q = [a EXCEPT !.pc = "fail", !.how = how, !.ret = good, !.esc = bad]
    OBVIOUS
  <2>2. b = Flow(q)
    BY <1>1, <1>6, <2>1 DEF Failing
  <2>3. q \in Activities /\ q.pc = "fail" /\ q.rejected = a.rejected
    BY <1>2, <1>4, <2>1 DEF Activities
  <2>4. b.rejected = a.rejected
    BY <2>2, <2>3, FlowFields
  <2>5. ~Engaged(b) /\ ~MidSend(b)
    BY <1>3 DEF Engaged, InLoop, InPost, Loop, Heading, MidSend
  <2>6. SameBatch(a, b) /\ b.snap = a.snap
    BY <1>3, <1>6 DEF SameCaller
  <2>7. (Results(b) => Results(a)) /\ (SentBeforeError(b) => SentBeforeError(a))
    BY <2>6 DEF Results, SentBeforeError, SameBatch
  <2>8. Plain(a, b)
    BY <1>1, <1>2, <1>3, <2>4, <2>5, <2>6, <2>7 DEF Plain, Frank, Gates, SameBatch
  <2>9. QED
    BY <1>1, <2>8, BecomePlain
<1>7. QED
  BY <1>5, <1>6

\* The row is going to be dropped
LEMMA PlainDrop ==
    ASSUME NEW p, Open(p), proc[p].pc # "idle", Become(p, Last(proc[p], "dropRow"))
    PROVE  Plain(proc[p], proc'[p])
<1>1. PICK b : b = Last(proc[p], "dropRow")
  OBVIOUS
<1>2. "dropRow" \in Pcs /\ proc[p] \in Activities
  BY KnownTyped DEF Open, Pcs, PcLive
<1>3. b.pc = "dropRow" /\ Bare(b) /\ ~b.rejected
  BY <1>1, <1>2, LastFields, LastRejected
<1>4. QED
  BY <1>1, <1>3, PlainBare, BecomePlain

\* Nothing but the lease and the caller's wish changes
LEMMA PlainNote ==
    ASSUME NEW a, Frank(a), NEW b, b.pc = a.pc, SameBatch(a, b), b.ret = a.ret, b.snap = a.snap,
           b.rejected = a.rejected, a.pc \in {"markQueued", "owner"} => b.cancel = a.cancel
    PROVE  Plain(a, b)
<1>1. /\ Engaged(b) <=> Engaged(a)
      /\ MidSend(b) <=> MidSend(a)
  BY DEF Engaged, InLoop, InPost, MidSend
<1>2. (Results(b) => Results(a)) /\ (SentBeforeError(b) => SentBeforeError(a))
  BY DEF Results, SentBeforeError, SameBatch
<1>3. QED
  BY <1>1, <1>2 DEF Plain, Frank, SameBatch

Plainly(p) == Plain(proc[p], proc'[p])

\* A claim that is over, and a crash
LEMMA PlainEnds ==
    ASSUME NEW p, Open(p), DropRow(p) \/ OwnerAck(p) \/ Finalize(p) \/ Restore(p) \/ Crash(p)
    PROVE  Plainly(p)
<1>1. Become(p, Idle)
  BY WriteEnds DEF DropRow, OwnerAck, Finalize, Restore, Crash
<1>2. QED
  BY <1>1, PlainIdle DEF Plainly

\* The next payload fails, is left out or goes to its send, and the batch returns
LEMMA PlainPayload ==
    ASSUME NEW p, Open(p), Payload(p) \/ BatchReturns(p)
    PROVE  Plainly(p)
<1>1. /\ proc[p].pc = "payload" /\ InLoop(proc[p]) /\ Engaged(proc[p])
  BY DEF Payload, BatchReturns, At, InLoop, Engaged, Loop
<1>2. CASE Payload(p)
  <2>1. \/ \E c \in {"omitted", "early", "refused"} : Become(p, After(p, c))
        \/ Become(p, To(p, "start"))
    BY <1>2 DEF Payload, Goto
  <2>2. {"omitted", "early", "refused"} \subseteq Outcomes /\ proc[p].i <= Batch
    BY <1>2 DEF Outcomes, Failures, Payload
  <2>3. "start" \in Pcs \ (Gates \cup {"idle", "recLedger"})
    BY DEF Pcs, Loop, Gates
  <2>4. QED
    BY <1>1, <2>1, <2>2, <2>3, PlainAfter, PlainTo DEF Plainly
<1>3. CASE BatchReturns(p)
  <2>1. PICK pc \in {"recReturned", "returned"} : Become(p, To(p, pc))
    BY <1>3 DEF BatchReturns, Goto
  <2>2. pc \in Pcs \ (Gates \cup {"idle", "recLedger"}) /\ pc \notin Loop \cup Heading
    BY <2>1 DEF Pcs, PcLive, PcRecovery, Gates, Loop, Heading
  <2>3. QED
    BY <1>1, <2>1, <2>2, PlainTo DEF Plainly, Loop
<1>4. QED
  BY <1>2, <1>3

\* The payload at hand fails before its send
LEMMA PlainEarly ==
    ASSUME NEW p, Open(p), proc[p].pc \in {"start", "startAck", "dispatch", "handoff"},
           Become(p, After(p, "early"))
    PROVE  Plainly(p)
<1>1. InLoop(proc[p]) /\ proc[p].i <= Batch
  BY AtHand DEF InLoop, Open
<1>2. "early" \in Outcomes
  BY DEF Outcomes, Failures
<1>3. QED
  BY <1>1, <1>2, PlainAfter DEF Plainly

\* The start marker and the removal of the intent before the first send
LEMMA PlainStart ==
    ASSUME NEW p, Open(p), StartSend(p) \/ StartAck(p)
    PROVE  Plainly(p)
<1>1. /\ proc[p].pc \in {"start", "startAck"} /\ Engaged(proc[p])
      /\ proc[p].pre \in {"none", "marked", "acked"}
      /\ proc[p].post \in {"none", "marked", "acked", "failed"}
  BY KnownTyped DEF StartSend, StartAck, At, InLoop, Engaged, Loop, Open, Activities
<1>2. CASE StartSend(p)
  <2>1. \/ \E pre \in {proc[p].pre, "marked"} : Become(p, Begin(p, pre, proc[p].post))
        \/ Become(p, After(p, "early"))
        \/ Become(p, To(p, "startAck"))
    <3>1. CASE Exact \/ proc[p].pre # "none"
      BY <1>2, <3>1 DEF StartSend, Refuse
    <3>2. CASE ~(Exact \/ proc[p].pre # "none")
      BY <1>2, <3>2, WriteEnds DEF StartSend
    <3>3. QED
      BY <3>1, <3>2
  <2>2. CASE \E pre \in {proc[p].pre, "marked"} : Become(p, Begin(p, pre, proc[p].post))
    <3>1. PICK pre \in {proc[p].pre, "marked"} : Become(p, Begin(p, pre, proc[p].post))
      BY <2>2
    <3>2. PICK post : post = proc[p].post
      OBVIOUS
    <3>3. Become(p, Begin(p, pre, post))
      BY <3>1, <3>2
    <3>4. QED
      BY <1>1, <3>1, <3>2, <3>3, PlainBegin DEF Plainly
  <2>3. CASE Become(p, To(p, "startAck"))
    <3>1. "startAck" \in Pcs \ (Gates \cup {"idle", "recLedger"})
      BY DEF Pcs, Loop, Gates
    <3>2. QED
      BY <1>1, <2>3, <3>1, PlainTo DEF Plainly
  <2>4. QED
    BY <1>1, <2>1, <2>2, <2>3, PlainEarly
<1>3. CASE StartAck(p)
  <2>1. PICK post : post = IF proc[p].recovery THEN proc[p].post ELSE "acked"
    OBVIOUS
  <2>2. Become(p, Begin(p, "acked", post)) \/ Become(p, After(p, "early"))
    BY <1>3, <2>1, WriteEnds DEF StartAck
  <2>3. post \in {"none", "marked", "acked", "failed"}
    BY <1>1, <2>1
  <2>4. QED
    BY <1>1, <2>2, <2>3, PlainBegin, PlainEarly DEF Plainly
<1>4. QED
  BY <1>2, <1>3

\* The proof of the claim right before the handoff
LEMMA PlainDispatch ==
    ASSUME NEW p, Open(p), DispatchMark(p)
    PROVE  Plainly(p)
<1>1. PICK a : a = proc[p]
  OBVIOUS
<1>2. /\ a.pc = "dispatch" /\ Engaged(a) /\ a \in Activities /\ Frank(a) /\ a.started
  BY <1>1, KnownTyped DEF DispatchMark, At, InLoop, Engaged, Loop, Open, Frank
<1>3. \/ Become(p, To(p, "handoff"))
      \/ Become(p, Flow([a EXCEPT !.pc = "handoff", !.pre = "marked"]))
      \/ Become(p, After(p, "early"))
  <2>1. CASE a.pre = "acked" \/ a.post # "none"
    BY <1>1, <2>1 DEF DispatchMark, Refuse
  <2>2. CASE ~(a.pre = "acked" \/ a.post # "none")
    BY <1>1, <2>2, WriteEnds DEF DispatchMark
  <2>3. QED
    BY <2>1, <2>2
<1>4. "handoff" \in Pcs \ (Gates \cup {"idle", "recLedger"})
  BY DEF Pcs, Loop, Gates
<1>5. CASE Become(p, To(p, "handoff"))
  BY <1>1, <1>2, <1>4, <1>5, PlainTo DEF Plainly
<1>6. CASE Become(p, Flow([a EXCEPT !.pc = "handoff", !.pre = "marked"]))
  <2>1. PICK q : q = [a EXCEPT !.pc = "handoff", !.pre = "marked"]
    OBVIOUS
  <2>2. q \in Activities /\ q.pc = "handoff" /\ SameCaller(a, q) /\ SameBatch(a, q) /\ q.rejected = a.rejected
        /\ q.ret = a.ret
    BY <1>2, <1>4, <2>1 DEF Activities, SameCaller, SameBatch
  <2>3. PICK b : b = Flow(q)
    OBVIOUS
  <2>4. /\ b.pc = "handoff" /\ SameBatch(a, b) /\ b.snap = a.snap /\ b.rejected = a.rejected
        /\ b.ret = a.ret
    BY <2>2, <2>3, FlowFields DEF SameCaller, SameBatch, SameReturn
  <2>5. ~InPost(b)
    BY <2>4 DEF InPost
  <2>6. Plain(a, b)
    BY <1>2, <1>4, <2>4, <2>5, PlainMove
  <2>7. QED
    BY <1>1, <1>6, <2>1, <2>3, <2>6, BecomePlain DEF Plainly
<1>7. QED
  BY <1>1, <1>2, <1>3, <1>5, <1>6, PlainEarly

\* An attempt that is not admitted is taken back
LEMMA PlainAdmission ==
    ASSUME NEW p, Open(p), AdmissionClosed(p)
    PROVE  Plainly(p)
<1>1. proc[p].pc = "handoff" /\ Become(p, To(p, "restore"))
  BY DEF AdmissionClosed, At, Goto
<1>2. "restore" \in Pcs \ (Gates \cup {"idle", "recLedger"}) /\ "restore" \notin Loop \cup Heading
  BY DEF Pcs, PcRecovery, Gates, Loop, Heading
<1>3. QED
  BY <1>1, <1>2, PlainTo DEF Plainly, Loop

\* The answer of the adapter
LEMMA PlainRespond ==
    ASSUME NEW p, Open(p), Respond(p)
    PROVE  Plainly(p)
<1>1. /\ proc[p].pc = "respond" /\ InLoop(proc[p]) /\ proc[p].i <= Batch
      /\ proc[p].cur \in Outcomes /\ proc[p].started /\ proc[p].cur # "partial"
  BY KnownTyped, AtHand DEF Respond, At, InLoop, Loop, Open, Frank, MidSend, Activities
<1>2. CASE proc[p].cur = "sent" /\ proc[p].post = "none"
  <2>1. Become(p, Persist(p, "payload", "payload")) /\ "payload" \in Pcs
    BY <1>2 DEF Respond, Pcs, Loop
  <2>2. QED
    BY <1>1, <2>1, PlainPersist DEF Plainly
<1>3. CASE ~(proc[p].cur = "sent" /\ proc[p].post = "none")
  <2>1. PICK c : c = proc[p].cur
    OBVIOUS
  <2>2. Become(p, After(p, c))
    BY <1>3, <2>1 DEF Respond
  <2>3. QED
    BY <1>1, <2>1, <2>2, PlainAfter DEF Plainly
<1>4. QED
  BY <1>2, <1>3

\* The places that end a delivery are not on the way to a send
LEMMA Outward ==
    ASSUME NEW p, Open(p), proc[p].pc \notin {"idle", "stage"},
           NEW pc \in {"dropRow", "failures", "ledger", "ack", "thrownLate", "thrownPost", "ownerAck",
                       "sentAck", "recUnknown", "recAck", "recThrown", "recThrownLate", "stage"},
           Become(p, To(p, pc))
    PROVE  Plainly(p)
<1>1. /\ pc \in Pcs \ (Gates \cup {"idle", "recLedger"})
      /\ pc \notin Loop \cup Heading \cup {"postMark", "postAck", "postFail"}
  BY DEF Pcs, PcLive, PcRecovery, PcShared, Gates, Loop, Heading
<1>2. QED
  BY <1>1, PlainTo DEF Plainly, Loop

\* The evidence of a send is written down, one way or another
LEMMA PlainPosts ==
    ASSUME NEW p, Open(p), PostMark(p) \/ PostAck(p) \/ PostFail(p)
    PROVE  Plainly(p)
<1>1. proc[p].pc \in {"postMark", "postAck", "postFail"} /\ InPost(proc[p])
  BY DEF PostMark, PostAck, PostFail, At, InPost
<1>2. \/ \E s \in {"marked", "acked", "failed"} : Become(p, Persisted(p, s))
      \/ Become(p, Unpersisted(p))
      \/ \E pc \in {"postAck", "postFail"} : Become(p, To(p, pc))
  <2>1. CASE PostMark(p)
    <3>1. CASE ~proc[p].live
      BY <2>1, <3>1 DEF PostMark, Refuse
    <3>2. CASE proc[p].live
      BY <2>1, <3>2, WriteEnds DEF PostMark
    <3>3. QED
      BY <3>1, <3>2
  <2>2. CASE PostAck(p)
    BY <2>2, WriteEnds DEF PostAck
  <2>3. CASE PostFail(p)
    BY <2>3, WriteEnds DEF PostFail
  <2>4. QED
    BY <2>1, <2>2, <2>3
<1>3. ASSUME NEW pc \in {"postAck", "postFail"}, Become(p, To(p, pc))
      PROVE  Plainly(p)
  <2>1. pc \in Pcs \ (Gates \cup {"idle", "recLedger"}) /\ pc \notin Loop \cup Heading
    BY DEF Pcs, PcShared, Gates, Loop, Heading
  <2>2. QED
    BY <1>1, <1>3, <2>1, PlainTo DEF Plainly, Loop
<1>4. QED
  BY <1>1, <1>2, <1>3, PlainPersisted, PlainUnpersisted DEF Plainly

\* A failure is recorded
LEMMA PlainFailStep ==
    ASSUME NEW p, Open(p), FailStep(p)
    PROVE  Plainly(p)
<1>1. proc[p].pc = "fail" /\ p \in Procs /\ proc[p] \in Activities /\ Local(proc[p])
  BY KnownTyped DEF FailStep, At, Open
<1>2. \E pc \in {proc[p].ret, proc[p].esc} : Become(p, To(p, pc))
  BY WriteEnds DEF FailStep
<1>3. PICK pc \in {proc[p].ret, proc[p].esc} : Become(p, To(p, pc))
  BY <1>2
<1>4. pc \in {"idle", "thrownLate", "recUnknown", "recThrownLate"}
  BY <1>1, <1>3 DEF Local, FailLocal
<1>5. CASE pc = "idle"
  BY <1>1, <1>3, <1>5, ToIdle, PlainIdle DEF Plainly
<1>6. CASE pc # "idle"
  BY <1>1, <1>3, <1>4, <1>6, Outward
<1>7. QED
  BY <1>5, <1>6

\* A failure is going to be recorded, a settlement deferred
LEMMA PlainDefers ==
    ASSUME NEW p, Open(p), proc[p].pc \notin {"idle", "stage"},
           NEW how \in {"plain", "before", "after"},
           NEW good \in {"idle", "thrownLate", "recUnknown", "recThrownLate"},
           NEW bad \in {"idle", "thrownLate", "recUnknown", "recThrownLate"},
           Become(p, Failing(p, how, good, bad))
    PROVE  Plainly(p)
<1>1. good \in Pcs /\ bad \in Pcs
  BY DEF Pcs, PcLive, PcRecovery, PcShared
<1>2. QED
  BY <1>1, PlainFailing DEF Plainly

\* The end of a live batch
LEMMA PlainReturned ==
    ASSUME NEW p, Open(p), Returned(p)
    PROVE  Plainly(p)
<1>1. PICK a : a = proc[p]
  OBVIOUS
<1>2. a.pc = "returned"
  BY <1>1 DEF Returned, At
<1>3. PICK next \in {"failures", "ledger"} :
         Become(p, Idle) \/ Become(p, To(p, next)) \/ Become(p, Persist(p, next, "thrownLate"))
  <2>1. PICK next : next = IF FailedOuts(a) # {} /\ a.id # NoClaim THEN "failures" ELSE "ledger"
    OBVIOUS
  <2>2. Become(p, Idle) \/ Become(p, To(p, next)) \/ Become(p, Persist(p, next, "thrownLate"))
    BY <1>1, <2>1 DEF Returned
  <2>3. next \in {"failures", "ledger"}
    BY <2>1
  <2>4. QED
    BY <2>2, <2>3
<1>4. {"failures", "ledger", "thrownLate"} \subseteq Pcs
  BY DEF Pcs, PcLive
<1>5. CASE Become(p, To(p, next))
  BY <1>1, <1>2, <1>5, Outward
<1>6. CASE Become(p, Persist(p, next, "thrownLate"))
  BY <1>1, <1>2, <1>4, <1>6, PlainPersist DEF Plainly
<1>7. QED
  BY <1>3, <1>5, <1>6, PlainIdle DEF Plainly

\* The completion owner of a live delivery is settled
LEMMA PlainLedger ==
    ASSUME NEW p, Open(p), Ledger(p)
    PROVE  Plainly(p)
<1>1. proc[p].pc = "ledger"
  BY DEF Ledger, At
<1>2. \/ Become(p, Idle) \/ Become(p, Failing(p, "after", "idle", "thrownLate"))
      \/ \E pc \in {"ack", "thrownLate"} : Become(p, To(p, pc))
  BY PatchEnds DEF Ledger
<1>3. QED
  BY <1>1, <1>2, PlainIdle, PlainDefers, Outward DEF Plainly

\* and its row is acknowledged, after the send or the replay
LEMMA PlainAcks ==
    ASSUME NEW p, Open(p), Ack(p) \/ RecAck(p) \/ SentAck(p)
    PROVE  Plainly(p)
<1>1. proc[p].pc \in {"ack", "recAck", "sentAck"}
  BY DEF Ack, RecAck, SentAck, At
<1>2. CASE Ack(p)
  <2>1. PICK how \in {"plain", "before", "after"}, end \in {"idle", "thrownLate"} :
           Become(p, Idle) \/ Become(p, Failing(p, how, end, end))
    <3>1. PICK how : how = IF Results(proc[p]) \/ (proc[p].pre # "none" /\ ~AllSuppressed(proc[p]))
                           THEN "after" ELSE IF AllSuppressed(proc[p]) THEN "before" ELSE "plain"
      OBVIOUS
    <3>2. PICK end : end = IF Required THEN "thrownLate" ELSE "idle"
      OBVIOUS
    <3>3. Become(p, Idle) \/ Become(p, Failing(p, how, end, end))
      BY <1>2, <3>1, <3>2, WriteEnds DEF Ack
    <3>4. how \in {"plain", "before", "after"} /\ end \in {"idle", "thrownLate"}
      BY <3>1, <3>2
    <3>5. QED
      BY <3>3, <3>4
  <2>2. QED
    BY <1>1, <2>1, PlainIdle, PlainDefers DEF Plainly
<1>3. CASE RecAck(p)
  <2>1. PICK how \in {"plain", "before", "after"} :
           Become(p, Idle) \/ Become(p, Failing(p, how, "idle", "recThrownLate"))
    <3>1. PICK how : how = IF Results(proc[p]) THEN "after"
                           ELSE IF AllSuppressed(proc[p]) THEN "before" ELSE "plain"
      OBVIOUS
    <3>2. Become(p, Idle) \/ Become(p, Failing(p, how, "idle", "recThrownLate"))
      BY <1>3, <3>1, WriteEnds DEF RecAck, Refuse
    <3>3. how \in {"plain", "before", "after"}
      BY <3>1
    <3>4. QED
      BY <3>2, <3>3
  <2>2. QED
    BY <1>1, <2>1, PlainIdle, PlainDefers DEF Plainly
<1>4. CASE SentAck(p)
  <2>1. Become(p, Idle) \/ Become(p, Failing(p, "plain", "idle", "idle"))
    BY <1>4, WriteEnds DEF SentAck
  <2>2. QED
    BY <1>1, <2>1, PlainIdle, PlainDefers DEF Plainly
<1>5. QED
  BY <1>2, <1>3, <1>4

\* The error path after an evidence write, and the settlement of an unknown replay
LEMMA PlainLate ==
    ASSUME NEW p, Open(p), ThrownPost(p) \/ RecUnknown(p) \/ SentLedger(p)
    PROVE  Plainly(p)
<1>1. proc[p].pc \in {"thrownPost", "recUnknown", "sentLedger"}
  BY DEF ThrownPost, RecUnknown, SentLedger, At
<1>2. \/ Become(p, Idle)
      \/ \E how \in {"after", "plain"} : Become(p, Failing(p, how, "idle", "idle"))
      \/ \E pc \in {"sentAck", "recThrownLate"} : Become(p, To(p, pc))
  BY PatchEnds DEF ThrownPost, RecUnknown, SentLedger
<1>3. QED
  BY <1>1, <1>2, PlainIdle, PlainDefers, Outward DEF Plainly

\* The settlement of a replay
LEMMA PlainRecLedger ==
    ASSUME NEW p, Open(p), RecLedger(p)
    PROVE  Plainly(p)
<1>1. proc[p].pc = "recLedger"
  BY DEF RecLedger, At
<1>2. \/ Become(p, Persist(p, "recAck", "recThrownLate"))
      \/ \E pc \in {"recAck", "recThrownLate"} : Become(p, To(p, pc))
  <2>1. CASE Results(proc[p]) /\ proc[p].post = "none"
    BY <2>1, PatchEnds DEF RecLedger
  <2>2. CASE ~(Results(proc[p]) /\ proc[p].post = "none")
    BY <2>2, PatchEnds DEF RecLedger
  <2>3. QED
    BY <2>1, <2>2
<1>3. {"recAck", "recThrownLate"} \subseteq Pcs
  BY DEF Pcs, PcRecovery
<1>4. QED
  BY <1>1, <1>2, <1>3, PlainPersist, Outward DEF Plainly

-----------------------------------------------------------------------------
(* The honest steps: the row or the completion owner is asked.             *)

\* What a step of a process tells of the delivery: the process goes on as it was,
\* or the row or the completion owner was asked for what it goes on with
Honest(p) ==
    LET a == proc[p]
        b == proc'[p]
    IN /\ Frank(b)
       /\ b.cur = "sent" => a.cur = "sent" \/ Sent'
       /\ Results(b) => Results(a) \/ a.cur = "sent"
       /\ Engaged(b) => \/ Engaged(a)
                        \/ a.pc \in {"markQueued", "owner"} /\ ledger' = "queued" /\ row' = row
                        \/ /\ a.pc = "idle" /\ row.status = "absent" /\ row'.status = "skipped"
                           /\ ~b.rejected
       /\ b.pc = "markQueued" => \/ b.pc = a.pc
                                 \/ a.pc = "idle" /\ row'.status = "pending" /\ ~b.rejected
       /\ b.pc = "owner" => \/ b.pc = a.pc /\ b.snap = a.snap
                            \/ /\ a.pc = "idle" /\ row' = row /\ row.status = "pending"
                               /\ b.snap.rs = row.rs /\ ~b.rejected
       /\ b.pc = "claim" => \/ b.pc = a.pc \/ ~Sent
                            \/ a.pc = "owner" /\ ~NeedsReconciliation(a.snap)
       /\ b.pc = "sentLedger" => b.pc = a.pc \/ Sent'
       /\ b.pc = "finalize" => b.pc = a.pc \/ ledger' \in Settled
       /\ b.rejected => \/ a.rejected
                        \/ Telling(a) /\ ~MaySent(a) /\ b.pc = "stage"
                        \/ a.pc = "idle" /\ row.rejected /\ b.pc = "stage"
       /\ a.pc = "idle" /\ b.pc # "idle" => row'.status # "absent"
       /\ b.snap.rs = "settlement" => \/ b.snap = a.snap /\ (a.pc = "stage" => b.pc = "stage")
                                      \/ a.pc = "idle" /\ b.snap.rs = row.rs /\ row.status = "pending"
                                      \/ b.pc = "stage"

\* A plain step is honest
LEMMA PlainHonest ==
    ASSUME NEW p, Plainly(p)
    PROVE  Honest(p)
BY DEF Plainly, Plain, Honest, Gates

\* The return of a replay: only a batch without failures and unknown sends is settled
LEMMA PlainRecReturned ==
    ASSUME NEW p, Open(p), RecReturned(p)
    PROVE  Plainly(p)
<1>1. PICK a : a = proc[p]
  OBVIOUS
<1>2. /\ p \in Procs /\ a \in Activities /\ Frank(a) /\ a.pc = "recReturned"
  BY <1>1, KnownTyped DEF RecReturned, At, Open
<1>3. \/ Become(p, Failing(p, "after", "recUnknown", "recThrownLate"))
      \/ Become(p, To(p, "recThrown"))
      \/ /\ "noIdentity" \notin a.outs /\ FailedOuts(a) = {}
         /\ Become(p, To(p, "recLedger"))
  <2>1. CASE a.lost
    BY <1>1, <2>1 DEF RecReturned
  <2>2. CASE ~a.lost /\ FailedOuts(a) # {}
    BY <1>1, <2>2 DEF RecReturned
  <2>3. CASE ~a.lost /\ FailedOuts(a) = {}
    BY <1>1, <2>3 DEF RecReturned
  <2>4. QED
    BY <2>1, <2>2, <2>3
<1>4. CASE /\ "noIdentity" \notin a.outs /\ FailedOuts(a) = {}
           /\ Become(p, To(p, "recLedger"))
  <2>1. PICK b : b = To(p, "recLedger")
    OBVIOUS
  <2>2. "recLedger" \in Pcs /\ "recLedger" # "idle"
    BY DEF Pcs, PcRecovery
  <2>3. b.pc = "recLedger" /\ SameCaller(a, b) /\ SameBatch(a, b)
    BY <1>1, <1>2, <2>1, <2>2, ToFields
  <2>4. b.rejected = a.rejected
    BY <1>1, <1>2, <2>1, <2>2, ToRejected
  <2>5. ~Engaged(b) /\ ~MidSend(b)
    BY <2>3 DEF Engaged, InLoop, InPost, Loop, Heading, MidSend
  <2>6. b.outs \cap ({"noIdentity"} \cup Failures) = {}
    BY <1>4, <2>3 DEF SameBatch, FailedOuts
  <2>7. (Results(b) => Results(a)) /\ (SentBeforeError(b) => SentBeforeError(a))
    BY <2>3 DEF Results, SentBeforeError, SameBatch
  <2>8. Plain(a, b)
    BY <1>2, <2>3, <2>4, <2>5, <2>6, <2>7 DEF Plain, Frank, Gates, SameBatch, SameCaller
  <2>9. QED
    BY <1>1, <1>4, <2>1, <2>8, BecomePlain DEF Plainly
<1>5. QED
  BY <1>1, <1>2, <1>3, <1>4, PlainDefers, Outward

\* A failure is going to be staged; as rejected only when nothing was sent
LEMMA HonestStaging ==
    ASSUME NEW p, Open(p), proc[p].pc \notin {"idle", "stage"}, NEW v \in BOOLEAN,
           v => Telling(proc[p]) /\ ~MaySent(proc[p]), Become(p, Staging(p, v))
    PROVE  Honest(p)
<1>1. PICK a, b : a = proc[p] /\ b = Staging(p, v)
  OBVIOUS
<1>2. a \in Activities /\ proc'[p] = b
  BY <1>1, KnownTyped, BecomeMoves DEF Open
<1>3. b.pc = "stage" /\ Bare(b)
  BY <1>1, <1>2, StagingFields, KnownTyped DEF Open
<1>4. b.rejected = v
  <2>1. PICK q : q = Last(a, "stage")
    OBVIOUS
  <2>2. "stage" \in Pcs /\ "stage" # "idle"
    BY DEF Pcs, PcShared
  <2>3. q \in Activities
    BY <1>2, <2>1, <2>2, LastFields
  <2>4. b = [q EXCEPT !.byClaim = TRUE, !.rejected = v]
    BY <1>1, <2>1 DEF Staging
  <2>5. QED
    BY <2>3, <2>4 DEF Activities
<1>5. CASE v
  <2>1. b.outs = {} /\ b.cur = "omitted" /\ b.snap.rs = "none"
    BY <1>3 DEF Bare, NoRow
  <2>2. ~Engaged(b) /\ ~MidSend(b) /\ ~SentBeforeError(b) /\ ~Results(b)
    BY <1>3, <2>1 DEF Engaged, InLoop, Loop, InPost, Heading, MidSend, SentBeforeError, Results
  <2>3. Frank(b)
    BY <1>3, <2>1, <2>2 DEF Frank
  <2>4. QED
    BY <1>1, <1>2, <1>3, <1>5, <2>1, <2>2, <2>3 DEF Honest
<1>6. CASE ~v
  <2>1. Plain(a, b)
    BY <1>1, <1>3, <1>4, <1>6, PlainBare
  <2>2. QED
    BY <1>1, <1>2, <2>1, PlainHonest DEF Plainly
<1>7. QED
  BY <1>5, <1>6

\* The end of a best-effort batch with failed payloads
LEMMA HonestPartialFailure ==
    ASSUME NEW p, Open(p), PartialFailure(p)
    PROVE  Honest(p)
<1>1. proc[p].pc = "failures" /\ Local(proc[p])
  BY KnownTyped DEF PartialFailure, At, Open
<1>2. \/ Become(p, Idle)
      \/ ~SentBeforeError(proc[p]) /\ Become(p, Staging(p, TRUE))
      \/ \E how \in {"before", "plain"} : Become(p, Failing(p, how, "idle", "idle"))
  BY DEF PartialFailure
<1>3. CASE ~SentBeforeError(proc[p]) /\ Become(p, Staging(p, TRUE))
  <2>1. Telling(proc[p]) /\ ~MaySent(proc[p])
    BY <1>1, <1>3, Clean
  <2>2. QED
    BY <1>1, <1>3, <2>1, HonestStaging
<1>4. QED
  BY <1>1, <1>2, <1>3, PlainIdle, PlainDefers, PlainHonest DEF Plainly

\* The error path of a live delivery
LEMMA HonestThrown ==
    ASSUME NEW p, Open(p), Thrown(p)
    PROVE  Honest(p)
<1>1. PICK a : a = proc[p]
  OBVIOUS
<1>2. /\ a.pc \in {"thrown", "thrownLate"} /\ Local(a)
  BY <1>1, KnownTyped DEF Thrown, Open
<1>3. PICK proven : proven = (a.pc = "thrown" /\ ProvenBatch(a))
  OBVIOUS
<1>4. \/ Become(p, Idle)
      \/ Become(p, Last(a, "dropRow"))
      \/ proven /\ Become(p, Staging(p, TRUE))
      \/ \E how \in {"plain", "before", "after"} : Become(p, Failing(p, how, "idle", "idle"))
      \/ a.pc = "thrown" /\ Become(p, Persist(p, "thrownPost", "idle"))
      \/ Become(p, To(p, "thrownPost"))
  <2>1. CASE a.lost \/ a.cancel = "retired" \/ Released(a) \/ a.id = NoClaim
    BY <1>1, <2>1 DEF Thrown
  <2>2. CASE ~(a.lost \/ a.cancel = "retired" \/ Released(a) \/ a.id = NoClaim)
    <3>1. CASE a.aborted
      BY <1>1, <1>3, <2>2, <3>1 DEF Thrown
    <3>2. CASE ~a.aborted /\ a.pc = "thrownLate"
      BY <1>1, <2>2, <3>2 DEF Thrown
    <3>3. CASE ~a.aborted /\ a.pc = "thrown"
      BY <1>1, <1>3, <2>2, <3>3 DEF Thrown
    <3>4. QED
      BY <1>2, <3>1, <3>2, <3>3
  <2>3. QED
    BY <2>1, <2>2
<1>5. CASE proven /\ Become(p, Staging(p, TRUE))
  <2>1. ~SentBeforeError(a) /\ a.pc = "thrown"
    BY <1>3, <1>5 DEF ProvenBatch, SentBeforeError
  <2>2. Telling(a) /\ ~MaySent(a)
    BY <1>2, <2>1, Clean
  <2>3. QED
    BY <1>1, <1>5, <2>1, <2>2, HonestStaging
<1>6. {"thrownPost", "idle"} \subseteq Pcs
  BY DEF Pcs, PcLive, PcShared
<1>7. CASE a.pc = "thrown" /\ Become(p, Persist(p, "thrownPost", "idle"))
  BY <1>1, <1>6, <1>7, PlainPersist, PlainHonest DEF Plainly
<1>8. QED
  BY <1>1, <1>2, <1>4, <1>5, <1>7, PlainIdle, PlainDrop, PlainDefers, Outward, PlainHonest DEF Plainly

\* The error path of a replay
LEMMA HonestRecThrown ==
    ASSUME NEW p, Open(p), RecThrown(p)
    PROVE  Honest(p)
<1>1. PICK a : a = proc[p]
  OBVIOUS
<1>2. a.pc \in {"recThrown", "recThrownLate"} /\ Local(a)
  BY <1>1, KnownTyped DEF RecThrown, Open
<1>3. PICK evidence : evidence = (\/ Results(a) \/ a.post # "none"
                                  \/ (a.pc = "recThrown" /\ SentBeforeError(a)))
  OBVIOUS
<1>4. \/ Become(p, Idle)
      \/ a.pc = "recThrown" /\ ~evidence /\ Become(p, Staging(p, TRUE))
      \/ Become(p, Staging(p, FALSE))
      \/ \E how \in {"plain", "before"} : Become(p, Failing(p, how, "idle", "idle"))
      \/ Become(p, Persist(p, "idle", "idle"))
  <2>1. CASE a.lost \/ evidence \/ Released(a)
    BY <1>1, <1>3, <2>1 DEF RecThrown
  <2>2. CASE ~(a.lost \/ evidence \/ Released(a))
    BY <1>1, <1>3, <2>2 DEF RecThrown
  <2>3. QED
    BY <2>1, <2>2
<1>5. CASE a.pc = "recThrown" /\ ~evidence /\ Become(p, Staging(p, TRUE))
  <2>1. Telling(a) /\ ~MaySent(a)
    BY <1>2, <1>3, <1>5, Clean
  <2>2. QED
    BY <1>1, <1>5, <2>1, HonestStaging
<1>6. CASE Become(p, Staging(p, FALSE))
  BY <1>1, <1>2, <1>6, HonestStaging
<1>7. CASE Become(p, Persist(p, "idle", "idle"))
  <2>1. "idle" \in Pcs
    BY DEF Pcs, PcShared
  <2>2. QED
    BY <1>1, <1>2, <1>7, <2>1, PlainPersist, PlainHonest DEF Plainly
<1>8. QED
  BY <1>1, <1>2, <1>4, <1>5, <1>6, <1>7, PlainIdle, PlainDefers, PlainHonest DEF Plainly

\* What the owner notes besides its work is plain
LEMMA PlainNotes ==
    ASSUME NEW p, Open(p), Renew(p) \/ Expire(p) \/ Abort(p) \/ RetireUnsent(p)
    PROVE  Plainly(p)
<1>1. PICK a : a = proc[p]
  OBVIOUS
<1>2. /\ p \in Procs /\ a \in Activities /\ Frank(a)
  BY <1>1, KnownTyped DEF Open
<1>3. CASE Renew(p)
  <2>1. PICK b : /\ Become(p, b)
                 /\ \/ b = [a EXCEPT !.lease = Lease]
                    \/ b = [a EXCEPT !.lost = ~Renewable(row, a.id) \/ a.lease = 0]
    BY <1>1, <1>3, WriteEnds DEF Renew
  <2>2. /\ b.pc = a.pc /\ SameBatch(a, b) /\ b.ret = a.ret /\ b.snap = a.snap
        /\ b.rejected = a.rejected /\ b.cancel = a.cancel
    BY <1>2, <2>1 DEF Activities, SameBatch
  <2>3. QED
    BY <1>1, <1>2, <2>1, <2>2, PlainNote, BecomePlain DEF Plainly
<1>4. CASE Expire(p)
  <2>1. PICK b : b = [a EXCEPT !.lost = TRUE]
    OBVIOUS
  <2>2. Become(p, b)
    BY <1>1, <1>4, <2>1 DEF Expire
  <2>3. /\ b.pc = a.pc /\ SameBatch(a, b) /\ b.ret = a.ret /\ b.snap = a.snap
        /\ b.rejected = a.rejected /\ b.cancel = a.cancel
    BY <1>2, <2>1 DEF Activities, SameBatch
  <2>4. QED
    BY <1>1, <1>2, <2>2, <2>3, PlainNote, BecomePlain DEF Plainly
<1>5. CASE Abort(p)
  <2>1. PICK c : c = (/\ a.pc # "thrown" /\ a.ret # "thrownPost" /\ ~a.started /\ a.post = "none")
    OBVIOUS
  <2>2. PICK k : k = IF c THEN "pending" ELSE a.cancel
    OBVIOUS
  <2>3. PICK h : h = (a.beat /\ ~c)
    OBVIOUS
  <2>4. PICK b : b = [a EXCEPT !.aborted = TRUE, !.cancel = k, !.beat = h]
    OBVIOUS
  <2>5. Become(p, b)
    BY <1>1, <1>5, <2>1, <2>2, <2>3, <2>4 DEF Abort
  <2>6. /\ b.pc = a.pc /\ SameBatch(a, b) /\ b.ret = a.ret /\ b.snap = a.snap
        /\ b.rejected = a.rejected
    BY <1>2, <2>4 DEF Activities, SameBatch
  <2>7. a.pc \notin {"markQueued", "owner"}
    BY <1>1, <1>5 DEF Abort, Loop
  <2>8. QED
    BY <1>1, <1>2, <2>5, <2>6, <2>7, PlainNote, BecomePlain DEF Plainly
<1>6. CASE RetireUnsent(p)
  <2>1. PICK k \in {"retired", "refused"} : Become(p, [a EXCEPT !.cancel = k])
    BY <1>1, <1>6, WriteEnds DEF RetireUnsent
  <2>2. PICK b : b = [a EXCEPT !.cancel = k]
    OBVIOUS
  <2>3. /\ b.pc = a.pc /\ SameBatch(a, b) /\ b.ret = a.ret /\ b.snap = a.snap
        /\ b.rejected = a.rejected
    BY <1>2, <2>2 DEF Activities, SameBatch
  <2>4. a.pc \notin {"markQueued", "owner"}
    BY <1>1, <1>2, <1>6 DEF RetireUnsent, Frank
  <2>5. QED
    BY <1>1, <1>2, <2>1, <2>2, <2>3, <2>4, PlainNote, BecomePlain DEF Plainly
<1>7. QED
  BY <1>3, <1>4, <1>5, <1>6

\* A claim, and the lease of a claim, bring the activity on its way
LEMMA HonestTakes ==
    ASSUME NEW p, Open(p), Claim(p) \/ StartLease(p) \/ Reserve(p)
    PROVE  Honest(p)
<1>1. PICK a : a = proc[p]
  OBVIOUS
<1>2. /\ p \in Procs /\ a \in Activities /\ Frank(a) /\ Engaged(a)
      /\ a.pc \in {"claim", "startLease", "reserve"}
  BY <1>1, KnownTyped DEF Open, Engaged, Heading, Claim, StartLease, Reserve, At
<1>3. ASSUME NEW q \in Activities, SameBatch(a, q), q.snap = a.snap, q.rejected = a.rejected,
             q.ret = a.ret, q.pc \in {"reserve", "payload"}, Become(p, Flow(q))
      PROVE  Honest(p)
  <2>1. PICK b : b = Flow(q)
    OBVIOUS
  <2>2. b.pc = q.pc /\ SameBatch(a, b) /\ b.snap = a.snap /\ b.rejected = a.rejected /\ b.ret = a.ret
    BY <1>3, <2>1, FlowFields DEF SameBatch, SameCaller, SameReturn
  <2>3. ~InPost(b) /\ b.pc \notin Gates \cup {"recLedger"}
    BY <1>3, <2>2 DEF InPost, Gates
  <2>4. Plain(a, b)
    BY <1>2, <1>3, <2>2, <2>3, PlainMove
  <2>5. QED
    BY <1>1, <1>3, <2>1, <2>4, BecomePlain, PlainHonest DEF Plainly
<1>4. CASE Claim(p)
  <2>1. PICK c \in NewClaims :
           Become(p, Flow([a EXCEPT !.pc = "reserve", !.id = c])) \/ Become(p, Idle)
    BY <1>1, <1>4, WriteEnds DEF Claim
  <2>2. CASE Become(p, Flow([a EXCEPT !.pc = "reserve", !.id = c]))
    <3>1. PICK q : q = [a EXCEPT !.pc = "reserve", !.id = c]
      OBVIOUS
    <3>2. "reserve" \in Pcs /\ c \in Claims
      BY DEF Pcs, PcRecovery, NewClaims
    <3>3. a \in Activities
      BY <1>2
    <3>4. /\ q \in Activities /\ q.snap = a.snap /\ q.rejected = a.rejected
          /\ q.ret = a.ret /\ q.pc = "reserve"
      BY <3>1, <3>2, <3>3 DEF Activities
    <3>5. SameBatch(a, q)
      BY <3>1, <3>3 DEF Activities, SameBatch
    <3>6. Become(p, Flow(q))
      BY <2>2, <3>1
    <3>7. QED
      BY <1>3, <3>4, <3>5, <3>6
  <2>3. QED
    BY <2>1, <2>2, PlainIdle, PlainHonest DEF Plainly
<1>5. CASE StartLease(p)
  <2>1. \/ Become(p, Flow([a EXCEPT !.pc = "payload", !.beat = TRUE, !.lease = Lease]))
        \/ \E pc \in {"recThrown", "idle"} : Become(p, To(p, pc))
    BY <1>1, <1>5, WriteEnds DEF StartLease
  <2>2. CASE Become(p, Flow([a EXCEPT !.pc = "payload", !.beat = TRUE, !.lease = Lease]))
    <3>1. PICK q : q = [a EXCEPT !.pc = "payload", !.beat = TRUE, !.lease = Lease]
      OBVIOUS
    <3>2. "payload" \in Pcs /\ Lease \in 0 .. Lease
      BY LeaseAssumption DEF Pcs, Loop
    <3>3. a \in Activities
      BY <1>2
    <3>4. /\ q \in Activities /\ q.snap = a.snap /\ q.rejected = a.rejected
          /\ q.ret = a.ret /\ q.pc = "payload"
      BY <3>1, <3>2, <3>3 DEF Activities
    <3>5. SameBatch(a, q)
      BY <3>1, <3>3 DEF Activities, SameBatch
    <3>6. Become(p, Flow(q))
      BY <2>2, <3>1
    <3>7. QED
      BY <1>3, <3>4, <3>5, <3>6
  <2>3. ASSUME NEW pc \in {"recThrown", "idle"}, Become(p, To(p, pc))
        PROVE  Honest(p)
    <3>1. CASE pc = "idle"
      BY <1>1, <1>2, <2>3, <3>1, ToIdle, PlainIdle, PlainHonest DEF Plainly
    <3>2. CASE pc = "recThrown"
      BY <1>1, <1>2, <2>3, <3>2, Outward, PlainHonest
    <3>3. QED
      BY <2>3, <3>1, <3>2
  <2>4. QED
    BY <2>1, <2>2, <2>3
<1>6. CASE Reserve(p)
  <2>1. Become(p, Staging(p, FALSE)) \/ Become(p, To(p, "startLease")) \/ Become(p, Idle)
    BY <1>6, WriteEnds DEF Reserve, Refuse
  <2>2. "startLease" \in Pcs \ (Gates \cup {"idle", "recLedger"}) /\ "startLease" \notin Loop
    BY DEF Pcs, PcShared, Gates, Loop
  <2>3. CASE Become(p, To(p, "startLease"))
    BY <1>1, <1>2, <2>2, <2>3, PlainTo, PlainHonest DEF Plainly
  <2>4. CASE Become(p, Staging(p, FALSE))
    BY <1>1, <1>2, <2>4, HonestStaging
  <2>5. QED
    BY <2>1, <2>3, <2>4, PlainIdle, PlainHonest DEF Plainly
<1>7. QED
  BY <1>4, <1>5, <1>6

\* A change of place that is not plain, with what is known of it
LEMMA HonestMove ==
    ASSUME NEW p, Open(p), proc[p].pc \notin {"idle", "stage"},
           NEW pc \in {"startLease", "reconcile", "claim", "sentLedger", "finalize"},
           Become(p, To(p, pc)),
           pc \in {"startLease", "reconcile", "claim"} =>
             \/ Engaged(proc[p])
             \/ proc[p].pc \in {"markQueued", "owner"} /\ ledger' = "queued" /\ row' = row,
           pc = "claim" => ~Sent \/ (proc[p].pc = "owner" /\ ~NeedsReconciliation(proc[p].snap)),
           pc = "sentLedger" => Sent',
           pc = "finalize" => ledger' \in Settled
    PROVE  Honest(p)
<1>1. PICK a, b : a = proc[p] /\ b = To(p, pc)
  OBVIOUS
<1>2. /\ p \in Procs /\ a \in Activities /\ Frank(a) /\ proc'[p] = b
  BY <1>1, KnownTyped, BecomeMoves DEF Open
<1>3. pc \in Pcs /\ pc # "idle" /\ pc \notin Loop \cup {"postMark", "postAck", "postFail"}
  BY DEF Pcs, PcShared, PcRecovery, Loop
<1>4. b.pc = pc /\ SameCaller(a, b) /\ SameBatch(a, b)
  BY <1>1, <1>2, <1>3, ToFields
<1>5. b.rejected = a.rejected
  BY <1>1, <1>2, <1>3, ToRejected
<1>6. ~MidSend(b)
  BY <1>3, <1>4 DEF InPost, Loop, MidSend
<1>7. (Results(b) => Results(a)) /\ (SentBeforeError(b) => SentBeforeError(a))
  BY <1>4 DEF Results, SentBeforeError, SameBatch
<1>8. Frank(b)
  BY <1>2, <1>4, <1>6, <1>7 DEF Frank, SameBatch
<1>9. Engaged(b) => pc \in {"startLease", "reconcile", "claim"}
  BY <1>3, <1>4 DEF Engaged, InLoop, InPost, Loop, Heading
<1>10. b.cur = a.cur /\ b.snap = a.snap
  BY <1>4 DEF SameBatch, SameCaller
<1>11. QED
  BY <1>1, <1>2, <1>4, <1>5, <1>7, <1>8, <1>9, <1>10 DEF Honest

\* The completion owner is queued, before the send or the replay
LEMMA HonestQueues ==
    ASSUME NEW p, Open(p), MarkQueued(p) \/ Owner(p)
    PROVE  Honest(p)
<1>1. PICK a : a = proc[p]
  OBVIOUS
<1>2. a.pc \in {"markQueued", "owner"} /\ row' = row
  BY <1>1 DEF MarkQueued, Owner, At
<1>3. CASE MarkQueued(p)
  <2>1. CASE ledger \in {"prepared", "queued"}
    <3>1. SettleLedger(p, "queued", To(p, "startLease"), Idle)
      BY <1>3, <2>1 DEF MarkQueued
    <3>2. \/ ledger' = "queued" /\ Become(p, To(p, "startLease"))
          \/ Become(p, Idle)
      BY <2>1, <3>1 DEF SettleLedger, LedgerAfter
    <3>3. QED
      BY <1>1, <1>2, <3>2, HonestMove, PlainIdle, PlainHonest DEF Plainly
  <2>2. CASE ledger \notin {"prepared", "queued"}
    BY <1>1, <1>2, <1>3, <2>2, Outward, PlainHonest DEF MarkQueued, Goto
  <2>3. QED
    BY <2>1, <2>2
<1>4. CASE Owner(p)
  <2>1. PICK pc : pc = IF LedgerAfter(ledger, "queued") # "queued" THEN "ownerAck"
                       ELSE IF NeedsReconciliation(a.snap) THEN "reconcile" ELSE "claim"
    OBVIOUS
  <2>2. SettleLedger(p, "queued", To(p, pc), Failing(p, "plain", "idle", "idle"))
    BY <1>1, <1>4, <2>1 DEF Owner
  <2>3. \/ ledger' = LedgerAfter(ledger, "queued") /\ Become(p, To(p, pc))
        \/ Become(p, Failing(p, "plain", "idle", "idle"))
    BY <2>2 DEF SettleLedger
  <2>4. CASE pc = "ownerAck" /\ Become(p, To(p, pc))
    BY <1>1, <1>2, <2>4, Outward, PlainHonest
  <2>5. CASE pc # "ownerAck" /\ ledger' = LedgerAfter(ledger, "queued") /\ Become(p, To(p, pc))
    <3>1. ledger' = "queued"
      BY <2>1, <2>5
    <3>2. pc \in {"reconcile", "claim"}
      BY <2>1, <2>5
    <3>3. pc = "claim" => a.pc = "owner" /\ ~NeedsReconciliation(a.snap)
      BY <1>1, <1>4, <2>1 DEF Owner, At
    <3>4. QED
      BY <1>1, <1>2, <2>5, <3>1, <3>2, <3>3, HonestMove
  <2>6. CASE Become(p, Failing(p, "plain", "idle", "idle"))
    BY <1>1, <1>2, <2>6, PlainDefers, PlainHonest
  <2>7. QED
    BY <2>3, <2>4, <2>5, <2>6
<1>5. QED
  BY <1>3, <1>4

\* Something was sent, or not
LEMMA Visibly ==
    ASSUME visible \in [1 .. Batch -> 0 .. 2]
    PROVE  /\ (\A i \in 1 .. Batch : visible[i] > 0) => Sent
           /\ (\A i \in 1 .. Batch : visible[i] = 0) => ~Sent
<1>1. 1 \in 1 .. Batch
  BY BatchAssumption
<1>2. QED
  BY <1>1 DEF Sent

\* The adapter is asked about an unknown send, and does not lie
LEMMA HonestReconcile ==
    ASSUME NEW p, Open(p), visible \in [1 .. Batch -> 0 .. 2], Reconcile(p)
    PROVE  Honest(p)
<1>1. PICK a : a = proc[p]
  OBVIOUS
<1>2. a.pc = "reconcile" /\ Engaged(a) /\ (Sent' <=> Sent)
  BY <1>1 DEF Reconcile, At, Engaged, Heading, Sent
<1>3. \/ Sent /\ Become(p, To(p, "sentLedger"))
      \/ ~Sent /\ Become(p, To(p, "claim"))
      \/ Become(p, Failing(p, "plain", "idle", "idle"))
      \/ Become(p, To(p, "stage"))
  BY Visibly DEF Reconcile, Goto
<1>4. CASE Sent /\ Become(p, To(p, "sentLedger"))
  BY <1>1, <1>2, <1>4, HonestMove
<1>5. CASE ~Sent /\ Become(p, To(p, "claim"))
  BY <1>1, <1>2, <1>5, HonestMove
<1>6. QED
  BY <1>1, <1>2, <1>3, <1>4, <1>5, PlainDefers, Outward, PlainHonest

\* A failure is staged and settled
LEMMA HonestSettles ==
    ASSUME NEW p, Open(p), Stage(p) \/ Settle(p)
    PROVE  Honest(p)
<1>1. PICK a : a = proc[p]
  OBVIOUS
<1>2. p \in Procs /\ a \in Activities
  BY <1>1, KnownTyped DEF Open
<1>3. CASE Stage(p)
  <2>1. PICK v : v = a.rejected
    OBVIOUS
  <2>2. PICK b : b = [Idle EXCEPT !.pc = "settle", !.rejected = v]
    OBVIOUS
  <2>3. Become(p, b) \/ Become(p, Idle)
    BY <1>1, <1>3, <2>1, <2>2, WriteEnds DEF Stage, Refuse
  <2>4. /\ b.pc = "settle" /\ b.rejected = v /\ b.outs = {} /\ b.cur = "omitted" /\ b.snap.rs = "none"
    BY <2>2 DEF Idle, NoRow
  <2>5. ~Engaged(b) /\ ~MidSend(b) /\ ~SentBeforeError(b) /\ ~Results(b)
    BY <2>4 DEF Engaged, InLoop, Loop, InPost, Heading, MidSend, SentBeforeError, Results
  <2>6. a.pc = "stage"
    BY <1>1, <1>3 DEF Stage, At
  <2>7. Plain(a, b)
    BY <2>1, <2>4, <2>5, <2>6 DEF Plain, Frank, Gates
  <2>8. QED
    BY <1>1, <2>3, <2>7, BecomePlain, PlainIdle, PlainHonest DEF Plainly
<1>4. CASE Settle(p)
  <2>1. PICK s \in {"suppressed", "unknown"} : SettleLedger(p, s, To(p, "finalize"), Idle)
    BY <1>4 DEF Settle
  <2>2. \/ ledger' = LedgerAfter(ledger, s) /\ Become(p, To(p, "finalize"))
        \/ Become(p, Idle)
    BY <2>1 DEF SettleLedger
  <2>3. LedgerAfter(ledger, s) \in Settled
    BY DEF LedgerAfter, Settled
  <2>4. a.pc = "settle"
    BY <1>1, <1>4 DEF Settle, At
  <2>5. QED
    BY <1>1, <2>2, <2>3, <2>4, HonestMove, PlainIdle, PlainHonest DEF Plainly
<1>5. QED
  BY <1>3, <1>4

\* The adapter is called: what it says to have sent was sent
LEMMA HonestHandoff ==
    ASSUME NEW p, Open(p), visible \in [1 .. Batch -> 0 .. 2], Handoff(p)
    PROVE  Honest(p)
<1>1. PICK a : a = proc[p]
  OBVIOUS
<1>2. /\ p \in Procs /\ a \in Activities /\ Frank(a) /\ a.pc = "handoff" /\ Engaged(a)
      /\ a.i <= Batch /\ a.started
  BY <1>1, KnownTyped, AtHand DEF Handoff, At, Engaged, InLoop, Loop, Open, Frank
<1>3. CASE Aborted(p)
  <2>1. Become(p, After(p, "early"))
    BY <1>3 DEF Handoff
  <2>2. QED
    BY <1>1, <1>2, <2>1, PlainEarly, PlainHonest
<1>4. CASE ~Aborted(p)
  <2>1. PICK c \in {"sent", "noIdentity", "omitted", "rejected", "refused", "ambiguous"} :
          \E reached \in Reaches(c) :
          /\ visible' = [visible EXCEPT ![a.i] = IF reached /\ @ < 2 THEN @ + 1 ELSE @]
          /\ Become(p, [a EXCEPT !.pc = "respond", !.cur = c, !.dispatched = TRUE, !.snap = NoRow])
    BY <1>1, <1>4 DEF Handoff
  <2>2. PICK reached \in Reaches(c) :
          /\ visible' = [visible EXCEPT ![a.i] = IF reached /\ @ < 2 THEN @ + 1 ELSE @]
          /\ Become(p, [a EXCEPT !.pc = "respond", !.cur = c, !.dispatched = TRUE, !.snap = NoRow])
    BY <2>1
  <2>3. PICK b : b = [a EXCEPT !.pc = "respond", !.cur = c, !.dispatched = TRUE, !.snap = NoRow]
    OBVIOUS
  <2>4. /\ b.pc = "respond" /\ b.cur = c /\ b.outs = a.outs /\ b.started = a.started
        /\ b.rejected = a.rejected /\ b.snap = NoRow
    BY <1>2, <2>3 DEF Activities
  <2>5. c = "sent" => Sent'
    <3>1. SUFFICES ASSUME c = "sent" PROVE Sent'
      OBVIOUS
    <3>2. reached
      BY <2>2, <3>1 DEF Reaches
    <3>3. PICK i : i = a.i
      OBVIOUS
    <3>4. i \in 1 .. Batch
      BY <1>2, <3>3, BatchAssumption DEF Activities
    <3>5. PICK n : n = IF reached /\ visible[i] < 2 THEN visible[i] + 1 ELSE visible[i]
      OBVIOUS
    <3>6. visible' = [visible EXCEPT ![i] = n]
      BY <2>2, <3>3, <3>5
    <3>7. n > 0
      BY <3>2, <3>4, <3>5
    <3>8. visible'[i] = n
      BY <3>4, <3>6
    <3>9. QED
      BY <3>4, <3>7, <3>8 DEF Sent
  <2>6. Results(b) => Results(a)
    BY <2>4 DEF Results
  <2>7. Frank(b)
    <3>1. c # "partial"
      BY <2>1
    <3>2. QED
      BY <1>2, <2>4, <3>1 DEF Frank
  <2>8. b.snap.rs = "none"
    BY <2>4 DEF NoRow
  <2>9. proc'[p] = b
    BY <1>1, <2>2, <2>3, BecomeMoves DEF Open
  <2>10. QED
    BY <1>1, <1>2, <2>4, <2>5, <2>6, <2>7, <2>8, <2>9 DEF Honest
<1>5. QED
  BY <1>3, <1>4

\* An activity that stays as it is, but for its lease
LEMMA HonestStays ==
    ASSUME NEW p, NEW a, NEW b, a = proc[p], b = proc'[p], Frank(a),
           b.pc = a.pc, SameBatch(a, b), SameCaller(a, b), SameReturn(a, b), b.rejected = a.rejected
    PROVE  Honest(p)
<1>1. Plain(a, b)
  BY PlainNote DEF SameCaller, SameReturn
<1>2. QED
  BY <1>1, PlainHonest DEF Plainly

\* An activity that begins without outcomes is frank
LEMMA FrankStart ==
    ASSUME NEW b, b.outs = {}, b.cur = "omitted", b.cancel = "no",
           b.pc \in {"markQueued", "payload", "stage", "owner"}
    PROVE  Frank(b) /\ ~Results(b)
<1>1. ~MidSend(b) /\ ~SentBeforeError(b)
  BY DEF MidSend, InPost, SentBeforeError
<1>2. QED
  BY <1>1 DEF Frank, Results

\* The delivery is queued, or goes on without a row
LEMMA HonestEnqueue ==
    ASSUME NEW p, Open(p), Enqueue(p)
    PROVE  Honest(p)
<1>1. PICK a : a = proc[p]
  OBVIOUS
<1>2. Frank(a) /\ a.pc = "idle" /\ row.status = "absent"
  BY <1>1 DEF Open, Enqueue, At
<1>3. \E c \in NewClaims :
        \/ row' = Enqueued(c) /\ Become(p, [Idle EXCEPT !.pc = "markQueued", !.id = c])
        \/ UNCHANGED proc
        \/ Become(p, Idle)
        \/ /\ row' = Ended(row, "skipped")
           /\ Become(p, [Idle EXCEPT !.pc = "payload", !.pre = "acked", !.post = "acked"])
  <2>1. CASE Required
    BY <2>1 DEF Enqueue
  <2>2. CASE ~Required
    BY <2>2 DEF Enqueue
  <2>3. QED
    BY <2>1, <2>2
<1>4. PICK c \in NewClaims :
        \/ row' = Enqueued(c) /\ Become(p, [Idle EXCEPT !.pc = "markQueued", !.id = c])
        \/ UNCHANGED proc
        \/ Become(p, Idle)
        \/ /\ row' = Ended(row, "skipped")
           /\ Become(p, [Idle EXCEPT !.pc = "payload", !.pre = "acked", !.post = "acked"])
  BY <1>3
<1>5. CASE row' = Enqueued(c) /\ Become(p, [Idle EXCEPT !.pc = "markQueued", !.id = c])
  <2>1. PICK b : b = [Idle EXCEPT !.pc = "markQueued", !.id = c]
    OBVIOUS
  <2>2. /\ b.pc = "markQueued" /\ b.outs = {} /\ b.cur = "omitted" /\ b.cancel = "no"
        /\ ~b.rejected /\ b.snap.rs = "none"
    BY <2>1 DEF Idle, NoRow
  <2>3. Frank(b) /\ ~Results(b) /\ ~Engaged(b)
    BY <2>2, FrankStart DEF Engaged, InLoop, InPost, Loop, Heading
  <2>4. row'.status = "pending" /\ proc'[p] = b
    BY <1>5, <2>1, EnqueuedTyped, BecomeMoves DEF NewClaims, Open
  <2>5. QED
    BY <1>1, <1>2, <2>2, <2>3, <2>4 DEF Honest
<1>6. CASE UNCHANGED proc
  <2>1. proc'[p] = a
    BY <1>1, <1>6
  <2>2. QED
    BY <1>1, <1>2, <2>1, HonestStays DEF SameBatch, SameCaller, SameReturn
<1>7. CASE Become(p, Idle)
  BY <1>7, PlainIdle, PlainHonest DEF Plainly
<1>8. CASE /\ row' = Ended(row, "skipped")
           /\ Become(p, [Idle EXCEPT !.pc = "payload", !.pre = "acked", !.post = "acked"])
  <2>1. PICK b : b = [Idle EXCEPT !.pc = "payload", !.pre = "acked", !.post = "acked"]
    OBVIOUS
  <2>2. /\ b.pc = "payload" /\ b.outs = {} /\ b.cur = "omitted" /\ b.cancel = "no"
        /\ ~b.rejected /\ b.snap.rs = "none"
    BY <2>1 DEF Idle, NoRow
  <2>3. Frank(b) /\ ~Results(b)
    BY <2>2, FrankStart
  <2>4. row'.status = "skipped" /\ proc'[p] = b
    BY <1>8, <2>1, EndedTyped, BecomeMoves DEF Open, Statuses
  <2>5. QED
    BY <1>1, <1>2, <2>2, <2>3, <2>4 DEF Honest
<1>9. QED
  BY <1>4, <1>5, <1>6, <1>7, <1>8

\* A process loads the row: a settlement is resumed as it was staged
LEMMA HonestRecover ==
    ASSUME NEW p, Open(p), row \in Rows, Recover(p)
    PROVE  Honest(p)
<1>1. PICK a : a = proc[p]
  OBVIOUS
<1>2. Frank(a) /\ a.pc = "idle" /\ row' = row
  BY <1>1 DEF Open, Recover, At
<1>3. PICK s : s = Snapshot
  OBVIOUS
<1>4. s.rs = row.rs
  BY <1>3 DEF Snapshot, Rows
<1>5. PICK loaded : loaded = [Idle EXCEPT !.recovery = TRUE, !.snap = s]
  OBVIOUS
<1>6. \/ /\ row.status = "staged"
         /\ Become(p, [loaded EXCEPT !.pc = "stage", !.rejected = row.rejected])
      \/ /\ row.status = "pending"
         /\ \/ Become(p, [loaded EXCEPT !.pc = "stage"])
            \/ Become(p, [loaded EXCEPT !.pc = "owner", !.id = RecordedOwner(row)])
  BY <1>3, <1>5 DEF Recover
<1>7. ASSUME NEW b, Become(p, b), b.outs = {}, b.cur = "omitted", b.cancel = "no", b.snap = s,
             b.pc \in {"stage", "owner"},
             b.pc = "owner" => row.status = "pending" /\ ~b.rejected,
             b.rejected => row.rejected,
             row.status \in {"staged", "pending"}
      PROVE  Honest(p)
  <2>1. Frank(b) /\ ~Results(b) /\ ~Engaged(b)
    BY <1>7, FrankStart DEF Engaged, InLoop, InPost, Loop, Heading
  <2>2. proc'[p] = b
    BY <1>7, BecomeMoves DEF Open
  <2>3. QED
    BY <1>1, <1>2, <1>4, <1>7, <2>1, <2>2 DEF Honest
<1>8. CASE /\ row.status = "staged"
           /\ Become(p, [loaded EXCEPT !.pc = "stage", !.rejected = row.rejected])
  <2>1. PICK v : v = row.rejected
    OBVIOUS
  <2>2. PICK b : b = [loaded EXCEPT !.pc = "stage", !.rejected = v]
    OBVIOUS
  <2>3. b.pc = "stage" /\ b.rejected = v /\ b.outs = {} /\ b.cur = "omitted" /\ b.cancel = "no" /\ b.snap = s
    BY <1>5, <2>2 DEF Idle
  <2>4. QED
    BY <1>7, <1>8, <2>1, <2>2, <2>3
<1>9. CASE row.status = "pending" /\ Become(p, [loaded EXCEPT !.pc = "stage"])
  <2>1. PICK b : b = [loaded EXCEPT !.pc = "stage"]
    OBVIOUS
  <2>2. b.pc = "stage" /\ ~b.rejected /\ b.outs = {} /\ b.cur = "omitted" /\ b.cancel = "no" /\ b.snap = s
    BY <1>5, <2>1 DEF Idle
  <2>3. QED
    BY <1>7, <1>9, <2>1, <2>2
<1>10. CASE row.status = "pending" /\ Become(p, [loaded EXCEPT !.pc = "owner", !.id = RecordedOwner(row)])
  <2>1. PICK i : i = RecordedOwner(row)
    OBVIOUS
  <2>2. PICK b : b = [loaded EXCEPT !.pc = "owner", !.id = i]
    OBVIOUS
  <2>3. b.pc = "owner" /\ ~b.rejected /\ b.outs = {} /\ b.cur = "omitted" /\ b.cancel = "no" /\ b.snap = s
    BY <1>5, <2>2 DEF Idle
  <2>4. QED
    BY <1>7, <1>10, <2>1, <2>2, <2>3
<1>11. QED
  BY <1>6, <1>8, <1>9, <1>10

\* Every process knows its own outcomes
FrankInv == \A p \in Procs : Frank(proc[p])

\* Every step of the system is honest for every process
LEMMA EveryHonest ==
    ASSUME BaseInv, FrankInv, [Next]_vars, NEW p \in Procs
    PROVE  Honest(p)
<1>1. Open(p) /\ row \in Rows /\ visible \in [1 .. Batch -> 0 .. 2] /\ Frank(proc[p])
  BY DEF BaseInv, FrankInv, Open, Known
<1>2. CASE UNCHANGED vars
  BY <1>1, <1>2, HonestStays DEF vars, SameBatch, SameCaller, SameReturn
<1>3. CASE Tick
  <2>1. PICK a : a = proc[p]
    OBVIOUS
  <2>2. PICK l, v : l = Less(a.lease) /\ v = (a.lost \/ (TimersOnTime /\ a.beat /\ a.lease <= 1))
    OBVIOUS
  <2>3. PICK b : b = [a EXCEPT !.lease = l, !.lost = v]
    OBVIOUS
  <2>4. proc'[p] = b
    BY <1>3, <2>1, <2>2, <2>3 DEF Tick
  <2>5. a \in Activities
    BY <2>1 DEF BaseInv
  <2>6. /\ b.pc = a.pc /\ SameBatch(a, b) /\ SameCaller(a, b) /\ SameReturn(a, b)
        /\ b.rejected = a.rejected
    BY <2>3, <2>5 DEF Activities, SameBatch, SameCaller, SameReturn
  <2>7. QED
    BY <1>1, <2>1, <2>4, <2>6, HonestStays
<1>4. ASSUME NEW q \in Procs,
             \/ Enqueue(q) \/ Recover(q) \/ Advance(q) \/ Renew(q) \/ Expire(q)
             \/ Abort(q) \/ AdmissionClosed(q) \/ Crash(q)
      PROVE  Honest(p)
  <2>1. CASE q # p
    <3>1. Steps(q)
      BY <1>4, EachStep, StepMoves
    <3>2. proc'[p] = proc[p]
      BY <2>1, <3>1, Unmoved
    <3>3. QED
      BY <1>1, <3>2, HonestStays DEF SameBatch, SameCaller, SameReturn
  <2>2. CASE q = p
    <3>1. CASE Enqueue(p) \/ Recover(p)
      BY <1>1, <3>1, HonestEnqueue, HonestRecover
    <3>2. CASE Renew(p) \/ Expire(p) \/ Abort(p) \/ RetireUnsent(p) \/ AdmissionClosed(p) \/ Crash(p)
      BY <1>1, <3>2, PlainNotes, PlainAdmission, PlainEnds, PlainHonest
    <3>3. CASE \/ DropRow(p) \/ OwnerAck(p) \/ Finalize(p) \/ Restore(p) \/ Payload(p)
               \/ BatchReturns(p) \/ StartSend(p) \/ StartAck(p) \/ DispatchMark(p) \/ Respond(p)
               \/ PostMark(p) \/ PostAck(p) \/ PostFail(p) \/ FailStep(p)
      BY <1>1, <3>3, PlainEnds, PlainPayload, PlainStart, PlainDispatch, PlainRespond, PlainPosts,
         PlainFailStep, PlainHonest
    <3>4. CASE \/ Returned(p) \/ Ledger(p) \/ Ack(p) \/ RecAck(p) \/ SentAck(p) \/ ThrownPost(p)
               \/ RecUnknown(p) \/ SentLedger(p) \/ RecLedger(p) \/ RecReturned(p)
      BY <1>1, <3>4, PlainReturned, PlainLedger, PlainAcks, PlainLate, PlainRecLedger,
         PlainRecReturned, PlainHonest
    <3>5. CASE \/ PartialFailure(p) \/ Thrown(p) \/ RecThrown(p) \/ Claim(p) \/ StartLease(p)
               \/ Reserve(p) \/ MarkQueued(p) \/ Owner(p) \/ Reconcile(p) \/ Stage(p) \/ Settle(p)
               \/ Handoff(p)
      BY <1>1, <3>5, HonestPartialFailure, HonestThrown, HonestRecThrown, HonestTakes,
         HonestQueues, HonestReconcile, HonestSettles, HonestHandoff
    <3>6. QED
      BY <1>4, <2>2, <3>1, <3>2, <3>3, <3>4, <3>5 DEF Advance
  <2>3. QED
    BY <2>1, <2>2
<1>5. QED
  BY <1>2, <1>3, <1>4 DEF Next

-----------------------------------------------------------------------------
(* What the completion owner is told.                                      *)

\* Who settles the completion owner
Settlers == {"ledger", "settle", "sentLedger", "recUnknown", "recLedger"}

\* What the completion owner is told by a process, and what the process knew
Tale(p) ==
    LET a == proc[p]
    IN \/ ledger' = ledger
       \/ a.pc \in {"markQueued", "owner"} /\ ledger' = "queued"
       \/ /\ a.pc \in Settlers
          /\ \/ ledger' = "unknown"
             \/ ledger' = "delivered" /\ (Results(a) \/ a.pc = "sentLedger")
             \/ ledger' = "suppressed" /\ ((Telling(a) /\ ~MaySent(a)) \/ a.rejected)

\* A settled state is kept or becomes the one that the process reports
LEMMA PatchMoves ==
    ASSUME NEW p, NEW s, NEW good, NEW bad, SettleLedger(p, s, good, bad)
    PROVE  ledger' \in {ledger, s}
BY DEF SettleLedger, LedgerAfter

\* The report of a live delivery: without results the send began and is
\* unknown, or nothing was sent
LEMMA TaleLedger ==
    ASSUME NEW p, Open(p), Ledger(p)
    PROVE  Tale(p)
<1>1. PICK a : a = proc[p]
  OBVIOUS
<1>2. a.pc = "ledger" /\ a.cur = "omitted" /\ (SentBeforeError(a) => a.started) /\ Telling(a)
  BY <1>1 DEF Ledger, At, Open, Known, Local, SendLocal, MidSend, InPost, Frank, Telling
<1>3. PICK s : s = IF Results(a) THEN "delivered"
                   ELSE IF a.started /\ ~AllSuppressed(a) THEN "unknown" ELSE "suppressed"
  OBVIOUS
<1>4. \E good, bad : SettleLedger(p, s, good, bad)
  BY <1>1, <1>3 DEF Ledger
<1>5. ledger' \in {ledger, s}
  BY <1>4, PatchMoves
<1>6. CASE Results(a)
  BY <1>1, <1>2, <1>3, <1>5, <1>6 DEF Tale, Settlers
<1>7. CASE ~Results(a) /\ a.started /\ ~AllSuppressed(a)
  BY <1>1, <1>2, <1>3, <1>5, <1>7 DEF Tale, Settlers
<1>8. CASE ~Results(a) /\ ~(a.started /\ ~AllSuppressed(a))
  <2>1. ~SentBeforeError(a)
    BY <1>2, <1>8 DEF AllSuppressed, SentBeforeError
  <2>2. ~MaySent(a)
    BY <1>2, <2>1 DEF MaySent
  <2>3. QED
    BY <1>1, <1>2, <1>3, <1>5, <1>8, <2>2 DEF Tale, Settlers
<1>9. QED
  BY <1>6, <1>7, <1>8

\* The report of a replay that returned
LEMMA TaleRecLedger ==
    ASSUME NEW p, Open(p), RecLedger(p)
    PROVE  Tale(p)
<1>1. PICK a : a = proc[p]
  OBVIOUS
<1>2. /\ a.pc = "recLedger" /\ a.cur = "omitted" /\ Telling(a)
      /\ a.outs \cap ({"noIdentity"} \cup Failures) = {}
  BY <1>1 DEF RecLedger, At, Open, Known, Local, SendLocal, MidSend, InPost, Frank, Telling
<1>3. PICK s : s = IF Results(a) THEN "delivered" ELSE "suppressed"
  OBVIOUS
<1>4. \E good, bad : SettleLedger(p, s, good, bad)
  BY <1>1, <1>3 DEF RecLedger
<1>5. ledger' \in {ledger, s}
  BY <1>4, PatchMoves
<1>6. CASE Results(a)
  BY <1>1, <1>2, <1>3, <1>5, <1>6 DEF Tale, Settlers
<1>7. CASE ~Results(a)
  <2>1. ~SentBeforeError(a)
    BY <1>2, <1>7 DEF SentBeforeError, Results, Failures
  <2>2. ~MaySent(a)
    BY <1>2, <2>1 DEF MaySent
  <2>3. QED
    BY <1>1, <1>2, <1>3, <1>5, <1>7, <2>2 DEF Tale, Settlers
<1>8. QED
  BY <1>6, <1>7

\* The other reports
LEMMA TaleOthers ==
    ASSUME NEW p, MarkQueued(p) \/ Owner(p) \/ Settle(p) \/ SentLedger(p) \/ RecUnknown(p)
    PROVE  Tale(p)
<1>1. PICK a : a = proc[p]
  OBVIOUS
<1>2. CASE MarkQueued(p) \/ Owner(p)
  <2>1. a.pc \in {"markQueued", "owner"}
    BY <1>1, <1>2 DEF MarkQueued, Owner, At
  <2>2. ledger' = ledger \/ \E good, bad : SettleLedger(p, "queued", good, bad)
    BY <1>2 DEF MarkQueued, Owner
  <2>3. ledger' \in {ledger, "queued"}
    BY <2>2, PatchMoves
  <2>4. QED
    BY <1>1, <2>1, <2>3 DEF Tale
<1>3. CASE Settle(p)
  <2>1. PICK s : s = IF a.rejected THEN "suppressed" ELSE "unknown"
    OBVIOUS
  <2>2. a.pc = "settle" /\ \E good, bad : SettleLedger(p, s, good, bad)
    BY <1>1, <1>3, <2>1 DEF Settle, At
  <2>3. ledger' \in {ledger, s}
    BY <2>2, PatchMoves
  <2>4. QED
    BY <1>1, <2>1, <2>2, <2>3 DEF Tale, Settlers
<1>4. CASE SentLedger(p)
  <2>1. a.pc = "sentLedger" /\ \E good, bad : SettleLedger(p, "delivered", good, bad)
    BY <1>1, <1>4 DEF SentLedger, At
  <2>2. ledger' \in {ledger, "delivered"}
    BY <2>1, PatchMoves
  <2>3. QED
    BY <1>1, <2>1, <2>2 DEF Tale, Settlers
<1>5. CASE RecUnknown(p)
  <2>1. a.pc = "recUnknown" /\ \E good, bad : SettleLedger(p, "unknown", good, bad)
    BY <1>1, <1>5 DEF RecUnknown, At
  <2>2. ledger' \in {ledger, "unknown"}
    BY <2>1, PatchMoves
  <2>3. QED
    BY <1>1, <2>1, <2>2 DEF Tale, Settlers
<1>6. QED
  BY <1>2, <1>3, <1>4, <1>5

\* The completion owner is told nothing else
LEMMA EachTale ==
    ASSUME NEW p, Open(p),
           \/ Enqueue(p) \/ Recover(p) \/ Advance(p) \/ Renew(p) \/ Expire(p)
           \/ Abort(p) \/ AdmissionClosed(p) \/ Crash(p)
    PROVE  Tale(p)
<1>1. CASE \/ MarkQueued(p) \/ Owner(p) \/ Settle(p) \/ SentLedger(p) \/ RecUnknown(p)
           \/ RecLedger(p) \/ Ledger(p)
  BY <1>1, TaleOthers, TaleRecLedger, TaleLedger
<1>2. CASE \/ Enqueue(p) \/ Recover(p) \/ Renew(p) \/ Expire(p)
           \/ Abort(p) \/ AdmissionClosed(p) \/ Crash(p)
           \/ DropRow(p) \/ StartLease(p)
           \/ Payload(p) \/ BatchReturns(p) \/ StartSend(p) \/ StartAck(p) \/ DispatchMark(p)
  <2>1. ledger' = ledger
    BY <1>2 DEF Enqueue, Recover, Renew, Expire, Abort, AdmissionClosed, Crash, DropRow, StartLease,
       Payload, BatchReturns, StartSend, StartAck, DispatchMark
  <2>2. QED
    BY <2>1 DEF Tale
<1>3. CASE \/ Handoff(p) \/ Respond(p) \/ PostMark(p) \/ PostAck(p) \/ PostFail(p) \/ FailStep(p)
           \/ Returned(p) \/ PartialFailure(p) \/ Ack(p) \/ Thrown(p) \/ ThrownPost(p)
           \/ Stage(p) \/ Finalize(p)
  <2>1. ledger' = ledger
    BY <1>3 DEF Handoff, Respond, PostMark, PostAck, PostFail, FailStep, Returned, PartialFailure,
       Ack, Thrown, ThrownPost, Stage, Finalize
  <2>2. QED
    BY <2>1 DEF Tale
<1>4. CASE \/ OwnerAck(p) \/ Reconcile(p) \/ SentAck(p) \/ Claim(p)
           \/ Reserve(p) \/ RecReturned(p) \/ RecAck(p) \/ RecThrown(p) \/ Restore(p) \/ RetireUnsent(p)
  <2>1. ledger' = ledger
    BY <1>4 DEF OwnerAck, Reconcile, SentAck, Claim, Reserve, RecReturned, RecAck, RecThrown, Restore,
       RetireUnsent
  <2>2. QED
    BY <2>1 DEF Tale
<1>5. QED
  BY <1>1, <1>2, <1>3, <1>4 DEF Advance

-----------------------------------------------------------------------------
(* What a process does to the row.                                         *)

\* What a process does to the row: staging and dead-lettering have a place of
\* their own, and nobody else turns a row into a rejected one
RowTale(p) ==
    LET a == proc[p]
    IN /\ row'.status = "failed" => row.status = "failed" \/ a.pc = "finalize"
       /\ row'.status = "staged" => row.status = "staged" \/ a.pc = "stage"
       /\ row'.rejected => \/ row.rejected /\ row'.status = row.status
                           \/ a.rejected /\ a.pc = "stage" /\ row'.status = "staged"
       /\ a.pc \in {"markQueued", "owner"} /\ row.status = "pending" => row'.status = "pending"

\* A row that is acknowledged or retired
LEMMA RowEnds ==
    ASSUME NEW p, proc[p].pc \notin {"markQueued", "owner"},
           NEW s \in Statuses \ {"failed", "staged"}, row' = row \/ row' = Ended(row, s)
    PROVE  RowTale(p)
<1>1. row' = row \/ (row'.status = s /\ ~row'.rejected)
  BY EndedTyped
<1>2. QED
  BY <1>1 DEF RowTale

\* The row is acknowledged by its owner
LEMMA RowAcked ==
    ASSUME NEW p,
           DropRow(p) \/ StartAck(p) \/ PostAck(p) \/ Ack(p) \/ OwnerAck(p) \/ SentAck(p) \/ RecAck(p)
    PROVE  RowTale(p)
<1>1. row' = row \/ \E b : row' = Acked(row, b)
  BY DEF DropRow, StartAck, PostAck, Ack, OwnerAck, SentAck, RecAck, WriteIf, Write, Refuse
<1>2. \E s \in {"deleted", "completed"} : row' = row \/ row' = Ended(row, s)
  BY <1>1 DEF Acked
<1>3. proc[p].pc \notin {"markQueued", "owner"}
  BY DEF DropRow, StartAck, PostAck, Ack, OwnerAck, SentAck, RecAck, At
<1>4. {"deleted", "completed"} \subseteq Statuses \ {"failed", "staged"}
  BY DEF Statuses
<1>5. QED
  BY <1>2, <1>3, <1>4, RowEnds

\* The row is created, retired, staged or dead-lettered
LEMMA RowEnded ==
    ASSUME NEW p, Open(p), Enqueue(p) \/ RetireUnsent(p) \/ Stage(p) \/ Finalize(p)
    PROVE  RowTale(p)
<1>1. CASE Enqueue(p)
  <2>1. proc[p].pc = "idle" /\ row.status = "absent"
    BY <1>1 DEF Enqueue, At
  <2>2. row' = Ended(row, "skipped") \/ \E c \in NewClaims : row' = Enqueued(c)
    BY <1>1 DEF Enqueue
  <2>3. row'.status \in {"skipped", "pending"} /\ ~row'.rejected
    BY <2>2, EndedTyped, EnqueuedTyped DEF NewClaims, Statuses
  <2>4. QED
    BY <2>1, <2>3 DEF RowTale
<1>2. CASE RetireUnsent(p)
  <2>1. proc[p].pc \notin {"markQueued", "owner"}
    BY <1>2 DEF RetireUnsent, Open, Frank
  <2>2. row' = row \/ row' = Ended(row, "deleted")
    BY <1>2 DEF RetireUnsent, WriteIf, Write, Refuse
  <2>3. "deleted" \in Statuses \ {"failed", "staged"}
    BY DEF Statuses
  <2>4. QED
    BY <2>1, <2>2, <2>3, RowEnds
<1>3. CASE Stage(p)
  <2>1. PICK v : v = proc[p].rejected
    OBVIOUS
  <2>2. proc[p].pc = "stage" /\ v \in BOOLEAN
    BY <1>3, <2>1, KnownTyped DEF Stage, At, Open, Activities
  <2>3. row' = row \/ row' = Staged(row, v)
    BY <1>3, <2>1 DEF Stage, WriteIf, Write, Refuse
  <2>4. row' = row \/ (row'.status = "staged" /\ row'.rejected = v)
    BY <2>2, <2>3, StagedTyped
  <2>5. QED
    BY <2>1, <2>2, <2>4 DEF RowTale
<1>4. CASE Finalize(p)
  <2>1. proc[p].pc = "finalize" /\ (row' = row \/ row' = Ended(row, "failed"))
    BY <1>4 DEF Finalize, At, WriteIf, Write, Refuse
  <2>2. "failed" \in Statuses
    BY DEF Statuses
  <2>3. row' = row \/ (row'.status = "failed" /\ ~row'.rejected)
    BY <2>1, <2>2, EndedTyped
  <2>4. QED
    BY <2>1, <2>3 DEF RowTale
<1>5. QED
  BY <1>1, <1>2, <1>3, <1>4

\* Every operation keeps to it
LEMMA EachRowTale ==
    ASSUME NEW p, Open(p), row \in Rows,
           \/ Enqueue(p) \/ Recover(p) \/ Advance(p) \/ Renew(p) \/ Expire(p)
           \/ Abort(p) \/ AdmissionClosed(p) \/ Crash(p)
    PROVE  RowTale(p)
<1>1. Shaped(row) /\ p \in Procs
  BY DEF Rows, Shaped, Open, Known
<1>2. row' = row => RowTale(p)
  BY DEF RowTale
<1>3. Keeps => RowTale(p)
  BY DEF Keeps, Kept, RowTale
<1>4. CASE Enqueue(p) \/ RetireUnsent(p) \/ Stage(p) \/ Finalize(p)
  BY <1>4, RowEnded
<1>5. CASE DropRow(p) \/ StartAck(p) \/ PostAck(p) \/ Ack(p) \/ OwnerAck(p) \/ SentAck(p) \/ RecAck(p)
  BY <1>5, RowAcked
<1>6. CASE \/ StartLease(p) \/ Renew(p) \/ StartSend(p) \/ DispatchMark(p) \/ PostMark(p)
           \/ PostFail(p) \/ FailStep(p) \/ Claim(p) \/ Reserve(p) \/ Restore(p)
  BY <1>1, <1>2, <1>3, <1>6, KeepSteps
<1>7. CASE \/ MarkQueued(p) \/ Expire(p) \/ Abort(p) \/ Payload(p) \/ BatchReturns(p)
           \/ AdmissionClosed(p) \/ Handoff(p) \/ Respond(p) \/ Returned(p)
           \/ PartialFailure(p) \/ Ledger(p) \/ Thrown(p) \/ ThrownPost(p) \/ Settle(p)
           \/ Recover(p) \/ Owner(p) \/ Reconcile(p) \/ SentLedger(p) \/ RecReturned(p)
           \/ RecUnknown(p) \/ RecLedger(p) \/ RecThrown(p) \/ Crash(p)
  BY <1>1, <1>2, <1>7, QuietSteps
<1>8. QED
  BY <1>4, <1>5, <1>6, <1>7 DEF Advance

-----------------------------------------------------------------------------
(* The delivered are sent: the invariant.                                  *)

\* What was sent stays sent
LEMMA SentStays ==
    ASSUME BaseInv, Kinds, Sent
    PROVE  Sent'
<1>1. CASE visible' = visible
  BY <1>1, SentMoves
<1>2. ASSUME NEW p \in Procs, Hands(p), visible' # visible
      PROVE  Sent'
  <2>1. PICK n : n = proc[p].i
    OBVIOUS
  <2>2. visible' = [visible EXCEPT ![n] = IF @ < 2 THEN @ + 1 ELSE @]
    BY <1>2, <2>1 DEF Hands
  <2>3. visible \in [1 .. Batch -> 0 .. 2]
    BY DEF BaseInv
  <2>4. PICK i \in 1 .. Batch : visible[i] > 0
    BY DEF Sent
  <2>5. visible'[i] > 0
    BY <2>2, <2>3, <2>4
  <2>6. QED
    BY <2>5 DEF Sent
<1>3. QED
  BY <1>1, <1>2 DEF Kinds, StepOf, vars, Passes, WalkStep, Starts, Renews, Enqueues, Recovers, Owns

\* At the start every process knows its outcomes: there are none
LEMMA FrankInit ==
    ASSUME Init
    PROVE  FrankInv
<1>1. PICK a : a = Idle
  OBVIOUS
<1>2. a.pc = "idle" /\ a.outs = {} /\ a.cur = "omitted"
  BY <1>1 DEF Idle
<1>3. Frank(a)
  BY <1>2 DEF Frank, MidSend, InPost, SentBeforeError
<1>4. QED
  BY <1>1, <1>3 DEF FrankInv, Init

\* and every step keeps it so
LEMMA FrankKept ==
    ASSUME BaseInv, FrankInv, [Next]_vars
    PROVE  FrankInv'
BY EveryHonest DEF FrankInv, Honest, Frank, MidSend, InPost, SentBeforeError

\* The completion owner changes by the report of a process only
LEMMA LedgerMoves ==
    ASSUME BaseInv, FrankInv, [Next]_vars
    PROVE  ledger' = ledger \/ \E p \in Procs : Tale(p)
<1>1. CASE UNCHANGED vars \/ Tick
  BY <1>1 DEF vars, Tick
<1>2. ASSUME NEW p \in Procs,
             \/ Enqueue(p) \/ Recover(p) \/ Advance(p) \/ Renew(p) \/ Expire(p)
             \/ Abort(p) \/ AdmissionClosed(p) \/ Crash(p)
      PROVE  Tale(p)
  BY <1>2, EachTale DEF BaseInv, FrankInv, Open, Known
<1>3. QED
  BY <1>1, <1>2 DEF Next

-----------------------------------------------------------------------------
(* Delivered is sent.                                                      *)

\* Whoever has a result to report has sent something
TruthInv ==
    /\ ledger = "delivered" => Sent
    /\ \A p \in Procs :
         proc[p].cur = "sent" \/ Results(proc[p]) \/ proc[p].pc = "sentLedger" => Sent

DeliveredInv == BaseInv /\ FrankInv /\ TruthInv

\* At the start nothing is delivered
LEMMA DeliveredInit ==
    ASSUME Init
    PROVE  DeliveredInv
<1>1. PICK a : a = Idle
  OBVIOUS
<1>2. a.pc = "idle" /\ a.outs = {} /\ a.cur = "omitted"
  BY <1>1 DEF Idle
<1>3. ledger = "prepared" /\ \A p \in Procs : proc[p] = a
  BY <1>1 DEF Init
<1>4. TruthInv
  BY <1>2, <1>3 DEF TruthInv, Results
<1>5. QED
  BY <1>4, BaseInit, FrankInit DEF DeliveredInv

\* Every step keeps the reports true
LEMMA DeliveredKept ==
    ASSUME DeliveredInv, [Next]_vars
    PROVE  DeliveredInv'
<1>1. BaseInv /\ FrankInv /\ Kinds /\ BaseInv' /\ FrankInv' /\ (Sent => Sent')
  BY EveryStep, BaseKept, FrankKept, SentStays DEF DeliveredInv
<1>2. ASSUME NEW p \in Procs, NEW b, b = proc'[p],
             b.cur = "sent" \/ Results(b) \/ b.pc = "sentLedger"
      PROVE  Sent'
  <2>1. Honest(p)
    BY <1>1, EveryHonest
  <2>2. QED
    BY <1>1, <1>2, <2>1 DEF Honest, DeliveredInv, TruthInv
<1>3. ASSUME ledger' = "delivered"
      PROVE  Sent'
  <2>1. ledger = "delivered" \/ \E p \in Procs : Results(proc[p]) \/ proc[p].pc = "sentLedger"
    BY <1>1, <1>3, LedgerMoves DEF Tale
  <2>2. QED
    BY <1>1, <2>1 DEF DeliveredInv, TruthInv
<1>4. TruthInv'
  BY <1>2, <1>3 DEF TruthInv, Results, Sent
<1>5. QED
  BY <1>1, <1>4 DEF DeliveredInv

\* A completion owner that is told of a delivery is told the truth, however many
\* processes send and recover it and whatever timers do (settleDeliveryCompletion,
\* reconcileUnknownQueuedDelivery)
THEOREM DeliveredIsSent == Spec => [](ledger = "delivered" => Sent)
<1>1. Init => DeliveredInv
  BY DeliveredInit
<1>2. DeliveredInv /\ [Next]_vars => DeliveredInv'
  BY DeliveredKept
<1>3. DeliveredInv => (ledger = "delivered" => Sent)
  BY DEF DeliveredInv, TruthInv
<1>4. QED
  BY <1>1, <1>2, <1>3, PTL DEF Spec

-----------------------------------------------------------------------------
(* One process: dead-lettered is settled.                                  *)

\* The only process tells everything that changes
LEMMA SoleTells ==
    ASSUME NEW p, Procs = {p}, BaseInv, FrankInv, [Next]_vars
    PROVE  Honest(p) /\ Tale(p) /\ RowTale(p)
<1>1. Honest(p)
  BY EveryHonest
<1>2. Open(p) /\ row \in Rows
  BY DEF BaseInv, FrankInv, Open, Known
<1>3. CASE UNCHANGED vars
  BY <1>1, <1>3 DEF vars, Tale, RowTale
<1>4. CASE Tick
  <2>1. PICK n : n = Less(row.ttl)
    OBVIOUS
  <2>2. row' = [row EXCEPT !.ttl = n] /\ ledger' = ledger
    BY <1>4, <2>1 DEF Tick
  <2>3. row'.status = row.status /\ row'.rejected = row.rejected
    BY <1>2, <2>2 DEF Rows
  <2>4. QED
    BY <2>2, <2>3, <1>1 DEF Tale, RowTale
<1>5. CASE \/ Enqueue(p) \/ Recover(p) \/ Advance(p) \/ Renew(p) \/ Expire(p)
           \/ Abort(p) \/ AdmissionClosed(p) \/ Crash(p)
  BY <1>1, <1>2, <1>5, EachTale, EachRowTale
<1>6. QED
  BY <1>1, <1>3, <1>4, <1>5 DEF Next

\* The completion owner is untouched until there is a row; whoever asks to send
\* has a pending row; whoever finalizes has settled
CourseInv(p) ==
    /\ row.status = "absent" => ledger = "prepared" /\ proc[p].pc = "idle"
    /\ proc[p].pc \in {"markQueued", "owner"} => row.status = "pending"
    /\ proc[p].pc = "finalize" => ledger \in Settled
    /\ FailedIsSettled

SettleInv(p) == BaseInv /\ FrankInv /\ CourseInv(p)

\* All that holds at the start
LEMMA SettleInit ==
    ASSUME Init, NEW p \in Procs
    PROVE  SettleInv(p)
<1>1. PICK a : a = Idle
  OBVIOUS
<1>2. a.pc = "idle"
  BY <1>1 DEF Idle
<1>3. ledger = "prepared" /\ proc[p] = a /\ row.status = "absent"
  BY <1>1 DEF Init, NoRow
<1>4. CourseInv(p)
  BY <1>2, <1>3 DEF CourseInv, FailedIsSettled
<1>5. QED
  BY <1>4, BaseInit, FrankInit DEF SettleInv

\* and is kept by every step of the only process
LEMMA SettleKept ==
    ASSUME NEW p, Procs = {p}, SettleInv(p), [Next]_vars
    PROVE  SettleInv(p)'
<1>1. BaseInv /\ FrankInv /\ Kinds /\ BaseInv' /\ FrankInv'
  BY EveryStep, BaseKept, FrankKept DEF SettleInv
<1>2. Honest(p) /\ Tale(p) /\ RowTale(p)
  BY <1>1, SoleTells
<1>3. PICK a, b : a = proc[p] /\ b = proc'[p]
  OBVIOUS
<1>4. ASSUME row'.status = "absent"
      PROVE  ledger' = "prepared" /\ b.pc = "idle"
  <2>1. row.status = "absent"
    BY <1>1, <1>4, StatusMoves
  <2>2. ledger = "prepared" /\ a.pc = "idle"
    BY <1>3, <2>1 DEF SettleInv, CourseInv
  <2>3. QED
    BY <1>2, <1>3, <1>4, <2>2 DEF Honest, Tale, Settlers
<1>5. ASSUME b.pc \in {"markQueued", "owner"}
      PROVE  row'.status = "pending"
  <2>1. b.pc = a.pc \/ row'.status = "pending"
    BY <1>2, <1>3, <1>5 DEF Honest
  <2>2. QED
    BY <1>2, <1>3, <1>5, <2>1 DEF RowTale, SettleInv, CourseInv
<1>6. ASSUME b.pc = "finalize"
      PROVE  ledger' \in Settled
  <2>1. CASE b.pc = a.pc
    BY <1>2, <1>3, <1>6, <2>1 DEF Tale, Settlers, SettleInv, CourseInv
  <2>2. QED
    BY <1>2, <1>3, <1>6, <2>1 DEF Honest
<1>7. ASSUME row'.status = "failed"
      PROVE  ledger' \in Settled
  <2>1. ledger \in Settled /\ a.pc \notin {"markQueued", "owner"}
    BY <1>2, <1>3, <1>7 DEF RowTale, SettleInv, CourseInv, FailedIsSettled, Settled
  <2>2. QED
    BY <1>2, <1>3, <2>1 DEF Tale, Settled
<1>8. CourseInv(p)'
  BY <1>3, <1>4, <1>5, <1>6, <1>7 DEF CourseInv, FailedIsSettled, Settled
<1>9. QED
  BY <1>1, <1>8 DEF SettleInv

\* With one process at work, whatever crashes and is resumed, a delivery that is
\* dead-lettered was projected to its completion owner before
\* (settleQueuedFailure)
THEOREM DeliveryFailedIsSettled == (\E p : Procs = {p}) /\ Spec => []FailedIsSettled
<1>1. SUFFICES ASSUME NEW p, Procs = {p}
               PROVE  Spec => []FailedIsSettled
  OBVIOUS
<1>2. Init => SettleInv(p)
  BY <1>1, SettleInit
<1>3. SettleInv(p) /\ [Next]_vars => SettleInv(p)'
  BY <1>1, SettleKept
<1>4. SettleInv(p) => FailedIsSettled
  BY DEF SettleInv, CourseInv
<1>5. QED
  BY <1>2, <1>3, <1>4, PTL DEF Spec

\* A pending row has no settlement, and only who stages loaded one
SnapInv ==
    /\ row.status = "pending" => row.rs # "settlement"
    /\ \A p \in Procs : proc[p].snap.rs = "settlement" => proc[p].pc = "stage"

\* Every step keeps settlements out of pending rows
LEMMA SnapKept ==
    ASSUME BaseInv, FrankInv, SnapInv, [Next]_vars
    PROVE  SnapInv'
<1>1. Kinds
  BY EveryStep
<1>2. ASSUME NEW p \in Procs, NEW b, b = proc'[p], b.snap.rs = "settlement"
      PROVE  b.pc = "stage"
  <2>1. Honest(p)
    BY EveryHonest
  <2>2. QED
    BY <1>2, <2>1 DEF Honest, SnapInv
<1>3. ASSUME row'.status = "pending"
      PROVE  row'.rs # "settlement"
  <2>1. CASE UNCHANGED vars \/ Passes
    BY <1>3, <2>1 DEF vars, Passes, SameOwners, SnapInv
  <2>2. ASSUME NEW p \in Procs, Fate(p)
        PROVE  row'.rs # "settlement"
    <3>1. CASE Quiet
      BY <1>3, <3>1 DEF Quiet, SnapInv
    <3>2. CASE Closes(p)
      BY <1>3, <3>2 DEF Closes, Terminal
    <3>3. CASE Postpones(p)
      BY <3>3 DEF Postpones, Owned, SnapInv
    <3>4. CASE Reopens(p) \/ Testifies(p)
      BY <3>4 DEF Reopens, Testifies
    <3>5. CASE Marks(p)
      BY <3>5 DEF Marks
    <3>6. CASE Extends(p) \/ Counts(p)
      BY <1>3, <3>6 DEF Extends, Counts, SameOwners, SnapInv
    <3>7. CASE Restores(p)
      BY <3>7 DEF Restores, SnapInv
    <3>8. CASE \E c : Takes(p, c)
      BY <3>8 DEF Takes
    <3>9. QED
      BY <2>2, <3>1, <3>2, <3>3, <3>4, <3>5, <3>6, <3>7, <3>8 DEF Fate
  <2>3. ASSUME NEW p \in Procs, Starts(p) \/ Renews(p) \/ Recovers(p) \/ Hands(p)
        PROVE  row'.rs # "settlement"
    BY <1>3, <2>3 DEF Starts, Renews, Recovers, Hands, Extends, SameOwners, SnapInv
  <2>4. ASSUME NEW p \in Procs, Enqueues(p) \/ \E c \in NewClaims : Owns(p, c)
        PROVE  row'.rs # "settlement"
    BY <1>3, <2>4 DEF Enqueues, Owns, Takes
  <2>5. QED
    BY <1>1, <2>1, <2>2, <2>3, <2>4 DEF Kinds, StepOf, WalkStep
<1>4. QED
  BY <1>2, <1>3 DEF SnapInv

-----------------------------------------------------------------------------
(* One process with timers on time: the owner is told the truth.           *)

\* On the way to a send and inside it, the row is neither staged nor missing and
\* nothing was recorded as suppressed
WayInv(p) == Engaged(proc[p]) => row.status \notin {"absent", "staged"} /\ ledger # "suppressed"

\* What is or will be recorded as suppressed was not sent
CleanInv(p) ==
    /\ ledger = "suppressed" => ~Sent
    /\ row.rejected => ~Sent /\ row.status = "staged"
    /\ proc[p].rejected => ~Sent /\ ~Engaged(proc[p]) /\ proc[p].pc \notin {"markQueued", "owner"}
    /\ proc[p].pc = "claim" => ~Sent
    /\ proc[p].pc = "owner" /\ ~NeedsReconciliation(proc[p].snap) => ~Sent
    /\ Telling(proc[p]) /\ Sent => MaySent(proc[p])

SoleFrank(p) == SettleInv(p) /\ TruthInv /\ SnapInv /\ WayInv(p) /\ CleanInv(p)
LedgerInv(p) == OnceInv /\ SoleFrank(p)

\* What a step has to go on with
LedgerFacts(p) ==
    /\ Procs = {p} /\ ShowFacts /\ SoleFrank(p)
    /\ Honest(p) /\ Tale(p) /\ RowTale(p)

\* The way to a send stays open
LEMMA WayKept ==
    ASSUME NEW p, LedgerFacts(p)
    PROVE  WayInv(p)'
<1>1. PICK a, b : a = proc[p] /\ b = proc'[p]
  OBVIOUS
<1>2. Honest(p) /\ Tale(p) /\ RowTale(p) /\ SettleInv(p) /\ WayInv(p) /\ BaseInv /\ Kinds
  BY DEF LedgerFacts, SoleFrank, ShowFacts, HoldFacts
<1>3. ASSUME Engaged(b)
      PROVE  row'.status \notin {"absent", "staged"} /\ ledger' # "suppressed"
  <2>1. CASE Engaged(a)
    <3>1. row.status \notin {"absent", "staged"} /\ ledger # "suppressed"
      BY <1>1, <1>2, <2>1 DEF WayInv
    <3>2. a.pc \notin Settlers \cup {"stage"}
      BY <2>1 DEF Engaged, InLoop, InPost, Loop, Heading, Settlers
    <3>3. QED
      BY <1>1, <1>2, <3>1, <3>2, StatusMoves DEF Tale, RowTale
  <2>2. CASE a.pc \in {"markQueued", "owner"} /\ ledger' = "queued" /\ row' = row
    BY <1>1, <1>2, <2>2 DEF SettleInv, CourseInv
  <2>3. CASE a.pc = "idle" /\ row.status = "absent" /\ row'.status = "skipped"
    <3>1. ledger = "prepared"
      BY <1>2, <2>3 DEF SettleInv, CourseInv
    <3>2. QED
      BY <1>1, <1>2, <2>3, <3>1 DEF Tale, Settlers
  <2>4. QED
    BY <1>1, <1>2, <1>3, <2>1, <2>2, <2>3 DEF Honest
<1>4. QED
  BY <1>1, <1>3 DEF WayInv, Engaged, InLoop, InPost

\* What is sent now is sent by the process in its loop
LEMMA NewlySent ==
    ASSUME NEW p, LedgerFacts(p), ~Sent, Sent'
    PROVE  /\ Hands(p) /\ row' = row /\ proc[p].pc = "handoff" /\ Engaged(proc[p])
           /\ proc'[p].pc = "respond" /\ MaySent(proc'[p])
<1>1. PICK q \in Procs : /\ Hands(q) /\ row' = row /\ proc[q].pc = "handoff"
                         /\ proc'[q].pc = "respond" /\ MaySent(proc'[q])
  BY VisibleMoves, SentMoves DEF LedgerFacts, ShowFacts
<1>2. QED
  BY <1>1 DEF LedgerFacts, Engaged, InLoop, Loop

\* The outcomes of the process go on telling of every send there was
LEMMA SoleReports ==
    ASSUME NEW p, LedgerFacts(p), Telling(proc'[p]), Sent'
    PROVE  MaySent(proc'[p])
<1>1. PICK a, b : a = proc[p] /\ b = proc'[p]
  OBVIOUS
<1>2. CASE ~Sent
  BY <1>2, NewlySent
<1>3. CASE Sent
  <2>1. Local(a) /\ (Telling(a) => MaySent(a)) /\ a.pc # "claim" /\ row.status # "absent"
    BY <1>1, <1>3 DEF LedgerFacts, SoleFrank, CleanInv, ShowFacts, HoldFacts, BaseInv, ShowInv, Unsent
  <2>2. CASE UNCHANGED vars \/ Passes \/ Renews(p)
    <3>1. b.pc = a.pc /\ b.id = a.id /\ SameBatch(a, b) /\ SameReturn(a, b)
      BY <1>1, <2>2 DEF vars, Passes, Renews, SameBatch, SameReturn, LedgerFacts
    <3>2. QED
      BY <1>1, <2>1, <3>1, SameEvidence
  <2>3. CASE WalkStep(p)
    BY <1>1, <2>1, <2>3 DEF WalkStep, Walks, Edge, Evidence
  <2>4. CASE Starts(p)
    <3>1. a.pc = "startLease"
      BY <1>1, <2>4 DEF Starts
    <3>2. Telling(a) /\ ~MidSend(a)
      BY <3>1 DEF Telling, MidSend, InPost
    <3>3. a.outs = {} /\ a.cur = "omitted"
      BY <2>1, <3>1, <3>2 DEF Local, BatchLocal, SendLocal, Fresh
    <3>4. QED
      BY <2>1, <3>2, <3>3 DEF MaySent, SentBeforeError
  <2>5. CASE Enqueues(p) \/ \E c \in NewClaims : Owns(p, c)
    BY <1>1, <2>1, <2>5 DEF Enqueues, Owns
  <2>6. CASE Recovers(p)
    BY <2>6 DEF Recovers, Telling, InPost, Loop
  <2>7. CASE Hands(p)
    <3>1. a.pc = "handoff" /\ (MaySent(a) => MaySent(b))
      BY <1>1, <2>7 DEF Hands
    <3>2. Telling(a)
      BY <3>1 DEF Telling, Loop
    <3>3. QED
      BY <1>1, <2>1, <3>1, <3>2
  <2>8. QED
    BY <2>2, <2>3, <2>4, <2>5, <2>6, <2>7 DEF LedgerFacts, ShowFacts, HoldFacts, Kinds, StepOf
<1>4. QED
  BY <1>2, <1>3

\* What is recorded as suppressed, or about to be, stays unsent
LEMMA CleanKept ==
    ASSUME NEW p, LedgerFacts(p)
    PROVE  CleanInv(p)'
<1>1. PICK a, b : a = proc[p] /\ b = proc'[p]
  OBVIOUS
<1>2. /\ Honest(p) /\ Tale(p) /\ RowTale(p) /\ WayInv(p) /\ CleanInv(p) /\ Unsent
      /\ row \in Rows /\ SnapInv
  BY DEF LedgerFacts, SoleFrank, ShowFacts, ShowInv, HoldFacts, BaseInv
<1>3. ASSUME ~Sent, Sent'
      PROVE  /\ Engaged(a) /\ a.pc = "handoff" /\ b.pc = "respond" /\ ledger # "suppressed"
             /\ row' = row /\ row.status # "staged"
  BY <1>1, <1>2, <1>3, NewlySent DEF WayInv
<1>4. ASSUME ledger' = "suppressed"
      PROVE  ~Sent'
  <2>1. ledger = "suppressed" \/ (a.pc \in Settlers /\ ((Telling(a) /\ ~MaySent(a)) \/ a.rejected))
    BY <1>1, <1>2, <1>4 DEF Tale
  <2>2. ~Sent
    BY <1>1, <1>2, <2>1 DEF CleanInv
  <2>3. QED
    BY <1>3, <2>1, <2>2 DEF Settlers
<1>5. ASSUME row'.rejected
      PROVE  ~Sent' /\ row'.status = "staged"
  <2>1. \/ row.rejected /\ row'.status = row.status
        \/ a.rejected /\ a.pc = "stage" /\ row'.status = "staged"
    BY <1>1, <1>2, <1>5 DEF RowTale
  <2>2. ~Sent /\ row'.status = "staged"
    BY <1>1, <1>2, <2>1 DEF CleanInv
  <2>3. QED
    BY <1>3, <2>2
<1>6. ASSUME b.rejected
      PROVE  ~Sent' /\ ~Engaged(b) /\ b.pc \notin {"markQueued", "owner"}
  <2>1. CASE a.rejected
    <3>1. ~Sent /\ ~Engaged(a) /\ a.pc \notin {"markQueued", "owner"}
      BY <1>1, <1>2, <2>1 DEF CleanInv
    <3>2. ~Engaged(b) /\ b.pc \notin {"markQueued", "owner"}
      BY <1>1, <1>2, <1>6, <3>1 DEF Honest
    <3>3. QED
      BY <1>3, <3>1, <3>2
  <2>2. CASE /\ (Telling(a) /\ ~MaySent(a)) \/ (a.pc = "idle" /\ row.rejected)
             /\ b.pc = "stage"
    <3>1. ~Sent
      BY <1>1, <1>2, <2>2 DEF CleanInv
    <3>2. ~Engaged(b)
      BY <2>2 DEF Engaged, InLoop, InPost, Loop, Heading
    <3>3. QED
      BY <1>3, <2>2, <3>1, <3>2
  <2>3. QED
    BY <1>1, <1>2, <1>6, <2>1, <2>2 DEF Honest
<1>7. ASSUME b.pc = "claim"
      PROVE  ~Sent'
  <2>1. a.pc = "claim" \/ ~Sent \/ (a.pc = "owner" /\ ~NeedsReconciliation(a.snap))
    BY <1>1, <1>2, <1>7 DEF Honest
  <2>2. ~Sent
    BY <1>1, <1>2, <2>1 DEF CleanInv
  <2>3. QED
    BY <1>3, <1>7, <2>2
<1>8. ASSUME b.pc = "owner", ~NeedsReconciliation(b.snap)
      PROVE  ~Sent'
  <2>1. CASE a.pc = "owner" /\ b.snap = a.snap
    BY <1>1, <1>2, <1>3, <1>8, <2>1 DEF CleanInv
  <2>2. CASE row.status = "pending" /\ b.snap.rs = row.rs
    <3>1. row.rs \in {"none", "claimed"}
      BY <1>2, <1>8, <2>2 DEF NeedsReconciliation, SnapInv, Rows, RecoveryStates
    <3>2. ~Sent
      BY <1>2, <2>2, <3>1 DEF Unsent
    <3>3. QED
      BY <1>3, <1>8, <3>2
  <2>3. QED
    BY <1>1, <1>2, <1>8, <2>1, <2>2 DEF Honest
<1>9. Telling(b) /\ Sent' => MaySent(b)
  BY <1>1, SoleReports
<1>10. CleanInv(p)'
  <2>1. /\ ledger' = "suppressed" => ~Sent'
        /\ row'.rejected => ~Sent' /\ row'.status = "staged"
        /\ b.rejected => ~Sent' /\ ~Engaged(b) /\ b.pc \notin {"markQueued", "owner"}
        /\ b.pc = "claim" => ~Sent'
        /\ b.pc = "owner" /\ ~NeedsReconciliation(b.snap) => ~Sent'
        /\ Telling(b) /\ Sent' => MaySent(b)
    BY <1>4, <1>5, <1>6, <1>7, <1>8, <1>9
  <2>2. QED
    BY <1>1, <2>1 DEF CleanInv, Sent, Engaged, InLoop, InPost, NeedsReconciliation, Telling, MaySent,
       SentBeforeError
<1>11. QED
  BY <1>10

\* The invariant of the theorem holds at the start
LEMMA LedgerInit ==
    ASSUME Init, TimersOnTime, NEW p \in Procs
    PROVE  LedgerInv(p)
<1>1. OnceInv /\ SettleInv(p) /\ TruthInv
  BY OnceInit, SettleInit, DeliveredInit DEF DeliveredInv
<1>2. PICK a : a = Idle
  OBVIOUS
<1>3. a.pc = "idle" /\ ~a.rejected /\ a.snap.rs = "none"
  BY <1>2 DEF Idle, NoRow
<1>4. /\ \A q \in Procs : proc[q] = a
      /\ row.status = "absent" /\ ~row.rejected /\ ledger = "prepared"
  BY <1>2 DEF Init, NoRow
<1>5. ~Engaged(a) /\ ~Telling(a)
  BY <1>3 DEF Engaged, InLoop, InPost, Loop, Heading, Telling
<1>6. SnapInv /\ WayInv(p) /\ CleanInv(p)
  BY <1>3, <1>4, <1>5 DEF SnapInv, WayInv, CleanInv
<1>7. QED
  BY <1>1, <1>6 DEF LedgerInv, SoleFrank

\* and every step of the only process keeps it
LEMMA LedgerStep ==
    ASSUME NEW p, Procs = {p}, LedgerInv(p), [Next]_vars
    PROVE  LedgerInv(p)'
<1>1. ShowFacts /\ BaseInv /\ FrankInv
  BY EveryStep DEF LedgerInv, SoleFrank, SettleInv, OnceInv, GuardInv, ShowFacts, HoldFacts
<1>2. LedgerFacts(p)
  BY <1>1, SoleTells DEF LedgerFacts, LedgerInv
<1>3. OnceInv'
  BY OnceStep DEF LedgerInv
<1>4. SettleInv(p)' /\ SnapInv'
  BY <1>1, SettleKept, SnapKept DEF LedgerInv, SoleFrank
<1>5. TruthInv'
  BY <1>1, DeliveredKept DEF DeliveredInv, LedgerInv, SoleFrank
<1>6. WayInv(p)' /\ CleanInv(p)'
  BY <1>2, WayKept, CleanKept
<1>7. QED
  BY <1>3, <1>4, <1>5, <1>6 DEF LedgerInv, SoleFrank

\* With one process at work and timers on time, the completion owner is told the
\* truth, whatever fails, crashes and is recovered: what it records as delivered
\* was sent and what it records as suppressed was not (completeDurableDelivery,
\* settleDurableDelivery)
THEOREM DeliveryLedgerTruth ==
    (\E p : Procs = {p}) /\ TimersOnTime /\ Spec => []LedgerTruth
<1>1. SUFFICES ASSUME NEW p, Procs = {p}, TimersOnTime
               PROVE  Spec => []LedgerTruth
  OBVIOUS
<1>2. Init => LedgerInv(p)
  BY <1>1, LedgerInit
<1>3. LedgerInv(p) /\ [Next]_vars => LedgerInv(p)'
  BY <1>1, LedgerStep
<1>4. ASSUME LedgerInv(p), TypeOK
      PROVE  LedgerTruth
  <2>1. visible \in [1 .. Batch -> 0 .. 2] /\ TruthInv /\ CleanInv(p)
    BY <1>4 DEF TypeOK, LedgerInv, SoleFrank
  <2>2. (ledger = "delivered" => Sent) /\ (ledger = "suppressed" => ~Sent)
    BY <2>1 DEF TruthInv, CleanInv
  <2>3. ~Sent => \A i \in 1 .. Batch : visible[i] = 0
    BY <2>1 DEF Sent
  <2>4. QED
    BY <1>4, <2>2, <2>3 DEF LedgerTruth, Sent
<1>5. Spec => []TypeOK
  BY DeliveryTypes
<1>6. QED
  BY <1>2, <1>3, <1>4, <1>5, PTL DEF Spec
=============================================================================
