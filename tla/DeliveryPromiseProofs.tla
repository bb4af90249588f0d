------------------------ MODULE DeliveryPromiseProofs ------------------------
(***************************************************************************)
(* With timers on time the delivery queue implements what it promises for  *)
(* one delivery (OutboundDelivery), for every number of processes,         *)
(* payloads, retries and disturbances and every lease and policy.          *)
(*                                                                         *)
(* The invariants of DeliveryQueueProofs say that no payload is sent twice *)
(* and that who reports a delivery has sent.  They do not say to which row *)
(* the evidence of a send is written.  The markers: every step of a        *)
(* process is Firm, so that what records a possible send comes to a row    *)
(* that is marked (Backed), and no snapshot shows that row without its     *)
(* marker (Echo).  The promise: with these invariants every kind of step   *)
(* is a step of the delivery, or none.                                     *)
(***************************************************************************)
EXTENDS DeliveryQueueProofs

-----------------------------------------------------------------------------
(* Evidence comes after a marker: what an activity knows of its markers.   *)

\* What may have been sent was sent behind a marker or a removed intent
Earnest(a) ==
    SentBeforeError(a) \/ a.dispatched \/ a.post # "none" \/ InPost(a) => a.pre # "none"

\* The activity is about to record that something may have been sent
Witness(a) == a.pc = "fail" /\ a.how = "after"
Backing(a) == a.pre # "none" \/ Witness(a)

\* A marker of the activity comes with the marker of the row, or with its end
Firm(p) ==
    LET a == proc[p]
        b == proc'[p]
    IN /\ Earnest(b)
       /\ b.pre # "none" => a.pre # "none" \/ b.pre = "acked" \/ Marks(p)
       /\ Witness(b) => Backing(a)

\* A process whose activity is known, and sends behind markers
Ardent(p) == Known(p) /\ Earnest(proc[p])

\* An activity with its marker stays firm as long as it keeps one
LEMMA FirmMarked ==
    ASSUME NEW p, proc[p].pre # "none", proc'[p].pre # "none"
    PROVE  Firm(p)
BY DEF Firm, Earnest, Backing

\* What an activity knows of its sends stays the same
LEMMA FirmSame ==
    ASSUME NEW p, Earnest(proc[p]), SameMarks(proc[p], proc'[p]), SameBatch(proc[p], proc'[p]),
           InPost(proc'[p]) => InPost(proc[p]) \/ proc[p].pre # "none",
           Witness(proc'[p]) => Backing(proc[p])
    PROVE  Firm(p)
<1>1. SentBeforeError(proc'[p]) <=> SentBeforeError(proc[p])
  BY DEF SentBeforeError, SameBatch
<1>2. QED
  BY <1>1 DEF Firm, Earnest, SameMarks, SameBatch

\* An activity without outcomes and markers
LEMMA FirmNone ==
    ASSUME NEW p, NEW b, b = proc'[p], b.outs = {}, ~b.dispatched, b.pre = "none", b.post = "none",
           ~InPost(b), Witness(b) => Backing(proc[p])
    PROVE  Firm(p)
<1>1. ~SentBeforeError(b)
  BY DEF SentBeforeError
<1>2. QED
  BY <1>1 DEF Firm, Earnest

\* So is one that ends or does its last operation
LEMMA FirmBare ==
    ASSUME NEW p, NEW b, b = proc'[p], Bare(b), ~InPost(b), Witness(b) => Backing(proc[p])
    PROVE  Firm(p)
BY FirmNone DEF Bare

\* An activity is over
LEMMA FirmIdle ==
    ASSUME NEW p, Ardent(p), Become(p, Idle)
    PROVE  Firm(p)
<1>1. PICK b : b = Idle
  OBVIOUS
<1>2. b.pc = "idle" /\ b.outs = {} /\ ~b.dispatched /\ b.pre = "none" /\ b.post = "none"
  BY <1>1 DEF Idle
<1>3. ~InPost(b) /\ ~Witness(b)
  BY <1>2 DEF InPost, Witness
<1>4. proc'[p] = b
  BY <1>1, BecomeMoves DEF Ardent
<1>5. QED
  BY <1>2, <1>3, <1>4, FirmNone

\* The flow goes on elsewhere
LEMMA FirmTo ==
    ASSUME NEW p, Ardent(p), NEW pc \in Pcs, pc # "fail",
           pc \in {"postMark", "postAck", "postFail"} => InPost(proc[p]), Become(p, To(p, pc))
    PROVE  Firm(p)
<1>1. CASE pc = "idle"
  BY <1>1, ToIdle, FirmIdle, KnownTyped DEF Ardent
<1>2. CASE pc # "idle"
  <2>1. PICK b : b = To(p, pc)
    OBVIOUS
  <2>2. b.pc = pc /\ SameMarks(proc[p], b) /\ SameBatch(proc[p], b)
    BY <1>2, <2>1, ToFields, KnownTyped DEF Ardent
  <2>3. proc'[p] = b /\ Earnest(proc[p])
    BY <2>1, BecomeMoves DEF Ardent
  <2>4. ~Witness(b) /\ (InPost(b) => InPost(proc[p]))
    BY <2>2 DEF Witness, InPost
  <2>5. QED
    BY <2>2, <2>3, <2>4, FirmSame
<1>3. QED
  BY <1>1, <1>2

\* A payload ends, with an outcome that counts as sent behind a marker only
LEMMA FirmAfter ==
    ASSUME NEW p, Ardent(p), proc[p].i <= Batch, NEW c \in Outcomes,
           c \in {"sent", "partial", "noIdentity", "ambiguous"} => proc[p].pre # "none",
           Become(p, After(p, c))
    PROVE  Firm(p)
<1>1. PICK a, b : a = proc[p] /\ b = After(p, c)
  OBVIOUS
<1>2. p \in Procs /\ a \in Activities /\ Earnest(a) /\ proc'[p] = b
  BY <1>1, KnownTyped, BecomeMoves DEF Ardent
<1>3. /\ b.pc \in {"payload", "thrown", "recThrown"} /\ SameMarks(a, b)
      /\ b.outs = a.outs \cup {c} /\ b.dispatched = a.dispatched
  BY <1>1, <1>2, AfterFields DEF Escape
<1>4. ~InPost(b) /\ ~Witness(b)
  BY <1>3 DEF InPost, Witness
<1>5. SentBeforeError(b) => SentBeforeError(a) \/ a.pre # "none"
  BY <1>1, <1>3 DEF SentBeforeError
<1>6. QED
  BY <1>1, <1>2, <1>3, <1>4, <1>5 DEF Firm, Earnest, SameMarks

\* A failure after the send is recorded by an activity with a marker
LEMMA FirmFailing ==
    ASSUME NEW p, Ardent(p), NEW how \in {"plain", "before", "after"}, how = "after" => proc[p].pre # "none",
           NEW good \in {"idle", "thrownLate", "recUnknown", "recThrownLate"},
           NEW bad \in {"idle", "thrownLate", "recUnknown", "recThrownLate"},
           Become(p, Failing(p, how, good, bad))
    PROVE  Firm(p)
<1>1. good \in Pcs /\ bad \in Pcs
  BY DEF Pcs, PcLive, PcRecovery, PcShared
<1>2. PICK a, b : a = proc[p] /\ b = Failing(p, how, good, bad)
  OBVIOUS
<1>3. p \in Procs /\ a \in Activities /\ Earnest(a) /\ proc'[p] = b
  BY <1>2, KnownTyped, BecomeMoves DEF Ardent
<1>4. /\ b.pc = "fail" /\ b.how = how
      /\ Bare(b) \/ (SameMarks(a, b) /\ SameBatch(a, b))
  BY <1>1, <1>2, <1>3, FailingFields
<1>5. ~InPost(b) /\ (Witness(b) => Backing(a))
  BY <1>2, <1>4 DEF InPost, Witness, Backing
<1>6. QED
  BY <1>2, <1>3, <1>4, <1>5, FirmSame, FirmBare

\* Evidence is going to be recorded by an activity with a marker
LEMMA FirmPersist ==
    ASSUME NEW p, Ardent(p), proc[p].pre # "none", NEW good \in Pcs, NEW bad \in Pcs,
           Become(p, Persist(p, good, bad))
    PROVE  Firm(p)
<1>1. PICK b : b = Persist(p, good, bad)
  OBVIOUS
<1>2. SameMarks(proc[p], b) /\ proc'[p] = b
  BY <1>1, PersistFields, KnownTyped, BecomeMoves DEF Ardent
<1>3. QED
  BY <1>2, FirmMarked DEF SameMarks

\* A settlement is going to be staged
LEMMA FirmStaging ==
    ASSUME NEW p, Ardent(p), NEW v \in BOOLEAN, Become(p, Staging(p, v))
    PROVE  Firm(p)
<1>1. PICK b : b = Staging(p, v)
  OBVIOUS
<1>2. b.pc = "stage" /\ Bare(b) /\ proc'[p] = b
  BY <1>1, StagingFields, KnownTyped, BecomeMoves DEF Ardent
<1>3. ~InPost(b) /\ ~Witness(b)
  BY <1>2 DEF InPost, Witness
<1>4. QED
  BY <1>2, <1>3, FirmBare

\* The row is going to be dropped
LEMMA FirmDrop ==
    ASSUME NEW p, Ardent(p), Become(p, Last(proc[p], "dropRow"))
    PROVE  Firm(p)
<1>1. PICK b : b = Last(proc[p], "dropRow")
  OBVIOUS
<1>2. "dropRow" \in Pcs /\ proc[p] \in Activities
  BY KnownTyped DEF Ardent, Pcs, PcLive
<1>3. b.pc = "dropRow" /\ Bare(b) /\ proc'[p] = b
  BY <1>1, <1>2, LastFields, BecomeMoves DEF Ardent
<1>4. ~InPost(b) /\ ~Witness(b)
  BY <1>3 DEF InPost, Witness
<1>5. QED
  BY <1>3, <1>4, FirmBare

\* The send begins without a new marker, or the payload fails first
LEMMA FirmBegin ==
    ASSUME NEW p, Ardent(p), proc[p].i <= Batch, proc[p].pc \in Loop,
           NEW pre \in {"none", "marked", "acked"},
           NEW post \in {"none", "marked", "acked", "failed"},
           pre = "none" => post = proc[p].post /\ proc[p].pre = "none",
           pre = "marked" => proc[p].pre = "marked" \/ Marks(p),
           Become(p, Begin(p, pre, post))
    PROVE  Firm(p)
<1>1. PICK a, b : a = proc[p] /\ b = Begin(p, pre, post)
  OBVIOUS
<1>2. p \in Procs /\ a \in Activities /\ Earnest(a) /\ proc'[p] = b
  BY <1>1, KnownTyped, BecomeMoves DEF Ardent
<1>3. /\ b.pre = pre /\ b.post = post /\ b.dispatched = a.dispatched
      /\ b.pc \in {"payload", "thrown", "recThrown", "dispatch"}
      /\ b.outs = a.outs \/ b.outs = a.outs \cup {"early"}
  BY <1>1, <1>2, BeginFields DEF Escape
<1>4. ~InPost(b) /\ ~Witness(b)
  BY <1>3 DEF InPost, Witness
<1>5. SentBeforeError(b) => SentBeforeError(a)
  BY <1>3 DEF SentBeforeError
<1>6. QED
  BY <1>1, <1>2, <1>3, <1>4, <1>5 DEF Firm, Earnest

\* A write that is reported as done found the row as it has to be
LEMMA WriteDone ==
    ASSUME NEW p, NEW cond, NEW new, NEW good, NEW bad, WriteIf(p, cond, new, good, bad)
    PROVE  (cond /\ row' = new /\ Become(p, good)) \/ Become(p, bad)
BY DEF WriteIf, Write, Refuse

\* A claim that is over, and a crash
LEMMA FirmEnds ==
    ASSUME NEW p, Ardent(p), DropRow(p) \/ OwnerAck(p) \/ Finalize(p) \/ Restore(p) \/ Crash(p)
    PROVE  Firm(p)
<1>1. Become(p, Idle)
  BY WriteEnds DEF DropRow, OwnerAck, Finalize, Restore, Crash
<1>2. QED
  BY <1>1, FirmIdle

\* The next payload fails, is left out or goes to its send, and the batch returns
LEMMA FirmPayload ==
    ASSUME NEW p, Ardent(p), Payload(p) \/ BatchReturns(p)
    PROVE  Firm(p)
<1>1. {"start", "recReturned", "returned"} \subseteq Pcs
  BY DEF Pcs, Loop, PcLive, PcRecovery
<1>2. CASE Payload(p)
  <2>1. \/ \E c \in {"omitted", "early", "refused"} : Become(p, After(p, c))
        \/ Become(p, To(p, "start"))
    BY <1>2 DEF Payload, Goto
  <2>2. {"omitted", "early", "refused"} \subseteq Outcomes /\ proc[p].i <= Batch
    BY <1>2 DEF Outcomes, Failures, Payload
  <2>3. QED
    BY <1>1, <2>1, <2>2, FirmAfter, FirmTo
<1>3. CASE BatchReturns(p)
  <2>1. PICK pc \in {"recReturned", "returned"} : Become(p, To(p, pc))
    BY <1>3 DEF BatchReturns, Goto
  <2>2. QED
    BY <1>1, <2>1, FirmTo
<1>4. QED
  BY <1>2, <1>3

\* The payload at hand fails before its send
LEMMA FirmEarly ==
    ASSUME NEW p, Ardent(p), proc[p].pc \in {"start", "startAck", "dispatch", "handoff"},
           Become(p, After(p, "early"))
    PROVE  Firm(p)
<1>1. proc[p].i <= Batch
  BY AtHand DEF Ardent
<1>2. "early" \in Outcomes
  BY DEF Outcomes, Failures
<1>3. QED
  BY <1>1, <1>2, FirmAfter

\* The start marker: the activity has it when the row got it
LEMMA FirmStart ==
    ASSUME NEW p, Ardent(p), row \in Rows, StartSend(p)
    PROVE  Firm(p)
<1>1. PICK a : a = proc[p]
  OBVIOUS
<1>2. /\ a.pc = "start" /\ a.i <= Batch /\ a.pc \in Loop
      /\ a.pre \in {"none", "marked", "acked"} /\ a.post \in {"none", "marked", "acked", "failed"}
      /\ a.id \in Claims \cup {NoClaim}
  BY <1>1, AtHand, KnownTyped DEF StartSend, At, Ardent, Activities
<1>3. PICK c, post : c = a.id /\ post = a.post
  OBVIOUS
<1>4. \/ Become(p, Begin(p, a.pre, post))
      \/ a.pre = "none" /\ Promotable(row, c) /\ row' = Promoted(row, c) /\ Become(p, Begin(p, "marked", post))
      \/ Become(p, After(p, "early"))
      \/ Become(p, To(p, "startAck"))
  <2>1. CASE Exact \/ a.pre # "none"
    BY <1>1, <1>3, <2>1 DEF StartSend, Refuse
  <2>2. CASE ~(Exact \/ a.pre # "none")
    BY <1>1, <1>3, <2>2, WriteDone DEF StartSend
  <2>3. QED
    BY <2>1, <2>2
<1>5. CASE Become(p, Begin(p, a.pre, post))
  <2>1. PICK pre : pre = a.pre
    OBVIOUS
  <2>2. QED
    BY <1>1, <1>2, <1>3, <1>5, <2>1, FirmBegin
<1>6. CASE a.pre = "none" /\ Promotable(row, c) /\ row' = Promoted(row, c) /\ Become(p, Begin(p, "marked", post))
  <2>1. /\ row'.status = row.status /\ row'.rs = "started"
        /\ row'.claim = NoClaim /\ row'.attempt = c /\ row'.ttl = row.ttl
    BY <1>2, <1>3, <1>6, PromotedTyped
  <2>2. Marks(p)
    BY <1>1, <1>2, <1>3, <1>6, <2>1 DEF Marks, Promotable
  <2>3. QED
    BY <1>1, <1>2, <1>3, <1>6, <2>2, FirmBegin
<1>7. "startAck" \in Pcs
  BY DEF Pcs, Loop
<1>8. QED
  BY <1>1, <1>2, <1>4, <1>5, <1>6, <1>7, FirmEarly, FirmTo

\* The removal of the intent before the first send
LEMMA FirmStartAck ==
    ASSUME NEW p, Ardent(p), StartAck(p)
    PROVE  Firm(p)
<1>1. /\ proc[p].pc = "startAck" /\ proc[p].i <= Batch /\ proc[p].pc \in Loop
      /\ proc[p].post \in {"none", "marked", "acked", "failed"}
  BY AtHand, KnownTyped DEF StartAck, At, Ardent, Activities
<1>2. PICK post : post = IF proc[p].recovery THEN proc[p].post ELSE "acked"
  OBVIOUS
<1>3. Become(p, Begin(p, "acked", post)) \/ Become(p, After(p, "early"))
  BY <1>2, WriteEnds DEF StartAck
<1>4. post \in {"none", "marked", "acked", "failed"}
  BY <1>1, <1>2
<1>5. QED
  BY <1>1, <1>3, <1>4, FirmBegin, FirmEarly

\* The proof of the claim right before the handoff: a marker, or what stands for one
LEMMA FirmDispatch ==
    ASSUME NEW p, Ardent(p), row \in Rows, DispatchMark(p)
    PROVE  Firm(p)
<1>1. PICK a, c : a = proc[p] /\ c = a.id
  OBVIOUS
<1>2. PICK q : q = [a EXCEPT !.pc = "handoff", !.pre = "marked"]
  OBVIOUS
<1>3. /\ a.pc = "dispatch" /\ a \in Activities /\ Earnest(a) /\ c \in Claims \cup {NoClaim}
  BY <1>1, KnownTyped DEF DispatchMark, At, Ardent, Activities
<1>4. \/ Become(p, To(p, "handoff"))
      \/ Become(p, After(p, "early"))
      \/ /\ a.pre # "acked" /\ Dispatchable(row, c) /\ row' = Dispatched(row, c)
         /\ Become(p, Flow(q))
  <2>1. CASE a.pre = "acked" \/ a.post # "none"
    BY <1>1, <2>1 DEF DispatchMark, Refuse
  <2>2. CASE ~(a.pre = "acked" \/ a.post # "none")
    BY <1>1, <1>2, <2>2, WriteDone DEF DispatchMark
  <2>3. QED
    BY <2>1, <2>2
<1>5. "handoff" \in Pcs
  BY DEF Pcs, Loop
<1>6. CASE /\ a.pre # "acked" /\ Dispatchable(row, c) /\ row' = Dispatched(row, c)
           /\ Become(p, Flow(q))
  <2>1. /\ row'.status = row.status /\ row'.claim = NoClaim
        /\ row'.rs = IF row.rs = "unknown" THEN "unknown" ELSE "started"
        /\ row'.attempt = c /\ row'.ttl = row.ttl
    BY <1>3, <1>6, DispatchedTyped
  <2>2. Marks(p)
    BY <1>1, <1>3, <1>6, <2>1 DEF Marks, Dispatchable
  <2>3. PICK b : b = Flow(q)
    OBVIOUS
  <2>4. q \in Activities /\ q.pc = "handoff" /\ q.pre = "marked"
    BY <1>2, <1>3, <1>5 DEF Activities
  <2>5. b.pc = "handoff" /\ b.pre = "marked"
    BY <2>3, <2>4, FlowFields DEF SameMarks
  <2>6. proc'[p] = b
    BY <1>6, <2>3, BecomeMoves DEF Ardent
  <2>7. QED
    BY <2>2, <2>5, <2>6 DEF Firm, Earnest, Witness
<1>7. QED
  BY <1>1, <1>3, <1>4, <1>5, <1>6, FirmEarly, FirmTo

\* The adapter is called and answers behind a marker
LEMMA FirmHands ==
    ASSUME NEW p, Ardent(p), Handoff(p) \/ Respond(p)
    PROVE  Firm(p)
<1>1. PICK a : a = proc[p]
  OBVIOUS
<1>2. /\ a \in Activities /\ a.pc \in {"handoff", "respond"} /\ a.pre # "none" /\ a.i <= Batch
      /\ a.cur \in Outcomes
  BY <1>1, AtHand, KnownTyped DEF Handoff, Respond, At, Ardent, Local, MarkLocal, MidSend, Activities
<1>3. CASE Handoff(p)
  <2>1. \/ Become(p, After(p, "early"))
        \/ \E c \in Outcomes :
             Become(p, [a EXCEPT !.pc = "respond", !.cur = c, !.dispatched = TRUE, !.snap = NoRow])
    BY <1>1, <1>3 DEF Handoff, Outcomes, Failures
  <2>2. ASSUME NEW b, b.pre = a.pre, Become(p, b)
        PROVE  Firm(p)
    BY <1>1, <1>2, <2>2, BecomeMoves, FirmMarked DEF Ardent
  <2>3. ASSUME NEW c \in Outcomes
        PROVE  [a EXCEPT !.pc = "respond", !.cur = c, !.dispatched = TRUE, !.snap = NoRow].pre = a.pre
    BY <1>2 DEF Activities
  <2>4. a.pc = "handoff"
    BY <1>1, <1>3 DEF Handoff, At
  <2>5. QED
    BY <1>1, <2>1, <2>2, <2>3, <2>4, FirmEarly
<1>4. CASE Respond(p)
  <2>1. CASE a.cur = "sent" /\ a.post = "none"
    <3>1. Become(p, Persist(p, "payload", "payload")) /\ "payload" \in Pcs
      BY <1>1, <1>4, <2>1 DEF Respond, Pcs, Loop
    <3>2. QED
      BY <1>1, <1>2, <3>1, FirmPersist
  <2>2. CASE ~(a.cur = "sent" /\ a.post = "none")
    <3>1. PICK c : c = a.cur
      OBVIOUS
    <3>2. Become(p, After(p, c))
      BY <1>1, <1>4, <2>2, <3>1 DEF Respond
    <3>3. QED
      BY <1>1, <1>2, <3>1, <3>2, FirmAfter
  <2>3. QED
    BY <2>1, <2>2
<1>5. QED
  BY <1>3, <1>4

\* The evidence of a send is written down by an activity with a marker
LEMMA FirmPosts ==
    ASSUME NEW p, Ardent(p), PostMark(p) \/ PostAck(p) \/ PostFail(p)
    PROVE  Firm(p)
<1>1. PICK a : a = proc[p]
  OBVIOUS
<1>2. /\ InPost(a) /\ a.pre # "none" /\ p \in Procs /\ a \in Activities
      /\ a.ret = "payload" => a.i <= Batch
  BY <1>1, KnownTyped DEF PostMark, PostAck, PostFail, At, InPost, Ardent, Earnest, Local, SendLocal, MidSend
<1>3. \/ \E s \in {"marked", "acked", "failed"} : Become(p, Persisted(p, s))
      \/ Become(p, Unpersisted(p))
      \/ \E pc \in {"postAck", "postFail"} : Become(p, To(p, pc))
  <2>1. CASE PostMark(p)
    <3>1. CASE ~proc[p].live
      BY <2>1, <3>1 DEF PostMark, Refuse
    <3>2. CASE proc[p].live
      BY <2>1, <3>2, WriteEnds DEF PostMark
    <3>3. QED
      BY <3>1, <3>2
  <2>2. CASE PostAck(p)
    BY <2>2, WriteEnds DEF PostAck
  <2>3. CASE PostFail(p)
    BY <2>3, WriteEnds DEF PostFail
  <2>4. QED
    BY <2>1, <2>2, <2>3
<1>4. {"postAck", "postFail"} \subseteq Pcs
  BY DEF Pcs, PcShared
<1>5. ASSUME NEW b, b.pre = a.pre, Become(p, b)
      PROVE  Firm(p)
  BY <1>1, <1>2, <1>5, BecomeMoves, FirmMarked DEF Ardent
<1>6. ASSUME NEW s \in {"marked", "acked", "failed"}, Become(p, Persisted(p, s))
      PROVE  Firm(p)
  <2>1. PICK b : b = Persisted(p, s)
    OBVIOUS
  <2>2. b = Idle \/ b.pre = a.pre
    BY <1>1, <1>2, <2>1, PersistedFields
  <2>3. QED
    BY <1>5, <1>6, <2>1, <2>2, FirmIdle
<1>7. CASE Become(p, Unpersisted(p))
  <2>1. PICK b : b = Unpersisted(p)
    OBVIOUS
  <2>2. b = Idle \/ b.pre = a.pre
    BY <1>1, <1>2, <2>1, UnpersistedFields DEF SameMarks
  <2>3. QED
    BY <1>5, <1>7, <2>1, <2>2, FirmIdle
<1>8. QED
  BY <1>1, <1>2, <1>3, <1>4, <1>6, <1>7, FirmTo

\* The places that end a delivery record nothing by themselves
LEMMA FirmOut ==
    ASSUME NEW p, Ardent(p),
           NEW pc \in {"idle", "dropRow", "failures", "ledger", "ack", "thrownLate", "thrownPost",
                       "ownerAck", "sentAck", "sentLedger", "recUnknown", "recAck", "recThrown",
                       "recLedger", "recThrownLate", "stage", "startLease", "reconcile", "claim",
                       "finalize", "restore"},
           Become(p, To(p, pc))
    PROVE  Firm(p)
<1>1. pc \in Pcs
  BY DEF Pcs, PcLive, PcRecovery, PcShared
<1>2. QED
  BY <1>1, FirmTo

\* A failure that is no witness
LEMMA FirmDefers ==
    ASSUME NEW p, Ardent(p), NEW how \in {"plain", "before"},
           NEW good \in {"idle", "thrownLate", "recUnknown", "recThrownLate"},
           NEW bad \in {"idle", "thrownLate", "recUnknown", "recThrownLate"},
           Become(p, Failing(p, how, good, bad))
    PROVE  Firm(p)
BY FirmFailing

\* What has results was sent behind a marker
LEMMA Behind ==
    ASSUME NEW a, Earnest(a),
           Results(a) \/ SentBeforeError(a) \/ a.dispatched \/ a.post # "none" \/ InPost(a)
    PROVE  a.pre # "none"
BY DEF Earnest, Results, SentBeforeError

\* A failure is recorded
LEMMA FirmFailStep ==
    ASSUME NEW p, Ardent(p), FailStep(p)
    PROVE  Firm(p)
<1>1. proc[p].pc = "fail" /\ Local(proc[p])
  BY KnownTyped DEF FailStep, At, Ardent
<1>2. \E pc \in {proc[p].ret, proc[p].esc} : Become(p, To(p, pc))
  BY WriteEnds DEF FailStep
<1>3. {proc[p].ret, proc[p].esc} \subseteq {"idle", "thrownLate", "recUnknown", "recThrownLate"}
  BY <1>1 DEF Local, FailLocal
<1>4. QED
  BY <1>2, <1>3, FirmOut

\* The end of a live batch
LEMMA FirmReturned ==
    ASSUME NEW p, Ardent(p), Returned(p)
    PROVE  Firm(p)
<1>1. PICK a : a = proc[p]
  OBVIOUS
<1>2. PICK next : next = IF FailedOuts(a) # {} /\ a.id # NoClaim THEN "failures" ELSE "ledger"
  OBVIOUS
<1>3. \/ Become(p, Idle) \/ Become(p, To(p, next))
      \/ /\ SentBeforeError(a) \/ Results(a) \/ a.pre = "marked"
         /\ Become(p, Persist(p, next, "thrownLate"))
  BY <1>1, <1>2 DEF Returned
<1>4. next \in {"failures", "ledger"} /\ {"failures", "ledger", "thrownLate"} \subseteq Pcs
  BY <1>2 DEF Pcs, PcLive
<1>5. SentBeforeError(a) \/ Results(a) \/ a.pre = "marked" => a.pre # "none"
  BY <1>1, Behind DEF Ardent
<1>6. QED
  BY <1>1, <1>3, <1>4, <1>5, FirmIdle, FirmOut, FirmPersist

\* The completion owner of a live delivery is settled
LEMMA FirmLedger ==
    ASSUME NEW p, Ardent(p), Ledger(p)
    PROVE  Firm(p)
<1>1. PICK a : a = proc[p]
  OBVIOUS
<1>2. \/ Become(p, Idle)
      \/ a.post = "marked" /\ Become(p, Failing(p, "after", "idle", "thrownLate"))
      \/ \E pc \in {"ack", "thrownLate"} : Become(p, To(p, pc))
  <2>1. CASE a.post \in {"acked", "failed"}
    BY <1>1, <2>1, PatchEnds DEF Ledger
  <2>2. CASE a.post \notin {"acked", "failed"} /\ ~Results(a) /\ a.post = "marked"
    BY <1>1, <2>2, PatchEnds DEF Ledger
  <2>3. CASE a.post \notin {"acked", "failed"} /\ ~(~Results(a) /\ a.post = "marked")
    BY <1>1, <2>3, PatchEnds DEF Ledger
  <2>4. QED
    BY <2>1, <2>2, <2>3
<1>3. a.post = "marked" => a.pre # "none"
  BY <1>1, Behind DEF Ardent
<1>4. QED
  BY <1>1, <1>2, <1>3, FirmIdle, FirmFailing, FirmOut

\* and its row is acknowledged, after the send or the replay
LEMMA FirmAcks ==
    ASSUME NEW p, Ardent(p), Ack(p) \/ RecAck(p) \/ SentAck(p)
    PROVE  Firm(p)
<1>1. PICK a : a = proc[p]
  OBVIOUS
<1>2. ASSUME NEW how \in {"plain", "before", "after"}, NEW good \in {"idle", "thrownLate"},
             NEW bad \in {"idle", "thrownLate", "recThrownLate"},
             how = "after" => Results(a) \/ a.pre # "none",
             Become(p, Idle) \/ Become(p, Failing(p, how, good, bad))
      PROVE  Firm(p)
  <2>1. how = "after" => a.pre # "none"
    BY <1>1, <1>2, Behind DEF Ardent
  <2>2. QED
    BY <1>1, <1>2, <2>1, FirmIdle, FirmFailing
<1>3. CASE Ack(p)
  <2>1. PICK how : how = IF Results(a) \/ (a.pre # "none" /\ ~AllSuppressed(a)) THEN "after"
                         ELSE IF AllSuppressed(a) THEN "before" ELSE "plain"
    OBVIOUS
  <2>2. PICK end : end = IF Required THEN "thrownLate" ELSE "idle"
    OBVIOUS
  <2>3. Become(p, Idle) \/ Become(p, Failing(p, how, end, end))
    BY <1>1, <1>3, <2>1, <2>2, WriteEnds DEF Ack
  <2>4. /\ how \in {"plain", "before", "after"} /\ end \in {"idle", "thrownLate"}
        /\ how = "after" => Results(a) \/ a.pre # "none"
    BY <2>1, <2>2
  <2>5. QED
    BY <1>2, <2>3, <2>4
<1>4. CASE RecAck(p)
  <2>1. PICK how : how = IF Results(a) THEN "after"
                         ELSE IF AllSuppressed(a) THEN "before" ELSE "plain"
    OBVIOUS
  <2>2. Become(p, Idle) \/ Become(p, Failing(p, how, "idle", "recThrownLate"))
    BY <1>1, <1>4, <2>1, WriteEnds DEF RecAck, Refuse
  <2>3. how \in {"plain", "before", "after"} /\ (how = "after" => Results(a))
    BY <2>1
  <2>4. QED
    BY <1>2, <2>2, <2>3
<1>5. CASE SentAck(p)
  BY <1>5, FirmIdle, FirmDefers, WriteEnds DEF SentAck
<1>6. QED
  BY <1>3, <1>4, <1>5

\* The error path after an evidence write, and the settlement of an unknown replay
LEMMA FirmLate ==
    ASSUME NEW p, Ardent(p), ThrownPost(p) \/ RecUnknown(p) \/ SentLedger(p)
    PROVE  Firm(p)
<1>1. \/ Become(p, Idle)
      \/ proc[p].post = "marked" /\ Become(p, Failing(p, "after", "idle", "idle"))
      \/ Become(p, Failing(p, "plain", "idle", "idle"))
      \/ \E pc \in {"sentAck", "recThrownLate"} : Become(p, To(p, pc))
  BY PatchEnds DEF ThrownPost, RecUnknown, SentLedger
<1>2. proc[p].post = "marked" => proc[p].pre # "none"
  BY Behind DEF Ardent
<1>3. QED
  BY <1>1, <1>2, FirmIdle, FirmFailing, FirmDefers, FirmOut

\* The settlement of a replay
LEMMA FirmRecLedger ==
    ASSUME NEW p, Ardent(p), RecLedger(p)
    PROVE  Firm(p)
<1>1. \/ Results(proc[p]) /\ Become(p, Persist(p, "recAck", "recThrownLate"))
      \/ \E pc \in {"recAck", "recThrownLate"} : Become(p, To(p, pc))
  <2>1. CASE Results(proc[p]) /\ proc[p].post = "none"
    BY <2>1, PatchEnds DEF RecLedger
  <2>2. CASE ~(Results(proc[p]) /\ proc[p].post = "none")
    BY <2>2, PatchEnds DEF RecLedger
  <2>3. QED
    BY <2>1, <2>2
<1>2. {"recAck", "recThrownLate"} \subseteq Pcs /\ (Results(proc[p]) => proc[p].pre # "none")
  BY Behind DEF Ardent, Pcs, PcRecovery
<1>3. QED
  BY <1>1, <1>2, FirmPersist, FirmOut

\* The return of a replay: what it does not know of was sent behind a marker
LEMMA FirmRecReturned ==
    ASSUME NEW p, Ardent(p), RecReturned(p)
    PROVE  Firm(p)
<1>1. PICK a : a = proc[p]
  OBVIOUS
<1>2. a \in Activities /\ Local(a) /\ a.pc = "recReturned" /\ Earnest(a)
  BY <1>1, KnownTyped DEF RecReturned, At, Ardent
<1>3. PICK hidden : hidden = (\/ "noIdentity" \in a.outs
                              \/ /\ ~Results(a) /\ FailedOuts(a) = {}
                                 /\ a.started /\ ~AllSuppressed(a))
  OBVIOUS
<1>4. \/ hidden /\ Become(p, Failing(p, "after", "recUnknown", "recThrownLate"))
      \/ \E pc \in {"recThrown", "recLedger"} : Become(p, To(p, pc))
  <2>1. CASE a.lost
    BY <1>1, <2>1 DEF RecReturned
  <2>2. CASE ~a.lost /\ hidden
    BY <1>1, <1>3, <2>2 DEF RecReturned
  <2>3. CASE ~a.lost /\ ~hidden
    BY <1>1, <1>3, <2>3 DEF RecReturned
  <2>4. QED
    BY <2>1, <2>2, <2>3 DEF RecReturned
<1>5. hidden => a.pre # "none"
  <2>1. a.i > 1
    <3>1. a.i > Batch /\ a.i \in 1 .. Batch + 1
      BY <1>2 DEF Local, BatchLocal, Activities
    <3>2. QED
      BY <3>1, BatchAssumption
  <2>2. a.outs # {} /\ a.outs \subseteq Outcomes
    BY <1>2, <2>1 DEF Local, BatchLocal, Activities
  <2>3. "noIdentity" \notin a.outs /\ ~Results(a) /\ FailedOuts(a) = {} => a.outs = {"omitted"}
    BY <2>2 DEF Results, FailedOuts, Outcomes, Failures
  <2>4. hidden => "noIdentity" \in a.outs
    BY <1>3, <2>3 DEF AllSuppressed
  <2>5. QED
    BY <1>2, <2>4 DEF Earnest, SentBeforeError
<1>6. QED
  BY <1>1, <1>4, <1>5, FirmFailing, FirmOut

\* The end of a best-effort batch with failed payloads
LEMMA FirmPartialFailure ==
    ASSUME NEW p, Ardent(p), PartialFailure(p)
    PROVE  Firm(p)
<1>1. \/ Become(p, Idle)
      \/ Become(p, Staging(p, TRUE))
      \/ \E how \in {"before", "plain"} : Become(p, Failing(p, how, "idle", "idle"))
  BY DEF PartialFailure
<1>2. QED
  BY <1>1, FirmIdle, FirmStaging, FirmDefers

\* The error path of a live delivery
LEMMA FirmThrown ==
    ASSUME NEW p, Ardent(p), Thrown(p)
    PROVE  Firm(p)
<1>1. PICK a : a = proc[p]
  OBVIOUS
<1>2. a.pc \in {"thrown", "thrownLate"}
  BY <1>1 DEF Thrown
<1>3. PICK sent : sent = (\/ SentBeforeError(a) \/ Results(a) \/ a.dispatched
                          \/ "marked" \in {a.pre, a.post})
  OBVIOUS
<1>4. \/ Become(p, Idle)
      \/ Become(p, Last(a, "dropRow"))
      \/ Become(p, Staging(p, TRUE))
      \/ \E how \in {"plain", "before"} : Become(p, Failing(p, how, "idle", "idle"))
      \/ sent /\ Become(p, Failing(p, "after", "idle", "idle"))
      \/ sent /\ Become(p, Persist(p, "thrownPost", "idle"))
      \/ Become(p, To(p, "thrownPost"))
  <2>1. CASE a.lost \/ a.cancel = "retired" \/ Released(a) \/ a.id = NoClaim
    BY <1>1, <2>1 DEF Thrown
  <2>2. CASE ~(a.lost \/ a.cancel = "retired" \/ Released(a) \/ a.id = NoClaim)
    <3>1. CASE a.aborted
      BY <1>1, <1>3, <2>2, <3>1 DEF Thrown
    <3>2. CASE ~a.aborted /\ a.pc = "thrownLate"
      BY <1>1, <2>2, <3>2 DEF Thrown
    <3>3. CASE ~a.aborted /\ a.pc = "thrown"
      BY <1>1, <1>3, <2>2, <3>3 DEF Thrown
    <3>4. QED
      BY <1>2, <3>1, <3>2, <3>3
  <2>3. QED
    BY <2>1, <2>2
<1>5. sent => a.pre # "none"
  BY <1>1, <1>3, Behind DEF Ardent
<1>6. {"thrownPost", "idle"} \subseteq Pcs
  BY DEF Pcs, PcLive, PcShared
<1>7. QED
  BY <1>1, <1>4, <1>5, <1>6, FirmIdle, FirmDrop, FirmStaging, FirmDefers, FirmFailing, FirmPersist,
     FirmOut

\* The error path of a replay
LEMMA FirmRecThrown ==
    ASSUME NEW p, Ardent(p), RecThrown(p)
    PROVE  Firm(p)
<1>1. PICK a : a = proc[p]
  OBVIOUS
<1>2. PICK evidence : evidence = (\/ Results(a) \/ a.post # "none"
                                  \/ (a.pc = "recThrown" /\ SentBeforeError(a)))
  OBVIOUS
<1>3. \/ Become(p, Idle)
      \/ \E v \in BOOLEAN : Become(p, Staging(p, v))
      \/ \E how \in {"plain", "before"} : Become(p, Failing(p, how, "idle", "idle"))
      \/ evidence /\ Become(p, Persist(p, "idle", "idle"))
  <2>1. CASE a.lost \/ evidence \/ Released(a)
    BY <1>1, <1>2, <2>1 DEF RecThrown
  <2>2. CASE ~(a.lost \/ evidence \/ Released(a))
    BY <1>1, <1>2, <2>2 DEF RecThrown
  <2>3. QED
    BY <2>1, <2>2
<1>4. evidence => a.pre # "none"
  BY <1>1, <1>2, Behind DEF Ardent
<1>5. "idle" \in Pcs
  BY DEF Pcs, PcShared
<1>6. QED
  BY <1>1, <1>3, <1>4, <1>5, FirmIdle, FirmStaging, FirmDefers, FirmPersist

\* An activity that stays as it is, but for its lease and its caller's wish
LEMMA FirmStays ==
    ASSUME NEW p, NEW b, b = proc'[p], Earnest(proc[p]),
           b.pc = proc[p].pc, b.how = proc[p].how, SameMarks(proc[p], b), SameBatch(proc[p], b)
    PROVE  Firm(p)
<1>1. InPost(b) => InPost(proc[p])
  BY DEF InPost
<1>2. Witness(b) => Backing(proc[p])
  BY DEF Witness, Backing
<1>3. QED
  BY <1>1, <1>2, FirmSame

\* What the owner notes besides its work
LEMMA FirmNotes ==
    ASSUME NEW p, Ardent(p), Renew(p) \/ Expire(p) \/ Abort(p) \/ RetireUnsent(p)
    PROVE  Firm(p)
<1>1. PICK a : a = proc[p]
  OBVIOUS
<1>2. a \in Activities
  BY <1>1, KnownTyped DEF Ardent
<1>3. ASSUME NEW b, Become(p, b), b.pc = a.pc, b.how = a.how, SameMarks(a, b), SameBatch(a, b)
      PROVE  Firm(p)
  BY <1>1, <1>3, BecomeMoves, FirmStays DEF Ardent
<1>4. CASE Renew(p)
  <2>1. PICK b : /\ Become(p, b)
                 /\ \/ b = [a EXCEPT !.lease = Lease]
                    \/ b = [a EXCEPT !.lost = ~Renewable(row, a.id) \/ a.lease = 0]
    BY <1>1, <1>4, WriteEnds DEF Renew
  <2>2. b.pc = a.pc /\ b.how = a.how /\ SameMarks(a, b) /\ SameBatch(a, b)
    BY <1>2, <2>1 DEF Activities, SameBatch, SameMarks
  <2>3. QED
    BY <1>3, <2>1, <2>2
<1>5. CASE Expire(p)
  <2>1. PICK b : b = [a EXCEPT !.lost = TRUE]
    OBVIOUS
  <2>2. Become(p, b)
    BY <1>1, <1>5, <2>1 DEF Expire
  <2>3. b.pc = a.pc /\ b.how = a.how /\ SameMarks(a, b) /\ SameBatch(a, b)
    BY <1>2, <2>1 DEF Activities, SameBatch, SameMarks
  <2>4. QED
    BY <1>3, <2>2, <2>3
<1>6. CASE Abort(p)
  <2>1. PICK c : c = (/\ a.pc # "thrown" /\ a.ret # "thrownPost" /\ ~a.started /\ a.post = "none")
    OBVIOUS
  <2>2. PICK k, h : k = (IF c THEN "pending" ELSE a.cancel) /\ h = (a.beat /\ ~c)
    OBVIOUS
  <2>3. PICK b : b = [a EXCEPT !.aborted = TRUE, !.cancel = k, !.beat = h]
    OBVIOUS
  <2>4. Become(p, b)
    BY <1>1, <1>6, <2>1, <2>2, <2>3 DEF Abort
  <2>5. b.pc = a.pc /\ b.how = a.how /\ SameMarks(a, b) /\ SameBatch(a, b)
    BY <1>2, <2>3 DEF Activities, SameBatch, SameMarks
  <2>6. QED
    BY <1>3, <2>4, <2>5
<1>7. CASE RetireUnsent(p)
  <2>1. PICK k \in {"retired", "refused"} : Become(p, [a EXCEPT !.cancel = k])
    BY <1>1, <1>7, WriteEnds DEF RetireUnsent
  <2>2. PICK b : b = [a EXCEPT !.cancel = k]
    OBVIOUS
  <2>3. b.pc = a.pc /\ b.how = a.how /\ SameMarks(a, b) /\ SameBatch(a, b)
    BY <1>2, <2>2 DEF Activities, SameBatch, SameMarks
  <2>4. QED
    BY <1>3, <2>1, <2>2, <2>3
<1>8. QED
  BY <1>4, <1>5, <1>6, <1>7

\* A claim, and the lease of a claim, bring the activity on its way
LEMMA FirmTakes ==
    ASSUME NEW p, Ardent(p), Claim(p) \/ StartLease(p) \/ Reserve(p)
    PROVE  Firm(p)
<1>1. PICK a : a = proc[p]
  OBVIOUS
<1>2. a \in Activities /\ Earnest(a)
  BY <1>1, KnownTyped DEF Ardent
<1>3. ASSUME NEW q \in Activities, SameBatch(a, q), SameMarks(a, q), q.pc \in {"reserve", "payload"},
             Become(p, Flow(q))
      PROVE  Firm(p)
  <2>1. PICK b : b = Flow(q)
    OBVIOUS
  <2>2. b.pc = q.pc /\ SameBatch(a, b) /\ SameMarks(a, b)
    BY <1>3, <2>1, FlowFields DEF SameBatch, SameMarks
  <2>3. ~InPost(b) /\ ~Witness(b)
    BY <1>3, <2>2 DEF InPost, Witness
  <2>4. proc'[p] = b
    BY <1>3, <2>1, BecomeMoves DEF Ardent
  <2>5. QED
    BY <1>1, <1>2, <2>2, <2>3, <2>4, FirmSame
<1>4. CASE Claim(p)
  <2>1. PICK c \in NewClaims :
           Become(p, Flow([a EXCEPT !.pc = "reserve", !.id = c])) \/ Become(p, Idle)
    BY <1>1, <1>4, WriteEnds DEF Claim
  <2>2. PICK q : q = [a EXCEPT !.pc = "reserve", !.id = c]
    OBVIOUS
  <2>3. "reserve" \in Pcs /\ c \in Claims
    BY DEF Pcs, PcRecovery, NewClaims
  <2>4. q \in Activities /\ q.pc = "reserve" /\ SameBatch(a, q) /\ SameMarks(a, q)
    BY <1>2, <2>2, <2>3 DEF Activities, SameBatch, SameMarks
  <2>5. QED
    BY <1>3, <2>1, <2>2, <2>4, FirmIdle
<1>5. CASE StartLease(p)
  <2>1. \/ Become(p, Flow([a EXCEPT !.pc = "payload", !.beat = TRUE, !.lease = Lease]))
        \/ \E pc \in {"recThrown", "idle"} : Become(p, To(p, pc))
    BY <1>1, <1>5, WriteEnds DEF StartLease
  <2>2. PICK q : q = [a EXCEPT !.pc = "payload", !.beat = TRUE, !.lease = Lease]
    OBVIOUS
  <2>3. "payload" \in Pcs /\ Lease \in 0 .. Lease
    BY LeaseAssumption DEF Pcs, Loop
  <2>4. q \in Activities /\ q.pc = "payload" /\ SameBatch(a, q) /\ SameMarks(a, q)
    BY <1>2, <2>2, <2>3 DEF Activities, SameBatch, SameMarks
  <2>5. QED
    BY <1>3, <2>1, <2>2, <2>4, FirmOut
<1>6. CASE Reserve(p)
  <2>1. Become(p, Staging(p, FALSE)) \/ Become(p, To(p, "startLease")) \/ Become(p, Idle)
    BY <1>6, WriteEnds DEF Reserve, Refuse
  <2>2. QED
    BY <2>1, FirmStaging, FirmOut, FirmIdle
<1>7. QED
  BY <1>4, <1>5, <1>6

\* The completion owner and the adapter are asked, a failure is staged and settled,
\* an attempt is taken back
LEMMA FirmAsks ==
    ASSUME NEW p, Ardent(p),
           \/ MarkQueued(p) \/ Owner(p) \/ Reconcile(p) \/ Stage(p) \/ Settle(p) \/ AdmissionClosed(p)
    PROVE  Firm(p)
<1>1. CASE MarkQueued(p)
  <2>1. CASE ledger \in {"prepared", "queued"}
    BY <1>1, <2>1, PatchEnds, FirmOut, FirmIdle DEF MarkQueued
  <2>2. CASE ledger \notin {"prepared", "queued"}
    BY <1>1, <2>2, FirmOut DEF MarkQueued, Goto
  <2>3. QED
    BY <2>1, <2>2
<1>2. CASE Owner(p)
  <2>1. PICK pc : pc = IF LedgerAfter(ledger, "queued") # "queued" THEN "ownerAck"
                       ELSE IF NeedsReconciliation(proc[p].snap) THEN "reconcile" ELSE "claim"
    OBVIOUS
  <2>2. SettleLedger(p, "queued", To(p, pc), Failing(p, "plain", "idle", "idle"))
    BY <1>2, <2>1 DEF Owner
  <2>3. Become(p, To(p, pc)) \/ Become(p, Failing(p, "plain", "idle", "idle"))
    BY <2>2, PatchEnds
  <2>4. pc \in {"ownerAck", "reconcile", "claim"}
    BY <2>1
  <2>5. QED
    BY <2>3, <2>4, FirmOut, FirmDefers
<1>3. CASE Reconcile(p)
  <2>1. \/ \E pc \in {"sentLedger", "claim", "stage"} : Become(p, To(p, pc))
        \/ Become(p, Failing(p, "plain", "idle", "idle"))
    BY <1>3 DEF Reconcile, Goto
  <2>2. QED
    BY <2>1, FirmOut, FirmDefers
<1>4. CASE Stage(p)
  <2>1. PICK v : v = proc[p].rejected
    OBVIOUS
  <2>2. PICK b : b = [Idle EXCEPT !.pc = "settle", !.rejected = v]
    OBVIOUS
  <2>3. Become(p, b) \/ Become(p, Idle)
    BY <1>4, <2>1, <2>2, WriteEnds DEF Stage, Refuse
  <2>4. b.pc = "settle" /\ b.outs = {} /\ ~b.dispatched /\ b.pre = "none" /\ b.post = "none"
    BY <2>2 DEF Idle
  <2>5. ~InPost(b) /\ ~Witness(b)
    BY <2>4 DEF InPost, Witness
  <2>6. ASSUME Become(p, b)
        PROVE  Firm(p)
    BY <2>4, <2>5, <2>6, BecomeMoves, FirmNone DEF Ardent
  <2>7. QED
    BY <2>3, <2>6, FirmIdle
<1>5. CASE Settle(p)
  <2>1. PICK s \in {"suppressed", "unknown"} : SettleLedger(p, s, To(p, "finalize"), Idle)
    BY <1>5 DEF Settle
  <2>2. QED
    BY <2>1, PatchEnds, FirmOut, FirmIdle
<1>6. CASE AdmissionClosed(p)
  BY <1>6, FirmOut DEF AdmissionClosed, Goto
<1>7. QED
  BY <1>1, <1>2, <1>3, <1>4, <1>5, <1>6

\* The delivery is queued, or goes on without a row, which stands for its marker
LEMMA FirmEnqueue ==
    ASSUME NEW p, Ardent(p), Enqueue(p)
    PROVE  Firm(p)
<1>1. \E c \in NewClaims :
        \/ Become(p, [Idle EXCEPT !.pc = "markQueued", !.id = c])
        \/ UNCHANGED proc
        \/ Become(p, Idle)
        \/ Become(p, [Idle EXCEPT !.pc = "payload", !.pre = "acked", !.post = "acked"])
  <2>1. CASE Required
    BY <2>1 DEF Enqueue
  <2>2. CASE ~Required
    BY <2>2 DEF Enqueue
  <2>3. QED
    BY <2>1, <2>2
<1>2. PICK c \in NewClaims :
        \/ Become(p, [Idle EXCEPT !.pc = "markQueued", !.id = c])
        \/ UNCHANGED proc
        \/ Become(p, Idle)
        \/ Become(p, [Idle EXCEPT !.pc = "payload", !.pre = "acked", !.post = "acked"])
  BY <1>1
<1>3. CASE Become(p, [Idle EXCEPT !.pc = "markQueued", !.id = c])
  <2>1. PICK b : b = [Idle EXCEPT !.pc = "markQueued", !.id = c]
    OBVIOUS
  <2>2. b.pc = "markQueued" /\ b.outs = {} /\ ~b.dispatched /\ b.pre = "none" /\ b.post = "none"
    BY <2>1 DEF Idle
  <2>3. ~InPost(b) /\ ~Witness(b)
    BY <2>2 DEF InPost, Witness
  <2>4. proc'[p] = b
    BY <1>3, <2>1, BecomeMoves DEF Ardent
  <2>5. QED
    BY <2>2, <2>3, <2>4, FirmNone
<1>4. CASE UNCHANGED proc
  BY <1>4, FirmStays DEF Ardent, SameMarks, SameBatch
<1>5. CASE Become(p, [Idle EXCEPT !.pc = "payload", !.pre = "acked", !.post = "acked"])
  <2>1. PICK b : b = [Idle EXCEPT !.pc = "payload", !.pre = "acked", !.post = "acked"]
    OBVIOUS
  <2>2. b.pc = "payload" /\ b.pre = "acked"
    BY <2>1 DEF Idle
  <2>3. proc'[p] = b
    BY <1>5, <2>1, BecomeMoves DEF Ardent
  <2>4. QED
    BY <2>2, <2>3 DEF Firm, Earnest, Witness
<1>6. QED
  BY <1>2, <1>3, <1>4, <1>5, FirmIdle

\* A process loads the row
LEMMA FirmRecover ==
    ASSUME NEW p, Ardent(p), Recover(p)
    PROVE  Firm(p)
<1>1. PICK s, i, v : s = Snapshot /\ i = RecordedOwner(row) /\ v = row.rejected
  OBVIOUS
<1>2. PICK loaded : loaded = [Idle EXCEPT !.recovery = TRUE, !.snap = s]
  OBVIOUS
<1>3. \/ Become(p, [loaded EXCEPT !.pc = "stage", !.rejected = v])
      \/ Become(p, [loaded EXCEPT !.pc = "stage"])
      \/ Become(p, [loaded EXCEPT !.pc = "owner", !.id = i])
  BY <1>1, <1>2 DEF Recover
<1>4. ASSUME NEW b, Become(p, b), b.pc \in {"stage", "owner"}, b.outs = {}, ~b.dispatched,
             b.pre = "none", b.post = "none"
      PROVE  Firm(p)
  <2>1. ~InPost(b) /\ ~Witness(b)
    BY <1>4 DEF InPost, Witness
  <2>2. QED
    BY <1>4, <2>1, BecomeMoves, FirmNone DEF Ardent
<1>5. PICK x, y, z : /\ x = [loaded EXCEPT !.pc = "stage", !.rejected = v]
                     /\ y = [loaded EXCEPT !.pc = "stage"]
                     /\ z = [loaded EXCEPT !.pc = "owner", !.id = i]
  OBVIOUS
<1>6. ASSUME NEW b \in {x, y, z}
      PROVE  /\ b.pc \in {"stage", "owner"} /\ b.outs = {} /\ ~b.dispatched
             /\ b.pre = "none" /\ b.post = "none"
  <2>1. CASE b = x
    BY <1>2, <1>5, <2>1 DEF Idle
  <2>2. CASE b = y
    BY <1>2, <1>5, <2>2 DEF Idle
  <2>3. CASE b = z
    BY <1>2, <1>5, <2>3 DEF Idle
  <2>4. QED
    BY <2>1, <2>2, <2>3
<1>7. PICK b \in {x, y, z} : Become(p, b)
  BY <1>3, <1>5
<1>8. QED
  BY <1>4, <1>6, <1>7

\* Every process sends behind markers
EarnestInv == \A p \in Procs : Earnest(proc[p])

\* Every step of the system is firm for every process
LEMMA EveryFirm ==
    ASSUME BaseInv, EarnestInv, [Next]_vars, NEW p \in Procs
    PROVE  Firm(p)
<1>1. Ardent(p) /\ row \in Rows /\ Earnest(proc[p])
  BY DEF BaseInv, EarnestInv, Ardent, Known
<1>2. CASE UNCHANGED vars
  BY <1>1, <1>2, FirmStays DEF vars, SameMarks, SameBatch
<1>3. CASE Tick
  <2>1. PICK a : a = proc[p]
    OBVIOUS
  <2>2. PICK l, v : l = Less(a.lease) /\ v = (a.lost \/ (TimersOnTime /\ a.beat /\ a.lease <= 1))
    OBVIOUS
  <2>3. PICK b : b = [a EXCEPT !.lease = l, !.lost = v]
    OBVIOUS
  <2>4. proc'[p] = b
    BY <1>3, <2>1, <2>2, <2>3 DEF Tick
  <2>5. a \in Activities
    BY <2>1 DEF BaseInv
  <2>6. b.pc = a.pc /\ b.how = a.how /\ SameMarks(a, b) /\ SameBatch(a, b)
    BY <2>3, <2>5 DEF Activities, SameBatch, SameMarks
  <2>7. QED
    BY <1>1, <2>1, <2>4, <2>6, FirmStays
<1>4. ASSUME NEW q \in Procs,
             \/ Enqueue(q) \/ Recover(q) \/ Advance(q) \/ Renew(q) \/ Expire(q)
             \/ Abort(q) \/ AdmissionClosed(q) \/ Crash(q)
      PROVE  Firm(p)
  <2>1. CASE q # p
    <3>1. proc'[p] = proc[p]
      BY <1>4, <2>1, EachStep, StepMoves, Unmoved
    <3>2. QED
      BY <1>1, <3>1, FirmStays DEF SameMarks, SameBatch
  <2>2. CASE q = p
    <3>1. CASE Enqueue(p) \/ Recover(p)
      BY <1>1, <3>1, FirmEnqueue, FirmRecover
    <3>2. CASE Renew(p) \/ Expire(p) \/ Abort(p) \/ RetireUnsent(p) \/ AdmissionClosed(p) \/ Crash(p)
      BY <1>1, <3>2, FirmNotes, FirmAsks, FirmEnds
    <3>3. CASE \/ DropRow(p) \/ OwnerAck(p) \/ Finalize(p) \/ Restore(p) \/ Payload(p)
               \/ BatchReturns(p) \/ StartSend(p) \/ StartAck(p) \/ DispatchMark(p) \/ Respond(p)
               \/ PostMark(p) \/ PostAck(p) \/ PostFail(p) \/ FailStep(p) \/ Handoff(p)
      BY <1>1, <3>3, FirmEnds, FirmPayload, FirmStart, FirmStartAck, FirmDispatch, FirmHands,
         FirmPosts, FirmFailStep
    <3>4. CASE \/ Returned(p) \/ Ledger(p) \/ Ack(p) \/ RecAck(p) \/ SentAck(p) \/ ThrownPost(p)
               \/ RecUnknown(p) \/ SentLedger(p) \/ RecLedger(p) \/ RecReturned(p)
      BY <1>1, <3>4, FirmReturned, FirmLedger, FirmAcks, FirmLate, FirmRecLedger, FirmRecReturned
    <3>5. CASE \/ PartialFailure(p) \/ Thrown(p) \/ RecThrown(p) \/ Claim(p) \/ StartLease(p)
               \/ Reserve(p) \/ MarkQueued(p) \/ Owner(p) \/ Reconcile(p) \/ Stage(p) \/ Settle(p)
      BY <1>1, <3>5, FirmPartialFailure, FirmThrown, FirmRecThrown, FirmTakes, FirmAsks
    <3>6. QED
      BY <1>4, <2>2, <3>1, <3>2, <3>3, <3>4, <3>5 DEF Advance
  <2>3. QED
    BY <2>1, <2>2
<1>5. QED
  BY <1>2, <1>3, <1>4 DEF Next

\* What has a marker, or is about to record a send, works on a marked row
Backed(q) == Backing(proc[q]) /\ Recorded(row, proc[q].id) => row.rs \in {"started", "unknown"}

\* and no snapshot shows that row without its marker
Echo(q, p) ==
    /\ row.status \in {"absent", "pending"} /\ Backing(proc[q]) /\ proc[q].id # NoClaim
    /\ proc[q].id \in {proc[p].snap.claim, proc[p].snap.attempt}
    => proc[p].snap.rs # "claimed"

\* The markers of the row and of the processes agree
BackedInv == EarnestInv /\ (\A q \in Procs : Backed(q)) /\ (\A q, p \in Procs : Echo(q, p))

\* What the proofs below start from
BackedFacts == BaseInv /\ Kinds /\ FenceInv /\ BackedInv /\ \A q \in Procs : Firm(q)

\* A row that is pending was pending or absent before
LEMMA PendingBefore ==
    ASSUME BaseInv, Kinds, row'.status \in {"absent", "pending"}
    PROVE  row.status \in {"absent", "pending"}
<1>1. CASE row' = row \/ UNCHANGED vars \/ Passes
  BY <1>1 DEF vars, Passes, SameOwners
<1>2. ASSUME NEW p \in Procs, Extends(p) \/ Enqueues(p) \/ \E c \in Claims : Takes(p, c)
      PROVE  row.status \in {"absent", "pending"}
  BY <1>2 DEF Extends, Enqueues, Takes
<1>3. ASSUME NEW p \in Procs, WalkStep(p)
      PROVE  row.status \in {"absent", "pending"}
  <2>1. CASE Quiet \/ Closes(p)
    BY <1>1, <2>1 DEF Quiet, Closes, Terminal
  <2>2. CASE Postpones(p) \/ Reopens(p) \/ Testifies(p) \/ Counts(p) \/ Restores(p) \/ Marks(p)
    BY <2>2 DEF Postpones, Reopens, Testifies, Counts, Restores, Marks, Owned
  <2>3. QED
    BY <1>2, <1>3, <2>1, <2>2 DEF WalkStep, Fate
<1>4. ASSUME NEW p \in Procs, NEW c \in NewClaims, Owns(p, c)
      PROVE  row.status = "pending"
  BY <1>4 DEF Owns, Takes
<1>5. QED
  BY <1>1, <1>2, <1>3, <1>4 DEF Kinds, StepOf, Starts, Renews, Recovers, Hands

\* Who has a marker after a step had it before, gets it with the row, or ended the row
LEMMA BackingBefore ==
    ASSUME BackedFacts, NEW q \in Procs, NEW b, b = proc'[q], Backing(b), b.id # NoClaim
    PROVE  /\ b.id = proc[q].id
           /\ Backing(proc[q]) \/ Marks(q) \/ row'.status \in Terminal
<1> USE DEF BackedFacts
<1>1. PICK a : a = proc[q]
  OBVIOUS
<1>2. CASE UNCHANGED vars
  BY <1>1, <1>2 DEF vars
<1>3. CASE Passes
  BY <1>1, <1>3 DEF Passes, SameMarks, SameReturn, Backing, Witness
<1>4. ASSUME NEW p \in Procs, StepOf(p), p # q
      PROVE  b = a
  BY <1>1, <1>4, StepMoves, Unmoved
<1>5. Backing(a) \/ b.pre = "acked" \/ Marks(q)
  BY <1>1 DEF Firm, Backing
<1>6. CASE WalkStep(q)
  <2>1. Edge(a, b) /\ Agrees(q)
    BY <1>1, <1>6 DEF WalkStep, Walks
  <2>2. b.id = a.id
    BY <2>1 DEF Edge, Identity
  <2>3. b.pre = "acked" => a.pre = "acked" \/ row'.status \in Terminal
    BY <1>1, <2>1 DEF Agrees
  <2>4. a.pre = "acked" => Backing(a)
    BY DEF Backing
  <2>5. QED
    BY <1>1, <1>5, <2>2, <2>3, <2>4
<1>7. CASE Starts(q) \/ Recovers(q) \/ \E c \in NewClaims : Owns(q, c)
  BY <1>1, <1>7 DEF Starts, Recovers, Owns, Begun, Backing, Witness
<1>8. CASE Renews(q)
  BY <1>1, <1>8 DEF Renews, SameMarks, SameReturn, Backing, Witness
<1>9. CASE Hands(q)
  BY <1>1, <1>9 DEF Hands, SameMarks, SameOwner, Backing, Witness
<1>10. CASE Enqueues(q)
  <2>1. b = a \/ b = Idle \/ b.id = NoClaim \/ (b.pc = "markQueued" /\ Begun(b))
    BY <1>1, <1>10 DEF Enqueues
  <2>2. CASE b = Idle
    <3>1. b.id = NoClaim
      BY <2>2 DEF Idle
    <3>2. QED
      BY <3>1
  <2>3. QED
    BY <1>1, <2>1, <2>2 DEF Begun, Backing, Witness
<1>11. QED
  BY <1>1, <1>2, <1>3, <1>4, <1>6, <1>7, <1>8, <1>9, <1>10 DEF Kinds, StepOf

\* The row of a marker stays marked
LEMMA BackedKept ==
    ASSUME BackedFacts, NEW q \in Procs
    PROVE  Backed(q)'
<1> SUFFICES ASSUME NEW b, b = proc'[q], Backing(b), NEW id, id = b.id, Recorded(row', id)
             PROVE  row'.rs \in {"started", "unknown"}
  BY DEF Backed, Backing, Witness, Recorded
<1> USE DEF BackedFacts
<1>1. id # NoClaim /\ row'.status = "pending"
  BY DEF Recorded
<1>2. id = proc[q].id /\ (Backing(proc[q]) \/ Marks(q))
  BY <1>1, BackingBefore DEF Terminal
<1>3. CASE Marks(q)
  BY <1>3 DEF Marks
<1>4. CASE Backing(proc[q])
  <2>1. id \notin NewClaims
    BY <1>2, NewIsNew
  <2>2. ASSUME NEW p \in Procs, Restores(p), id \in {proc[p].snap.claim, proc[p].snap.attempt}
        PROVE  row'.rs \in {"started", "unknown"}
    <3>1. row.status = "pending"
      BY <2>2 DEF Restores, Owned
    <3>2. proc[p].snap.rs # "claimed"
      BY <1>1, <1>2, <1>4, <2>2, <3>1 DEF BackedInv, Echo
    <3>3. RowShape(proc[p].snap)
      BY DEF BaseInv, Local, SnapLocal
    <3>4. QED
      BY <1>1, <2>2, <3>2, <3>3 DEF RowShape, Restores
  <2>3. CASE Recorded(row, id) /\ \A p \in Procs : Restores(p) => id \notin {proc[p].snap.claim, proc[p].snap.attempt}
    <3>1. row.rs \in {"started", "unknown"}
      BY <1>2, <1>4, <2>3 DEF BackedInv, Backed
    <3>2. row.attempt = id
      BY <2>3, <3>1 DEF Recorded, BaseInv, RowShape
    <3>3. QED
      BY <2>1, <2>3, <3>1, <3>2, MarkerStays
  <2>4. QED
    BY <2>1, <2>2, <2>3, OwnerBefore
<1>5. QED
  BY <1>2, <1>3, <1>4

\* and nobody loads it without its marker
LEMMA EchoKept ==
    ASSUME BackedFacts, NEW q \in Procs, NEW p \in Procs
    PROVE  Echo(q, p)'
<1> SUFFICES ASSUME NEW b, b = proc'[q], Backing(b), NEW id, id = b.id, id # NoClaim,
                    row'.status \in {"absent", "pending"},
                    NEW s, s = proc'[p].snap, id \in {s.claim, s.attempt}
             PROVE  s.rs # "claimed"
  BY DEF Echo, Backing, Witness
<1> USE DEF BackedFacts
<1>1. id = proc[q].id /\ (Backing(proc[q]) \/ Marks(q)) /\ row.status \in {"absent", "pending"}
  BY BackingBefore, PendingBefore DEF Terminal
<1>2. s = proc[p].snap \/ Recovers(p)
  <2>1. s # NoRow
    BY DEF NoRow
  <2>2. CASE UNCHANGED vars \/ Passes
    BY <2>2 DEF vars, Passes, SameCaller
  <2>3. ASSUME NEW r \in Procs, StepOf(r), r # p
        PROVE  s = proc[p].snap
    BY <2>3, StepMoves, Unmoved
  <2>4. CASE WalkStep(p)
    BY <2>1, <2>4 DEF WalkStep, Walks, Edge, Identity
  <2>5. CASE Starts(p) \/ Renews(p) \/ \E c \in NewClaims : Owns(p, c)
    BY <2>5 DEF Starts, Renews, Owns, SameCaller
  <2>6. CASE Enqueues(p)
    BY <2>1, <2>6, IdleTyped DEF Enqueues, Idle
  <2>7. CASE Hands(p)
    BY <2>1, <2>7 DEF Hands
  <2>8. QED
    BY <2>2, <2>3, <2>4, <2>5, <2>6, <2>7 DEF Kinds, StepOf
<1>3. CASE s = proc[p].snap
  <2>1. ~Marks(q)
    <3>1. Stale(id)
      BY <1>3 DEF FenceInv, SnapStale
    <3>2. QED
      BY <1>1, <3>1 DEF Stale, Marks, Recorded
  <2>2. QED
    BY <1>1, <1>3, <2>1 DEF BackedInv, Echo
<1>4. CASE Recovers(p)
  <2>1. /\ row' = row /\ SameOwners(row, s) /\ proc'[p].pc \in {"stage", "owner"} /\ Begun(proc'[p])
        /\ row.status \in {"pending", "staged"}
    BY <1>4 DEF Recovers
  <2>2. p # q
    BY <2>1 DEF Begun, Backing, Witness
  <2>3. b = proc[q]
    BY <1>4, <2>2, StepMoves, Unmoved DEF StepOf
  <2>4. Recorded(row, id)
    BY <1>1, <2>1 DEF Recorded, SameOwners
  <2>5. row.rs \in {"started", "unknown"}
    BY <2>3, <2>4 DEF BackedInv, Backed
  <2>6. QED
    BY <2>1, <2>5 DEF SameOwners
<1>5. QED
  BY <1>2, <1>3, <1>4

\* Nobody has a marker at the start
LEMMA BackedInit ==
    ASSUME Init
    PROVE  BackedInv
<1>1. PICK a : a = Idle
  OBVIOUS
<1>2. a.pc = "idle" /\ a.pre = "none" /\ a.post = "none" /\ a.outs = {} /\ ~a.dispatched
  BY <1>1 DEF Idle
<1>3. Earnest(a) /\ ~Backing(a)
  BY <1>2 DEF Earnest, Backing, Witness, SentBeforeError, InPost
<1>4. \A q \in Procs : proc[q] = a
  BY <1>1 DEF Init
<1>5. QED
  BY <1>3, <1>4 DEF BackedInv, EarnestInv, Backed, Echo

\* and every step keeps it
LEMMA BackedStep ==
    ASSUME GuardInv, BackedInv, [Next]_vars
    PROVE  BackedInv'
<1>1. BackedFacts
  BY EveryStep, EveryFirm DEF GuardInv, BackedInv, BackedFacts
<1>2. ASSUME NEW q \in Procs
      PROVE  Earnest(proc[q])'
  <2>1. Earnest(proc'[q])
    BY <1>1 DEF BackedFacts, Firm
  <2>2. QED
    BY <2>1 DEF Earnest, SentBeforeError, InPost
<1>3. QED
  BY <1>1, <1>2, BackedKept, EchoKept DEF BackedInv, EarnestInv

\* The evidence of a send comes to a marked row
LEMMA EvidenceMarked ==
    ASSUME BaseInv, BackedInv, NEW p \in Procs, Testifies(p)
    PROVE  row.rs \in {"started", "unknown"}
<1>1. PICK a : a = proc[p]
  OBVIOUS
<1>2. Earnest(a) /\ Local(a) /\ Owned(row, a.id)
  BY <1>1 DEF BackedInv, EarnestInv, BaseInv, Testifies
<1>3. InPost(a) \/ (a.pc = "fail" /\ a.how = "after")
  BY <1>1 DEF Testifies
<1>4. Backing(a)
  BY <1>2, <1>3 DEF Earnest, Backing, Witness
<1>5. Holds(a) /\ a.pc \notin Loop \cup {"returned", "ledger", "thrown", "thrownLate"}
  BY <1>3 DEF Holds, Borrowed, InPost, Loop
<1>6. a.id # NoClaim
  BY <1>2, <1>5 DEF Local, HoldLocal
<1>7. QED
  BY <1>1, <1>2, <1>4, <1>6 DEF BackedInv, Backed, Recorded, Owned

-----------------------------------------------------------------------------
(* What the queue promises for one delivery.                               *)

\* A step of the queue is a step of the delivery it is for, or none
Promise == Delivery!Next \/ UNCHANGED <<StageOf(row), visible, ToldOf(ledger)>>

\* Where a row stands
LEMMA StageCases ==
    ASSUME NEW r
    PROVE  /\ r.status = "absent" => StageOf(r) = "none"
           /\ r.status = "pending" =>
                /\ r.rs = "started" => StageOf(r) = "tried"
                /\ r.rs = "unknown" => StageOf(r) = "doubt"
                /\ r.rs \notin {"started", "unknown"} => StageOf(r) = "open"
           /\ r.status = "staged" => StageOf(r) = "closing"
           /\ r.status \in Terminal => StageOf(r) = "over"
BY DEF StageOf, Terminal

\* Nothing of the delivery arrived
LEMMA NothingSent ==
    ASSUME BaseInv
    PROVE  Delivery!Nothing <=> ~Sent
<1>1. \A i \in 1 .. Batch : visible[i] \in 0 .. 2
  BY DEF BaseInv
<1>2. QED
  BY <1>1 DEF Delivery!Nothing, Sent

\* Seven operations patch the completion owner, the others leave it alone
LEMMA OtherLedgers ==
    ASSUME [Next]_vars
    PROVE  \/ ledger' = ledger
           \/ \E p \in Procs : \/ MarkQueued(p) \/ Ledger(p) \/ Settle(p) \/ Owner(p)
                              \/ SentLedger(p) \/ RecUnknown(p) \/ RecLedger(p)
<1>1. CASE UNCHANGED vars \/ Tick
  BY <1>1 DEF vars, Tick
<1>2. ASSUME NEW p \in Procs,
             \/ Enqueue(p) \/ Recover(p) \/ Renew(p) \/ Expire(p)
             \/ Abort(p) \/ AdmissionClosed(p) \/ Crash(p)
      PROVE  ledger' = ledger
  BY <1>2 DEF Enqueue, Recover, Renew, Expire, Abort, AdmissionClosed, Crash
<1>3. ASSUME NEW p \in Procs, Advance(p)
      PROVE  \/ ledger' = ledger
             \/ MarkQueued(p) \/ Ledger(p) \/ Settle(p) \/ Owner(p)
             \/ SentLedger(p) \/ RecUnknown(p) \/ RecLedger(p)
  BY <1>3 DEF Advance, DropRow, StartLease, Payload, BatchReturns, StartSend, StartAck,
     DispatchMark, Handoff, Respond, PostMark, PostAck, PostFail, FailStep, Returned,
     PartialFailure, Ack, Thrown, ThrownPost, Stage, Finalize, OwnerAck, Reconcile, SentAck, Claim,
     Reserve, RecReturned, RecAck, RecThrown, Restore, RetireUnsent
<1>4. QED
  BY <1>1, <1>2, <1>3 DEF Next

\* A step leaves the completion owner alone, or the row and the recipient
LEMMA OneSide ==
    ASSUME [Next]_vars
    PROVE  ledger' = ledger \/ (row' = row /\ visible' = visible)
BY OtherLedgers DEF MarkQueued, Ledger, Settle, Owner, SentLedger, RecUnknown, RecLedger

\* What the completion owner holds for good is not patched
LEMMA TellOnce ==
    ASSUME [Next]_vars, ledger \in {"delivered", "suppressed"}
    PROVE  ledger' = ledger
<1>1. ASSUME NEW p, NEW s, NEW good, NEW bad, SettleLedger(p, s, good, bad)
      PROVE  ledger' = ledger
  BY <1>1 DEF SettleLedger, LedgerAfter
<1>2. ASSUME NEW p \in Procs,
             \/ MarkQueued(p) \/ Ledger(p) \/ Settle(p) \/ Owner(p) \/ SentLedger(p)
             \/ RecUnknown(p) \/ RecLedger(p)
      PROVE  ledger' = ledger
  <2>1. CASE MarkQueued(p)
    BY <2>1 DEF MarkQueued
  <2>2. CASE Ledger(p) \/ Settle(p) \/ Owner(p)
    BY <1>1, <2>2 DEF Ledger, Settle, Owner
  <2>3. CASE SentLedger(p) \/ RecUnknown(p) \/ RecLedger(p)
    BY <1>1, <2>3 DEF SentLedger, RecUnknown, RecLedger
  <2>4. QED
    BY <1>2, <2>1, <2>2, <2>3
<1>3. QED
  BY <1>2, OtherLedgers

\* Nothing arrives, and the completion owner is told nothing for good
Still == visible' = visible /\ ToldOf(ledger') = ToldOf(ledger)

\* The row stays where it is
LEMMA StageStays ==
    ASSUME Still, StageOf(row') = StageOf(row)
    PROVE  Promise
BY DEF Still, Promise

\* A row that was not sent goes back to whoever takes it
LEMMA Reopened ==
    ASSUME BaseInv, EvidenceInv, Kinds, Still, ~Sent,
           row.status = "pending", row'.status = "pending", row'.rs \notin {"started", "unknown"}
    PROVE  Promise
<1>1. row.rs # "unknown"
  BY EvidenceStays
<1>2. CASE row.rs = "started"
  <2>1. StageOf(row) = "tried" /\ StageOf(row') = "open"
    BY <1>2, StageCases
  <2>2. Delivery!Reopen
    BY <2>1, NothingSent DEF Still, Delivery!Reopen
  <2>3. QED
    BY <2>2 DEF Promise, Delivery!Next
<1>3. CASE row.rs # "started"
  <2>1. StageOf(row) = "open" /\ StageOf(row') = "open"
    BY <1>1, <1>3, StageCases
  <2>2. QED
    BY <2>1, StageStays
<1>4. QED
  BY <1>2, <1>3

\* A row is marked
LEMMA Tried ==
    ASSUME BaseInv, EvidenceInv, Kinds, Still,
           row.status = "pending", row'.status = "pending", row'.rs = "started"
    PROVE  Promise
<1>1. row.rs # "unknown" /\ StageOf(row') = "tried"
  BY EvidenceStays, StageCases
<1>2. CASE row.rs = "started"
  BY <1>1, <1>2, StageCases, StageStays
<1>3. CASE row.rs # "started"
  <2>1. StageOf(row) = "open"
    BY <1>1, <1>3, StageCases
  <2>2. Delivery!Try
    BY <1>1, <2>1 DEF Still, Delivery!Try
  <2>3. QED
    BY <2>2 DEF Promise, Delivery!Next
<1>4. QED
  BY <1>2, <1>3

\* A row ends or is given up
LEMMA GivenUp ==
    ASSUME BaseInv, Still, NEW p \in Procs, Closes(p)
    PROVE  Promise
<1>1. row.status \in {"pending", "staged"} /\ StageOf(row') \in {"closing", "over"}
  BY StageCases DEF Closes, Owned
<1>2. StageOf(row) \in {"open", "tried", "doubt", "closing"}
      /\ (row.status = "staged" <=> StageOf(row) = "closing")
  BY <1>1, StageCases
<1>3. CASE StageOf(row') = StageOf(row)
  BY <1>3, StageStays
<1>4. CASE StageOf(row') # StageOf(row)
  <2>1. Delivery!GiveUp \/ Delivery!End
    BY <1>1, <1>2, <1>4 DEF Still, Delivery!GiveUp, Delivery!End
  <2>2. QED
    BY <2>1 DEF Promise, Delivery!Next
<1>5. QED
  BY <1>3, <1>4

\* A row gets the evidence of a send
LEMMA Doubted ==
    ASSUME BaseInv, BackedInv, Still, NEW p \in Procs, Testifies(p)
    PROVE  Promise
<1>1. row.status = "pending" /\ StageOf(row') = "doubt"
  BY StageCases DEF Testifies, Owned
<1>2. CASE row.rs = "unknown"
  BY <1>1, <1>2, StageCases, StageStays
<1>3. CASE row.rs # "unknown"
  <2>1. StageOf(row) = "tried"
    BY <1>1, <1>3, EvidenceMarked, StageCases
  <2>2. Delivery!Doubt
    BY <1>1, <2>1 DEF Still, Delivery!Doubt
  <2>3. QED
    BY <2>2 DEF Promise, Delivery!Next
<1>4. QED
  BY <1>2, <1>3

\* The owner fields stay, and with them the stage
LEMMA OwnersStay ==
    ASSUME Still, SameOwners(row, row')
    PROVE  Promise
<1>1. StageOf(row') = StageOf(row)
  BY DEF SameOwners, StageOf
<1>2. QED
  BY <1>1, StageStays

\* The claim for a new owner takes a row of which nothing was sent
LEMMA Taken ==
    ASSUME ShowFacts, Still, NEW p \in Procs, NEW c, Takes(p, c)
    PROVE  Promise
<1> USE DEF ShowFacts, HoldFacts
<1>1. row.status = "pending" /\ row'.status = "pending" /\ row'.rs = "claimed"
  BY DEF Takes
<1>2. CASE row.rs = "started"
  BY <1>1, <1>2, Reopened DEF Takes, ShowInv, Proven
<1>3. CASE row.rs # "started"
  BY <1>1, <1>3, Reopened DEF Takes, ShowInv, Unsent
<1>4. QED
  BY <1>2, <1>3

\* What an operation on a published row does to it
LEMMA FateKeepsPromise ==
    ASSUME ShowFacts, BackedInv, Still, NEW p \in Procs, WalkStep(p)
    PROVE  Promise
<1> USE DEF ShowFacts, HoldFacts
<1>1. CASE Quiet
  BY <1>1, StageStays DEF Quiet
<1>2. CASE Closes(p)
  BY <1>2, GivenUp
<1>3. CASE Postpones(p)
  <2>1. row.status = "pending" /\ StageOf(row') = StageOf(row)
    BY <1>3 DEF Postpones, Owned, StageOf
  <2>2. QED
    BY <2>1, StageStays
<1>4. CASE Reopens(p)
  BY <1>4, Reopened DEF Reopens, ShowInv, Clears, Spotless, Owned
<1>5. CASE Testifies(p)
  BY <1>5, Doubted
<1>6. CASE Marks(p)
  <2>1. row.status = "pending" /\ row'.status = "pending"
    BY <1>6 DEF Marks
  <2>2. CASE row.rs = "unknown"
    BY <1>6, <2>1, <2>2, StageCases, StageStays DEF Marks
  <2>3. CASE row.rs # "unknown"
    BY <1>6, <2>1, <2>3, Tried DEF Marks
  <2>4. QED
    BY <2>2, <2>3
<1>7. CASE Extends(p) \/ Counts(p)
  BY <1>7, OwnersStay DEF Extends, Counts
<1>8. CASE Restores(p)
  <2>1. row.status = "pending" /\ row'.status = "pending" /\ row'.rs # "unknown" /\ ~Sent
    BY <1>8, RestoresClean DEF Restores, ShowInv, Clears, Spotless, Owned
  <2>2. CASE row'.rs = "started"
    BY <2>1, <2>2, Tried
  <2>3. CASE row'.rs # "started"
    BY <2>1, <2>3, Reopened
  <2>4. QED
    BY <2>2, <2>3
<1>9. CASE \E c \in Claims : Takes(p, c)
  BY <1>9, Taken
<1>10. QED
  BY <1>1, <1>2, <1>3, <1>4, <1>5, <1>6, <1>7, <1>8, <1>9 DEF WalkStep, Fate

\* A row is published, or a send goes on without one
LEMMA Accepted ==
    ASSUME Still, NEW p \in Procs, Enqueues(p)
    PROVE  Promise
<1>1. StageOf(row) = "none"
  BY StageCases DEF Enqueues
<1>2. StageOf(row') \in {"open", "over"}
  BY StageCases DEF Enqueues, Terminal
<1>3. Delivery!Accept
  BY <1>1, <1>2 DEF Still, Delivery!Accept
<1>4. QED
  BY <1>3 DEF Promise, Delivery!Next

\* A payload arrives for the first time, of a delivery that nobody else may take
LEMMA Arrived ==
    ASSUME SoleFacts, NEW q \in Procs, Hands(q), row' = row, Can(proc[q]), proc[q].pc = "handoff",
           visible' = [visible EXCEPT ![proc[q].i] = IF @ < 2 THEN @ + 1 ELSE @],
           ledger' = ledger
    PROVE  Promise
<1> USE DEF SoleFacts, ShowFacts, HoldFacts
<1>1. PICK i : i = proc[q].i
  OBVIOUS
<1>2. i \in 1 .. Batch
  <2>1. proc[q].i <= Batch /\ proc[q].i \in 1 .. Batch + 1 /\ Batch \in Nat
    BY BatchAssumption DEF BaseInv, Activities, Local, SendLocal, Loop
  <2>2. QED
    BY <1>1, <2>1
<1>3. /\ Sender(q) /\ row.status # "absent"
      /\ row.status = "pending" => row.rs \in {"started", "unknown"}
  BY HandoffOwns
<1>4. StageOf(row) \notin {"none", "open"}
  BY <1>3 DEF StageOf
<1>5. ~MidSend(proc[q])
  BY DEF MidSend, InPost
<1>6. ~(visible[i] > 0) /\ visible[i] \in 0 .. 2
  BY <1>1, <1>2, <1>3, <1>5 DEF SoleInv, Progress, BaseInv
<1>7. visible[i] = 0
  BY <1>6
<1>8. visible' = [visible EXCEPT ![i] = 1]
  BY <1>1, <1>7
<1>9. Delivery!Arrive(i)
  BY <1>4, <1>7, <1>8 DEF Delivery!Arrive
<1>10. QED
  BY <1>2, <1>9 DEF Promise, Delivery!Next

\* What does not concern the completion owner
LEMMA RowKeepsPromise ==
    ASSUME SoleFacts, BackedInv, ledger' = ledger
    PROVE  Promise
<1> USE DEF SoleFacts, ShowFacts, HoldFacts
<1>1. CASE visible' # visible
  BY <1>1, VisibleMoves, Arrived
<1>2. CASE visible' = visible
  <2>1. Still
    BY <1>2 DEF Still
  <2>2. CASE row' = row
    BY <2>1, <2>2, StageStays
  <2>3. CASE UNCHANGED vars \/ Passes
    BY <2>1, <2>2, <2>3, OwnersStay DEF vars, Passes
  <2>4. ASSUME NEW p \in Procs, StepOf(p)
        PROVE  Promise
    BY <2>1, <2>2, <2>4, FateKeepsPromise, Accepted, OwnersStay, Taken
       DEF StepOf, Starts, Renews, Recovers, Hands, Owns, Extends
  <2>5. QED
    BY <2>3, <2>4 DEF Kinds
<1>3. QED
  BY <1>1, <1>2

\* What the completion owner is told
LEMMA TaleKeepsPromise ==
    ASSUME DeliveredInv, [Next]_vars, row' = row, visible' = visible
    PROVE  Promise
<1>1. BaseInv /\ FrankInv
  BY DEF DeliveredInv
<1>2. CASE ToldOf(ledger') = ToldOf(ledger)
  BY <1>2 DEF Promise
<1>3. CASE ToldOf(ledger') # ToldOf(ledger)
  <2>1. ToldOf(ledger) = "waiting"
    BY <1>3, TellOnce DEF ToldOf
  <2>2. ToldOf(ledger') \in {"delivered", "suppressed"}
    BY <1>3, <2>1 DEF ToldOf
  <2>3. ASSUME ToldOf(ledger') = "delivered"
        PROVE  ~Delivery!Nothing
    <3>1. ledger' = "delivered"
      BY <2>3 DEF ToldOf
    <3>2. Sent'
      BY <3>1, DeliveredKept DEF DeliveredInv, TruthInv
    <3>3. QED
      BY <1>1, <3>2, SentMoves, NothingSent
  <2>4. Delivery!Tell
    BY <2>1, <2>2, <2>3 DEF Delivery!Tell
  <2>5. QED
    BY <2>4 DEF Promise, Delivery!Next
<1>4. QED
  BY <1>2, <1>3

\* With timers on time the queue implements what it promises for one delivery,
\* for any processes, payloads, leases and retries: a row that was sent is taken
\* anew only when nothing of it arrived, a row is in doubt only after its start
\* marker, no payload of a row that anybody may take arrives and none arrives
\* twice, an end is final, and the completion owner is told once, and of a
\* delivery only when there was one (persistQueuedPreSendState,
\* claimDeliveryPlatformSendAttempt, settleQueuedFailure)
THEOREM DeliveryImplementsPromise == TimersOnTime /\ Spec => ImplementsDelivery
<1>1. Init => Delivery!Init
  BY DEF Init, NoRow, StageOf, ToldOf, Delivery!Init
<1>2. Init /\ TimersOnTime => OnceInv /\ DeliveredInv /\ BackedInv
  BY OnceInit, DeliveredInit, BackedInit
<1>3. OnceInv /\ DeliveredInv /\ BackedInv /\ [Next]_vars => (OnceInv /\ DeliveredInv /\ BackedInv)'
  BY OnceStep, DeliveredKept, BackedStep DEF OnceInv
<1>4. OnceInv /\ DeliveredInv /\ BackedInv /\ [Next]_vars
        => [Delivery!Next]_<<StageOf(row), visible, ToldOf(ledger)>>
  <2> SUFFICES ASSUME OnceInv, DeliveredInv, BackedInv, [Next]_vars
               PROVE  Promise
    BY DEF Promise
  <2>1. SoleFacts
    BY EveryStep DEF OnceInv, GuardInv, SoleFacts, ShowFacts, HoldFacts
  <2>2. QED
    BY <2>1, OneSide, RowKeepsPromise, TaleKeepsPromise
<1>5. QED
  BY <1>1, <1>2, <1>3, <1>4, PTL DEF Spec, ImplementsDelivery, Delivery!Spec

=============================================================================
