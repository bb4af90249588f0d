----------------------------- MODULE DraftStream -----------------------------
(***************************************************************************)
(* createDraftStreamLoop of src/src/channels/draft-stream-loop.ts: the     *)
(* throttled sender behind a reply that is edited while it is written.     *)
(*                                                                         *)
(* What a flush does between two awaits is one step.  The send callback is *)
(* the channel's: it may throw at once, or settle later with success, with *)
(* false, or with a rejection.                                             *)
(***************************************************************************)
EXTENDS DraftState

vars == <<coalesce, pending, timer, elapsed, inFlight, flush, stopped, accepted, handed, owed>>

Drafts == 1 .. MaxUpdates

IsEmpty(v) == v \in {Empty, Blank}

HasPendingValue(v) == v # Empty

\* What update owes the text it accepts
Debt(v) == IF IsEmpty(v) THEN "none" ELSE "due"

Idle == [pc |-> "idle", background |-> FALSE, value |-> Empty, on |-> NoFlush, out |-> "none"]

Init ==
    /\ coalesce \in Coalesce
    /\ pending = Empty
    /\ timer = FALSE
    /\ elapsed = TRUE
    /\ inFlight = NoFlush
    /\ flush = [f \in Flushes |-> Idle]
    /\ stopped = FALSE
    /\ accepted = 0
    /\ handed = 0
    /\ owed = "none"

-----------------------------------------------------------------------------
(* The body of flush.                                                      *)

\* A promise job runs to its next await before anybody else does, unless
\* JobsBetween lets others in between the finally callback and the continuation
NoJobDue == JobsBetween \/ \A f \in Flushes : flush[f].pc \notin {"settled", "woken"}

\* Mutant of Busy: the loop does not look at inFlightPromise
NeverBusy == FALSE

Busy == inFlight # NoFlush

Ends(f) == flush' = [flush EXCEPT ![f] = Idle]

\* The pending value becomes the value in flight
Take(f, background, v) ==
    /\ pending' = Empty
    /\ inFlight' = f
    /\ handed' = v
    /\ owed' = "none"
    /\ flush' = [flush EXCEPT ![f] =
                    [Idle EXCEPT !.pc = "sending", !.background = background, !.value = v]]

\* From the head of the while loop to the next await or the end, with v pending
Loop(f, background, v, due) ==
    \/ /\ stopped
       /\ pending' = v /\ owed' = due
       /\ Ends(f)
       /\ UNCHANGED <<inFlight, handed>>
    \/ /\ ~stopped /\ Busy
       /\ pending' = v /\ owed' = due
       /\ flush' = [flush EXCEPT ![f] =
                       [Idle EXCEPT !.pc = "waiting", !.background = background, !.on = inFlight]]
       /\ UNCHANGED <<inFlight, handed>>
    \/ /\ ~stopped /\ ~Busy /\ IsEmpty(v)
       /\ pending' = Empty /\ owed' = "none"
       /\ Ends(f)
       /\ UNCHANGED <<inFlight, handed>>
    \/ /\ ~stopped /\ ~Busy /\ ~IsEmpty(v)
       /\ Take(f, background, v)
    \/ \* the callback throws before it returns a promise: the value is retained
       /\ ~stopped /\ ~Busy /\ ~IsEmpty(v)
       /\ pending' = v /\ handed' = v /\ owed' = "none"
       /\ Ends(f)
       /\ UNCHANGED inFlight

\* A call of flush: clearTimer, then the loop
CallFlush(f, background, v, due) ==
    /\ flush[f].pc = "idle"
    /\ Loop(f, background, v, due)
    /\ timer' = FALSE

\* The send settles: the finally callback clears inFlightPromise; the flush
\* that sent and the ones that wait for the same promise will continue
FlushSettles(f, out) ==
    /\ flush[f].pc = "sending"
    /\ inFlight' = IF inFlight = f THEN NoFlush ELSE inFlight
    /\ flush' = [g \in Flushes |->
           IF g = f THEN [flush[g] EXCEPT !.pc = "settled", !.out = out]
           ELSE IF flush[g].pc = "waiting" /\ flush[g].on = f
                THEN [flush[g] EXCEPT !.pc = "woken", !.out = out]
                ELSE flush[g]]
    /\ UNCHANGED <<pending, timer, elapsed, stopped, coalesce, accepted, handed, owed>>

\* "Keep background updates arriving during a send in the next throttle window"
Coalesced(f) == flush[f].background /\ coalesce

\* With f nothing is left that would send what is pending: no timer, and every
\* other flush is about to end too
Abandons(f) ==
    /\ ~timer /\ ~Coalesced(f)
    /\ \A g \in Flushes \ {f} :
          \/ flush[g].pc = "idle"
          \/ flush[g].pc = "woken" /\ (flush[g].out = "rejected" \/ Coalesced(g))

\* A rejection is reported to the caller of flush or to onBackgroundFlushError;
\* a send that returned false ends the flush like a success
GivenUp(f) == IF flush[f].out = "rejected" THEN "failed" ELSE "stranded"

\* Mutant of RetainUnsent: newer work gets no attempt of its own
RetainWithoutSchedule(f) ==
    IF HasPendingValue(pending)
    THEN /\ owed' = IF owed = "due" /\ Abandons(f) THEN GivenUp(f) ELSE owed
         /\ UNCHANGED <<pending, timer>>
    ELSE /\ pending' = flush[f].value
         /\ owed' = "none"
         /\ UNCHANGED timer

\* retainUnsentValue.  What is pending is newer work: a coalescing background
\* flush schedules it, others leave it to a timer or to a flush that waits, if
\* there is one.
RetainUnsent(f) ==
    IF HasPendingValue(pending)
    THEN /\ timer' = (timer \/ Coalesced(f))
         /\ owed' = IF owed = "due" /\ Abandons(f) THEN GivenUp(f) ELSE owed
         /\ UNCHANGED pending
    ELSE /\ pending' = flush[f].value
         /\ owed' = "none"
         /\ UNCHANGED timer

\* The flush continues after "await current"
Resume(f) ==
    /\ flush[f].pc = "settled"
    /\ \/ /\ flush[f].out \in {"false", "rejected"}
          /\ RetainUnsent(f)
          /\ Ends(f)
          /\ UNCHANGED <<elapsed, inFlight, handed>>
       \/ /\ flush[f].out = "sent"
          /\ elapsed' = FALSE
          /\ \/ /\ ~HasPendingValue(pending) \/ Coalesced(f)
                /\ timer' = (timer \/ HasPendingValue(pending))
                /\ Ends(f)
                /\ UNCHANGED <<pending, inFlight, handed, owed>>
             \/ /\ HasPendingValue(pending) /\ ~Coalesced(f)
                /\ Loop(f, flush[f].background, pending, owed)
                /\ UNCHANGED timer
    /\ UNCHANGED <<stopped, coalesce, accepted>>

\* A flush that waited for another one's send continues after it.  A
\* rejection ends it as well; a coalescing background flush just returns.
Woken(f) ==
    /\ flush[f].pc = "woken"
    /\ flush[flush[f].on].pc # "settled"
    /\ \/ /\ flush[f].out = "rejected" \/ Coalesced(f)
          /\ Ends(f)
          /\ UNCHANGED <<pending, inFlight, handed, owed>>
       \/ /\ flush[f].out # "rejected" /\ ~Coalesced(f)
          /\ Loop(f, flush[f].background, pending, owed)
    /\ UNCHANGED <<timer, elapsed, stopped, coalesce, accepted>>

-----------------------------------------------------------------------------
(* The returned handle, the timer and the clock.                           *)

\* update during a send: schedule() unless the send's own flush coalesces
UpdateWhileBusy == timer \/ ~coalesce

\* update(value), where v is a new draft or blank or empty text
Update(v) ==
    /\ ~stopped /\ NoJobDue
    /\ accepted' = IF v \in Drafts THEN v ELSE accepted
    /\ \/ /\ Busy
          /\ pending' = v /\ owed' = Debt(v)
          /\ timer' = UpdateWhileBusy
          /\ UNCHANGED <<inFlight, flush, handed>>
       \/ /\ ~Busy /\ ~timer /\ elapsed
          /\ \E f \in Flushes : CallFlush(f, TRUE, v, Debt(v))
       \/ /\ ~Busy /\ (timer \/ ~elapsed)
          /\ pending' = v /\ owed' = Debt(v)
          /\ timer' = TRUE
          /\ UNCHANGED <<inFlight, flush, handed>>
    /\ UNCHANGED <<elapsed, stopped, coalesce>>

\* flush()
Flush(f) ==
    /\ NoJobDue
    /\ CallFlush(f, FALSE, pending, owed)
    /\ UNCHANGED <<elapsed, stopped, coalesce, accepted>>

\* The timer fires and startBackgroundFlush runs
FireTimer(f) ==
    /\ timer /\ NoJobDue
    /\ CallFlush(f, TRUE, pending, owed)
    /\ UNCHANGED <<elapsed, stopped, coalesce, accepted>>

\* The owner raises its stop flag and calls stop()
Stop ==
    /\ ~stopped /\ NoJobDue
    /\ stopped' = TRUE
    /\ pending' = Empty /\ timer' = FALSE /\ owed' = "none"
    /\ UNCHANGED <<elapsed, inFlight, flush, coalesce, accepted, handed>>

\* The owner lowers its stop flag again
Unstop ==
    /\ stopped /\ NoJobDue
    /\ stopped' = FALSE
    /\ UNCHANGED <<pending, timer, elapsed, inFlight, flush, coalesce, accepted, handed, owed>>

\* resetThrottleWindow(): also cancels the timer, at whatever moment it is called
ResetThrottleWindow ==
    /\ NoJobDue
    /\ elapsed' = TRUE
    /\ timer' = FALSE
    /\ owed' = IF timer /\ owed = "due" THEN "cancelled" ELSE owed
    /\ UNCHANGED <<pending, inFlight, flush, stopped, coalesce, accepted, handed>>

\* resetPending()
ResetPending ==
    /\ HasPendingValue(pending) /\ NoJobDue
    /\ pending' = Empty /\ owed' = "none"
    /\ UNCHANGED <<timer, elapsed, inFlight, flush, stopped, coalesce, accepted, handed>>

\* takePending(): the caller takes the queued value over, with its timer
TakePending ==
    /\ HasPendingValue(pending) /\ NoJobDue
    /\ pending' = Empty /\ timer' = FALSE /\ owed' = "none"
    /\ UNCHANGED <<elapsed, inFlight, flush, stopped, coalesce, accepted, handed>>

\* throttleMs have passed since lastSentAt
Elapse ==
    /\ ~elapsed
    /\ elapsed' = TRUE
    /\ UNCHANGED <<pending, timer, inFlight, flush, stopped, coalesce, accepted, handed, owed>>

Continue(f) == Resume(f) \/ Woken(f)
Settle(f) == NoJobDue /\ \E out \in {"sent", "false", "rejected"} : FlushSettles(f, out)

Next ==
    \/ accepted < MaxUpdates /\ Update(accepted + 1)
    \/ accepted < MaxUpdates /\ \E v \in {Empty, Blank} : Update(v)
    \/ \E f \in Flushes : Flush(f) \/ FireTimer(f) \/ Settle(f) \/ Continue(f)
    \/ Stop \/ Unstop \/ ResetThrottleWindow \/ ResetPending \/ TakePending \/ Elapse

Spec == Init /\ [][Next]_vars

\* The channel settles every send, promise jobs run, and timers fire
LiveSpec ==
    /\ Spec
    /\ \A f \in Flushes : WF_vars(Settle(f)) /\ WF_vars(Continue(f))
    /\ WF_vars(\E f \in Flushes : FireTimer(f))

-----------------------------------------------------------------------------
(* Properties.                                                             *)

\* A draft that update accepted is sent, replaced by a newer one, or dropped by
\* the owner, unless the owner cancelled its timer (resetThrottleWindow 141-144)
\* or the flush that left it behind had failed: with a rejection, which somebody
\* was told, or with a send that returned false, of which nobody is told (80-82).
\* Every other way through retainUnsentValue (41-48), the coalescing returns
\* (55-57, 88-91) and update (121-126) leads to another attempt.
OwedIsServed == owed = "due" ~> owed # "due"

\* "Only newer work owns another attempt; never retry the failed/rejected
\* value": a retained draft is never put back after a newer one went out
NeverBackwards == pending \in Drafts => pending >= handed
=============================================================================
