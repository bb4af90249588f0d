------------------------------- MODULE TaskPool -------------------------------
(***************************************************************************)
(* WorkerTaskPool of src/src/infra/worker-task-pool.ts: a bounded set of   *)
(* worker threads, each executing one task at a time, behind an admission  *)
(* limit on tasks and input bytes.                                         *)
(*                                                                         *)
(* The pool lives on one event loop, so a call, a message from a worker, a *)
(* timer or a promise job is one step, with every call it makes (finish    *)
(* ends in dispatch, a failing slot may close the pool).  These calls are  *)
(* operators from pool state to pool state.  The worker threads run on     *)
(* their own.  Every task has the richest options: an input factory, a     *)
(* request handler (onRequest) and a consumption callback                  *)
(* (onInputConsumed).                                                      *)
(***************************************************************************)
EXTENDS Integers, Sequences, FiniteSets, SequencesExt

CONSTANTS
    Tasks,           \* the calls of run
    NoTask,
    Big,             \* the tasks whose input is 2 bytes; the others have 1
    MaxWorkers,      \* options.maxWorkers
    MaxPendingTasks, \* options.maxPendingTasks
    MaxPendingBytes, \* options.maxPendingBytes
    RestartOnError,  \* the values of options.restartOnError to consider
    Asking,          \* bound: the tasks that send a request to their host
    MaxFaults,       \* bound on worker faults and failed terminations
    MaxRotations     \* bound on the calls of rotate

ASSUME PoolAssumption ==
    /\ NoTask \notin Tasks /\ Big \subseteq Tasks /\ Asking \subseteq Tasks /\ IsFiniteSet(Tasks)
    /\ {MaxWorkers, MaxPendingTasks, MaxPendingBytes} \subseteq Nat \ {0}
    /\ RestartOnError \subseteq BOOLEAN /\ {MaxFaults, MaxRotations} \subseteq Nat

\* One identity more than workers allowed: the limit is the code's, not the model's
Slots == 1 .. MaxWorkers + 1
NoSlot == 0
InputBytes(t) == IF t \in Big THEN 2 ELSE 1

VARIABLES
    pool,      \* the fields of the pool, its slots and its tasks
    faults,    \* worker faults so far
    rotations  \* rotations so far

vars == <<pool, faults, rotations>>

FreshTask ==
    [called |-> FALSE, done |-> FALSE, admitted |-> FALSE, preparing |-> FALSE,
     slot |-> NoSlot, consumed |-> FALSE, exchange |-> "none", pressure |-> FALSE,
     handler |-> "none", settled |-> FALSE]

\* exec and reads are the worker thread's: the task it executes, and which of
\* the buffers it got it may still touch
NoSlotEntry ==
    [live |-> FALSE, task |-> NoTask, worker |-> "none", exec |-> NoTask, reads |-> {},
     retiring |-> FALSE, retirementFailed |-> FALSE, completions |-> {}, idleTimer |-> FALSE]

Init ==
    /\ \E restart \in RestartOnError : pool =
              [restartOnError |-> restart, queue |-> <<>>,
               slots |-> [s \in Slots |-> NoSlotEntry],
               tasks |-> [t \in Tasks |-> FreshTask],
               pendingTasks |-> 0, pendingBytes |-> 0, activeTasks |-> 0,
               closed |-> FALSE, rotation |-> "none", rotated |-> {}, awaited |-> {},
               rotationFailed |-> FALSE]
    /\ faults = 0
    /\ rotations = 0

-----------------------------------------------------------------------------
(* dispatch, and the calls that end a task.                                *)

Live(p) == {s \in Slots : p.slots[s].live}
Free(p) == {s \in Live(p) : /\ p.slots[s].task = NoTask
                            /\ ~p.slots[s].retiring /\ ~p.slots[s].retirementFailed}
Open(p) == ~p.closed /\ p.rotation = "none" /\ ~p.rotationFailed

\* The tasks that wait for their host and have not been told to checkpoint
HostWaiting(p) == {s \in Live(p) : /\ p.slots[s].task # NoTask
                                   /\ p.tasks[p.slots[s].task].exchange = "host"
                                   /\ ~p.tasks[p.slots[s].task].pressure}

\* No slot for the queue's head: signal one host-waiting owner per contender
Pressed(p) ==
    LET owners == {s \in HostWaiting(p) :
                     Cardinality({r \in HostWaiting(p) : r < s}) < Len(p.queue)}
    IN  [p EXCEPT !.tasks = [t \in Tasks |->
            IF \E s \in owners : p.slots[s].task = t
            THEN [p.tasks[t] EXCEPT !.pressure = TRUE] ELSE p.tasks[t]]]

\* A free slot, else a new one below the limit, else none
PickSlot(p) ==
    IF Free(p) # {} THEN CHOOSE s \in Free(p) : \A r \in Free(p) : s <= r
    ELSE IF Cardinality(Live(p)) < MaxWorkers
    THEN CHOOSE s \in Slots \ Live(p) : \A r \in Slots \ Live(p) : s <= r
    ELSE NoSlot

\* One turn of the loop of dispatch that has a slot for the queue's head.  The
\* input factory starts (start 306-311).
DispatchOne(p) ==
    LET s == PickSlot(p)
        t == Head(p.queue)
    IN  IF ~Open(p) \/ p.queue = <<>> \/ s = NoSlot THEN p
        ELSE [p EXCEPT !.queue = Tail(@),
                       !.slots[s] = [@ EXCEPT !.live = TRUE, !.task = t, !.idleTimer = FALSE],
                       !.activeTasks = @ + 1,
                       !.tasks[t] = [@ EXCEPT !.slot = s, !.preparing = TRUE]]

\* As many turns as there can be slots, and then the return or the end of the loop
Turns(p) ==
    LET turn[n \in 0 .. MaxWorkers + 1] == IF n = 0 THEN p ELSE DispatchOne(turn[n - 1])
    IN  turn[MaxWorkers + 1]

Dispatch(p) ==
    LET q == Turns(p)
    IN  IF Open(q) /\ q.queue # <<>> THEN Pressed(q) ELSE q

\* Mutant of ReleaseAdmission: a task may give its charge back twice
ReleaseAlways(p, t) ==
    [p EXCEPT !.tasks[t].admitted = FALSE, !.pendingTasks = @ - 1,
              !.pendingBytes = @ - InputBytes(t)]

ReleaseAdmission(p, t) ==
    IF ~p.tasks[t].admitted THEN p
    ELSE [p EXCEPT !.tasks[t].admitted = FALSE, !.pendingTasks = @ - 1,
                   !.pendingBytes = @ - InputBytes(t)]

\* complete of finish: give the charge back unless the input factory still
\* runs, release the buffers, settle the promise
Complete(p, t) ==
    LET q == IF p.tasks[t].preparing THEN p ELSE ReleaseAdmission(p, t)
    IN  [q EXCEPT !.tasks[t] = [@ EXCEPT !.consumed = TRUE, !.exchange = "none",
                                         !.settled = TRUE]]

\* retire: joins the retirement under way or starts one
Retire(p, s) == [p EXCEPT !.slots[s] = [@ EXCEPT !.retiring = TRUE, !.idleTimer = FALSE]]

\* finish for a task that has a slot: completion waits for the retirement, or
\* happens now and the slot takes the next task or idles
FinishInSlot(p, t, s, retire) ==
    LET q == [p EXCEPT !.tasks[t].done = TRUE, !.slots[s].task = NoTask, !.activeTasks = @ - 1]
    IN  IF retire
        THEN Retire([q EXCEPT !.slots[s].completions = @ \cup {t}], s)
        ELSE LET r == Dispatch(Complete(q, t))
             IN  [r EXCEPT !.slots[s].idleTimer = (@ \/ r.slots[s].task = NoTask)]

Finish(p, t, retire) ==
    IF p.tasks[t].done THEN p
    ELSE IF p.tasks[t].slot = NoSlot
    THEN Dispatch(Complete([p EXCEPT !.tasks[t].done = TRUE], t))
    ELSE FinishInSlot(p, t, p.tasks[t].slot, retire)

\* close: every queued task completes, every slot retires with its task
Close(p) ==
    LET queued == Range(p.queue)
        running == {p.slots[s].task : s \in Live(p)} \ {NoTask}
        bytes == Cardinality(queued) + Cardinality(queued \cap Big)
    IN  [p EXCEPT
          !.closed = TRUE,
          !.queue = <<>>,
          !.pendingTasks = @ - Cardinality(queued),
          !.pendingBytes = @ - bytes,
          !.activeTasks = @ - Cardinality(running),
          !.tasks = [t \in Tasks |->
              IF t \in queued
              THEN [p.tasks[t] EXCEPT !.done = TRUE, !.admitted = FALSE, !.consumed = TRUE,
                                      !.settled = TRUE]
              ELSE IF t \in running THEN [p.tasks[t] EXCEPT !.done = TRUE]
              ELSE p.tasks[t]],
          !.slots = [s \in Slots |->
              IF s \notin Live(p) THEN p.slots[s]
              ELSE [p.slots[s] EXCEPT !.retiring = TRUE, !.idleTimer = FALSE, !.task = NoTask,
                                      !.completions = @ \cup ({p.slots[s].task} \ {NoTask})]]]

\* fail: a slot under retirement is left alone
Fail(p, s) ==
    IF p.slots[s].retiring THEN p
    ELSE IF ~p.restartOnError THEN Close(p)
    ELSE IF p.slots[s].task # NoTask THEN Finish(p, p.slots[s].task, TRUE)
    ELSE Retire(p, s)

-----------------------------------------------------------------------------
(* The callers: run, abort and timeout, rotate, close.                     *)

Overloaded(p, t) ==
    p.pendingTasks >= MaxPendingTasks \/ p.pendingBytes + InputBytes(t) > MaxPendingBytes

Run(t) ==
    /\ ~pool.tasks[t].called
    /\ LET p == [pool EXCEPT !.tasks[t].called = TRUE]
       IN  pool' = IF p.closed
                   THEN [p EXCEPT !.tasks[t] = [@ EXCEPT !.done = TRUE, !.settled = TRUE]]
                   ELSE IF Overloaded(p, t) THEN Finish(p, t, FALSE)
                   ELSE Dispatch([p EXCEPT !.queue = Append(@, t), !.tasks[t].admitted = TRUE,
                                           !.pendingTasks = @ + 1,
                                           !.pendingBytes = @ + InputBytes(t)])
    /\ UNCHANGED <<faults, rotations>>

\* splice(indexOf(task), 1) of cancel: the last entry goes if the task is not queued
Unqueued(queue, t) ==
    LET found == {i \in DOMAIN queue : queue[i] = t}
    IN  RemoveAt(queue, IF found = {} THEN Len(queue) ELSE CHOOSE i \in found : TRUE)

\* cancel: the caller's signal aborts, or the task's timer fires
Cancel(t) ==
    /\ pool.tasks[t].called /\ ~pool.tasks[t].done
    /\ pool' = IF pool.tasks[t].slot # NoSlot THEN Fail(pool, pool.tasks[t].slot)
               ELSE Finish([pool EXCEPT !.queue = Unqueued(@, t)], t, FALSE)
    /\ UNCHANGED <<faults, rotations>>

CloseCalled ==
    /\ ~pool.closed \/ \E s \in Live(pool) : ~pool.slots[s].retiring
    /\ pool' = Close(pool)
    /\ UNCHANGED <<faults, rotations>>

\* rotate: pause dispatch and await the current tasks ...
Rotate ==
    /\ pool.rotation = "none" /\ rotations < MaxRotations
    /\ rotations' = rotations + 1
    /\ pool' = [pool EXCEPT !.rotation = "settling", !.rotationFailed = FALSE,
                            !.rotated = Live(pool),
                            !.awaited = {pool.slots[s].task : s \in Live(pool)} \ {NoTask}]
    /\ UNCHANGED faults

\* ... then retire the slots there were (joining retirements under way) ...
RotateRetires ==
    /\ pool.rotation = "settling"
    /\ \A t \in pool.awaited : pool.tasks[t].settled
    /\ pool' = [pool EXCEPT
          !.rotation = "retiring",
          !.slots = [s \in Slots |->
              IF s \in pool.rotated /\ pool.slots[s].live
              THEN [pool.slots[s] EXCEPT !.retiring = TRUE, !.idleTimer = FALSE]
              ELSE pool.slots[s]]]
    /\ UNCHANGED <<faults, rotations>>

\* ... and go on once all of them have gone, or stay shut after a failure
RotateEnds ==
    /\ pool.rotation \in {"retiring", "broken"}
    /\ pool.rotation = "retiring" => \A s \in pool.rotated : ~pool.slots[s].live
    /\ LET p == [pool EXCEPT !.rotation = "none", !.rotated = {}, !.awaited = {},
                             !.rotationFailed = (pool.rotation = "broken")]
       IN  pool' = Dispatch(p)
    /\ UNCHANGED <<faults, rotations>>

-----------------------------------------------------------------------------
(* The promise jobs and timers of the pool.                                *)

\* The input factory resolved: a finished task only gives its charge back,
\* another one is posted to the slot's worker, which is created if need be
Prepared(t) ==
    /\ pool.tasks[t].preparing
    /\ LET s == pool.tasks[t].slot
           p == [pool EXCEPT !.tasks[t].preparing = FALSE]
       IN  pool' = IF p.tasks[t].done THEN ReleaseAdmission(p, t)
                   ELSE [p EXCEPT !.slots[s] =
                            [@ EXCEPT !.worker = "up", !.exec = t,
                                      !.reads = p.slots[s].reads \cup {<<t, "input">>}]]
    /\ UNCHANGED <<faults, rotations>>

\* The input factory rejected: no input reached the worker
PreparationFails(t) ==
    /\ pool.tasks[t].preparing
    /\ LET p == Finish(pool, t, FALSE)
       IN  pool' = ReleaseAdmission([p EXCEPT !.tasks[t].preparing = FALSE], t)
    /\ UNCHANGED <<faults, rotations>>

\* createWorker throws, or postMessage does once there is a worker
FeedFails(t) ==
    /\ pool.tasks[t].preparing /\ ~pool.tasks[t].done /\ faults < MaxFaults
    /\ LET s == pool.tasks[t].slot
       IN  \E w \in {pool.slots[s].worker, "up"} :
             pool' = Fail([pool EXCEPT !.tasks[t].preparing = FALSE, !.slots[s].worker = w], s)
    /\ faults' = faults + 1
    /\ UNCHANGED rotations

IdleTimeout(s) ==
    /\ pool.slots[s].idleTimer
    /\ pool' = Retire(pool, s)
    /\ UNCHANGED <<faults, rotations>>

\* Mutant of AfterExit: nobody takes the freed capacity
AfterExitQuiet(p) == p

\* What follows the slot's removal
AfterExit(p) == Dispatch(p)

\* terminate() resolved: the slot goes, its tasks complete, dispatch
Retired(s) ==
    /\ pool.slots[s].retiring
    /\ LET done == pool.slots[s].completions
           charged == {t \in done : pool.tasks[t].admitted /\ ~pool.tasks[t].preparing}
           p == [pool EXCEPT
               !.slots[s] = NoSlotEntry,
               !.pendingTasks = @ - Cardinality(charged),
               !.pendingBytes = @ - Cardinality(charged) - Cardinality(charged \cap Big),
               !.tasks = [t \in Tasks |->
                   IF t \notin done THEN pool.tasks[t]
                   ELSE [pool.tasks[t] EXCEPT !.admitted = (@ /\ t \notin charged),
                             !.consumed = TRUE, !.exchange = "none", !.settled = TRUE]]]
       IN  pool' = AfterExit(p)
    /\ UNCHANGED <<faults, rotations>>

\* terminate() failed: the promises reject at once, custody and charges stay
\* until a later close, rotation or exit retires the slot again
RetirementFails(s) ==
    /\ pool.slots[s].retiring /\ pool.slots[s].worker = "up" /\ faults < MaxFaults
    /\ pool' = [pool EXCEPT
          !.slots[s] = [@ EXCEPT !.retiring = FALSE, !.retirementFailed = TRUE],
          !.tasks = [t \in Tasks |-> IF t \in pool.slots[s].completions
                                     THEN [pool.tasks[t] EXCEPT !.settled = TRUE]
                                     ELSE pool.tasks[t]],
          !.rotation = IF @ = "retiring" /\ s \in pool.rotated THEN "broken" ELSE @]
    /\ faults' = faults + 1
    /\ UNCHANGED rotations

-----------------------------------------------------------------------------
(* Messages of the worker threads, and the host's answers to them.         *)

\* The worker thread of s executes t and its messages are heard
Hears(s, t) ==
    /\ pool.slots[s].exec = t /\ t # NoTask
    /\ pool.slots[s].worker = "up" /\ ~pool.slots[s].retiring

\* A receipt: the worker has consumed its input or the host's answer
Consumes(s, t, what) ==
    /\ Hears(s, t) /\ <<t, what>> \in pool.slots[s].reads
    /\ LET p == [pool EXCEPT !.slots[s].reads = @ \ {<<t, what>>}]
       IN  pool' = IF pool.slots[s].task # t THEN Fail(p, s)
                   ELSE IF what = "input" THEN [p EXCEPT !.tasks[t].consumed = TRUE]
                   ELSE [p EXCEPT !.tasks[t].exchange = "none"]
    /\ UNCHANGED <<faults, rotations>>

\* A request to the host: the handler runs, and waiting tasks may want the slot
Requests(s, t) ==
    /\ Hears(s, t) /\ t \in Asking /\ pool.tasks[t].handler = "none"
    /\ pool' = IF pool.slots[s].task # t \/ pool.tasks[t].exchange # "none" THEN Fail(pool, s)
               ELSE Dispatch([pool EXCEPT !.tasks[t] =
                        [@ EXCEPT !.exchange = "host", !.pressure = FALSE,
                                  !.handler = "running"]])
    /\ UNCHANGED <<faults, rotations>>

\* Mutant of MayFeed: only the task is looked at, not the slot
MayFeedAnyway(t) == TRUE

\* The host's answer still has a reader
MayFeed(t) ==
    LET s == pool.tasks[t].slot
    IN  ~pool.tasks[t].done /\ pool.slots[s].task = t /\ ~pool.slots[s].retiring

\* The host's handler settles: "a slow host handler may settle after
\* cancellation. Never feed a successor."
HostAnswers(t) ==
    /\ pool.tasks[t].handler = "running"
    /\ LET s == pool.tasks[t].slot
           p == [pool EXCEPT !.tasks[t].handler = "answered"]
       IN  pool' = IF MayFeed(t)
                   THEN [p EXCEPT !.tasks[t].exchange = "sent",
                                  !.slots[s].reads = @ \cup {<<t, "answer">>}]
                   ELSE p
    /\ UNCHANGED <<faults, rotations>>

\* The host's handler rejects
HostFails(t) ==
    /\ pool.tasks[t].handler = "running"
    /\ LET p == [pool EXCEPT !.tasks[t].handler = "answered"]
       IN  pool' = IF MayFeed(t) THEN Fail(p, pool.tasks[t].slot) ELSE p
    /\ UNCHANGED <<faults, rotations>>

\* Mutant of MayStillRead: a result is taken for the receipts
NeverReads(t) == FALSE

\* Without all its receipts the worker may still own its buffers, and only
\* termination proves otherwise
MayStillRead(t) == pool.tasks[t].exchange # "none" \/ ~pool.tasks[t].consumed

\* A result, ok or failed
Replies(s, t) ==
    /\ Hears(s, t)
    /\ LET p == [pool EXCEPT !.slots[s].exec = NoTask]
       IN  pool' = IF pool.slots[s].task # t THEN Fail(p, s)
                   ELSE Finish(p, t, MayStillRead(t))
    /\ UNCHANGED <<faults, rotations>>

\* An error event, an unreadable or invalid message, a result that
\* validateResult refuses
WorkerFaults(s) ==
    /\ pool.slots[s].worker = "up" /\ ~pool.slots[s].retiring /\ faults < MaxFaults
    /\ pool' = Fail(pool, s)
    /\ faults' = faults + 1
    /\ UNCHANGED rotations

\* The worker thread exits by itself
WorkerExits(s) ==
    /\ pool.slots[s].worker = "up" /\ faults < MaxFaults
    /\ pool' = Fail([pool EXCEPT !.slots[s] =
                        [@ EXCEPT !.worker = "gone", !.exec = NoTask, !.reads = {}]], s)
    /\ faults' = faults + 1
    /\ UNCHANGED rotations

-----------------------------------------------------------------------------
Preparation(t) == Prepared(t) \/ PreparationFails(t) \/ FeedFails(t)
Host(t) == HostAnswers(t) \/ HostFails(t)
Messages(s) == \E t \in Tasks : \/ \E what \in {"input", "answer"} : Consumes(s, t, what)
                                \/ Requests(s, t) \/ Replies(s, t)
Retirement(s) == Retired(s) \/ RetirementFails(s)

Next ==
    \/ \E t \in Tasks : Run(t) \/ Cancel(t) \/ Preparation(t) \/ Host(t)
    \/ \E s \in Slots : IdleTimeout(s) \/ Retirement(s) \/ Messages(s)
                        \/ WorkerFaults(s) \/ WorkerExits(s)
    \/ CloseCalled \/ Rotate \/ RotateRetires \/ RotateEnds

Spec == Init /\ [][Next]_vars

\* Input factories and host handlers settle, workers reply, terminate() settles
\* and promise jobs run
Internal ==
    \/ \E t \in Tasks : Preparation(t) \/ Host(t)
    \/ \E s \in Slots : Retirement(s) \/ \E t \in Tasks : Replies(s, t)
    \/ RotateRetires \/ RotateEnds

\* Each of these steps happens finitely often in a behaviour with bounded calls,
\* so it is enough that the pool never rests while one of them is possible
LiveSpec == Spec /\ WF_vars(Internal)

-----------------------------------------------------------------------------
(* Properties.                                                             *)

\* Every variable keeps its type
TypeOK ==
    /\ pool.queue \in Seq(Tasks)
    /\ pool.slots \in [Slots -> [live : BOOLEAN, task : Tasks \cup {NoTask},
           worker : {"none", "up", "gone"}, exec : Tasks \cup {NoTask},
           reads : SUBSET (Tasks \X {"input", "answer"}), retiring : BOOLEAN,
           retirementFailed : BOOLEAN, completions : SUBSET Tasks, idleTimer : BOOLEAN]]
    /\ pool.tasks \in [Tasks -> [called : BOOLEAN, done : BOOLEAN, admitted : BOOLEAN,
           preparing : BOOLEAN, slot : Slots \cup {NoSlot}, consumed : BOOLEAN,
           exchange : {"none", "host", "sent"}, pressure : BOOLEAN,
           handler : {"none", "running", "answered"}, settled : BOOLEAN]]
    /\ {pool.pendingTasks, pool.pendingBytes, pool.activeTasks, faults, rotations} \subseteq Nat
    /\ {pool.closed, pool.rotationFailed, pool.restartOnError} \subseteq BOOLEAN
    /\ pool.rotation \in {"none", "settling", "retiring", "broken"}
    /\ pool.rotated \in SUBSET Slots /\ pool.awaited \in SUBSET Tasks

\* The counters are what they count, within their limits, whatever order tasks
\* are dispatched, aborted, failed, closed and retired in: a task is charged
\* once and gives its charge back once (releaseAdmission 611-618, run 118-128).
\* "Keep input and capacity custody until execution stops": a task whose input
\* factory or whose worker thread still runs is charged, even when it was
\* cancelled long ago (finish 529-609, start 316-321). The state is well typed.
ChargesAreExact ==
    LET charged == {t \in Tasks : pool.tasks[t].admitted}
    IN  /\ TypeOK
        /\ pool.pendingTasks = Cardinality(charged)
        /\ pool.pendingBytes = Cardinality(charged) + Cardinality(charged \cap Big)
        /\ pool.pendingTasks <= MaxPendingTasks /\ pool.pendingBytes <= MaxPendingBytes
        /\ pool.activeTasks = Cardinality({s \in Live(pool) : pool.slots[s].task # NoTask})
        /\ \A t \in Tasks :
              pool.tasks[t].preparing \/ (\E s \in Slots : pool.slots[s].exec = t) => t \in charged

\* A worker thread is given a task only when it runs nothing, never more of
\* them than maxWorkers exist, and buffers are posted to the slot's own task
\* only: neither a late preparation nor a slow host handler feeds a successor
OneTaskPerWorker ==
    /\ Cardinality(Live(pool)) <= MaxWorkers
    /\ \A s \in Slots :
          /\ pool.slots[s].exec # NoTask /\ pool.slots[s].task # NoTask
                => pool.slots[s].exec = pool.slots[s].task
          /\ pool.slots[s].reads # {} => pool.slots[s].worker = "up"

\* The caller's buffers are released only after the worker's receipt or after
\* the thread is gone (receive 392-397, receiveExchange 418-431)
ReleasedIsUnread ==
    \A s \in Slots, t \in Tasks :
        /\ <<t, "input">> \in pool.slots[s].reads => ~pool.tasks[t].consumed
        /\ <<t, "answer">> \in pool.slots[s].reads => pool.tasks[t].exchange = "sent"

\* No task waits for a worker that is free: outside rotation and closing, a
\* queue means that every slot is taken and, if tasks wait for their host,
\* that one of them has been asked to checkpoint, unless a slot is about to go
\* anyway (dispatch 203-256)
QueueIsJustified ==
    Open(pool) /\ pool.queue # <<>> =>
        /\ Free(pool) = {} /\ Cardinality(Live(pool)) = MaxWorkers
        /\ HostWaiting(pool) # {} =>
              \E s \in Live(pool) :
                  \/ pool.slots[s].task # NoTask /\ pool.tasks[pool.slots[s].task].pressure
                  \/ pool.slots[s].retiring \/ pool.slots[s].retirementFailed

\* Every call of run settles, unless a worker could not be terminated (its
\* slot is lost until a later close or rotation) or a rotation failed
EveryCallSettles ==
    \A t \in Tasks : pool.tasks[t].called ~>
        \/ pool.tasks[t].settled
        \/ pool.rotationFailed
        \/ \E s \in Slots : pool.slots[s].retirementFailed
=============================================================================
