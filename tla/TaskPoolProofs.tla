---------------------------- MODULE TaskPoolProofs ----------------------------
(***************************************************************************)
(* The safety properties of TaskPool.tla, for every number of workers and  *)
(* tasks.  The inductive invariant relates slots, tasks, queue and         *)
(* counters; the operators that handlers share (dispatch, finish, fail,    *)
(* close, releaseAdmission, ...) keep it one by one, and an action that    *)
(* calls them in a row keeps it by their lemmas.  Where a handler passes   *)
(* through a state in which a slot's worker has gone before the slot       *)
(* fails, the lemmas ask for the rest of the invariant only.               *)
(***************************************************************************)
EXTENDS TaskPool, FiniteSetTheorems, FunctionTheorems, SequenceTheorems, WellFoundedInduction,
        TLAPS

-----------------------------------------------------------------------------
(* The inductive invariant.                                                *)

\* The types of the slots, the tasks and the pool
SlotRec ==
    [live : BOOLEAN, task : Tasks \cup {NoTask}, worker : {"none", "up", "gone"},
     exec : Tasks \cup {NoTask}, reads : SUBSET (Tasks \X {"input", "answer"}),
     retiring : BOOLEAN, retirementFailed : BOOLEAN, completions : SUBSET Tasks,
     idleTimer : BOOLEAN]

TaskRec ==
    [called : BOOLEAN, done : BOOLEAN, admitted : BOOLEAN, preparing : BOOLEAN,
     slot : Slots \cup {NoSlot}, consumed : BOOLEAN, exchange : {"none", "host", "sent"},
     pressure : BOOLEAN, handler : {"none", "running", "answered"}, settled : BOOLEAN]

PoolRec ==
    [restartOnError : BOOLEAN, queue : Seq(Tasks), slots : [Slots -> SlotRec],
     tasks : [Tasks -> TaskRec], pendingTasks : Int, pendingBytes : Int, activeTasks : Int,
     closed : BOOLEAN, rotation : {"none", "settling", "retiring", "broken"},
     rotated : SUBSET Slots, awaited : SUBSET Tasks, rotationFailed : BOOLEAN]

\* A slot with a task is its task's slot and runs nothing else; what its thread
\* executes is charged; who waits for the slot's end has finished; buffers in
\* the thread's hands are its own tasks'
SlotInv(S, T, s) ==
    /\ ~S[s].live => S[s] = NoSlotEntry
    /\ S[s].task # NoTask =>
          /\ S[s].live /\ ~S[s].retiring /\ ~S[s].retirementFailed /\ ~S[s].idleTimer
          /\ T[S[s].task].slot = s /\ ~T[S[s].task].done
          /\ S[s].exec \in {NoTask, S[s].task}
    /\ S[s].exec # NoTask =>
          /\ T[S[s].exec].slot = s /\ T[S[s].exec].admitted /\ ~T[S[s].exec].preparing
          /\ S[s].task = NoTask => S[s].retiring \/ S[s].retirementFailed
    /\ \A t \in S[s].completions : T[t].slot = s /\ T[t].done
    /\ S[s].reads # {} => S[s].worker = "up"
    /\ \A t \in Tasks : <<t, "input">> \in S[s].reads =>
          T[t].slot = s /\ ~T[t].preparing /\ ~T[t].consumed
    /\ \A t \in Tasks : <<t, "answer">> \in S[s].reads =>
          T[t].slot = s /\ ~T[t].preparing /\ T[t].exchange = "sent"

\* A task is called, queued, in its slot and done, in this order
TaskInv(S, T, q, t) ==
    /\ ~T[t].called => T[t].slot = NoSlot /\ ~T[t].admitted /\ ~T[t].done
    /\ T[t].slot = NoSlot =>
          ~T[t].preparing /\ T[t].handler = "none" /\ (T[t].consumed => T[t].done)
    /\ T[t].called /\ ~T[t].done /\ T[t].slot = NoSlot => \E i \in 1 .. Len(q) : q[i] = t
    /\ ~T[t].done /\ T[t].slot # NoSlot => S[T[t].slot].task = t
    /\ T[t].preparing => T[t].admitted /\ T[t].handler = "none"
    /\ T[t].preparing /\ ~T[t].done => ~T[t].consumed /\ S[T[t].slot].exec = NoTask
    /\ T[t].settled => T[t].done

\* The queue holds admitted tasks without a slot, each once
QueueInv(T, q) ==
    /\ \A i \in 1 .. Len(q) : /\ T[q[i]].called /\ T[q[i]].admitted
                              /\ ~T[q[i]].done /\ T[q[i]].slot = NoSlot
    /\ \A i, j \in 1 .. Len(q) : q[i] = q[j] => i = j

\* A task that has asked its host has a worker as long as it has its slot
HostInv(S, T, s) ==
    S[s].task # NoTask /\ T[S[s].task].handler # "none" => S[s].worker = "up"

\* Slots, tasks and queue fit each other
Fits(S, T, q) ==
    /\ \A s \in Slots : SlotInv(S, T, s)
    /\ \A t \in Tasks : TaskInv(S, T, q, t)
    /\ QueueInv(T, q)

\* The charged tasks, the slots with a task, and the slots in use
Charged(T) == {t \in Tasks : T[t].admitted}
Busy(S) == {s \in Slots : S[s].task # NoTask}
Alive(S) == {s \in Slots : S[s].live}

\* The counters are exact and within their limits
CountInv(S, T, tasks, bytes, active) ==
    /\ tasks = Cardinality(Charged(T))
    /\ bytes = Cardinality(Charged(T)) + Cardinality(Charged(T) \cap Big)
    /\ tasks <= MaxPendingTasks /\ bytes <= MaxPendingBytes
    /\ active = Cardinality(Busy(S))
    /\ Cardinality(Alive(S)) <= MaxWorkers

\* While a rotation waits, the slots it will retire run nothing else
RotInv(p) ==
    p.rotation = "settling" => \A s \in p.rotated : p.slots[s].task \in p.awaited \cup {NoTask}

\* What needs no look at the handlers
Good(p) ==
    /\ p \in PoolRec
    /\ Fits(p.slots, p.tasks, p.queue)
    /\ CountInv(p.slots, p.tasks, p.pendingTasks, p.pendingBytes, p.activeTasks)
    /\ RotInv(p)

\* The handlers' part
Hosted(p) == \A s \in Slots : HostInv(p.slots, p.tasks, s)

-----------------------------------------------------------------------------
(* Steps that touch some slots and some tasks.                             *)

\* What the proofs use of the constants
LEMMA PoolConstants ==
    /\ NoTask \notin Tasks /\ NoSlot \notin Slots /\ MaxWorkers \in Nat \ {0}
    /\ IsFiniteSet(Tasks) /\ IsFiniteSet(Slots) /\ Slots \subseteq Nat
    /\ Cardinality(Slots) = MaxWorkers + 1
<1>1. MaxWorkers \in Nat \ {0} /\ NoTask \notin Tasks /\ IsFiniteSet(Tasks)
  BY PoolAssumption
<1>2. NoSlot \notin Slots /\ Slots \subseteq Nat
  BY <1>1 DEF Slots, NoSlot
<1>3. IsFiniteSet(1 .. MaxWorkers + 1) /\ Cardinality(1 .. MaxWorkers + 1) = MaxWorkers + 1
  <2>1. PICK b \in Nat : b = MaxWorkers + 1 /\ b >= 1
    BY <1>1
  <2>2. IsFiniteSet(1 .. b) /\ Cardinality(1 .. b) = b
    BY <2>1, FS_Interval
  <2>3. QED
    BY <2>1, <2>2
<1>4. QED
  BY <1>1, <1>2, <1>3 DEF Slots

\* A step that changes the slots X and the tasks Y only
Changes(S, T, q, S2, T2, q2, X, Y) ==
    /\ S \in [Slots -> SlotRec] /\ S2 \in [Slots -> SlotRec]
    /\ T \in [Tasks -> TaskRec] /\ T2 \in [Tasks -> TaskRec]
    /\ Fits(S, T, q)
    /\ X \in SUBSET Slots /\ Y \in SUBSET Tasks
    /\ \A s \in Slots \ X : S2[s] = S[s]
    /\ \A t \in Tasks \ Y : T2[t] = T[t]
    /\ \A t \in Y : T[t].slot \in X \cup {NoSlot}
    /\ \A s \in X : S[s].task \in Y \cup {NoTask}
    /\ \A s \in X : SlotInv(S2, T2, s)
    /\ \A t \in Y : TaskInv(S2, T2, q2, t)
    /\ QueueInv(T2, q2)
    /\ \A t \in Tasks \ Y : (\E i \in 1 .. Len(q) : q[i] = t) =>
                              (\E i \in 1 .. Len(q2) : q2[i] = t)

\* If the tasks of the changed slots change or stay away, and the changed tasks
\* have no other slots, only they need to be looked at
LEMMA FitStep ==
    ASSUME NEW S, NEW T, NEW q, NEW S2, NEW T2, NEW q2, NEW X, NEW Y,
           Changes(S, T, q, S2, T2, q2, X, Y)
    PROVE  Fits(S2, T2, q2)
<1> USE DEF Changes
<1>1. ASSUME NEW s \in Slots \ X PROVE SlotInv(S2, T2, s)
  <2>1. SlotInv(S, T, s) /\ S2[s] = S[s] /\ S[s] \in SlotRec
    BY DEF Fits
  <2>2. s # NoSlot /\ NoTask \notin Tasks
    BY PoolConstants
  <2>3. ASSUME NEW t \in Tasks, T[t].slot = s PROVE T2[t] = T[t]
    BY <2>2, <2>3
  <2>4. S[s].task \in Tasks \cup {NoTask} /\ S[s].exec \in Tasks \cup {NoTask}
        /\ S[s].completions \in SUBSET Tasks
    BY <2>1 DEF SlotRec
  <2>5. QED
    BY <2>1, <2>2, <2>3, <2>4 DEF SlotInv
<1>2. ASSUME NEW t \in Tasks \ Y PROVE TaskInv(S2, T2, q2, t)
  <2>1. TaskInv(S, T, q, t) /\ T2[t] = T[t] /\ T[t] \in TaskRec
    BY DEF Fits
  <2>2. T[t].slot \in Slots \cup {NoSlot}
    BY <2>1 DEF TaskRec
  <2>3. ASSUME ~T[t].done, T[t].slot # NoSlot PROVE S2[T[t].slot] = S[T[t].slot]
    <3>1. S[T[t].slot].task = t
      BY <2>1, <2>3 DEF TaskInv
    <3>2. T[t].slot \notin X
      BY <3>1, PoolConstants, ZenonT(40)
    <3>3. QED
      BY <2>2, <2>3, <3>2
  <2>4. T[t].preparing => T[t].slot # NoSlot
    BY <2>1 DEF TaskInv
  <2>5. QED
    BY <2>1, <2>3, <2>4 DEF TaskInv
<1>3. QED
  BY <1>1, <1>2 DEF Fits

-----------------------------------------------------------------------------
(* Counting.                                                               *)

\* The charged tasks are finitely many
LEMMA ChargedFinite ==
    ASSUME NEW T
    PROVE  /\ IsFiniteSet(Charged(T)) /\ Cardinality(Charged(T)) \in Nat
           /\ IsFiniteSet(Charged(T) \cap Big) /\ Cardinality(Charged(T) \cap Big) \in Nat
<1>1. Charged(T) \in SUBSET Tasks /\ Charged(T) \cap Big \in SUBSET Tasks
  BY DEF Charged
<1>2. IsFiniteSet(Charged(T)) /\ IsFiniteSet(Charged(T) \cap Big)
  BY <1>1, PoolConstants, FS_Subset
<1>3. QED
  BY <1>2, FS_CardinalityType

\* The slots in use are finite sets
LEMMA SlotsFinite ==
    ASSUME NEW X \in SUBSET Slots
    PROVE  IsFiniteSet(X) /\ Cardinality(X) \in Nat
<1>1. IsFiniteSet(X)
  BY PoolConstants, FS_Subset
<1>2. QED
  BY <1>1, FS_CardinalityType

\* Some tasks give their charges back
LEMMA ChargesDrop ==
    ASSUME NEW T, NEW T2, NEW D \in SUBSET Charged(T), Charged(T2) = Charged(T) \ D
    PROVE  /\ Cardinality(Charged(T2)) = Cardinality(Charged(T)) - Cardinality(D)
           /\ Cardinality(Charged(T2) \cap Big) =
                 Cardinality(Charged(T) \cap Big) - Cardinality(D \cap Big)
           /\ Cardinality(D) \in Nat /\ Cardinality(D \cap Big) \in Nat
<1> DEFINE C == Charged(T)
           CB == Charged(T) \cap Big
<1>1. IsFiniteSet(C) /\ Cardinality(C) \in Nat /\ IsFiniteSet(CB) /\ Cardinality(CB) \in Nat
  BY ChargedFinite
<1>2. IsFiniteSet(D) /\ IsFiniteSet(D \cap Big)
  <2>1. D \in SUBSET C /\ D \cap Big \in SUBSET C
    OBVIOUS
  <2>2. QED
    BY <1>1, <2>1, FS_Subset
<1>3. Cardinality(D) \in Nat /\ Cardinality(D \cap Big) \in Nat
  BY <1>2, FS_CardinalityType
<1>4. C \cap D = D /\ CB \cap (D \cap Big) = D \cap Big
  OBVIOUS
<1>5. Charged(T2) = C \ D /\ Charged(T2) \cap Big = CB \ (D \cap Big)
  OBVIOUS
<1>6. Cardinality(Charged(T2)) = Cardinality(C) - Cardinality(D)
  <2>1. Cardinality(C \ D) = Cardinality(C) - Cardinality(C \cap D)
    BY <1>1, FS_Difference
  <2>2. QED
    BY <1>4, <1>5, <2>1
<1>7. Cardinality(Charged(T2) \cap Big) = Cardinality(CB) - Cardinality(D \cap Big)
  <2>1. Cardinality(CB \ (D \cap Big)) = Cardinality(CB) - Cardinality(CB \cap (D \cap Big))
    BY <1>1, FS_Difference
  <2>2. QED
    BY <1>4, <1>5, <2>1
<1>8. QED
  BY <1>3, <1>6, <1>7

\* One task gives its charge back
LEMMA ChargeDrops ==
    ASSUME NEW T, NEW T2, NEW t \in Charged(T), Charged(T2) = Charged(T) \ {t}
    PROVE  /\ Cardinality(Charged(T2)) = Cardinality(Charged(T)) - 1
           /\ Cardinality(Charged(T2)) + Cardinality(Charged(T2) \cap Big) =
                 Cardinality(Charged(T)) + Cardinality(Charged(T) \cap Big) - InputBytes(t)
           /\ InputBytes(t) \in {1, 2}
<1> DEFINE C == Charged(T)
           CB == Charged(T) \cap Big
<1>1. IsFiniteSet(C) /\ Cardinality(C) \in Nat /\ IsFiniteSet(CB) /\ Cardinality(CB) \in Nat
  BY ChargedFinite
<1>2. Charged(T2) = C \ {t} /\ Charged(T2) \cap Big = CB \ {t} /\ t \in C
  OBVIOUS
<1>3. t \in CB <=> t \in Big
  OBVIOUS
<1> HIDE DEF C, CB
<1>4. Cardinality(C \ {t}) = Cardinality(C) - 1
  BY <1>1, <1>2, FS_RemoveElement
<1>5. Cardinality(CB \ {t}) = IF t \in CB THEN Cardinality(CB) - 1 ELSE Cardinality(CB)
  BY <1>1, FS_RemoveElement
<1>6. /\ Cardinality(Charged(T2)) = Cardinality(C) - 1
      /\ Cardinality(Charged(T2) \cap Big) = Cardinality(CB) - (IF t \in Big THEN 1 ELSE 0)
  <2>1. PICK c, d : c = Cardinality(C) /\ d = Cardinality(CB) /\ c \in Nat /\ d \in Nat
    BY <1>1
  <2>2. Cardinality(Charged(T2)) = c - 1
    BY <1>2, <1>4, <2>1
  <2>3. Cardinality(Charged(T2) \cap Big) = IF t \in CB THEN d - 1 ELSE d
    BY <1>2, <1>5, <2>1
  <2>4. Cardinality(Charged(T2) \cap Big) = d - (IF t \in Big THEN 1 ELSE 0)
    BY <1>3, <2>1, <2>3
  <2>5. QED
    BY <2>1, <2>2, <2>4
<1>7. Cardinality(Charged(T2)) + Cardinality(Charged(T2) \cap Big) =
         Cardinality(C) + Cardinality(CB) - InputBytes(t) /\ InputBytes(t) \in {1, 2}
  BY <1>1, <1>6 DEF InputBytes
<1>8. QED
  BY <1>6, <1>7 DEF C, CB

\* One task is charged
LEMMA ChargeGrows ==
    ASSUME NEW T, NEW T2, NEW t, t \notin Charged(T), Charged(T2) = Charged(T) \cup {t}
    PROVE  /\ Cardinality(Charged(T2)) = Cardinality(Charged(T)) + 1
           /\ Cardinality(Charged(T2)) + Cardinality(Charged(T2) \cap Big) =
                 Cardinality(Charged(T)) + Cardinality(Charged(T) \cap Big) + InputBytes(t)
           /\ InputBytes(t) \in {1, 2}
<1>1. t \in Charged(T2) /\ Charged(T) = Charged(T2) \ {t}
  OBVIOUS
<1>2. /\ Cardinality(Charged(T)) = Cardinality(Charged(T2)) - 1
      /\ Cardinality(Charged(T)) + Cardinality(Charged(T) \cap Big) =
            Cardinality(Charged(T2)) + Cardinality(Charged(T2) \cap Big) - InputBytes(t)
      /\ InputBytes(t) \in {1, 2}
  BY <1>1, ChargeDrops
<1>3. /\ Cardinality(Charged(T)) \in Nat /\ Cardinality(Charged(T) \cap Big) \in Nat
      /\ Cardinality(Charged(T2)) \in Nat /\ Cardinality(Charged(T2) \cap Big) \in Nat
  BY ChargedFinite
<1>4. QED
  BY <1>2, <1>3

\* One slot more, or one slot less
LEMMA SlotCount ==
    ASSUME NEW X \in SUBSET Slots, NEW s \in Slots
    PROVE  /\ s \notin X => Cardinality(X \cup {s}) = Cardinality(X) + 1
           /\ s \in X => Cardinality(X \ {s}) = Cardinality(X) - 1 /\ Cardinality(X) >= 1
           /\ Cardinality(X) \in Nat
<1>1. IsFiniteSet(X) /\ Cardinality(X) \in Nat
  BY SlotsFinite
<1>2. s \notin X => Cardinality(X \cup {s}) = Cardinality(X) + 1
  BY <1>1, FS_AddElement
<1>3. s \in X => Cardinality(X \ {s}) = Cardinality(X) - 1 /\ X # {}
  BY <1>1, FS_RemoveElement
<1>4. X # {} => Cardinality(X) # 0
  BY <1>1, FS_EmptySet
<1>5. QED
  BY <1>1, <1>2, <1>3, <1>4

\* A set of slots within another one is not larger
LEMMA SlotSubset ==
    ASSUME NEW X \in SUBSET Slots, NEW Z \in SUBSET X
    PROVE  Cardinality(Z) <= Cardinality(X)
BY SlotsFinite, FS_Subset

\* Slots and the tasks they execute are equally many
LEMMA RunningCount ==
    ASSUME NEW S \in [Slots -> SlotRec], NEW T \in [Tasks -> TaskRec],
           \A s \in Slots : SlotInv(S, T, s)
    PROVE  Cardinality({S[s].task : s \in Busy(S)}) = Cardinality(Busy(S))
<1> DEFINE f == [s \in Busy(S) |-> S[s].task]
           R == {S[s].task : s \in Busy(S)}
<1>1. f \in Surjection(Busy(S), R)
  BY DEF Surjection
<1>2. \A r, s \in Busy(S) : S[r].task = S[s].task => r = s
  BY DEF Busy, SlotInv
<1>3. f \in Injection(Busy(S), R)
  BY <1>1, <1>2 DEF Injection, Surjection, IsInjective
<1>4. IsFiniteSet(Busy(S))
  <2>1. Busy(S) \in SUBSET Slots
    BY DEF Busy
  <2>2. QED
    BY <2>1, SlotsFinite
<1>5. Cardinality(R) = Cardinality(Busy(S))
  BY <1>1, <1>3, <1>4, FS_Surjection
<1>6. QED
  BY <1>5

-----------------------------------------------------------------------------
(* dispatch.                                                               *)

\* The fields the tasks' and slots' comings and goings leave alone
Kept(p, q) ==
    /\ q.restartOnError = p.restartOnError /\ q.closed = p.closed
    /\ q.rotation = p.rotation /\ q.rotated = p.rotated /\ q.awaited = p.awaited
    /\ q.rotationFailed = p.rotationFailed

\* Every non-empty set of numbers has a least element
LEMMA LeastNumber ==
    ASSUME NEW N \in SUBSET Nat, N # {}
    PROVE  \E x \in N : \A y \in N : x <= y
<1>1. PICK x \in N : \A y \in N : ~(<<y, x>> \in OpToRel(<, Nat))
  BY NatLessThanWellFounded, WFMin
<1>2. \A y \in N : ~(y < x)
  BY <1>1 DEF OpToRel
<1>3. QED
  BY <1>2

\* Nothing is left to do for a turn of dispatch
Stuck(p) == ~Open(p) \/ p.queue = <<>> \/ PickSlot(p) = NoSlot

\* The slot picked is free or new, and without one every slot is taken
LEMMA PickedSlot ==
    ASSUME NEW p, p \in PoolRec, Cardinality(Alive(p.slots)) <= MaxWorkers
    PROVE  /\ PickSlot(p) # NoSlot =>
                 /\ PickSlot(p) \in Slots
                 /\ \/ PickSlot(p) \in Free(p)
                    \/ /\ Cardinality(Alive(p.slots)) < MaxWorkers
                       /\ ~p.slots[PickSlot(p)].live
           /\ PickSlot(p) = NoSlot =>
                 Free(p) = {} /\ Cardinality(Live(p)) = MaxWorkers
<1>1. Alive(p.slots) = Live(p) /\ Live(p) \in SUBSET Slots /\ Free(p) \in SUBSET Slots
  BY DEF Alive, Live, Free
<1>2. Cardinality(Live(p)) \in Nat /\ MaxWorkers \in Nat
  BY <1>1, SlotsFinite, PoolConstants
<1>3. CASE Free(p) # {}
  <2>1. Free(p) \in SUBSET Nat
    BY <1>1, PoolConstants
  <2>2. \E s \in Free(p) : \A r \in Free(p) : s <= r
    BY <1>3, <2>1, LeastNumber
  <2>3. PickSlot(p) \in Free(p)
    BY <1>3, <2>2 DEF PickSlot
  <2>4. QED
    BY <1>1, <1>3, <2>3, PoolConstants
<1>4. CASE Free(p) = {} /\ Cardinality(Live(p)) < MaxWorkers
  <2>1. Slots \ Live(p) # {}
    <3>1. Cardinality(Slots) = MaxWorkers + 1
      BY PoolConstants
    <3>2. Live(p) # Slots
      BY <1>2, <1>4, <3>1
    <3>3. QED
      BY <1>1, <3>2
  <2>2. Slots \ Live(p) \in SUBSET Nat
    BY PoolConstants
  <2>3. \E s \in Slots \ Live(p) : \A r \in Slots \ Live(p) : s <= r
    BY <2>1, <2>2, LeastNumber
  <2>4. PickSlot(p) = CHOOSE s \in Slots \ Live(p) : \A r \in Slots \ Live(p) : s <= r
    BY <1>4 DEF PickSlot
  <2>5. PickSlot(p) \in Slots \ Live(p)
    BY <2>3, <2>4
  <2>6. QED
    BY <1>1, <1>4, <2>5, PoolConstants DEF Live
<1>5. CASE Free(p) = {} /\ ~(Cardinality(Live(p)) < MaxWorkers)
  <2>1. PickSlot(p) = NoSlot
    BY <1>5 DEF PickSlot
  <2>2. Cardinality(Live(p)) = MaxWorkers
    BY <1>1, <1>2, <1>5
  <2>3. QED
    BY <1>5, <2>1, <2>2
<1>6. QED
  BY <1>3, <1>4, <1>5

\* The queue without its head
LEMMA TailEntries ==
    ASSUME NEW q \in Seq(Tasks), q # <<>>
    PROVE  /\ Head(q) \in Tasks /\ Tail(q) \in Seq(Tasks) /\ Len(q) >= 1 /\ q[1] = Head(q)
           /\ Len(Tail(q)) = Len(q) - 1
           /\ \A i \in 1 .. Len(Tail(q)) : i + 1 \in 1 .. Len(q) /\ Tail(q)[i] = q[i + 1]
           /\ \A t \in Tasks : (\E i \in 1 .. Len(q) : q[i] = t) => 
                  t = Head(q) \/ \E i \in 1 .. Len(Tail(q)) : Tail(q)[i] = t
<1>1. /\ Head(q) \in Tasks /\ Tail(q) \in Seq(Tasks) /\ Len(q) >= 1 /\ q[1] = Head(q)
      /\ Len(Tail(q)) = Len(q) - 1 /\ Len(q) \in Nat
      /\ \A i \in 1 .. Len(Tail(q)) : i + 1 \in 1 .. Len(q) /\ Tail(q)[i] = q[i + 1]
  OBVIOUS
<1>2. ASSUME NEW t \in Tasks, NEW i \in 1 .. Len(q), q[i] = t, t # Head(q)
      PROVE  \E j \in 1 .. Len(Tail(q)) : Tail(q)[j] = t
  <2>1. i # 1 /\ i - 1 \in 1 .. Len(Tail(q))
    BY <1>1, <1>2
  <2>2. Tail(q)[i - 1] = q[(i - 1) + 1] /\ (i - 1) + 1 = i
    BY <1>1, <2>1
  <2>3. QED
    BY <1>2, <2>1, <2>2
<1>3. QED
  BY <1>1, <1>2

\* What changes in the slot and the task
TakeSlot(p) ==
    [p.slots[PickSlot(p)] EXCEPT !.live = TRUE, !.task = Head(p.queue), !.idleTimer = FALSE]
TakeTask(p) == [p.tasks[Head(p.queue)] EXCEPT !.slot = PickSlot(p), !.preparing = TRUE]

\* A turn of dispatch that is not stuck puts the head of the queue into a slot without a task
LEMMA TurnFields ==
    ASSUME NEW p, Good(p), ~Stuck(p), NEW q, q = DispatchOne(p)
    PROVE  /\ q \in PoolRec /\ Kept(p, q)
           /\ q.queue = Tail(p.queue) /\ q.activeTasks = p.activeTasks + 1
           /\ q.slots = [p.slots EXCEPT ![PickSlot(p)] = TakeSlot(p)]
           /\ q.tasks = [p.tasks EXCEPT ![Head(p.queue)] = TakeTask(p)]
           /\ q.pendingTasks = p.pendingTasks /\ q.pendingBytes = p.pendingBytes
<1>1. p \in PoolRec /\ Cardinality(Alive(p.slots)) <= MaxWorkers
  BY DEF Good, CountInv
<1>2. PICK s \in Slots : s = PickSlot(p)
  BY <1>1, PickedSlot DEF Stuck
<1>3. p.queue \in Seq(Tasks) /\ p.queue # <<>> /\ p.activeTasks \in Int
      /\ p.slots \in [Slots -> SlotRec] /\ p.tasks \in [Tasks -> TaskRec]
  BY <1>1 DEF PoolRec, Stuck
<1>4. PICK t \in Tasks : t = Head(p.queue)
  BY <1>3, TailEntries
<1>5. PICK Q \in Seq(Tasks) : Q = Tail(p.queue)
  BY <1>3, TailEntries
<1>6. PICK n \in Int : n = p.activeTasks + 1
  BY <1>3
<1>7. PICK r \in SlotRec : r = [p.slots[s] EXCEPT !.live = TRUE, !.task = t, !.idleTimer = FALSE]
  <2>1. PICK x \in SlotRec : x = p.slots[s]
    BY <1>3
  <2>2. [x EXCEPT !.live = TRUE, !.task = t, !.idleTimer = FALSE] \in SlotRec
    BY DEF SlotRec
  <2>3. QED
    BY <2>1, <2>2
<1>8. PICK u \in TaskRec : u = [p.tasks[t] EXCEPT !.slot = s, !.preparing = TRUE]
  <2>1. PICK x \in TaskRec : x = p.tasks[t]
    BY <1>3
  <2>2. [x EXCEPT !.slot = s, !.preparing = TRUE] \in TaskRec
    BY DEF TaskRec
  <2>3. QED
    BY <2>1, <2>2
<1>9. q = [p EXCEPT !.queue = Q, !.slots[s] = r, !.activeTasks = n, !.tasks[t] = u]
  BY <1>2, <1>4, <1>5, <1>6, <1>7, <1>8 DEF DispatchOne, Stuck
<1> p \in PoolRec /\ s \in Slots /\ r \in SlotRec /\ t \in Tasks /\ u \in TaskRec
    /\ Q \in Seq(Tasks) /\ n \in Int
  BY <1>1, <1>2, <1>4, <1>5, <1>6, <1>7, <1>8
<1>10. /\ q \in PoolRec /\ Kept(p, q)
       /\ q.queue = Q /\ q.activeTasks = n
       /\ q.slots = [p.slots EXCEPT ![s] = r] /\ q.tasks = [p.tasks EXCEPT ![t] = u]
       /\ q.pendingTasks = p.pendingTasks /\ q.pendingBytes = p.pendingBytes
  <2>1. ASSUME NEW x, x = [p EXCEPT !.queue = Q, !.slots[s] = r, !.activeTasks = n, !.tasks[t] = u]
        PROVE  /\ x \in PoolRec /\ Kept(p, x)
               /\ x.queue = Q /\ x.activeTasks = n
               /\ x.slots = [p.slots EXCEPT ![s] = r] /\ x.tasks = [p.tasks EXCEPT ![t] = u]
               /\ x.pendingTasks = p.pendingTasks /\ x.pendingBytes = p.pendingBytes
    BY <2>1 DEF PoolRec, Kept
  <2>2. QED
    BY <1>9, <2>1, Zenon
<1>11. r = TakeSlot(p) /\ u = TakeTask(p)
  BY <1>2, <1>4, <1>7, <1>8 DEF TakeSlot, TakeTask
<1>12. QED
  BY <1>2, <1>4, <1>5, <1>6, <1>10, <1>11

\* A turn of dispatch keeps the invariant
LEMMA TurnFits ==
    ASSUME NEW p, Good(p), ~Stuck(p), NEW q, q = DispatchOne(p)
    PROVE  /\ Fits(q.slots, q.tasks, q.queue)
           /\ Busy(q.slots) = Busy(p.slots) \cup {PickSlot(p)}
           /\ PickSlot(p) \in Slots \ Busy(p.slots)
<1> DEFINE s == PickSlot(p)
           t == Head(p.queue)
           S == p.slots
           T == p.tasks
           S2 == q.slots
           T2 == q.tasks
<1>1. p \in PoolRec /\ Cardinality(Alive(p.slots)) <= MaxWorkers /\ Fits(S, T, p.queue)
  BY DEF Good, CountInv
<1>2. /\ s \in Slots
      /\ s \in Free(p) \/ ~S[s].live
  BY <1>1, PickedSlot DEF Stuck
<1>3. p.queue \in Seq(Tasks) /\ p.queue # <<>>
      /\ S \in [Slots -> SlotRec] /\ T \in [Tasks -> TaskRec]
  BY <1>1 DEF PoolRec, Stuck
<1>4. t \in Tasks /\ Len(p.queue) >= 1 /\ p.queue[1] = t
  BY <1>3, TailEntries
<1>5. /\ q \in PoolRec /\ q.queue = Tail(p.queue)
      /\ S2 = [S EXCEPT ![s] = TakeSlot(p)] /\ T2 = [T EXCEPT ![t] = TakeTask(p)]
  BY TurnFields
<1>6. S2 \in [Slots -> SlotRec] /\ T2 \in [Tasks -> TaskRec] /\ q.queue \in Seq(Tasks)
  BY <1>5 DEF PoolRec
<1>7. T[t].called /\ T[t].admitted /\ ~T[t].done /\ T[t].slot = NoSlot
  <2>1. 1 \in 1 .. Len(p.queue)
    BY <1>3, <1>4
  <2>2. QED
    BY <1>1, <1>4, <2>1 DEF Fits, QueueInv
<1>8. /\ T[t].handler = "none" /\ ~T[t].preparing /\ ~T[t].consumed
  BY <1>1, <1>4, <1>7 DEF Fits, TaskInv
<1>9. SlotInv(S, T, s) /\ S[s] \in SlotRec
  BY <1>1, <1>2, <1>3 DEF Fits
<1>10. /\ S[s].task = NoTask /\ S[s].exec = NoTask
       /\ ~S[s].retiring /\ ~S[s].retirementFailed
  BY <1>2, <1>9 DEF Free, SlotInv, NoSlotEntry
<1>11. S2[s] = [S[s] EXCEPT !.live = TRUE, !.task = t, !.idleTimer = FALSE]
  BY <1>2, <1>3, <1>5 DEF TakeSlot
<1>12. /\ S2[s].live /\ S2[s].task = t /\ ~S2[s].idleTimer
       /\ S2[s].worker = S[s].worker /\ S2[s].exec = S[s].exec /\ S2[s].reads = S[s].reads
       /\ S2[s].retiring = S[s].retiring /\ S2[s].retirementFailed = S[s].retirementFailed
       /\ S2[s].completions = S[s].completions
  BY <1>9, <1>11 DEF SlotRec
<1>13. T[t] \in TaskRec /\ T2[t] = [T[t] EXCEPT !.slot = s, !.preparing = TRUE]
  BY <1>3, <1>4, <1>5 DEF TakeTask
<1>14. /\ T2[t].slot = s /\ T2[t].preparing
       /\ T2[t].called = T[t].called /\ T2[t].admitted = T[t].admitted
       /\ T2[t].done = T[t].done /\ T2[t].consumed = T[t].consumed
       /\ T2[t].handler = T[t].handler /\ T2[t].settled = T[t].settled
  BY <1>13 DEF TaskRec
<1>15. \A x \in Tasks \ {t} : T2[x] = T[x]
  BY <1>3, <1>5
<1>16. \A x \in Slots \ {s} : S2[x] = S[x]
  BY <1>3, <1>5
<1>17. s # NoSlot /\ NoTask \notin Tasks
  BY <1>2, PoolConstants
<1>18. SlotInv(S2, T2, s)
  <2>1. \A x \in Tasks : T[x].slot = s => T2[x] = T[x]
    BY <1>7, <1>15, <1>17
  <2>2. S[s].completions \subseteq Tasks
    BY <1>9 DEF SlotRec
  <2> HIDE DEF s, t, S, T, S2, T2
  <2>3. \A x \in S2[s].completions : T2[x].slot = s /\ T2[x].done
    BY <1>9, <1>12, <2>1, <2>2 DEF SlotInv
  <2>4. S2[s].reads # {} => S2[s].worker = "up"
    BY <1>9, <1>12 DEF SlotInv
  <2>5. \A x \in Tasks : <<x, "input">> \in S2[s].reads =>
            T2[x].slot = s /\ ~T2[x].preparing /\ ~T2[x].consumed
    BY <1>9, <1>12, <2>1 DEF SlotInv
  <2>6. \A x \in Tasks : <<x, "answer">> \in S2[s].reads =>
            T2[x].slot = s /\ ~T2[x].preparing /\ T2[x].exchange = "sent"
    BY <1>9, <1>12, <2>1 DEF SlotInv
  <2>7. QED
    BY <1>4, <1>7, <1>10, <1>12, <1>14, <2>3, <2>4, <2>5, <2>6 DEF SlotInv
<1>19. TaskInv(S2, T2, q.queue, t)
  <2>1. T[t].settled => T[t].done
    BY <1>1, <1>4 DEF Fits, TaskInv
  <2> HIDE DEF s, t, S, T, S2, T2
  <2>2. QED
    BY <1>7, <1>8, <1>10, <1>12, <1>14, <1>17, <2>1 DEF TaskInv
<1>20. QueueInv(T2, q.queue)
  <2>1. /\ Len(p.queue) \in Nat
        /\ \A i \in 1 .. Len(q.queue) :
              i + 1 \in 1 .. Len(p.queue) /\ q.queue[i] = p.queue[i + 1] /\ i + 1 # 1
    BY <1>3, <1>5, TailEntries
  <2>2. QueueInv(T, p.queue)
    BY <1>1 DEF Fits
  <2>3. \A i, j \in 1 .. Len(q.queue) : q.queue[i] = q.queue[j] => i = j
    <3>1. SUFFICES ASSUME NEW i \in 1 .. Len(q.queue), NEW j \in 1 .. Len(q.queue),
                          q.queue[i] = q.queue[j]
                   PROVE  i = j
      OBVIOUS
    <3>2. PICK a, b \in 1 .. Len(p.queue) : a = i + 1 /\ b = j + 1
      BY <2>1
    <3>3. p.queue[a] = p.queue[b]
      BY <2>1, <3>1, <3>2
    <3>4. a = b
      BY <2>2, <3>3 DEF QueueInv
    <3>5. QED
      BY <3>2, <3>4
  <2>4. ASSUME NEW i \in 1 .. Len(q.queue)
        PROVE  /\ T2[q.queue[i]].called /\ T2[q.queue[i]].admitted
               /\ ~T2[q.queue[i]].done /\ T2[q.queue[i]].slot = NoSlot
    <3>1. PICK j \in 1 .. Len(p.queue) : q.queue[i] = p.queue[j] /\ j # 1
      BY <2>1
    <3>2. 1 \in 1 .. Len(p.queue)
      BY <1>4, <2>1
    <3>3. p.queue[j] # t
      BY <1>4, <2>2, <3>1, <3>2 DEF QueueInv
    <3>4. p.queue[j] \in Tasks
      BY <1>3, <3>1
    <3>5. T2[q.queue[i]] = T[p.queue[j]]
      BY <1>15, <3>1, <3>3, <3>4
    <3>6. QED
      BY <2>2, <3>1, <3>5 DEF QueueInv
  <2>5. QED
    BY <2>3, <2>4 DEF QueueInv
<1>21. \A x \in Tasks \ {t} : (\E i \in 1 .. Len(p.queue) : p.queue[i] = x) =>
                                 (\E i \in 1 .. Len(q.queue) : q.queue[i] = x)
  <2>1. \A x \in Tasks : (\E i \in 1 .. Len(p.queue) : p.queue[i] = x) =>
            x = Head(p.queue) \/ \E i \in 1 .. Len(Tail(p.queue)) : Tail(p.queue)[i] = x
    BY <1>3, TailEntries
  <2>2. QED
    BY <1>5, <2>1
<1>22. Fits(S2, T2, q.queue)
  <2>1. \A x \in {t} : T[x].slot \in {s} \cup {NoSlot} /\ TaskInv(S2, T2, q.queue, x)
    BY <1>7, <1>19
  <2>2. \A x \in {s} : S[x].task \in {t} \cup {NoTask} /\ SlotInv(S2, T2, x)
    BY <1>10, <1>18
  <2>3. {s} \in SUBSET Slots /\ {t} \in SUBSET Tasks
    BY <1>2, <1>4
  <2>4. Fits(S, T, p.queue)
    BY <1>1
  <2> HIDE DEF s, t, S, T, S2, T2
  <2>5. Changes(S, T, p.queue, S2, T2, q.queue, {s}, {t})
    BY <1>3, <1>6, <1>15, <1>16, <1>20, <1>21, <2>1, <2>2, <2>3, <2>4 DEF Changes
  <2>6. QED
    BY <2>5, FitStep
<1>23. Busy(S2) = Busy(S) \cup {s} /\ s \notin Busy(S)
  BY <1>2, <1>4, <1>10, <1>12, <1>16, <1>17 DEF Busy
<1>24. QED
  BY <1>2, <1>22, <1>23

\* What dispatch leaves alone
Later(p, q) ==
    /\ Kept(p, q)
    /\ \A t \in Tasks : /\ q.tasks[t].done = p.tasks[t].done
                        /\ p.tasks[t].preparing => q.tasks[t].preparing
    /\ \A s \in Slots : p.slots[s].live => q.slots[s].live

\* A turn of dispatch keeps the whole invariant and fills a slot
LEMMA TurnGood ==
    ASSUME NEW p, Good(p), Hosted(p), ~Stuck(p)
    PROVE  /\ Good(DispatchOne(p)) /\ Hosted(DispatchOne(p)) /\ Later(p, DispatchOne(p))
           /\ Cardinality(Busy(DispatchOne(p).slots)) = Cardinality(Busy(p.slots)) + 1
<1> PICK q : q = DispatchOne(p)
  OBVIOUS
<1> PICK s : s = PickSlot(p)
  OBVIOUS
<1> PICK t : t = Head(p.queue)
  OBVIOUS
<1> PICK S, T, S2, T2 : S = p.slots /\ T = p.tasks /\ S2 = q.slots /\ T2 = q.tasks
  OBVIOUS
<1>1. /\ p \in PoolRec /\ Cardinality(Alive(S)) <= MaxWorkers /\ Fits(S, T, p.queue)
      /\ CountInv(S, T, p.pendingTasks, p.pendingBytes, p.activeTasks)
  BY DEF Good, CountInv
<1>2. s \in Free(p) \/ (~S[s].live /\ Cardinality(Alive(S)) < MaxWorkers)
  BY <1>1, PickedSlot DEF Stuck
<1>3. /\ S \in [Slots -> SlotRec] /\ T \in [Tasks -> TaskRec]
      /\ p.queue \in Seq(Tasks) /\ p.queue # <<>>
  BY <1>1 DEF PoolRec, Stuck
<1>4. t \in Tasks
  BY <1>3, TailEntries
<1>5. /\ Fits(S2, T2, q.queue) /\ Busy(S2) = Busy(S) \cup {s} /\ s \in Slots /\ s \notin Busy(S)
  BY TurnFits
<1>6. /\ q \in PoolRec /\ Kept(p, q) /\ q.activeTasks = p.activeTasks + 1
      /\ S2 = [S EXCEPT ![s] = TakeSlot(p)] /\ T2 = [T EXCEPT ![t] = TakeTask(p)]
      /\ q.pendingTasks = p.pendingTasks /\ q.pendingBytes = p.pendingBytes
  BY TurnFields
<1>7. S[s] \in SlotRec /\ S2[s] = [S[s] EXCEPT !.live = TRUE, !.task = t, !.idleTimer = FALSE]
  BY <1>3, <1>5, <1>6 DEF TakeSlot
<1>8. S2[s].live /\ S2[s].task = t
  BY <1>7 DEF SlotRec
<1>9. T[t] \in TaskRec /\ T2[t] = [T[t] EXCEPT !.slot = s, !.preparing = TRUE]
  BY <1>3, <1>4, <1>6 DEF TakeTask
<1>10. /\ T2[t].admitted = T[t].admitted /\ T2[t].done = T[t].done /\ T2[t].preparing
       /\ T2[t].handler = T[t].handler
  BY <1>9 DEF TaskRec
<1>11. /\ \A x \in Tasks \ {t} : T2[x] = T[x]
       /\ \A x \in Slots \ {s} : S2[x] = S[x]
  BY <1>3, <1>6
<1>12. Charged(T2) = Charged(T)
  BY <1>10, <1>11 DEF Charged
<1>13. Cardinality(Busy(S2)) = Cardinality(Busy(S)) + 1
  <2>1. Busy(S) \in SUBSET Slots
    BY DEF Busy
  <2>2. QED
    BY <1>5, <2>1, SlotCount
<1>14. Cardinality(Alive(S2)) <= MaxWorkers
  <2>1. Alive(S) \in SUBSET Slots
    BY DEF Alive
  <2>2. CASE s \in Free(p)
    <3>1. Alive(S2) = Alive(S)
      BY <1>8, <1>11, <2>2 DEF Alive, Free, Live
    <3>2. QED
      BY <1>1, <3>1
  <2>3. CASE ~S[s].live /\ Cardinality(Alive(S)) < MaxWorkers
    <3>1. Alive(S2) = Alive(S) \cup {s} /\ s \notin Alive(S)
      BY <1>5, <1>8, <1>11, <2>3 DEF Alive
    <3>2. Cardinality(Alive(S2)) = Cardinality(Alive(S)) + 1 /\ Cardinality(Alive(S)) \in Nat
      BY <1>5, <2>1, <3>1, SlotCount, ZenonT(40)
    <3>3. QED
      BY <2>3, <3>2, PoolConstants
  <2>4. QED
    BY <1>2, <2>2, <2>3
<1>15. CountInv(S2, T2, q.pendingTasks, q.pendingBytes, q.activeTasks)
  BY <1>1, <1>6, <1>12, <1>13, <1>14 DEF CountInv
<1>16. RotInv(q)
  BY <1>6 DEF RotInv, Kept, Stuck, Open
<1>17. Good(q)
  BY <1>5, <1>6, <1>15, <1>16 DEF Good
<1>18. Hosted(q)
  <2>1. T[t].handler = "none" /\ T[t].slot = NoSlot
    <3>1. 1 \in 1 .. Len(p.queue) /\ p.queue[1] = t
      BY <1>3, TailEntries
    <3>2. T[t].slot = NoSlot
      BY <1>1, <3>1 DEF Fits, QueueInv
    <3>3. QED
      BY <1>1, <1>4, <3>2 DEF Fits, TaskInv
  <2>2. HostInv(S2, T2, s)
    BY <1>8, <1>10, <2>1 DEF HostInv
  <2>3. ASSUME NEW x \in Slots \ {s} PROVE HostInv(S2, T2, x)
    <3>1. SlotInv(S, T, x) /\ HostInv(S, T, x) /\ S2[x] = S[x]
      BY <1>1, <1>11 DEF Fits, Hosted
    <3>2. S[x].task \in Tasks \cup {NoTask}
      BY <1>3 DEF SlotRec
    <3>3. x # NoSlot
      BY PoolConstants
    <3>4. S[x].task # NoTask => S[x].task # t
      BY <2>1, <3>1, <3>3 DEF SlotInv
    <3>5. S[x].task # NoTask => T2[S[x].task] = T[S[x].task]
      BY <1>11, <3>2, <3>4
    <3>6. QED
      BY <3>1, <3>5 DEF HostInv
  <2>4. QED
    BY <1>5, <2>2, <2>3 DEF Hosted
<1>19. Later(p, q)
  BY <1>6, <1>8, <1>10, <1>11 DEF Later
<1>20. QED
  BY <1>13, <1>17, <1>18, <1>19

\* A turn that is stuck changes nothing
LEMMA StuckTurn ==
    ASSUME NEW p, Stuck(p)
    PROVE  DispatchOne(p) = p
BY DEF Stuck, DispatchOne

\* The turns of the loop, one after the other
TurnsFrom(p, k, f) ==
    f = [n \in 0 .. k |-> IF n = 0 THEN p ELSE DispatchOne(f[n - 1])]

\* There is such a sequence of turns, of every length
LEMMA TurnsExist ==
    ASSUME NEW p, NEW K \in Nat
    PROVE  \E f : TurnsFrom(p, K, f)
<1> DEFINE B == {k \in Nat : ~\E f : TurnsFrom(p, k, f)}
<1>1. CASE B = {}
  BY <1>1
<1>2. CASE B # {}
  <2>1. PICK m \in B : \A y \in B : m <= y
    BY <1>2, LeastNumber
  <2>2. CASE m = 0
    <3>1. PICK f : f = [n \in 0 .. 0 |-> p]
      OBVIOUS
    <3>2. TurnsFrom(p, 0, f)
      BY <3>1 DEF TurnsFrom
    <3>3. QED
      BY <2>1, <2>2, <3>2
  <2>3. CASE m # 0
    <3>1. m \in Nat /\ m - 1 \in Nat /\ m - 1 \notin B
      BY <2>1, <2>3
    <3>2. PICK f : TurnsFrom(p, m - 1, f)
      BY <3>1
    <3>3. f = [n \in 0 .. m - 1 |-> IF n = 0 THEN p ELSE DispatchOne(f[n - 1])]
      BY <3>2 DEF TurnsFrom
    <3>4. PICK g : g = [n \in 0 .. m |-> IF n = m THEN DispatchOne(f[m - 1]) ELSE f[n]]
      OBVIOUS
    <3>5. \A n \in 0 .. m : n # m => n \in 0 .. m - 1
      BY <3>1
    <3>6. \A n \in 0 .. m - 1 : n \in 0 .. m /\ n # m /\ g[n] = f[n]
      BY <3>1, <3>4
    <3>7. ASSUME NEW n \in 0 .. m
          PROVE  g[n] = IF n = 0 THEN p ELSE DispatchOne(g[n - 1])
      <4>1. n # 0 => n - 1 \in 0 .. m - 1
        BY <3>1
      <4>2. CASE n = m
        <5>1. g[n] = DispatchOne(f[m - 1])
          BY <3>4, <4>2
        <5>2. n # 0 /\ g[n - 1] = f[m - 1]
          BY <2>3, <3>6, <4>1, <4>2
        <5>3. QED
          BY <5>1, <5>2
      <4>3. CASE n # m
        <5>1. n \in 0 .. m - 1
          BY <3>5, <4>3
        <5>2. g[n] = f[n]
          BY <3>6, <5>1
        <5>3. f[n] = IF n = 0 THEN p ELSE DispatchOne(f[n - 1])
          BY <3>3, <5>1
        <5>4. n # 0 => g[n - 1] = f[n - 1]
          BY <3>6, <4>1
        <5>5. QED
          BY <5>2, <5>3, <5>4
      <4>4. QED
        BY <4>2, <4>3
    <3>8. g = [n \in 0 .. m |-> g[n]]
      BY <3>4
    <3>9. g = [n \in 0 .. m |-> IF n = 0 THEN p ELSE DispatchOne(g[n - 1])]
      BY <3>7, <3>8
    <3>10. TurnsFrom(p, m, g)
      BY <3>9 DEF TurnsFrom
    <3>11. QED
      BY <2>1, <3>10
  <2>4. QED
    BY <2>2, <2>3
<1>3. QED
  BY <1>1, <1>2

\* After n turns nothing is left to do, or n slots have tasks
TurnInv(p, n, q) ==
    /\ Good(q) /\ Hosted(q) /\ Later(p, q)
    /\ Stuck(q) \/ Cardinality(Busy(q.slots)) >= n

\* What dispatch leaves alone over several turns
LEMMA LaterTrans ==
    ASSUME NEW p, NEW q, NEW r, Later(p, q), Later(q, r)
    PROVE  Later(p, r)
BY DEF Later, Kept

\* The turns keep the invariant and come to an end
LEMMA TurnsKeep ==
    ASSUME NEW p, Good(p), Hosted(p)
    PROVE  /\ Good(Turns(p)) /\ Hosted(Turns(p)) /\ Later(p, Turns(p)) /\ Stuck(Turns(p))
<1> PICK K : K = MaxWorkers + 1
  OBVIOUS
<1>1. K \in Nat
  BY PoolConstants
<1>2. PICK f : f = CHOOSE g : TurnsFrom(p, K, g)
  OBVIOUS
<1>3. TurnsFrom(p, K, f)
  BY <1>1, <1>2, TurnsExist
<1>4. Turns(p) = f[K]
  BY <1>2 DEF Turns, TurnsFrom
<1>5. f[0] = p /\ \A n \in 0 .. K : n # 0 => f[n] = DispatchOne(f[n - 1])
  BY <1>1, <1>3 DEF TurnsFrom
<1> DEFINE B == {n \in 0 .. K : ~TurnInv(p, n, f[n])}
<1>6. B = {}
  <2>1. SUFFICES ASSUME B # {} PROVE FALSE
    OBVIOUS
  <2>2. B \in SUBSET Nat
    BY <1>1
  <2>3. PICK m \in B : \A y \in B : m <= y
    BY <2>1, <2>2, LeastNumber
  <2>4. m \in 0 .. K /\ ~TurnInv(p, m, f[m])
    BY <2>3
  <2>5. CASE m = 0
    <3>1. Busy(p.slots) \in SUBSET Slots
      BY DEF Busy
    <3>2. Cardinality(Busy(p.slots)) \in Nat
      BY <3>1, SlotsFinite
    <3>3. Cardinality(Busy(p.slots)) >= 0
      BY <3>2
    <3>4. Later(p, p)
      BY DEF Later, Kept
    <3>5. TurnInv(p, 0, p)
      BY <3>3, <3>4 DEF TurnInv
    <3>6. QED
      BY <1>5, <2>4, <2>5, <3>5
  <2>6. CASE m # 0
    <3>1. PICK k \in 0 .. K : k = m - 1 /\ k < m
      BY <1>1, <2>4, <2>6
    <3>2. k \notin B
      BY <2>3, <2>4, <3>1
    <3>3. PICK q : q = f[k]
      OBVIOUS
    <3>4. TurnInv(p, k, q)
      BY <3>1, <3>2, <3>3
    <3>5. f[m] = DispatchOne(q)
      BY <1>5, <2>4, <2>6, <3>1, <3>3
    <3>6. CASE Stuck(q)
      <4>1. f[m] = q
        BY <3>5, <3>6, StuckTurn
      <4>2. QED
        BY <2>4, <3>4, <3>6, <4>1 DEF TurnInv
    <3>7. CASE ~Stuck(q)
      <4>1. PICK r : r = DispatchOne(q)
        OBVIOUS
      <4>2. Good(q) /\ Hosted(q) /\ Later(p, q) /\ Cardinality(Busy(q.slots)) >= k
        BY <3>4, <3>7 DEF TurnInv
      <4>3. /\ Good(r) /\ Hosted(r) /\ Later(q, r)
            /\ Cardinality(Busy(r.slots)) = Cardinality(Busy(q.slots)) + 1
        BY <3>7, <4>1, <4>2, TurnGood
      <4>4. Later(p, r)
        BY <4>2, <4>3, LaterTrans
      <4>5. Cardinality(Busy(r.slots)) >= m
        <5>1. Busy(q.slots) \in SUBSET Slots
          BY DEF Busy
        <5>2. PICK c \in Nat : c = Cardinality(Busy(q.slots))
          BY <5>1, SlotsFinite
        <5>3. Cardinality(Busy(r.slots)) = c + 1 /\ c >= k
          BY <4>2, <4>3, <5>2
        <5>4. QED
          BY <2>4, <3>1, <5>2, <5>3
      <4>6. TurnInv(p, m, r)
        BY <4>3, <4>4, <4>5 DEF TurnInv
      <4>7. QED
        BY <2>4, <3>5, <4>1, <4>6
    <3>8. QED
      BY <3>6, <3>7
  <2>7. QED
    BY <2>5, <2>6
<1>7. PICK q : q = f[K]
  OBVIOUS
<1>8. TurnInv(p, K, q)
  <2>1. K \in 0 .. K
    BY <1>1
  <2>2. QED
    BY <1>6, <1>7, <2>1
<1>9. Good(q) /\ Hosted(q) /\ Later(p, q) /\ (Stuck(q) \/ Cardinality(Busy(q.slots)) >= K)
  BY <1>8 DEF TurnInv
<1>10. Cardinality(Busy(q.slots)) <= MaxWorkers
  <2>1. Busy(q.slots) \in SUBSET Alive(q.slots) /\ Alive(q.slots) \in SUBSET Slots
    BY <1>9 DEF Busy, Alive, Good, Fits, SlotInv
  <2>2. Cardinality(Busy(q.slots)) <= Cardinality(Alive(q.slots))
    BY <2>1, SlotSubset
  <2>3. Cardinality(Alive(q.slots)) <= MaxWorkers /\ Busy(q.slots) \in SUBSET Slots
    BY <1>9, <2>1 DEF Good, CountInv
  <2>4. Cardinality(Busy(q.slots)) \in Nat /\ Cardinality(Alive(q.slots)) \in Nat
    BY <2>1, <2>3, SlotsFinite
  <2>5. QED
    BY <2>2, <2>3, <2>4, PoolConstants
<1>11. Stuck(q)
  <2>1. Busy(q.slots) \in SUBSET Slots
    BY DEF Busy
  <2>2. PICK c \in Nat : c = Cardinality(Busy(q.slots))
    BY <2>1, SlotsFinite
  <2>3. MaxWorkers \in Nat
    BY PoolConstants
  <2>4. ~(c >= MaxWorkers + 1)
    BY <1>10, <2>2, <2>3
  <2>5. QED
    BY <1>9, <2>2, <2>4
<1>12. QED
  BY <1>4, <1>7, <1>9, <1>11

\* QueueIsJustified of any pool
Justified(p) ==
    Open(p) /\ p.queue # <<>> =>
        /\ Free(p) = {} /\ Cardinality(Live(p)) = MaxWorkers
        /\ HostWaiting(p) # {} =>
              \E s \in Live(p) :
                  \/ p.slots[s].task # NoTask /\ p.tasks[p.slots[s].task].pressure
                  \/ p.slots[s].retiring \/ p.slots[s].retirementFailed

\* The parts of a task the invariant speaks of
Alike(T, T2) ==
    \A t \in Tasks :
        /\ T2[t].called = T[t].called /\ T2[t].done = T[t].done
        /\ T2[t].admitted = T[t].admitted /\ T2[t].preparing = T[t].preparing
        /\ T2[t].slot = T[t].slot /\ T2[t].consumed = T[t].consumed
        /\ T2[t].exchange = T[t].exchange /\ T2[t].handler = T[t].handler
        /\ T2[t].settled = T[t].settled

\* The tasks that are told to checkpoint
Owners(p) ==
    {s \in HostWaiting(p) : Cardinality({r \in HostWaiting(p) : r < s}) < Len(p.queue)}

\* Pressing changes nothing but a task's flag
LEMMA PressedFields ==
    ASSUME NEW p, p \in PoolRec, NEW q, q = Pressed(p)
    PROVE  /\ q \in PoolRec /\ Kept(p, q)
           /\ q.queue = p.queue /\ q.slots = p.slots
           /\ q.pendingTasks = p.pendingTasks /\ q.pendingBytes = p.pendingBytes
           /\ q.activeTasks = p.activeTasks
           /\ Alike(p.tasks, q.tasks)
           /\ \A t \in Tasks : q.tasks[t].pressure =
                 (p.tasks[t].pressure \/ \E s \in Owners(p) : p.slots[s].task = t)
<1> DEFINE T2 == [t \in Tasks |->
                     IF \E s \in Owners(p) : p.slots[s].task = t
                     THEN [p.tasks[t] EXCEPT !.pressure = TRUE] ELSE p.tasks[t]]
<1>1. p.tasks \in [Tasks -> TaskRec]
  BY DEF PoolRec
<1>2. ASSUME NEW t \in Tasks
      PROVE  /\ T2[t] \in TaskRec
             /\ T2[t].called = p.tasks[t].called /\ T2[t].done = p.tasks[t].done
             /\ T2[t].admitted = p.tasks[t].admitted /\ T2[t].preparing = p.tasks[t].preparing
             /\ T2[t].slot = p.tasks[t].slot /\ T2[t].consumed = p.tasks[t].consumed
             /\ T2[t].exchange = p.tasks[t].exchange /\ T2[t].handler = p.tasks[t].handler
             /\ T2[t].settled = p.tasks[t].settled
             /\ T2[t].pressure = (p.tasks[t].pressure \/ \E s \in Owners(p) : p.slots[s].task = t)
  <2>1. PICK u \in TaskRec : u = p.tasks[t]
    BY <1>1
  <2>2. CASE \E s \in Owners(p) : p.slots[s].task = t
    <3>1. T2[t] = [u EXCEPT !.pressure = TRUE]
      BY <2>1, <2>2
    <3>2. ASSUME NEW v, v = [u EXCEPT !.pressure = TRUE]
          PROVE  /\ v \in TaskRec /\ v.pressure = TRUE
                 /\ v.called = u.called /\ v.done = u.done /\ v.admitted = u.admitted
                 /\ v.preparing = u.preparing /\ v.slot = u.slot /\ v.consumed = u.consumed
                 /\ v.exchange = u.exchange /\ v.handler = u.handler /\ v.settled = u.settled
      BY <3>2 DEF TaskRec
    <3>3. QED
      BY <2>1, <2>2, <3>1, <3>2, ZenonT(40)
  <2>3. CASE ~\E s \in Owners(p) : p.slots[s].task = t
    <3>1. T2[t] = u
      BY <2>1, <2>3
    <3>2. u.pressure \in BOOLEAN
      BY DEF TaskRec
    <3>3. QED
      BY <2>1, <2>3, <3>1, <3>2
  <2>4. QED
    BY <2>2, <2>3
<1>3. PICK T \in [Tasks -> TaskRec] : T = T2
  <2>1. T2 \in [Tasks -> TaskRec]
    BY <1>2
  <2>2. QED
    BY <2>1
<1>4. q = [p EXCEPT !.tasks = T]
  BY <1>3 DEF Pressed, Owners
<1>5. ASSUME NEW x, x = [p EXCEPT !.tasks = T]
      PROVE  /\ x \in PoolRec /\ Kept(p, x)
             /\ x.queue = p.queue /\ x.slots = p.slots
             /\ x.pendingTasks = p.pendingTasks /\ x.pendingBytes = p.pendingBytes
             /\ x.activeTasks = p.activeTasks /\ x.tasks = T
  BY <1>5 DEF PoolRec, Kept
<1>6. /\ q \in PoolRec /\ Kept(p, q)
      /\ q.queue = p.queue /\ q.slots = p.slots
      /\ q.pendingTasks = p.pendingTasks /\ q.pendingBytes = p.pendingBytes
      /\ q.activeTasks = p.activeTasks /\ q.tasks = T
  BY <1>4, <1>5, Zenon
<1> HIDE DEF T2
<1>7. QED
  BY <1>2, <1>3, <1>6 DEF Alike

\* Pools that agree in those parts fit alike
LEMMA AlikeFits ==
    ASSUME NEW S \in [Slots -> SlotRec], NEW T, NEW T2, NEW q \in Seq(Tasks),
           Fits(S, T, q), Alike(T, T2)
    PROVE  /\ Fits(S, T2, q) /\ Charged(T2) = Charged(T)
           /\ \A s \in Slots : HostInv(S, T, s) => HostInv(S, T2, s)
<1>1. ASSUME NEW s \in Slots
      PROVE  SlotInv(S, T2, s) /\ (HostInv(S, T, s) => HostInv(S, T2, s))
  <2>1. SlotInv(S, T, s) /\ S[s] \in SlotRec
    BY DEF Fits
  <2>2. /\ S[s].task \in Tasks \cup {NoTask} /\ S[s].exec \in Tasks \cup {NoTask}
        /\ S[s].completions \in SUBSET Tasks
    BY <2>1 DEF SlotRec
  <2>3. SlotInv(S, T2, s)
    BY <2>1, <2>2 DEF SlotInv, Alike
  <2>4. HostInv(S, T, s) => HostInv(S, T2, s)
    BY <2>2 DEF HostInv, Alike
  <2>5. QED
    BY <2>3, <2>4
<1>2. ASSUME NEW t \in Tasks PROVE TaskInv(S, T2, q, t)
  <2>1. TaskInv(S, T, q, t)
    BY DEF Fits
  <2>2. QED
    BY <2>1 DEF TaskInv, Alike
<1>3. QueueInv(T2, q)
  <2>1. QueueInv(T, q) /\ \A i \in 1 .. Len(q) : q[i] \in Tasks
    BY DEF Fits
  <2>2. QED
    BY <2>1 DEF QueueInv, Alike
<1>4. Charged(T2) = Charged(T)
  BY DEF Charged, Alike
<1>5. QED
  BY <1>1, <1>2, <1>3, <1>4 DEF Fits

\* Pressing keeps the invariant
LEMMA PressedGood ==
    ASSUME NEW p, Good(p), Hosted(p)
    PROVE  Good(Pressed(p)) /\ Hosted(Pressed(p)) /\ Later(p, Pressed(p))
<1> PICK q : q = Pressed(p)
  OBVIOUS
<1>1. /\ p \in PoolRec /\ p.slots \in [Slots -> SlotRec] /\ p.tasks \in [Tasks -> TaskRec]
      /\ p.queue \in Seq(Tasks)
  BY DEF Good, PoolRec
<1>2. /\ q \in PoolRec /\ Kept(p, q)
      /\ q.queue = p.queue /\ q.slots = p.slots
      /\ q.pendingTasks = p.pendingTasks /\ q.pendingBytes = p.pendingBytes
      /\ q.activeTasks = p.activeTasks
      /\ Alike(p.tasks, q.tasks)
  BY <1>1, PressedFields
<1>4. /\ Fits(q.slots, q.tasks, q.queue) /\ Charged(q.tasks) = Charged(p.tasks)
      /\ \A s \in Slots : HostInv(p.slots, p.tasks, s) => HostInv(q.slots, q.tasks, s)
  BY <1>1, <1>2, AlikeFits DEF Good
<1>5. CountInv(q.slots, q.tasks, q.pendingTasks, q.pendingBytes, q.activeTasks)
  BY <1>2, <1>4 DEF CountInv, Good
<1>6. Good(q)
  BY <1>2, <1>4, <1>5 DEF Good, RotInv, Kept
<1>7. Hosted(q)
  BY <1>4 DEF Hosted
<1>8. Later(p, q)
  BY <1>2 DEF Later, Alike
<1>9. QED
  BY <1>6, <1>7, <1>8

\* If tasks wait for their host, pressing tells one of them
LEMMA PressedTells ==
    ASSUME NEW p, p \in PoolRec, p.queue # <<>>, HostWaiting(p) # {}
    PROVE  \E s \in Live(p) : p.slots[s].task # NoTask /\ Pressed(p).tasks[p.slots[s].task].pressure
<1>1. HostWaiting(p) \in SUBSET Nat /\ HostWaiting(p) \in SUBSET Live(p)
  BY PoolConstants DEF HostWaiting, Live
<1>2. PICK s \in HostWaiting(p) : \A r \in HostWaiting(p) : s <= r
  BY <1>1, LeastNumber
<1>3. {r \in HostWaiting(p) : r < s} = {}
  BY <1>1, <1>2
<1>4. Cardinality({r \in HostWaiting(p) : r < s}) = 0
  BY <1>3, FS_EmptySet
<1>5. Len(p.queue) > 0 /\ p.slots \in [Slots -> SlotRec]
  BY DEF PoolRec
<1>6. s \in Owners(p)
  BY <1>2, <1>4, <1>5 DEF Owners
<1>7. s \in Live(p) /\ p.slots[s].task # NoTask /\ p.slots[s].task \in Tasks
  BY <1>1, <1>2, <1>5 DEF HostWaiting, Live, SlotRec
<1>8. Pressed(p).tasks[p.slots[s].task].pressure
  BY <1>6, <1>7, PressedFields
<1>9. QED
  BY <1>7, <1>8

\* dispatch keeps the invariant and leaves the queue only if it has to
LEMMA DispatchGood ==
    ASSUME NEW p, Good(p), Hosted(p)
    PROVE  /\ Good(Dispatch(p)) /\ Hosted(Dispatch(p)) /\ Later(p, Dispatch(p))
           /\ Justified(Dispatch(p))
<1> PICK q : q = Turns(p)
  OBVIOUS
<1>1. Good(q) /\ Hosted(q) /\ Later(p, q) /\ Stuck(q)
  BY TurnsKeep
<1>2. CASE Open(q) /\ q.queue # <<>>
  <2>1. Dispatch(p) = Pressed(q)
    BY <1>2 DEF Dispatch
  <2>2. PICK r : r = Pressed(q)
    OBVIOUS
  <2>3. Good(r) /\ Hosted(r) /\ Later(q, r)
    BY <1>1, <2>2, PressedGood
  <2>4. Later(p, r)
    BY <1>1, <2>3, LaterTrans
  <2>5. q \in PoolRec /\ Cardinality(Alive(q.slots)) <= MaxWorkers /\ PickSlot(q) = NoSlot
    BY <1>1, <1>2 DEF Good, CountInv, Stuck
  <2>6. Free(q) = {} /\ Cardinality(Live(q)) = MaxWorkers
    BY <2>5, PickedSlot
  <2>7. /\ r.slots = q.slots /\ Alike(q.tasks, r.tasks)
        /\ \A t \in Tasks : q.tasks[t].pressure => r.tasks[t].pressure
    BY <2>2, <2>5, PressedFields
  <2>8. Live(r) = Live(q) /\ Free(r) = {}
    BY <2>6, <2>7 DEF Live, Free
  <2>9. HostWaiting(r) \subseteq HostWaiting(q)
    <3>1. \A s \in Slots : q.slots[s].task \in Tasks \cup {NoTask}
      BY <2>5 DEF PoolRec, SlotRec
    <3>2. QED
      BY <2>7, <2>8, <3>1 DEF HostWaiting, Alike, Live
  <2>10. HostWaiting(r) # {} =>
            \E s \in Live(r) : r.slots[s].task # NoTask /\ r.tasks[r.slots[s].task].pressure
    <3>1. CASE HostWaiting(q) = {}
      BY <2>9, <3>1
    <3>2. CASE HostWaiting(q) # {}
      BY <1>2, <2>2, <2>5, <2>7, <2>8, <3>2, PressedTells
    <3>3. QED
      BY <3>1, <3>2
  <2>11. Justified(r)
    BY <2>6, <2>8, <2>10 DEF Justified
  <2>12. QED
    BY <2>1, <2>2, <2>3, <2>4, <2>11
<1>3. CASE ~(Open(q) /\ q.queue # <<>>)
  <2>1. Dispatch(p) = q
    BY <1>3 DEF Dispatch
  <2>2. Justified(q)
    BY <1>3 DEF Justified
  <2>3. QED
    BY <1>1, <2>1, <2>2
<1>4. QED
  BY <1>2, <1>3

-----------------------------------------------------------------------------
(* A task changes, gives its charge back, completes.                       *)

\* A new record of t that its slot, its thread and the queue agree with
Harmless(S, T, t, u) ==
    /\ u.called = T[t].called /\ u.done = T[t].done /\ u.slot = T[t].slot
    /\ T[t].admitted /\ ~T[t].done => u.admitted
    /\ \A s \in Slots :
          /\ S[s].exec = t => u.admitted /\ ~u.preparing
          /\ <<t, "input">> \in S[s].reads => ~u.preparing /\ ~u.consumed
          /\ <<t, "answer">> \in S[s].reads => ~u.preparing /\ u.exchange = "sent"

\* Such a record does no harm
LEMMA TaskChange ==
    ASSUME NEW S \in [Slots -> SlotRec], NEW T \in [Tasks -> TaskRec], NEW q \in Seq(Tasks),
           Fits(S, T, q), NEW t \in Tasks, NEW u \in TaskRec, Harmless(S, T, t, u),
           NEW T2, T2 = [T EXCEPT ![t] = u], TaskInv(S, T2, q, t)
    PROVE  Fits(S, T2, q)
<1>1. T2[t] = u /\ \A x \in Tasks \ {t} : T2[x] = T[x]
  OBVIOUS
<1>2. \A x \in Tasks : /\ T2[x].called = T[x].called /\ T2[x].done = T[x].done
                       /\ T2[x].slot = T[x].slot
                       /\ T[x].admitted /\ ~T[x].done => T2[x].admitted
  BY <1>1 DEF Harmless
<1>3. ASSUME NEW s \in Slots PROVE SlotInv(S, T2, s)
  <2>1. SlotInv(S, T, s) /\ S[s] \in SlotRec
    BY DEF Fits
  <2>2. /\ S[s].task \in Tasks \cup {NoTask} /\ S[s].exec \in Tasks \cup {NoTask}
        /\ S[s].completions \in SUBSET Tasks
    BY <2>1 DEF SlotRec
  <2>3. S[s].exec # NoTask => T2[S[s].exec].admitted /\ ~T2[S[s].exec].preparing
    <3>1. CASE S[s].exec = t
      BY <1>1, <3>1 DEF Harmless
    <3>2. CASE S[s].exec # t
      BY <1>1, <2>1, <2>2, <3>2 DEF SlotInv
    <3>3. QED
      BY <3>1, <3>2
  <2>4. ASSUME NEW x \in Tasks
        PROVE  /\ <<x, "input">> \in S[s].reads => ~T2[x].preparing /\ ~T2[x].consumed
               /\ <<x, "answer">> \in S[s].reads => ~T2[x].preparing /\ T2[x].exchange = "sent"
    <3>1. CASE x = t
      BY <1>1, <3>1 DEF Harmless
    <3>2. CASE x # t
      BY <1>1, <2>1, <3>2 DEF SlotInv
    <3>3. QED
      BY <3>1, <3>2
  <2>5. QED
    BY <1>2, <2>1, <2>2, <2>3, <2>4, ZenonT(40) DEF SlotInv
<1>4. ASSUME NEW x \in Tasks PROVE TaskInv(S, T2, q, x)
  <2>1. CASE x = t
    BY <2>1
  <2>2. CASE x # t
    BY <1>1, <2>2 DEF Fits, TaskInv
  <2>3. QED
    BY <2>1, <2>2
<1>5. QueueInv(T2, q)
  <2>1. QueueInv(T, q) /\ \A i \in 1 .. Len(q) : q[i] \in Tasks
    BY DEF Fits
  <2>2. QED
    BY <1>2, <2>1 DEF QueueInv
<1>6. QED
  BY <1>3, <1>4, <1>5 DEF Fits

\* t gets a harmless record, and the counters follow
TaskStep(p, t, u, a, b, q) ==
    /\ q = [p EXCEPT !.tasks[t] = u, !.pendingTasks = a, !.pendingBytes = b]
    /\ Good(p) /\ Hosted(p) /\ t \in Tasks /\ u \in TaskRec /\ a \in Int /\ b \in Int
    /\ Harmless(p.slots, p.tasks, t, u)
    /\ TaskInv(p.slots, [p.tasks EXCEPT ![t] = u], p.queue, t)
    /\ \/ u.admitted = p.tasks[t].admitted /\ a = p.pendingTasks /\ b = p.pendingBytes
       \/ /\ p.tasks[t].admitted /\ ~u.admitted
          /\ a = p.pendingTasks - 1 /\ b = p.pendingBytes - InputBytes(t)
    /\ \A s \in Slots : p.slots[s].task = t /\ u.handler # "none" => p.slots[s].worker = "up"

\* A task's harmless step keeps the invariant
LEMMA TaskGood ==
    ASSUME NEW p, NEW t, NEW u, NEW a, NEW b, NEW q, TaskStep(p, t, u, a, b, q)
    PROVE  /\ Good(q) /\ Hosted(q) /\ Kept(p, q)
           /\ q.queue = p.queue /\ q.slots = p.slots /\ q.activeTasks = p.activeTasks
           /\ q.tasks = [p.tasks EXCEPT ![t] = u]
<1> /\ Good(p) /\ Hosted(p) /\ t \in Tasks /\ u \in TaskRec /\ a \in Int /\ b \in Int
    /\ q = [p EXCEPT !.tasks[t] = u, !.pendingTasks = a, !.pendingBytes = b]
  BY DEF TaskStep
<1> USE DEF TaskStep
<1>1. /\ p \in PoolRec /\ p.slots \in [Slots -> SlotRec] /\ p.tasks \in [Tasks -> TaskRec]
      /\ p.queue \in Seq(Tasks)
  BY DEF Good, PoolRec
<1>2. ASSUME NEW x, x = [p EXCEPT !.tasks[t] = u, !.pendingTasks = a, !.pendingBytes = b]
      PROVE  /\ x \in PoolRec /\ Kept(p, x)
             /\ x.queue = p.queue /\ x.slots = p.slots /\ x.activeTasks = p.activeTasks
             /\ x.pendingTasks = a /\ x.pendingBytes = b
             /\ x.tasks = [p.tasks EXCEPT ![t] = u]
  BY <1>1, <1>2 DEF PoolRec, Kept
<1>3. /\ q \in PoolRec /\ Kept(p, q)
      /\ q.queue = p.queue /\ q.slots = p.slots /\ q.activeTasks = p.activeTasks
      /\ q.pendingTasks = a /\ q.pendingBytes = b
      /\ q.tasks = [p.tasks EXCEPT ![t] = u]
  BY <1>2, Zenon
<1>4. Fits(q.slots, q.tasks, q.queue)
  BY <1>1, <1>3, TaskChange DEF Good
<1>5. PICK S, T, T2 : S = p.slots /\ T = p.tasks /\ T2 = q.tasks
  OBVIOUS
<1>6. T \in [Tasks -> TaskRec] /\ T2[t] = u /\ \A x \in Tasks \ {t} : T2[x] = T[x]
  BY <1>1, <1>3, <1>5
<1>7. CountInv(S, T, p.pendingTasks, p.pendingBytes, p.activeTasks)
  BY <1>5 DEF Good
<1>8. CountInv(S, T2, a, b, p.activeTasks)
  <2>1. CASE u.admitted = T[t].admitted /\ a = p.pendingTasks /\ b = p.pendingBytes
    <3>1. Charged(T2) = Charged(T)
      BY <1>6, <2>1 DEF Charged
    <3>2. QED
      BY <1>7, <2>1, <3>1 DEF CountInv
  <2>2. CASE /\ T[t].admitted /\ ~u.admitted
             /\ a = p.pendingTasks - 1 /\ b = p.pendingBytes - InputBytes(t)
    <3>1. t \in Charged(T) /\ Charged(T2) = Charged(T) \ {t}
      BY <1>6, <2>2 DEF Charged
    <3>2. /\ Cardinality(Charged(T2)) = Cardinality(Charged(T)) - 1
          /\ Cardinality(Charged(T2)) + Cardinality(Charged(T2) \cap Big) =
                 Cardinality(Charged(T)) + Cardinality(Charged(T) \cap Big) - InputBytes(t)
          /\ InputBytes(t) \in {1, 2}
      BY <3>1, ChargeDrops
    <3>3. PICK c, d : c = p.pendingTasks /\ d = p.pendingBytes
      OBVIOUS
    <3>4. c \in Int /\ d \in Int /\ c <= MaxPendingTasks /\ d <= MaxPendingBytes
          /\ MaxPendingTasks \in Int /\ MaxPendingBytes \in Int
      BY <1>1, <1>7, <3>3, PoolAssumption DEF CountInv, PoolRec
    <3>5. a <= MaxPendingTasks /\ b <= MaxPendingBytes
      BY <2>2, <3>2, <3>3, <3>4
    <3>6. c = Cardinality(Charged(T)) /\ d = Cardinality(Charged(T)) + Cardinality(Charged(T) \cap Big)
      BY <1>7, <3>3 DEF CountInv
    <3>7. a = Cardinality(Charged(T2))
      BY <2>2, <3>2, <3>3, <3>6
    <3>8. b = Cardinality(Charged(T2)) + Cardinality(Charged(T2) \cap Big)
      <4>1. PICK i \in Int : i = InputBytes(t)
        BY <3>2
      <4>2. PICK m \in Nat, n \in Nat :
                m = Cardinality(Charged(T)) /\ n = Cardinality(Charged(T) \cap Big)
        BY ChargedFinite
      <4>3. b = d - i
        BY <2>2, <3>3, <4>1, Zenon
      <4>4. Cardinality(Charged(T2)) + Cardinality(Charged(T2) \cap Big) = m + n - i
        BY <3>2, <4>1, <4>2, Zenon
      <4>5. d = m + n
        BY <3>6, <4>2, Zenon
      <4>6. QED
        BY <4>3, <4>4, <4>5
    <3>9. QED
      BY <1>7, <3>5, <3>7, <3>8 DEF CountInv
  <2>3. QED
    BY <1>5, <2>1, <2>2
<1>9. Good(q)
  BY <1>3, <1>4, <1>5, <1>8 DEF Good, RotInv, Kept
<1>10. Hosted(q)
  <2>1. ASSUME NEW s \in Slots PROVE HostInv(S, T2, s)
    <3>1. HostInv(S, T, s) /\ S[s].task \in Tasks \cup {NoTask}
      BY <1>1, <1>5 DEF Hosted, SlotRec
    <3>2. CASE S[s].task = t
      BY <1>5, <1>6, <3>2 DEF HostInv
    <3>3. CASE S[s].task # t
      BY <1>6, <3>1, <3>3 DEF HostInv
    <3>4. QED
      BY <3>2, <3>3
  <2>2. QED
    BY <1>3, <1>5, <2>1 DEF Hosted
<1>11. QED
  BY <1>3, <1>9, <1>10

\* A harmless step that leaves the counters alone
LEMMA PlainStep ==
    ASSUME NEW p \in PoolRec, NEW t, NEW u
    PROVE  [p EXCEPT !.tasks[t] = u] =
              [p EXCEPT !.tasks[t] = u, !.pendingTasks = p.pendingTasks,
                        !.pendingBytes = p.pendingBytes]
BY DEF PoolRec

\* releaseAdmission: no thread executes t any more
LEMMA ReleaseGood ==
    ASSUME NEW p, Good(p), Hosted(p), NEW t \in Tasks,
           p.tasks[t].done, ~p.tasks[t].preparing, \A s \in Slots : p.slots[s].exec # t,
           NEW q, q = ReleaseAdmission(p, t)
    PROVE  /\ Good(q) /\ Hosted(q) /\ Kept(p, q)
           /\ q.queue = p.queue /\ q.slots = p.slots
           /\ q.tasks = [p.tasks EXCEPT ![t] = [p.tasks[t] EXCEPT !.admitted = FALSE]]
<1>1. /\ p \in PoolRec /\ p.tasks \in [Tasks -> TaskRec]
      /\ Fits(p.slots, p.tasks, p.queue) /\ p.pendingTasks \in Int /\ p.pendingBytes \in Int
  BY DEF Good, PoolRec
<1>2. PICK x \in TaskRec : x = p.tasks[t]
  BY <1>1
<1>3. PICK u : u = [x EXCEPT !.admitted = FALSE]
  OBVIOUS
<1>4. /\ u \in TaskRec /\ ~u.admitted /\ u.called = x.called /\ u.done = x.done /\ u.slot = x.slot
      /\ u.preparing = x.preparing /\ u.consumed = x.consumed /\ u.exchange = x.exchange
      /\ u.handler = x.handler /\ u.settled = x.settled
  BY <1>3 DEF TaskRec
<1>5. CASE ~x.admitted
  <2>1. q = p
    BY <1>2, <1>5 DEF ReleaseAdmission
  <2>2. u = x
    BY <1>3, <1>5 DEF TaskRec
  <2>3. p.tasks = [p.tasks EXCEPT ![t] = u]
    BY <1>1, <1>2, <2>2
  <2>4. Kept(p, p)
    BY DEF Kept
  <2>5. QED
    BY <1>2, <1>3, <2>1, <2>3, <2>4
<1>6. CASE x.admitted
  <2>1. PICK a \in Int, b \in Int : a = p.pendingTasks - 1 /\ b = p.pendingBytes - InputBytes(t)
    BY <1>1 DEF InputBytes
  <2>2. q = [p EXCEPT !.tasks[t] = u, !.pendingTasks = a, !.pendingBytes = b]
    BY <1>2, <1>3, <1>6, <2>1 DEF ReleaseAdmission
  <2>3. TaskInv(p.slots, p.tasks, p.queue, t) /\ \A s \in Slots : SlotInv(p.slots, p.tasks, s)
    BY <1>1 DEF Fits
  <2>4. TaskInv(p.slots, [p.tasks EXCEPT ![t] = u], p.queue, t)
    <3>1. PICK T2 : T2 = [p.tasks EXCEPT ![t] = u]
      OBVIOUS
    <3>2. T2[t] = u
      BY <1>1, <3>1
    <3>3. TaskInv(p.slots, T2, p.queue, t)
      BY <1>2, <1>4, <2>3, <3>2 DEF TaskInv
    <3>4. QED
      BY <3>1, <3>3
  <2>5. Harmless(p.slots, p.tasks, t, u)
    <3>1. ASSUME NEW s \in Slots
          PROVE  /\ p.slots[s].exec = t => u.admitted /\ ~u.preparing
                 /\ <<t, "input">> \in p.slots[s].reads => ~u.preparing /\ ~u.consumed
                 /\ <<t, "answer">> \in p.slots[s].reads => ~u.preparing /\ u.exchange = "sent"
      <4>1. SlotInv(p.slots, p.tasks, s)
        BY <1>2, <1>4, <2>3
      <4>2. p.slots[s].exec = t => u.admitted /\ ~u.preparing
        BY <1>2, <1>4, <2>3, <4>1 DEF SlotInv
      <4>3. <<t, "input">> \in p.slots[s].reads => ~u.preparing /\ ~u.consumed
        BY <1>2, <1>4, <2>3, <4>1 DEF SlotInv
      <4>4. <<t, "answer">> \in p.slots[s].reads => ~u.preparing /\ u.exchange = "sent"
        BY <1>2, <1>4, <2>3, <4>1 DEF SlotInv
      <4>5. QED
        BY <4>2, <4>3, <4>4
    <3>2. QED
      BY <1>2, <1>4, <3>1 DEF Harmless
  <2>6. \A s \in Slots : p.slots[s].task = t /\ u.handler # "none" => p.slots[s].worker = "up"
    BY <1>2, <1>4, PoolConstants DEF Hosted, HostInv
  <2>7. TaskStep(p, t, u, a, b, q)
    BY <1>2, <1>4, <1>6, <2>1, <2>2, <2>4, <2>5, <2>6 DEF TaskStep
  <2>8. /\ Good(q) /\ Hosted(q) /\ Kept(p, q) /\ q.queue = p.queue /\ q.slots = p.slots
        /\ q.tasks = [p.tasks EXCEPT ![t] = u]
    BY <2>7, TaskGood
  <2>9. QED
    BY <1>2, <1>3, <2>8
<1>7. QED
  BY <1>5, <1>6

\* No thread executes t or holds its buffers
Untouched(p, t) ==
    \A s \in Slots : /\ p.slots[s].exec # t
                     /\ <<t, "input">> \notin p.slots[s].reads
                     /\ <<t, "answer">> \notin p.slots[s].reads

\* complete of a finished task
LEMMA CompleteGood ==
    ASSUME NEW p, Good(p), Hosted(p), NEW t \in Tasks, p.tasks[t].done, Untouched(p, t),
           NEW q, q = Complete(p, t)
    PROVE  /\ Good(q) /\ Hosted(q) /\ Later(p, q)
           /\ q.queue = p.queue /\ q.slots = p.slots
<1> PICK r : r = IF p.tasks[t].preparing THEN p ELSE ReleaseAdmission(p, t)
  OBVIOUS
<1>1. p \in PoolRec /\ p.tasks \in [Tasks -> TaskRec]
  BY DEF Good, PoolRec
<1>2. /\ Good(r) /\ Hosted(r) /\ Kept(p, r) /\ r.queue = p.queue /\ r.slots = p.slots
      /\ \A x \in Tasks : /\ r.tasks[x].done = p.tasks[x].done
                          /\ r.tasks[x].preparing = p.tasks[x].preparing
  <2>1. CASE p.tasks[t].preparing
    <3>1. r = p
      BY <2>1
    <3>2. Kept(p, p)
      BY DEF Kept
    <3>3. QED
      BY <3>1, <3>2
  <2>2. CASE ~p.tasks[t].preparing
    <3>1. \A s \in Slots : p.slots[s].exec # t
      BY DEF Untouched
    <3>2. r = ReleaseAdmission(p, t)
      BY <2>2
    <3>3. /\ Good(r) /\ Hosted(r) /\ Kept(p, r) /\ r.queue = p.queue /\ r.slots = p.slots
          /\ r.tasks = [p.tasks EXCEPT ![t] = [p.tasks[t] EXCEPT !.admitted = FALSE]]
      BY <2>2, <3>1, <3>2, ReleaseGood
    <3>4. ASSUME NEW x \in Tasks
          PROVE  r.tasks[x].done = p.tasks[x].done /\ r.tasks[x].preparing = p.tasks[x].preparing
      BY <1>1, <3>3 DEF TaskRec
    <3>5. QED
      BY <3>3, <3>4
  <2>3. QED
    BY <2>1, <2>2
<1>3. r \in PoolRec /\ r.tasks \in [Tasks -> TaskRec] /\ Fits(r.slots, r.tasks, r.queue)
      /\ r.pendingTasks \in Int /\ r.pendingBytes \in Int
  BY <1>2 DEF Good, PoolRec
<1>4. PICK x \in TaskRec : x = r.tasks[t]
  BY <1>3
<1>5. PICK u : u = [x EXCEPT !.consumed = TRUE, !.exchange = "none", !.settled = TRUE]
  OBVIOUS
<1>6. /\ u \in TaskRec /\ u.admitted = x.admitted /\ u.called = x.called /\ u.done = x.done
      /\ u.slot = x.slot /\ u.preparing = x.preparing /\ u.handler = x.handler
  BY <1>5 DEF TaskRec
<1>7. q = [r EXCEPT !.tasks[t] = u]
  BY <1>4, <1>5 DEF Complete
<1>8. TaskInv(r.slots, r.tasks, r.queue, t) /\ \A s \in Slots : SlotInv(r.slots, r.tasks, s)
  BY <1>3 DEF Fits
<1>9. x.done
  BY <1>2, <1>4
<1>10. TaskInv(r.slots, [r.tasks EXCEPT ![t] = u], r.queue, t)
  <2>1. PICK T2 : T2 = [r.tasks EXCEPT ![t] = u]
    OBVIOUS
  <2>2. T2[t] = u
    BY <1>3, <2>1
  <2>3. TaskInv(r.slots, T2, r.queue, t)
    BY <1>4, <1>6, <1>8, <1>9, <2>2 DEF TaskInv
  <2>4. QED
    BY <2>1, <2>3
<1>11. Harmless(r.slots, r.tasks, t, u)
  BY <1>2, <1>4, <1>6, <1>9 DEF Harmless, Untouched
<1>12. \A s \in Slots : r.slots[s].task = t /\ u.handler # "none" => r.slots[s].worker = "up"
  <2>1. ASSUME NEW s \in Slots, r.slots[s].task = t, u.handler # "none"
        PROVE  r.slots[s].worker = "up"
    <3>1. HostInv(r.slots, r.tasks, s)
      BY <1>2 DEF Hosted
    <3>2. r.slots[s].task # NoTask /\ r.tasks[r.slots[s].task].handler # "none"
      BY <1>4, <1>6, <2>1, PoolConstants
    <3>3. QED
      BY <3>1, <3>2 DEF HostInv
  <2>2. QED
    BY <2>1
<1>13. TaskStep(r, t, u, r.pendingTasks, r.pendingBytes, q)
  <2>1. q = [r EXCEPT !.tasks[t] = u, !.pendingTasks = r.pendingTasks,
                        !.pendingBytes = r.pendingBytes]
    BY <1>3, <1>7, PlainStep
  <2>2. QED
    BY <1>2, <1>3, <1>4, <1>6, <1>10, <1>11, <1>12, <2>1 DEF TaskStep
<1>14. /\ Good(q) /\ Hosted(q) /\ Kept(r, q) /\ q.queue = r.queue /\ q.slots = r.slots
       /\ q.tasks = [r.tasks EXCEPT ![t] = u]
  BY <1>13, TaskGood
<1>15. \A y \in Tasks : q.tasks[y].done = r.tasks[y].done /\ q.tasks[y].preparing = r.tasks[y].preparing
  BY <1>3, <1>4, <1>6, <1>14
<1>16. Later(p, q)
  <2>1. Kept(p, q)
    BY <1>2, <1>14 DEF Kept
  <2>2. ASSUME NEW y \in Tasks
        PROVE  /\ q.tasks[y].done = p.tasks[y].done
               /\ p.tasks[y].preparing => q.tasks[y].preparing
    BY <1>2, <1>15
  <2>3. ASSUME NEW s \in Slots, p.slots[s].live PROVE q.slots[s].live
    BY <1>2, <1>14, <2>3
  <2>4. QED
    BY <2>1, <2>2, <2>3 DEF Later
<1>17. QED
  BY <1>2, <1>14, <1>16

-----------------------------------------------------------------------------
(* A slot changes, with its tasks.                                         *)

\* q is p after a step of the slot s and of its tasks Y
SlotStep(p, q, s, Y) ==
    /\ Good(p) /\ q \in PoolRec /\ q.queue = p.queue
    /\ q.rotation = "settling" =>
          p.rotation = "settling" /\ q.rotated = p.rotated /\ q.awaited = p.awaited
    /\ q.pendingTasks = p.pendingTasks /\ q.pendingBytes = p.pendingBytes
    /\ s \in Slots /\ Y \in SUBSET Tasks
    /\ \A x \in Slots \ {s} : q.slots[x] = p.slots[x]
    /\ \A x \in Tasks \ Y : q.tasks[x] = p.tasks[x]
    /\ \A t \in Y : p.tasks[t].slot = s /\ q.tasks[t].admitted = p.tasks[t].admitted
    /\ p.slots[s].task \in Y \cup {NoTask}
    /\ q.slots[s].live = p.slots[s].live
    /\ q.slots[s].task \in {p.slots[s].task, NoTask}
    /\ q.activeTasks = IF q.slots[s].task = p.slots[s].task THEN p.activeTasks ELSE p.activeTasks - 1
    /\ SlotInv(q.slots, q.tasks, s)
    /\ \A t \in Y : TaskInv(q.slots, q.tasks, q.queue, t)

\* Such a step keeps the invariant
LEMMA SlotGood ==
    ASSUME NEW p, NEW q, NEW s, NEW Y, SlotStep(p, q, s, Y)
    PROVE  /\ Good(q)
           /\ /\ \A x \in Slots \ {s} : HostInv(p.slots, p.tasks, x)
              /\ HostInv(q.slots, q.tasks, s)
              => Hosted(q)
<1> PICK S, T, S2, T2, Q : S = p.slots /\ T = p.tasks /\ S2 = q.slots /\ T2 = q.tasks /\ Q = p.queue
  OBVIOUS
<1>1. /\ p \in PoolRec /\ Fits(S, T, Q) /\ RotInv(p)
      /\ CountInv(S, T, p.pendingTasks, p.pendingBytes, p.activeTasks)
  BY DEF SlotStep, Good
<1>2. /\ q \in PoolRec /\ q.queue = Q
      /\ q.rotation = "settling" =>
            p.rotation = "settling" /\ q.rotated = p.rotated /\ q.awaited = p.awaited
      /\ q.pendingTasks = p.pendingTasks /\ q.pendingBytes = p.pendingBytes
      /\ s \in Slots /\ Y \in SUBSET Tasks
      /\ \A x \in Slots \ {s} : S2[x] = S[x]
      /\ \A x \in Tasks \ Y : T2[x] = T[x]
      /\ \A t \in Y : T[t].slot = s /\ T2[t].admitted = T[t].admitted
      /\ S[s].task \in Y \cup {NoTask}
      /\ S2[s].live = S[s].live
      /\ S2[s].task \in {S[s].task, NoTask}
      /\ q.activeTasks = IF S2[s].task = S[s].task THEN p.activeTasks ELSE p.activeTasks - 1
      /\ SlotInv(S2, T2, s)
      /\ \A t \in Y : TaskInv(S2, T2, Q, t)
  BY DEF SlotStep
<1>3. /\ S \in [Slots -> SlotRec] /\ S2 \in [Slots -> SlotRec]
      /\ T \in [Tasks -> TaskRec] /\ T2 \in [Tasks -> TaskRec] /\ Q \in Seq(Tasks)
      /\ p.activeTasks \in Int
  BY <1>1, <1>2 DEF PoolRec
<1>4. QueueInv(T2, Q)
  <2>1. QueueInv(T, Q) /\ \A i \in 1 .. Len(Q) : Q[i] \in Tasks
    BY <1>1, <1>3 DEF Fits
  <2>2. \A i \in 1 .. Len(Q) : Q[i] \notin Y
    BY <1>2, <2>1, PoolConstants DEF QueueInv
  <2>3. \A i \in 1 .. Len(Q) : T2[Q[i]] = T[Q[i]]
    BY <1>2, <2>1, <2>2
  <2>4. QED
    BY <2>1, <2>3 DEF QueueInv
<1>5. Fits(S2, T2, Q)
  <2>1. Changes(S, T, Q, S2, T2, Q, {s}, Y)
    BY <1>1, <1>2, <1>3, <1>4 DEF Changes
  <2>2. QED
    BY <2>1, FitStep
<1>6. Charged(T2) = Charged(T)
  <2>1. \A x \in Tasks : T2[x].admitted = T[x].admitted
    BY <1>2
  <2>2. QED
    BY <2>1 DEF Charged
<1>7. Alive(S2) = Alive(S)
  <2>1. \A x \in Slots : S2[x].live = S[x].live
    BY <1>2
  <2>2. QED
    BY <2>1 DEF Alive
<1>8. q.activeTasks = Cardinality(Busy(S2))
  <2>1. p.activeTasks = Cardinality(Busy(S)) /\ Busy(S) \in SUBSET Slots
    BY <1>1 DEF CountInv, Busy
  <2>2. CASE S2[s].task = S[s].task
    <3>1. Busy(S2) = Busy(S)
      BY <1>2, <2>2 DEF Busy
    <3>2. QED
      BY <1>2, <2>1, <2>2, <3>1
  <2>3. CASE S2[s].task # S[s].task
    <3>1. s \in Busy(S) /\ Busy(S2) = Busy(S) \ {s}
      BY <1>2, <2>3 DEF Busy
    <3>2. Cardinality(Busy(S2)) = Cardinality(Busy(S)) - 1
      BY <1>2, <2>1, <3>1, SlotCount
    <3>3. QED
      BY <1>2, <2>1, <2>3, <3>2
  <2>4. QED
    BY <2>2, <2>3
<1>9. CountInv(S2, T2, q.pendingTasks, q.pendingBytes, q.activeTasks)
  BY <1>1, <1>2, <1>6, <1>7, <1>8 DEF CountInv
<1>10. RotInv(q)
  <2>1. q.rotation = "settling" => q.rotated \in SUBSET Slots
    BY <1>2 DEF PoolRec
  <2>2. ASSUME q.rotation = "settling", NEW x \in q.rotated
        PROVE  S2[x].task \in q.awaited \cup {NoTask}
    <3>1. S[x].task \in q.awaited \cup {NoTask} /\ x \in Slots
      BY <1>1, <1>2, <2>1, <2>2 DEF RotInv
    <3>2. QED
      BY <1>2, <3>1
  <2>3. QED
    BY <2>2 DEF RotInv
<1>11. Good(q)
  BY <1>2, <1>5, <1>9, <1>10 DEF Good
<1>12. ASSUME \A x \in Slots \ {s} : HostInv(S, T, x), HostInv(S2, T2, s)
       PROVE  Hosted(q)
  <2>1. ASSUME NEW x \in Slots \ {s} PROVE HostInv(S2, T2, x)
    <3>1. HostInv(S, T, x) /\ S2[x] = S[x] /\ SlotInv(S, T, x) /\ S[x].task \in Tasks \cup {NoTask}
      BY <1>1, <1>2, <1>3, <1>12 DEF Fits, SlotRec
    <3>2. S[x].task # NoTask => T[S[x].task].slot = x
      BY <3>1 DEF SlotInv
    <3>3. ASSUME S[x].task # NoTask PROVE T2[S[x].task] = T[S[x].task]
      BY <1>2, <3>1, <3>2, <3>3
    <3>4. QED
      BY <3>1, <3>3 DEF HostInv
  <2>2. QED
    BY <1>12, <2>1 DEF Hosted
<1>13. QED
  BY <1>11, <1>12

-----------------------------------------------------------------------------
(* Steps that give no queued task a chance.                                *)

\* The slot is about to be free, as far as the pool can see to it
Relief(p, s) ==
    \/ p.slots[s].task # NoTask /\ p.tasks[p.slots[s].task].pressure
    \/ p.slots[s].retiring \/ p.slots[s].retirementFailed

\* No slot gets free, no more tasks wait for their host
Calm(p, q) ==
    /\ Open(q) => Open(p)
    /\ q.queue # <<>> => p.queue # <<>>
    /\ \A s \in Slots :
          /\ q.slots[s].live = p.slots[s].live
          /\ s \in Free(q) => s \in Free(p)
          /\ s \in HostWaiting(q) => s \in HostWaiting(p)
          /\ Relief(p, s) => Relief(q, s)

\* One calm step after another
LEMMA CalmTrans ==
    ASSUME NEW p, NEW q, NEW r, Calm(p, q), Calm(q, r)
    PROVE  Calm(p, r)
BY DEF Calm

\* After a calm step the queue is as justified as before
LEMMA CalmKeeps ==
    ASSUME NEW p, NEW q, Calm(p, q), Justified(p)
    PROVE  Justified(q)
<1>1. Live(q) = Live(p)
  BY DEF Calm, Live
<1>2. Free(q) \subseteq Free(p)
  <2>1. \A s \in Free(q) : s \in Slots
    BY DEF Free, Live
  <2>2. QED
    BY <2>1 DEF Calm
<1>3. HostWaiting(q) \subseteq HostWaiting(p)
  <2>1. \A s \in HostWaiting(q) : s \in Slots
    BY DEF HostWaiting, Live
  <2>2. QED
    BY <2>1 DEF Calm
<1>4. SUFFICES ASSUME Open(q) /\ q.queue # <<>>
               PROVE  /\ Free(q) = {} /\ Cardinality(Live(q)) = MaxWorkers
                      /\ HostWaiting(q) # {} => \E s \in Live(q) : Relief(q, s)
  BY DEF Justified, Relief
<1>5. /\ Free(p) = {} /\ Cardinality(Live(p)) = MaxWorkers
      /\ HostWaiting(p) # {} => \E s \in Live(p) : Relief(p, s)
  BY <1>4 DEF Justified, Calm, Relief
<1>6. \A s \in Live(p) : s \in Slots
  BY DEF Live
<1>7. \A s \in Live(p) : Relief(p, s) => Relief(q, s)
  BY <1>6 DEF Calm
<1>8. HostWaiting(q) # {} => HostWaiting(p) # {}
  BY <1>3
<1>9. QED
  BY <1>1, <1>2, <1>5, <1>7, <1>8

\* A step of one slot is calm if it is for this slot
LEMMA CalmSlot ==
    ASSUME NEW p, NEW q, NEW s, NEW Y, SlotStep(p, q, s, Y), Open(q) => Open(p),
           s \in Free(q) => s \in Free(p), s \in HostWaiting(q) => s \in HostWaiting(p),
           Relief(p, s) => Relief(q, s)
    PROVE  Calm(p, q)
<1>1. /\ q.queue = p.queue /\ q.slots[s].live = p.slots[s].live
      /\ \A x \in Slots \ {s} : q.slots[x] = p.slots[x]
      /\ \A x \in Tasks \ Y : q.tasks[x] = p.tasks[x]
      /\ \A t \in Y : p.tasks[t].slot = s
  BY DEF SlotStep
<1>2. p \in PoolRec /\ Fits(p.slots, p.tasks, p.queue)
  BY DEF SlotStep, Good
<1>3. ASSUME NEW x \in Slots \ {s}
      PROVE  /\ q.slots[x].live = p.slots[x].live
             /\ x \in Free(q) => x \in Free(p)
             /\ x \in HostWaiting(q) => x \in HostWaiting(p)
             /\ Relief(p, x) => Relief(q, x)
  <2>1. q.slots[x] = p.slots[x] /\ SlotInv(p.slots, p.tasks, x)
    BY <1>1, <1>2 DEF Fits
  <2>2. p.slots[x].task \in Tasks \cup {NoTask}
    BY <1>2 DEF PoolRec, SlotRec
  <2>3. p.slots[x].task # NoTask => q.tasks[p.slots[x].task] = p.tasks[p.slots[x].task]
    BY <1>1, <2>1, <2>2 DEF SlotInv
  <2>4. x \in Free(q) => x \in Free(p)
    BY <2>1 DEF Free, Live
  <2>5. x \in HostWaiting(q) => x \in HostWaiting(p)
    BY <2>1, <2>3 DEF HostWaiting, Live
  <2>6. Relief(p, x) => Relief(q, x)
    BY <2>1, <2>3 DEF Relief
  <2>7. QED
    BY <2>1, <2>4, <2>5, <2>6
<1>4. QED
  BY <1>1, <1>3 DEF Calm

\* Such as one after which the slot retires
LEMMA CalmRetiring ==
    ASSUME NEW p, NEW q, NEW s, NEW Y, SlotStep(p, q, s, Y), Open(q) => Open(p),
           q.slots[s].task = NoTask, q.slots[s].retiring \/ q.slots[s].retirementFailed
    PROVE  Calm(p, q)
<1>1. s \notin Free(q) /\ s \notin HostWaiting(q)
  BY DEF Free, HostWaiting
<1>2. Relief(q, s)
  BY DEF Relief
<1>3. QED
  BY <1>1, <1>2, CalmSlot

\* A step of one task is calm if the task does not begin to wait
LEMMA CalmTask ==
    ASSUME NEW p, Good(p), NEW t \in Tasks, NEW u, NEW q, q.slots = p.slots, q.queue = p.queue,
           q.tasks = [p.tasks EXCEPT ![t] = u], Kept(p, q),
           u.exchange = "host" => p.tasks[t].exchange = "host",
           u.pressure = p.tasks[t].pressure
    PROVE  Calm(p, q)
<1>1. p.tasks \in [Tasks -> TaskRec] /\ p.slots \in [Slots -> SlotRec]
  BY DEF Good, PoolRec
<1>2. \A x \in Tasks : /\ q.tasks[x].exchange = "host" => p.tasks[x].exchange = "host"
                       /\ q.tasks[x].pressure = p.tasks[x].pressure
  BY <1>1
<1>3. \A x \in Slots : p.slots[x].task \in Tasks \cup {NoTask}
  BY <1>1 DEF SlotRec
<1>4. Open(q) => Open(p)
  BY DEF Open, Kept
<1>5. ASSUME NEW x \in Slots
      PROVE  /\ x \in Free(q) => x \in Free(p)
             /\ x \in HostWaiting(q) => x \in HostWaiting(p)
             /\ Relief(p, x) => Relief(q, x)
  BY <1>2, <1>3 DEF Free, HostWaiting, Relief, Live
<1>6. QED
  BY <1>4, <1>5 DEF Calm

\* A slot's record changes, and what becomes of the fields then
SlotSet(p, s, r, q) ==
    p \in PoolRec /\ s \in Slots /\ r \in SlotRec /\ q = [p EXCEPT !.slots[s] = r]

SlotOnly(p, s, r, q) ==
    /\ q \in PoolRec /\ Kept(p, q) /\ q.queue = p.queue
    /\ q.pendingTasks = p.pendingTasks /\ q.pendingBytes = p.pendingBytes
    /\ q.activeTasks = p.activeTasks /\ q.tasks = p.tasks
    /\ q.slots = [p.slots EXCEPT ![s] = r]

\* The other fields stay
LEMMA SlotFields ==
    ASSUME NEW p, NEW s, NEW r, NEW q, SlotSet(p, s, r, q)
    PROVE  SlotOnly(p, s, r, q)
<1> p \in PoolRec /\ s \in Slots /\ r \in SlotRec /\ q = [p EXCEPT !.slots[s] = r]
  BY DEF SlotSet
<1> QED
  BY DEF PoolRec, Kept, SlotOnly

\* A task leaves its slot, and what becomes of the fields then
LeaveSet(p, s, r, t, u, n, q) ==
    /\ p \in PoolRec /\ s \in Slots /\ r \in SlotRec /\ t \in Tasks /\ u \in TaskRec /\ n \in Int
    /\ q = [p EXCEPT !.tasks[t] = u, !.slots[s] = r, !.activeTasks = n]

LeaveOnly(p, s, r, t, u, n, q) ==
    /\ q \in PoolRec /\ Kept(p, q) /\ q.queue = p.queue
    /\ q.pendingTasks = p.pendingTasks /\ q.pendingBytes = p.pendingBytes
    /\ q.activeTasks = n
    /\ q.slots = [p.slots EXCEPT ![s] = r] /\ q.tasks = [p.tasks EXCEPT ![t] = u]

\* The other fields stay
LEMMA LeaveFields ==
    ASSUME NEW p, NEW s, NEW r, NEW t, NEW u, NEW n, NEW q, LeaveSet(p, s, r, t, u, n, q)
    PROVE  LeaveOnly(p, s, r, t, u, n, q)
<1> /\ p \in PoolRec /\ s \in Slots /\ r \in SlotRec /\ t \in Tasks /\ u \in TaskRec /\ n \in Int
    /\ q = [p EXCEPT !.tasks[t] = u, !.slots[s] = r, !.activeTasks = n]
  BY DEF LeaveSet
<1> QED
  BY DEF PoolRec, Kept, LeaveOnly

\* retire of a slot without a task
LEMMA RetireGood ==
    ASSUME NEW p, Good(p), NEW s \in Slots, p.slots[s].live, p.slots[s].task = NoTask,
           NEW q, q = Retire(p, s)
    PROVE  /\ Good(q)
           /\ (\A x \in Slots \ {s} : HostInv(p.slots, p.tasks, x)) => Hosted(q)
           /\ Calm(p, q)
           /\ Kept(p, q) /\ q.queue = p.queue /\ q.tasks = p.tasks
           /\ q.slots = [p.slots EXCEPT ![s] =
                            [p.slots[s] EXCEPT !.retiring = TRUE, !.idleTimer = FALSE]]
<1>1. p \in PoolRec /\ p.slots \in [Slots -> SlotRec] /\ Fits(p.slots, p.tasks, p.queue)
  BY DEF Good, PoolRec
<1>2. PICK x \in SlotRec : x = p.slots[s]
  BY <1>1
<1>3. PICK r : r = [x EXCEPT !.retiring = TRUE, !.idleTimer = FALSE]
  OBVIOUS
<1>4. /\ r \in SlotRec /\ r.live = x.live /\ r.task = x.task /\ r.exec = x.exec /\ r.reads = x.reads
      /\ r.worker = x.worker /\ r.completions = x.completions /\ r.retiring
  BY <1>3 DEF SlotRec
<1>5. SlotSet(p, s, r, q)
  BY <1>1, <1>2, <1>3, <1>4 DEF Retire, SlotSet
<1>6. /\ q \in PoolRec /\ Kept(p, q) /\ q.queue = p.queue
      /\ q.pendingTasks = p.pendingTasks /\ q.pendingBytes = p.pendingBytes
      /\ q.activeTasks = p.activeTasks /\ q.tasks = p.tasks
      /\ q.slots = [p.slots EXCEPT ![s] = r]
  BY <1>5, SlotFields DEF SlotOnly
<1>7. q.slots[s] = r /\ \A y \in Slots \ {s} : q.slots[y] = p.slots[y]
  BY <1>1, <1>6
<1>8. SlotInv(p.slots, p.tasks, s)
  BY <1>1 DEF Fits
<1>9. SlotInv(q.slots, q.tasks, s)
  <2>1. PICK T : T = p.tasks
    OBVIOUS
  <2>2. /\ x.live /\ x.task = NoTask
        /\ x.exec # NoTask => T[x.exec].slot = s /\ T[x.exec].admitted /\ ~T[x.exec].preparing
        /\ \A t \in x.completions : T[t].slot = s /\ T[t].done
        /\ x.reads # {} => x.worker = "up"
        /\ \A t \in Tasks : <<t, "input">> \in x.reads =>
              T[t].slot = s /\ ~T[t].preparing /\ ~T[t].consumed
        /\ \A t \in Tasks : <<t, "answer">> \in x.reads =>
              T[t].slot = s /\ ~T[t].preparing /\ T[t].exchange = "sent"
    BY <1>2, <1>8, <2>1 DEF SlotInv
  <2>3. q.slots[s] = r /\ q.tasks = T
    BY <1>6, <1>7, <2>1
  <2>4. SlotInv(q.slots, T, s)
    BY <1>4, <2>2, <2>3 DEF SlotInv
  <2>5. QED
    BY <2>3, <2>4
<1>10. SlotStep(p, q, s, {})
  BY <1>2, <1>4, <1>6, <1>7, <1>9 DEF SlotStep, Kept
<1>11. HostInv(q.slots, q.tasks, s)
  BY <1>2, <1>4, <1>7 DEF HostInv
<1>12. Good(q) /\ ((\A x_1 \in Slots \ {s} : HostInv(p.slots, p.tasks, x_1)) => Hosted(q))
  BY <1>10, <1>11, SlotGood
<1>13. Calm(p, q)
  <2>1. q.slots[s].task = NoTask /\ q.slots[s].retiring
    BY <1>2, <1>4, <1>7
  <2>2. Open(q) => Open(p)
    BY <1>6 DEF Open, Kept
  <2>3. QED
    BY <1>10, <2>1, <2>2, CalmRetiring
<1>14. QED
  BY <1>2, <1>3, <1>6, <1>12, <1>13

\* finish with retirement: the slot keeps the task until it is gone
LEMMA EndRetireGood ==
    ASSUME NEW p, Good(p), NEW s \in Slots, NEW t \in Tasks, p.slots[s].task = t,
           NEW q, q = FinishInSlot(p, t, s, TRUE)
    PROVE  /\ Good(q)
           /\ (\A x \in Slots \ {s} : HostInv(p.slots, p.tasks, x)) => Hosted(q)
           /\ Calm(p, q) /\ Kept(p, q) /\ q.queue = p.queue
           /\ \A x \in Slots \ {s} : q.slots[x] = p.slots[x]
           /\ \A x \in Tasks \ {t} : q.tasks[x] = p.tasks[x]
           /\ q.slots[s].live /\ q.slots[s].retiring
<1>1. /\ p \in PoolRec /\ p.slots \in [Slots -> SlotRec] /\ p.tasks \in [Tasks -> TaskRec]
      /\ Fits(p.slots, p.tasks, p.queue)
  BY DEF Good, PoolRec
<1>2. PICK y \in SlotRec, v \in TaskRec : y = p.slots[s] /\ v = p.tasks[t]
  BY <1>1
<1>3. PICK r1 : r1 = [y EXCEPT !.task = NoTask]
  OBVIOUS
<1>4. PICK r2 : r2 = [r1 EXCEPT !.completions = @ \cup {t}]
  OBVIOUS
<1>5. PICK r3 : r3 = [r2 EXCEPT !.retiring = TRUE, !.idleTimer = FALSE]
  OBVIOUS
<1>6. PICK u : u = [v EXCEPT !.done = TRUE]
  OBVIOUS
<1>7. PICK n \in Int : n = p.activeTasks - 1
  BY <1>1 DEF PoolRec
<1>8. PICK q1 : q1 = [p EXCEPT !.tasks[t].done = TRUE, !.slots[s].task = NoTask, !.activeTasks = @ - 1]
  OBVIOUS
<1>9. /\ r1 \in SlotRec /\ r1.task = NoTask /\ r1.live = y.live /\ r1.exec = y.exec
      /\ r1.reads = y.reads /\ r1.worker = y.worker /\ r1.completions = y.completions
  BY <1>3 DEF SlotRec
<1>10. /\ r2 \in SlotRec /\ r2.task = NoTask /\ r2.live = y.live /\ r2.exec = y.exec
       /\ r2.reads = y.reads /\ r2.worker = y.worker /\ r2.completions = y.completions \cup {t}
  BY <1>4, <1>9 DEF SlotRec
<1>11. /\ r3 \in SlotRec /\ r3.task = NoTask /\ r3.live = y.live /\ r3.exec = y.exec
       /\ r3.reads = y.reads /\ r3.worker = y.worker /\ r3.completions = y.completions \cup {t}
       /\ r3.retiring
  BY <1>5, <1>10 DEF SlotRec
<1>12. /\ u \in TaskRec /\ u.done /\ u.called = v.called /\ u.admitted = v.admitted
       /\ u.preparing = v.preparing /\ u.slot = v.slot /\ u.consumed = v.consumed
       /\ u.exchange = v.exchange /\ u.handler = v.handler
  BY <1>6 DEF TaskRec
<1>13. LeaveOnly(p, s, r1, t, u, n, q1)
  <2>1. q1 = [p EXCEPT !.tasks[t] = u, !.slots[s] = r1, !.activeTasks = n]
    BY <1>2, <1>3, <1>6, <1>7, <1>8
  <2>2. LeaveSet(p, s, r1, t, u, n, q1)
    BY <1>1, <1>7, <1>9, <1>12, <2>1 DEF LeaveSet
  <2>3. QED
    BY <2>2, LeaveFields
<1>14. q1.slots \in [Slots -> SlotRec] /\ q1.slots[s] = r1
  BY <1>1, <1>9, <1>13 DEF LeaveOnly
<1>15. PICK q2 : SlotSet(q1, s, r2, q2)
  BY <1>10, <1>13 DEF SlotSet, LeaveOnly
<1>16. SlotOnly(q1, s, r2, q2) /\ q2.slots[s] = r2
  <2>1. SlotOnly(q1, s, r2, q2)
    BY <1>15, SlotFields
  <2>2. QED
    BY <1>14, <2>1 DEF SlotOnly
<1>17. q = Retire([q1 EXCEPT !.slots[s].completions = @ \cup {t}], s)
  BY <1>8 DEF FinishInSlot
<1>18. q2 = [q1 EXCEPT !.slots[s].completions = @ \cup {t}]
  BY <1>4, <1>14, <1>15 DEF SlotSet
<1>19. q = Retire(q2, s)
  BY <1>17, <1>18, Zenon
<1>20. SlotSet(q2, s, r3, q)
  BY <1>5, <1>11, <1>15, <1>16, <1>19 DEF Retire, SlotSet, SlotOnly
<1>21. SlotOnly(q2, s, r3, q)
  BY <1>20, SlotFields
<1>22. /\ q \in PoolRec /\ Kept(p, q) /\ q.queue = p.queue
       /\ q.pendingTasks = p.pendingTasks /\ q.pendingBytes = p.pendingBytes
       /\ q.activeTasks = p.activeTasks - 1
       /\ q.tasks = [p.tasks EXCEPT ![t] = u]
  BY <1>7, <1>13, <1>16, <1>21 DEF Kept, SlotOnly, LeaveOnly
<1>23. q.slots[s] = r3 /\ \A x \in Slots \ {s} : q.slots[x] = p.slots[x]
  BY <1>1, <1>13, <1>16, <1>21, ZenonT(40) DEF SlotOnly, LeaveOnly
<1>24. q.tasks[t] = u /\ \A x \in Tasks \ {t} : q.tasks[x] = p.tasks[x]
  BY <1>1, <1>22
<1>25. SlotInv(p.slots, p.tasks, s) /\ TaskInv(p.slots, p.tasks, p.queue, t)
  BY <1>1 DEF Fits
<1>26. t # NoTask /\ y.task = t /\ y.live /\ v.slot = s /\ ~v.done
  BY <1>2, <1>25, PoolConstants DEF SlotInv
<1>27. SlotInv(q.slots, q.tasks, s)
  <2>0. ASSUME NEW x \in Tasks
        PROVE  /\ q.tasks[x].slot = p.tasks[x].slot /\ q.tasks[x].preparing = p.tasks[x].preparing
               /\ q.tasks[x].consumed = p.tasks[x].consumed
               /\ q.tasks[x].exchange = p.tasks[x].exchange
               /\ p.tasks[x].done => q.tasks[x].done
    BY <1>2, <1>12, <1>24
  <2>1. \A x \in y.completions : q.tasks[x].slot = s /\ q.tasks[x].done
    <3>1. \A x \in y.completions : x \in Tasks
      BY DEF SlotRec
    <3>2. \A x \in y.completions : p.tasks[x].slot = s /\ p.tasks[x].done
      BY <1>2, <1>25 DEF SlotInv
    <3>3. QED
      BY <2>0, <3>1, <3>2
  <2>2. y.exec \in {NoTask, t}
    BY <1>2, <1>25, <1>26 DEF SlotInv
  <2>3. y.exec = t => v.admitted /\ ~v.preparing
    BY <1>2, <1>25, <1>26 DEF SlotInv
  <2>4. ASSUME NEW x \in Tasks
        PROVE  /\ <<x, "input">> \in y.reads =>
                     q.tasks[x].slot = s /\ ~q.tasks[x].preparing /\ ~q.tasks[x].consumed
               /\ <<x, "answer">> \in y.reads =>
                     q.tasks[x].slot = s /\ ~q.tasks[x].preparing /\ q.tasks[x].exchange = "sent"
    <3>1. /\ <<x, "input">> \in y.reads =>
                p.tasks[x].slot = s /\ ~p.tasks[x].preparing /\ ~p.tasks[x].consumed
          /\ <<x, "answer">> \in y.reads =>
                p.tasks[x].slot = s /\ ~p.tasks[x].preparing /\ p.tasks[x].exchange = "sent"
      BY <1>2, <1>25 DEF SlotInv
    <3>2. QED
      BY <2>0, <3>1
  <2>5. y.reads # {} => y.worker = "up"
    BY <1>2, <1>25 DEF SlotInv
  <2>6. \A x \in r3.completions : q.tasks[x].slot = s /\ q.tasks[x].done
    BY <1>11, <1>12, <1>24, <1>26, <2>1
  <2>7. y.exec = t => q.tasks[t].slot = s /\ q.tasks[t].admitted /\ ~q.tasks[t].preparing
    BY <1>12, <1>24, <1>26, <2>3
  <2>8. /\ r3.live /\ r3.task = NoTask /\ r3.exec \in {NoTask, t} /\ r3.exec = y.exec
        /\ r3.reads = y.reads /\ r3.worker = y.worker /\ r3.retiring
    BY <1>11, <1>26, <2>2
  <2>9. QED
    BY <1>23, <2>4, <2>5, <2>6, <2>7, <2>8 DEF SlotInv
<1>28. TaskInv(q.slots, q.tasks, q.queue, t)
  <2>1. v.called /\ (v.preparing => v.admitted /\ v.handler = "none")
    BY <1>2, <1>25, <1>26, PoolConstants DEF TaskInv
  <2>2. u.slot # NoSlot
    BY <1>12, <1>26, PoolConstants
  <2>3. QED
    BY <1>12, <1>24, <2>1, <2>2 DEF TaskInv
<1>29. SlotStep(p, q, s, {t})
  <2>1. p.slots[s].live = r3.live /\ q.slots[s].task # p.slots[s].task /\ q.slots[s].task = NoTask
    BY <1>2, <1>11, <1>23, <1>26
  <2>2. p.tasks[t].slot = s /\ q.tasks[t].admitted = p.tasks[t].admitted
    BY <1>2, <1>12, <1>24, <1>26
  <2>3. \A x \in {t} : /\ p.tasks[x].slot = s /\ q.tasks[x].admitted = p.tasks[x].admitted
                       /\ TaskInv(q.slots, q.tasks, q.queue, x)
    BY <1>28, <2>2
  <2>4. QED
    BY <1>22, <1>23, <1>24, <1>27, <2>1, <2>3 DEF SlotStep, Kept
<1>30. HostInv(q.slots, q.tasks, s)
  BY <1>11, <1>23 DEF HostInv
<1>31. Good(q) /\ ((\A x \in Slots \ {s} : HostInv(p.slots, p.tasks, x)) => Hosted(q))
  BY <1>29, <1>30, SlotGood
<1>32. Calm(p, q)
  <2>1. q.slots[s].task = NoTask /\ q.slots[s].retiring
    BY <1>11, <1>23
  <2>2. Open(q) => Open(p)
    BY <1>22 DEF Open, Kept
  <2>3. QED
    BY <1>29, <2>1, <2>2, CalmRetiring
<1>33. QED
  BY <1>11, <1>22, <1>23, <1>24, <1>26, <1>31, <1>32

\* A slot's record with less in the thread's hands
Lesser(x, r) ==
    /\ x \in SlotRec /\ r \in SlotRec /\ x.live /\ r.live /\ r.task = x.task
    /\ r.exec \in {x.exec, NoTask} /\ r.reads \subseteq x.reads
    /\ r.reads # {} => r.worker = "up"
    /\ r.retiring = x.retiring /\ r.retirementFailed = x.retirementFailed
    /\ r.completions = x.completions
    /\ r.idleTimer => x.idleTimer \/ x.task = NoTask

\* Such a record keeps the invariant
LEMMA LesserGood ==
    ASSUME NEW p, Good(p), NEW s, NEW r, Lesser(p.slots[s], r), NEW q, SlotSet(p, s, r, q)
    PROVE  /\ Good(q) /\ SlotOnly(p, s, r, q) /\ Calm(p, q)
           /\ q.slots[s] = r /\ \A y \in Slots \ {s} : q.slots[y] = p.slots[y]
           /\ /\ \A y \in Slots \ {s} : HostInv(p.slots, p.tasks, y)
              /\ HostInv(q.slots, q.tasks, s)
              => Hosted(q)
<1>1. /\ p \in PoolRec /\ p.slots \in [Slots -> SlotRec] /\ Fits(p.slots, p.tasks, p.queue)
      /\ s \in Slots
  BY DEF Good, PoolRec, SlotSet
<1>2. SlotOnly(p, s, r, q)
  BY SlotFields
<1>3. q.slots[s] = r /\ \A y \in Slots \ {s} : q.slots[y] = p.slots[y]
  BY <1>1, <1>2 DEF SlotOnly
<1>4. SlotInv(p.slots, p.tasks, s) /\ q.tasks = p.tasks /\ q.queue = p.queue /\ Kept(p, q)
  BY <1>1, <1>2 DEF Fits, SlotOnly
<1>5. PICK x : x = p.slots[s]
  OBVIOUS
<1>6. Lesser(x, r)
  BY <1>5
<1>7. SlotInv(q.slots, q.tasks, s)
  <2>1. /\ \A t \in x.completions : q.tasks[t].slot = s /\ q.tasks[t].done
        /\ \A t \in Tasks : <<t, "input">> \in x.reads =>
              q.tasks[t].slot = s /\ ~q.tasks[t].preparing /\ ~q.tasks[t].consumed
        /\ \A t \in Tasks : <<t, "answer">> \in x.reads =>
              q.tasks[t].slot = s /\ ~q.tasks[t].preparing /\ q.tasks[t].exchange = "sent"
    BY <1>4, <1>5 DEF SlotInv
  <2>2. /\ x.task # NoTask =>
              /\ ~x.retiring /\ ~x.retirementFailed /\ ~x.idleTimer
              /\ q.tasks[x.task].slot = s /\ ~q.tasks[x.task].done
              /\ x.exec \in {NoTask, x.task}
        /\ x.exec # NoTask =>
              /\ q.tasks[x.exec].slot = s /\ q.tasks[x.exec].admitted /\ ~q.tasks[x.exec].preparing
              /\ x.task = NoTask => x.retiring \/ x.retirementFailed
    BY <1>4, <1>5 DEF SlotInv
  <2>3. /\ r.live /\ r.completions = x.completions /\ r.task = x.task
        /\ r.retiring = x.retiring /\ r.retirementFailed = x.retirementFailed
        /\ r.exec \in {x.exec, NoTask} /\ (r.reads # {} => r.worker = "up")
        /\ r.idleTimer => x.idleTimer \/ x.task = NoTask
        /\ r.reads \subseteq x.reads
    BY <1>6 DEF Lesser
  <2>4. /\ \A t \in Tasks : <<t, "input">> \in r.reads =>
              q.tasks[t].slot = s /\ ~q.tasks[t].preparing /\ ~q.tasks[t].consumed
        /\ \A t \in Tasks : <<t, "answer">> \in r.reads =>
              q.tasks[t].slot = s /\ ~q.tasks[t].preparing /\ q.tasks[t].exchange = "sent"
    BY <2>1, <2>3
  <2>5. q.slots[s] = r
    BY <1>3
  <2>6. QED
    BY <2>1, <2>2, <2>3, <2>4, <2>5 DEF SlotInv
<1>8. PICK Y : Y = {x.task} \ {NoTask}
  OBVIOUS
<1>9. /\ x \in SlotRec /\ r.live = x.live /\ r.task = x.task /\ r.exec \in {x.exec, NoTask}
      /\ r.retiring = x.retiring /\ r.retirementFailed = x.retirementFailed
  BY <1>6 DEF Lesser
<1>10. \A t \in Y : /\ t \in Tasks /\ p.tasks[t].slot = s
                    /\ TaskInv(q.slots, q.tasks, q.queue, t)
  <2>1. SUFFICES ASSUME NEW t \in Y
                 PROVE  t \in Tasks /\ p.tasks[t].slot = s /\ TaskInv(q.slots, q.tasks, q.queue, t)
    OBVIOUS
  <2>2. t = x.task /\ x.task # NoTask /\ t \in Tasks
    BY <1>8, <1>9 DEF SlotRec
  <2>3. p.tasks[t].slot = s
    BY <1>4, <1>5, <2>2 DEF SlotInv
  <2>4. TaskInv(p.slots, p.tasks, p.queue, t)
    BY <1>1, <2>2 DEF Fits
  <2>5. q.slots[s].task = p.slots[s].task /\ q.slots[s].exec \in {p.slots[s].exec, NoTask}
    BY <1>3, <1>5, <1>9
  <2>6. TaskInv(q.slots, q.tasks, q.queue, t)
    BY <1>4, <2>3, <2>4, <2>5 DEF TaskInv
  <2>7. QED
    BY <2>2, <2>3, <2>6
<1>11. SlotStep(p, q, s, Y)
  <2>1. p.slots[s].task \in Y \cup {NoTask} /\ q.slots[s].task = p.slots[s].task
        /\ q.slots[s].live = p.slots[s].live
    BY <1>3, <1>5, <1>8, <1>9
  <2>2. \A t \in Y : q.tasks[t].admitted = p.tasks[t].admitted
    BY <1>4
  <2>3. Y \in SUBSET Tasks
    BY <1>10
  <2>4. /\ q \in PoolRec /\ q.pendingTasks = p.pendingTasks /\ q.pendingBytes = p.pendingBytes
        /\ q.activeTasks = p.activeTasks
    BY <1>2 DEF SlotOnly
  <2>5. \A y \in Tasks \ Y : q.tasks[y] = p.tasks[y]
    BY <1>4
  <2>6. \A t \in Y : p.tasks[t].slot = s
    BY <1>10
  <2>7. \A t \in Y : TaskInv(q.slots, q.tasks, q.queue, t)
    BY <1>10
  <2>8. q.rotation = p.rotation /\ q.rotated = p.rotated /\ q.awaited = p.awaited
    BY <1>4 DEF Kept
  <2>9. QED
    BY <1>1, <1>3, <1>4, <1>7, <2>1, <2>2, <2>3, <2>4, <2>5, <2>6, <2>7, <2>8 DEF SlotStep
<1>12. Calm(p, q)
  <2>1. Open(q) => Open(p)
    BY <1>4 DEF Open, Kept
  <2>2. /\ s \in Free(q) => s \in Free(p)
        /\ s \in HostWaiting(q) => s \in HostWaiting(p)
        /\ Relief(p, s) => Relief(q, s)
    BY <1>3, <1>4, <1>5, <1>9 DEF Free, HostWaiting, Relief, Live
  <2>3. QED
    BY <1>11, <2>1, <2>2, CalmSlot
<1>13. Good(q) /\ (/\ \A y \in Slots \ {s} : HostInv(p.slots, p.tasks, y)
                   /\ HostInv(q.slots, q.tasks, s)
                   => Hosted(q))
  BY <1>11, SlotGood
<1>14. QED
  BY <1>2, <1>3, <1>12, <1>13

\* A slot without a task idles
LEMMA IdleGood ==
    ASSUME NEW p, Good(p), Hosted(p), Justified(p), NEW s \in Slots, p.slots[s].live,
           NEW q, q = [p EXCEPT !.slots[s].idleTimer = (@ \/ p.slots[s].task = NoTask)]
    PROVE  Good(q) /\ Hosted(q) /\ Justified(q) /\ Later(p, q)
<1>0. PICK z : z = q
  OBVIOUS
<1>1. p \in PoolRec /\ p.slots \in [Slots -> SlotRec]
  BY DEF Good, PoolRec
<1>2. PICK x \in SlotRec : x = p.slots[s]
  BY <1>1
<1>3. PICK b \in BOOLEAN : b = (x.idleTimer \/ x.task = NoTask)
  OBVIOUS
<1>4. PICK r : r = [x EXCEPT !.idleTimer = b]
  OBVIOUS
<1>5. /\ r \in SlotRec /\ r.live = x.live /\ r.task = x.task /\ r.exec = x.exec /\ r.reads = x.reads
      /\ r.worker = x.worker /\ r.completions = x.completions /\ r.retiring = x.retiring
      /\ r.retirementFailed = x.retirementFailed /\ r.idleTimer = b
  BY <1>4 DEF SlotRec
<1>6. SlotSet(p, s, r, z)
  BY <1>0, <1>1, <1>2, <1>3, <1>4, <1>5 DEF SlotSet
<1>7. x.reads # {} => x.worker = "up"
  BY <1>2 DEF Good, Fits, SlotInv
<1>8. Lesser(x, r)
  BY <1>2, <1>3, <1>5, <1>7 DEF Lesser
<1>9. Lesser(p.slots[s], r)
  BY <1>2, <1>8
<1>10. Good(z) /\ SlotOnly(p, s, r, z) /\ Calm(p, z)
       /\ z.slots[s] = r /\ (\A y \in Slots \ {s} : z.slots[y] = p.slots[y])
       /\ (/\ \A y \in Slots \ {s} : HostInv(p.slots, p.tasks, y)
           /\ HostInv(z.slots, z.tasks, s)
           => Hosted(z))
  BY <1>6, <1>9, LesserGood
<1>11. HostInv(z.slots, z.tasks, s)
  BY <1>2, <1>5, <1>10, ZenonT(40) DEF Hosted, HostInv, SlotOnly
<1>12. Hosted(z)
  BY <1>10, <1>11 DEF Hosted
<1>13. Later(p, z)
  BY <1>2, <1>5, <1>10 DEF Later, SlotOnly
<1>14. QED
  BY <1>0, <1>10, <1>12, <1>13, CalmKeeps

\* finish without retirement: the thread has let go of the task
LEMMA EndGood ==
    ASSUME NEW p, Good(p), Hosted(p), NEW s \in Slots, NEW t \in Tasks, p.slots[s].task = t,
           p.slots[s].exec = NoTask,
           <<t, "input">> \notin p.slots[s].reads, <<t, "answer">> \notin p.slots[s].reads,
           NEW q, q = FinishInSlot(p, t, s, FALSE)
    PROVE  /\ Good(q) /\ Hosted(q) /\ Justified(q)
           /\ q.tasks[t].done /\ (p.tasks[t].preparing => q.tasks[t].preparing)
<1>1. /\ p \in PoolRec /\ p.slots \in [Slots -> SlotRec] /\ p.tasks \in [Tasks -> TaskRec]
      /\ Fits(p.slots, p.tasks, p.queue)
  BY DEF Good, PoolRec
<1>2. PICK y \in SlotRec, v \in TaskRec : y = p.slots[s] /\ v = p.tasks[t]
  BY <1>1
<1>3. PICK r1 : r1 = [y EXCEPT !.task = NoTask]
  OBVIOUS
<1>4. PICK u : u = [v EXCEPT !.done = TRUE]
  OBVIOUS
<1>5. PICK n \in Int : n = p.activeTasks - 1
  BY <1>1 DEF PoolRec
<1>6. PICK q1 : q1 = [p EXCEPT !.tasks[t].done = TRUE, !.slots[s].task = NoTask, !.activeTasks = @ - 1]
  OBVIOUS
<1>7. /\ r1 \in SlotRec /\ r1.task = NoTask /\ r1.live = y.live /\ r1.exec = y.exec
      /\ r1.reads = y.reads /\ r1.worker = y.worker /\ r1.completions = y.completions
  BY <1>3 DEF SlotRec
<1>8. /\ u \in TaskRec /\ u.done /\ u.called = v.called /\ u.admitted = v.admitted
      /\ u.preparing = v.preparing /\ u.slot = v.slot /\ u.consumed = v.consumed
      /\ u.exchange = v.exchange /\ u.handler = v.handler
  BY <1>4 DEF TaskRec
<1>9. LeaveOnly(p, s, r1, t, u, n, q1)
  <2>1. q1 = [p EXCEPT !.tasks[t] = u, !.slots[s] = r1, !.activeTasks = n]
    BY <1>2, <1>3, <1>4, <1>5, <1>6
  <2>2. LeaveSet(p, s, r1, t, u, n, q1)
    BY <1>1, <1>5, <1>7, <1>8, <2>1 DEF LeaveSet
  <2>3. QED
    BY <2>2, LeaveFields
<1>10. q1.slots[s] = r1 /\ \A x \in Slots \ {s} : q1.slots[x] = p.slots[x]
  BY <1>1, <1>9 DEF LeaveOnly
<1>11. q1.tasks[t] = u /\ \A x \in Tasks \ {t} : q1.tasks[x] = p.tasks[x]
  BY <1>1, <1>9 DEF LeaveOnly
<1>12. SlotInv(p.slots, p.tasks, s) /\ TaskInv(p.slots, p.tasks, p.queue, t)
  BY <1>1 DEF Fits
<1>13. t # NoTask /\ y.task = t /\ y.live /\ v.slot = s /\ ~v.done /\ y.exec = NoTask
  BY <1>2, <1>12, PoolConstants DEF SlotInv
<1>14. SlotInv(q1.slots, q1.tasks, s)
  <2>1. ASSUME NEW x \in Tasks
        PROVE  /\ q1.tasks[x].slot = p.tasks[x].slot /\ q1.tasks[x].preparing = p.tasks[x].preparing
               /\ q1.tasks[x].consumed = p.tasks[x].consumed
               /\ q1.tasks[x].exchange = p.tasks[x].exchange
               /\ p.tasks[x].done => q1.tasks[x].done
    BY <1>2, <1>8, <1>11
  <2>2. \A x \in y.completions : x \in Tasks
    BY DEF SlotRec
  <2>3. \A x \in y.completions : p.tasks[x].slot = s /\ p.tasks[x].done
    BY <1>2, <1>12 DEF SlotInv
  <2>4. ASSUME NEW x \in Tasks
        PROVE  /\ <<x, "input">> \in y.reads =>
                     q1.tasks[x].slot = s /\ ~q1.tasks[x].preparing /\ ~q1.tasks[x].consumed
               /\ <<x, "answer">> \in y.reads =>
                     q1.tasks[x].slot = s /\ ~q1.tasks[x].preparing /\ q1.tasks[x].exchange = "sent"
    <3>1. /\ <<x, "input">> \in y.reads =>
                p.tasks[x].slot = s /\ ~p.tasks[x].preparing /\ ~p.tasks[x].consumed
          /\ <<x, "answer">> \in y.reads =>
                p.tasks[x].slot = s /\ ~p.tasks[x].preparing /\ p.tasks[x].exchange = "sent"
      BY <1>2, <1>12 DEF SlotInv
    <3>2. QED
      BY <2>1, <3>1
  <2>5. y.reads # {} => y.worker = "up"
    BY <1>2, <1>12 DEF SlotInv
  <2>6. \A x \in r1.completions : q1.tasks[x].slot = s /\ q1.tasks[x].done
    BY <1>7, <2>1, <2>2, <2>3
  <2>7. /\ r1.live /\ r1.task = NoTask /\ r1.exec = NoTask
        /\ r1.reads = y.reads /\ r1.worker = y.worker
    BY <1>7, <1>13
  <2>8. QED
    BY <1>10, <2>4, <2>5, <2>6, <2>7 DEF SlotInv
<1>15. TaskInv(q1.slots, q1.tasks, q1.queue, t)
  <2>1. v.called /\ (v.preparing => v.admitted /\ v.handler = "none")
    BY <1>2, <1>12, <1>13, PoolConstants DEF TaskInv
  <2>2. u.slot # NoSlot
    BY <1>8, <1>13, PoolConstants
  <2>3. QED
    BY <1>8, <1>11, <2>1, <2>2 DEF TaskInv
<1>16. SlotStep(p, q1, s, {t})
  <2>1. p.slots[s].live = r1.live /\ q1.slots[s].task # p.slots[s].task /\ q1.slots[s].task = NoTask
    BY <1>2, <1>7, <1>10, <1>13
  <2>2. p.tasks[t].slot = s /\ q1.tasks[t].admitted = p.tasks[t].admitted
    BY <1>2, <1>8, <1>11, <1>13
  <2>3. \A x \in {t} : /\ p.tasks[x].slot = s /\ q1.tasks[x].admitted = p.tasks[x].admitted
                       /\ TaskInv(q1.slots, q1.tasks, q1.queue, x)
    BY <1>15, <2>2
  <2>4. QED
    BY <1>5, <1>9, <1>10, <1>11, <1>14, <2>1, <2>3 DEF SlotStep, Kept, LeaveOnly
<1>17. HostInv(q1.slots, q1.tasks, s)
  BY <1>7, <1>10 DEF HostInv
<1>18. Good(q1) /\ Hosted(q1)
  BY <1>16, <1>17, SlotGood DEF Hosted
<1>19. Untouched(q1, t)
  <2>1. ASSUME NEW x \in Slots
        PROVE  /\ q1.slots[x].exec # t
               /\ <<t, "input">> \notin q1.slots[x].reads
               /\ <<t, "answer">> \notin q1.slots[x].reads
    <3>1. CASE x = s
      BY <1>2, <1>7, <1>10, <1>13, <3>1
    <3>2. CASE x # s
      <4>1. q1.slots[x] = p.slots[x] /\ SlotInv(p.slots, p.tasks, x) /\ p.tasks[t].slot = s
        BY <1>1, <1>2, <1>10, <1>13, <3>2 DEF Fits
      <4>2. QED
        BY <1>13, <3>2, <4>1 DEF SlotInv
    <3>3. QED
      BY <3>1, <3>2
  <2>2. QED
    BY <2>1 DEF Untouched
<1>20. PICK q2 : q2 = Complete(q1, t)
  OBVIOUS
<1>21. Good(q2) /\ Hosted(q2) /\ Later(q1, q2) /\ q2.slots = q1.slots
  BY <1>8, <1>11, <1>18, <1>19, <1>20, CompleteGood
<1>22. PICK r : r = Dispatch(q2)
  OBVIOUS
<1>23. Good(r) /\ Hosted(r) /\ Later(q2, r) /\ Justified(r)
  BY <1>21, <1>22, DispatchGood
<1>24. q = [r EXCEPT !.slots[s].idleTimer = (@ \/ r.slots[s].task = NoTask)]
  BY <1>6, <1>20, <1>22 DEF FinishInSlot
<1>25. r.slots[s].live
  BY <1>7, <1>10, <1>13, <1>21, <1>23 DEF Later
<1>26. Good(q) /\ Hosted(q) /\ Justified(q) /\ Later(r, q)
  BY <1>23, <1>24, <1>25, IdleGood
<1>27. Later(q1, q)
  BY <1>21, <1>23, <1>26, LaterTrans
<1>28. q.tasks[t].done /\ (p.tasks[t].preparing => q.tasks[t].preparing)
  BY <1>2, <1>8, <1>11, <1>27 DEF Later
<1>29. QED
  BY <1>26, <1>28

-----------------------------------------------------------------------------
(* close, fail.                                                            *)

\* The tasks close finishes, and what it makes of tasks and slots
Queued(p) == Range(p.queue)
Running(p) == {p.slots[s].task : s \in Live(p)} \ {NoTask}

ClosedTasks(p) ==
    [t \in Tasks |->
        IF t \in Queued(p)
        THEN [p.tasks[t] EXCEPT !.done = TRUE, !.admitted = FALSE, !.consumed = TRUE,
                                !.settled = TRUE]
        ELSE IF t \in Running(p) THEN [p.tasks[t] EXCEPT !.done = TRUE]
        ELSE p.tasks[t]]

ClosedSlots(p) ==
    [s \in Slots |->
        IF s \notin Live(p) THEN p.slots[s]
        ELSE [p.slots[s] EXCEPT !.retiring = TRUE, !.idleTimer = FALSE, !.task = NoTask,
                                !.completions = @ \cup ({p.slots[s].task} \ {NoTask})]]

\* What close makes of the fields
CloseSet(p, c, Q, S, T, a, b, n, q) ==
    /\ p \in PoolRec /\ c \in BOOLEAN /\ Q \in Seq(Tasks)
    /\ S \in [Slots -> SlotRec] /\ T \in [Tasks -> TaskRec]
    /\ a \in Int /\ b \in Int /\ n \in Int
    /\ q = [p EXCEPT !.closed = c, !.queue = Q, !.pendingTasks = a, !.pendingBytes = b,
                     !.activeTasks = n, !.tasks = T, !.slots = S]

CloseOnly(p, c, Q, S, T, a, b, n, q) ==
    /\ q \in PoolRec /\ q.closed = c /\ q.queue = Q /\ q.slots = S /\ q.tasks = T
    /\ q.pendingTasks = a /\ q.pendingBytes = b /\ q.activeTasks = n
    /\ q.rotation = p.rotation /\ q.rotated = p.rotated /\ q.awaited = p.awaited

\* The fields of the pool after close
LEMMA CloseFields ==
    ASSUME NEW p, NEW c, NEW Q, NEW S, NEW T, NEW a, NEW b, NEW n, NEW q,
           CloseSet(p, c, Q, S, T, a, b, n, q)
    PROVE  CloseOnly(p, c, Q, S, T, a, b, n, q)
<1> /\ p \in PoolRec /\ c \in BOOLEAN /\ Q \in Seq(Tasks)
    /\ S \in [Slots -> SlotRec] /\ T \in [Tasks -> TaskRec]
    /\ a \in Int /\ b \in Int /\ n \in Int
    /\ q = [p EXCEPT !.closed = c, !.queue = Q, !.pendingTasks = a, !.pendingBytes = b,
                     !.activeTasks = n, !.tasks = T, !.slots = S]
  BY DEF CloseSet
<1> QED
  BY DEF PoolRec, CloseOnly

\* The tasks and the slots that close leaves behind
LEMMA ClosedTypes ==
    ASSUME NEW p \in PoolRec
    PROVE  /\ ClosedTasks(p) \in [Tasks -> TaskRec] /\ ClosedSlots(p) \in [Slots -> SlotRec]
           /\ \A t \in Tasks :
                 LET u == ClosedTasks(p)[t]
                     v == p.tasks[t]
                 IN  /\ u.called = v.called /\ u.preparing = v.preparing /\ u.slot = v.slot
                     /\ u.handler = v.handler /\ u.exchange = v.exchange /\ u.pressure = v.pressure
                     /\ u.done = (v.done \/ t \in Queued(p) \/ t \in Running(p))
                     /\ t \in Queued(p) => ~u.admitted
                     /\ t \notin Queued(p) => /\ u.admitted = v.admitted /\ u.consumed = v.consumed
                                              /\ u.settled = v.settled
           /\ \A s \in Slots :
                 LET r == ClosedSlots(p)[s]
                     x == p.slots[s]
                 IN  /\ ~x.live => r = x
                     /\ x.live => /\ r.live /\ r.task = NoTask /\ r.retiring
                                  /\ r.worker = x.worker /\ r.exec = x.exec /\ r.reads = x.reads
                                  /\ r.completions = x.completions \cup ({x.task} \ {NoTask})
<1>1. p.slots \in [Slots -> SlotRec] /\ p.tasks \in [Tasks -> TaskRec]
  BY DEF PoolRec
<1>2. ASSUME NEW t \in Tasks
      PROVE  LET u == ClosedTasks(p)[t]
                 v == p.tasks[t]
             IN  /\ u \in TaskRec
                 /\ u.called = v.called /\ u.preparing = v.preparing /\ u.slot = v.slot
                 /\ u.handler = v.handler /\ u.exchange = v.exchange /\ u.pressure = v.pressure
                 /\ u.done = (v.done \/ t \in Queued(p) \/ t \in Running(p))
                 /\ t \in Queued(p) => ~u.admitted
                 /\ t \notin Queued(p) => /\ u.admitted = v.admitted /\ u.consumed = v.consumed
                                          /\ u.settled = v.settled
  <2>1. PICK v \in TaskRec : v = p.tasks[t]
    BY <1>1
  <2>2. PICK u : u = ClosedTasks(p)[t]
    OBVIOUS
  <2>3. u = IF t \in Queued(p)
            THEN [v EXCEPT !.done = TRUE, !.admitted = FALSE, !.consumed = TRUE, !.settled = TRUE]
            ELSE IF t \in Running(p) THEN [v EXCEPT !.done = TRUE] ELSE v
    BY <2>1, <2>2 DEF ClosedTasks
  <2>4. v.done \in BOOLEAN
    BY DEF TaskRec
  <2>5. CASE t \in Queued(p)
    <3>1. u = [v EXCEPT !.done = TRUE, !.admitted = FALSE, !.consumed = TRUE, !.settled = TRUE]
      BY <2>3, <2>5
    <3>2. /\ u \in TaskRec /\ u.called = v.called /\ u.preparing = v.preparing /\ u.slot = v.slot
          /\ u.handler = v.handler /\ u.exchange = v.exchange /\ u.pressure = v.pressure
          /\ u.done = TRUE /\ ~u.admitted
      BY <3>1 DEF TaskRec
    <3>3. QED
      BY <2>1, <2>2, <2>5, <3>2
  <2>6. CASE t \notin Queued(p) /\ t \in Running(p)
    <3>1. u = [v EXCEPT !.done = TRUE]
      BY <2>3, <2>6
    <3>2. /\ u \in TaskRec /\ u.called = v.called /\ u.preparing = v.preparing /\ u.slot = v.slot
          /\ u.handler = v.handler /\ u.exchange = v.exchange /\ u.pressure = v.pressure
          /\ u.done = TRUE /\ u.admitted = v.admitted /\ u.consumed = v.consumed
          /\ u.settled = v.settled
      BY <3>1 DEF TaskRec
    <3>3. QED
      BY <2>1, <2>2, <2>6, <3>2
  <2>7. CASE t \notin Queued(p) /\ t \notin Running(p)
    <3>1. u = v
      BY <2>3, <2>7
    <3>2. QED
      BY <2>1, <2>2, <2>4, <2>7, <3>1
  <2>8. QED
    BY <2>5, <2>6, <2>7
<1>3. ASSUME NEW s \in Slots
      PROVE  LET r == ClosedSlots(p)[s]
                 x == p.slots[s]
             IN  /\ r \in SlotRec
                 /\ ~x.live => r = x
                 /\ x.live => /\ r.live /\ r.task = NoTask /\ r.retiring
                              /\ r.worker = x.worker /\ r.exec = x.exec /\ r.reads = x.reads
                              /\ r.completions = x.completions \cup ({x.task} \ {NoTask})
  <2>1. PICK x \in SlotRec : x = p.slots[s]
    BY <1>1
  <2>2. PICK r : r = ClosedSlots(p)[s]
    OBVIOUS
  <2>3. s \in Live(p) <=> x.live
    BY <2>1 DEF Live
  <2>4. PICK C \in SUBSET Tasks : C = x.completions \cup ({x.task} \ {NoTask})
    BY DEF SlotRec
  <2>5. CASE ~x.live
    <3>1. r = x
      BY <2>1, <2>2, <2>3, <2>5 DEF ClosedSlots
    <3>2. QED
      BY <2>1, <2>2, <2>5, <3>1
  <2>6. CASE x.live
    <3>1. r = [x EXCEPT !.retiring = TRUE, !.idleTimer = FALSE, !.task = NoTask, !.completions = C]
      BY <2>1, <2>2, <2>3, <2>4, <2>6 DEF ClosedSlots
    <3>2. /\ r \in SlotRec /\ r.live = x.live /\ r.task = NoTask /\ r.retiring
          /\ r.worker = x.worker /\ r.exec = x.exec /\ r.reads = x.reads /\ r.completions = C
      BY <3>1 DEF SlotRec
    <3>3. QED
      BY <2>1, <2>2, <2>4, <2>6, <3>2
  <2>7. QED
    BY <2>5, <2>6
<1>4. ClosedTasks(p) \in [Tasks -> TaskRec]
  BY <1>2 DEF ClosedTasks
<1>5. ClosedSlots(p) \in [Slots -> SlotRec]
  BY <1>3 DEF ClosedSlots
<1>6. QED
  BY <1>2, <1>3, <1>4, <1>5

\* The queued tasks have no slots, the executed ones are those that have
LEMMA ClosedKinds ==
    ASSUME NEW p, Good(p)
    PROVE  /\ \A t \in Tasks : t \in Queued(p) <=> \E i \in 1 .. Len(p.queue) : p.queue[i] = t
           /\ Queued(p) \subseteq Tasks /\ Running(p) \subseteq Tasks
           /\ \A t \in Queued(p) : /\ p.tasks[t].called /\ p.tasks[t].admitted
                                   /\ ~p.tasks[t].done /\ p.tasks[t].slot = NoSlot
           /\ \A t \in Running(p) : p.tasks[t].called /\ ~p.tasks[t].done /\ p.tasks[t].slot # NoSlot
           /\ \A t \in Tasks : ~p.tasks[t].done /\ p.tasks[t].slot # NoSlot => t \in Running(p)
           /\ \A s \in Live(p) : p.slots[s].task # NoTask => p.slots[s].task \in Running(p)
<1>1. /\ p \in PoolRec /\ Fits(p.slots, p.tasks, p.queue) /\ p.queue \in Seq(Tasks)
      /\ p.slots \in [Slots -> SlotRec] /\ p.tasks \in [Tasks -> TaskRec]
  BY DEF Good, PoolRec
<1>2. \A t : t \in Queued(p) <=> \E i \in 1 .. Len(p.queue) : p.queue[i] = t
  BY <1>1 DEF Queued, Range
<1>3. \A i \in 1 .. Len(p.queue) : p.queue[i] \in Tasks
  BY <1>1
<1>4. \A t \in Queued(p) : /\ p.tasks[t].called /\ p.tasks[t].admitted
                           /\ ~p.tasks[t].done /\ p.tasks[t].slot = NoSlot
  BY <1>1, <1>2 DEF Fits, QueueInv
<1>5. ASSUME NEW t \in Running(p)
      PROVE  t \in Tasks /\ p.tasks[t].called /\ ~p.tasks[t].done /\ p.tasks[t].slot # NoSlot
  <2>1. PICK s \in Live(p) : t = p.slots[s].task /\ t # NoTask
    BY DEF Running
  <2>2. s \in Slots /\ t \in Tasks
    BY <1>1, <2>1 DEF Live, SlotRec
  <2>3. SlotInv(p.slots, p.tasks, s) /\ TaskInv(p.slots, p.tasks, p.queue, t)
    BY <1>1, <2>2 DEF Fits
  <2>4. p.tasks[t].slot = s /\ ~p.tasks[t].done
    BY <2>1, <2>3 DEF SlotInv
  <2>5. QED
    BY <2>2, <2>3, <2>4, PoolConstants DEF TaskInv
<1>6. ASSUME NEW t \in Tasks, ~p.tasks[t].done, p.tasks[t].slot # NoSlot
      PROVE  t \in Running(p)
  <2>1. TaskInv(p.slots, p.tasks, p.queue, t) /\ p.tasks[t].slot \in Slots
    BY <1>1, <1>6 DEF Fits, TaskRec
  <2>2. p.slots[p.tasks[t].slot].task = t /\ t # NoTask
    BY <1>6, <2>1, PoolConstants DEF TaskInv
  <2>3. SlotInv(p.slots, p.tasks, p.tasks[t].slot)
    BY <1>1, <2>1 DEF Fits
  <2>4. p.tasks[t].slot \in Live(p)
    BY <2>1, <2>2, <2>3 DEF SlotInv, Live
  <2>5. QED
    BY <2>2, <2>4 DEF Running
<1>7. \A s \in Live(p) : p.slots[s].task # NoTask => p.slots[s].task \in Running(p)
  BY DEF Running
<1>8. QED
  BY <1>2, <1>3, <1>4, <1>5, <1>6, <1>7

\* After close every task that had none has an end, and no slot a task
LEMMA ClosedFits ==
    ASSUME NEW p, Good(p)
    PROVE  Fits(ClosedSlots(p), ClosedTasks(p), <<>>)
<1> PICK S, T, S2, T2 : S = p.slots /\ T = p.tasks /\ S2 = ClosedSlots(p) /\ T2 = ClosedTasks(p)
  OBVIOUS
<1>1. /\ p \in PoolRec /\ Fits(S, T, p.queue)
      /\ S \in [Slots -> SlotRec] /\ T \in [Tasks -> TaskRec]
  BY DEF Good, PoolRec
<1>2. \A t \in Tasks :
          /\ T2[t].called = T[t].called /\ T2[t].preparing = T[t].preparing
          /\ T2[t].slot = T[t].slot /\ T2[t].handler = T[t].handler
          /\ T2[t].exchange = T[t].exchange
          /\ T2[t].done = (T[t].done \/ t \in Queued(p) \/ t \in Running(p))
          /\ t \notin Queued(p) => /\ T2[t].admitted = T[t].admitted
                                   /\ T2[t].consumed = T[t].consumed
                                   /\ T2[t].settled = T[t].settled
  BY <1>1, ClosedTypes
<1>3. \A s \in Slots :
          /\ ~S[s].live => S2[s] = S[s]
          /\ S[s].live => /\ S2[s].live /\ S2[s].task = NoTask /\ S2[s].retiring
                          /\ S2[s].worker = S[s].worker /\ S2[s].exec = S[s].exec
                          /\ S2[s].reads = S[s].reads
                          /\ S2[s].completions = S[s].completions \cup ({S[s].task} \ {NoTask})
  BY <1>1, ClosedTypes
<1>4. /\ \A t \in Tasks : t \in Queued(p) <=> \E i \in 1 .. Len(p.queue) : p.queue[i] = t
      /\ \A t \in Queued(p) : t \in Tasks /\ T[t].called /\ T[t].slot = NoSlot
      /\ \A t \in Running(p) : t \in Tasks /\ T[t].called /\ T[t].slot # NoSlot
      /\ \A t \in Tasks : ~T[t].done /\ T[t].slot # NoSlot => t \in Running(p)
      /\ \A s \in Live(p) : S[s].task # NoTask => S[s].task \in Running(p)
  BY ClosedKinds
<1>5. ASSUME NEW s \in Slots PROVE SlotInv(S2, T2, s)
  <2>1. SlotInv(S, T, s) /\ S[s] \in SlotRec
    BY <1>1 DEF Fits
  <2>2. s # NoSlot /\ NoTask \notin Tasks
    BY PoolConstants
  <2>3. /\ S[s].task \in Tasks \cup {NoTask} /\ S[s].exec \in Tasks \cup {NoTask}
        /\ S[s].completions \in SUBSET Tasks
    BY <2>1 DEF SlotRec
  <2>4. CASE ~S[s].live
    <3>1. S2[s] = NoSlotEntry
      BY <1>3, <2>1, <2>4 DEF SlotInv
    <3>2. QED
      BY <3>1 DEF SlotInv, NoSlotEntry
  <2>5. CASE S[s].live
    <3>1. ASSUME NEW t \in Tasks, T[t].slot = s
          PROVE  /\ T2[t].slot = s /\ T2[t].admitted = T[t].admitted
                 /\ T2[t].consumed = T[t].consumed /\ T2[t].preparing = T[t].preparing
                 /\ T2[t].exchange = T[t].exchange /\ (T[t].done => T2[t].done)
      <4>1. t \notin Queued(p)
        BY <1>4, <2>2, <3>1
      <4>2. QED
        BY <1>2, <3>1, <4>1
    <3>2. S[s].exec # NoTask =>
              T2[S[s].exec].slot = s /\ T2[S[s].exec].admitted /\ ~T2[S[s].exec].preparing
      BY <2>1, <2>3, <3>1 DEF SlotInv
    <3>3. \A t \in S[s].completions : T2[t].slot = s /\ T2[t].done
      BY <2>1, <2>3, <3>1 DEF SlotInv
    <3>4. S[s].task # NoTask => T2[S[s].task].slot = s /\ T2[S[s].task].done
      <4>1. s \in Live(p)
        BY <2>5 DEF Live
      <4>2. QED
        BY <1>2, <1>4, <2>1, <2>3, <4>1 DEF SlotInv
    <3>5. ASSUME NEW t \in Tasks
          PROVE  /\ <<t, "input">> \in S[s].reads =>
                        T2[t].slot = s /\ ~T2[t].preparing /\ ~T2[t].consumed
                 /\ <<t, "answer">> \in S[s].reads =>
                        T2[t].slot = s /\ ~T2[t].preparing /\ T2[t].exchange = "sent"
      BY <2>1, <3>1 DEF SlotInv
    <3>6. S[s].reads # {} => S[s].worker = "up"
      BY <2>1 DEF SlotInv
    <3>7. /\ S2[s].live /\ S2[s].task = NoTask /\ S2[s].retiring
          /\ S2[s].worker = S[s].worker /\ S2[s].exec = S[s].exec /\ S2[s].reads = S[s].reads
          /\ S2[s].completions = S[s].completions \cup ({S[s].task} \ {NoTask})
      BY <1>3, <2>5
    <3>8. \A t \in S2[s].completions : T2[t].slot = s /\ T2[t].done
      BY <3>3, <3>4, <3>7
    <3>9. QED
      BY <3>2, <3>5, <3>6, <3>7, <3>8 DEF SlotInv
  <2>6. QED
    BY <2>4, <2>5
<1>6. ASSUME NEW t \in Tasks PROVE TaskInv(S2, T2, <<>>, t)
  <2>1. TaskInv(S, T, p.queue, t)
    BY <1>1 DEF Fits
  <2>2. T2[t].slot = NoSlot => ~T2[t].preparing /\ T2[t].handler = "none"
    BY <1>2, <2>1 DEF TaskInv
  <2>3. T2[t].consumed \/ T2[t].settled =>
           T2[t].done \/ (t \notin Queued(p) /\ (T[t].consumed \/ T[t].settled))
    BY <1>2
  <2>4. T2[t].slot = NoSlot /\ T2[t].consumed => T2[t].done
    BY <1>2, <2>1 DEF TaskInv
  <2>5. T2[t].settled => T2[t].done
    BY <1>2, <2>1 DEF TaskInv
  <2>6. T2[t].called => T2[t].done
    <3>1. CASE T[t].done
      BY <1>2, <3>1
    <3>2. CASE ~T[t].done /\ T[t].slot # NoSlot
      BY <1>2, <1>4, <3>2
    <3>3. CASE ~T[t].done /\ T[t].slot = NoSlot
      <4>1. T2[t].called => t \in Queued(p)
        BY <1>2, <1>4, <2>1, <3>3 DEF TaskInv
      <4>2. QED
        BY <1>2, <4>1
    <3>4. QED
      BY <3>1, <3>2, <3>3
  <2>7. ~T2[t].called => T2[t].slot = NoSlot /\ ~T2[t].admitted /\ ~T2[t].done
    <3>1. ASSUME ~T[t].called
          PROVE  t \notin Queued(p) /\ t \notin Running(p)
      BY <1>4, <3>1
    <3>2. QED
      BY <1>2, <2>1, <3>1 DEF TaskInv
  <2>8. T2[t].preparing => T2[t].called /\ t \notin Queued(p)
    BY <1>2, <1>4, <2>1 DEF TaskInv
  <2>9. T2[t].preparing => T2[t].admitted /\ T2[t].handler = "none"
    BY <1>2, <2>1, <2>8 DEF TaskInv
  <2>10. T2[t].slot # NoSlot => T2[t].called
    BY <1>2, <2>1 DEF TaskInv
  <2>11. QED
    BY <2>2, <2>4, <2>5, <2>6, <2>7, <2>8, <2>9, <2>10 DEF TaskInv
<1>7. QueueInv(T2, <<>>)
  BY DEF QueueInv
<1>8. QED
  BY <1>5, <1>6, <1>7 DEF Fits

\* close keeps the invariant
LEMMA CloseGood ==
    ASSUME NEW p, Good(p), NEW q, q = Close(p)
    PROVE  Good(q) /\ Hosted(q) /\ Justified(q)
<1> PICK S, T, S2, T2, X, W : /\ S = p.slots /\ T = p.tasks /\ S2 = ClosedSlots(p)
                              /\ T2 = ClosedTasks(p) /\ X = Queued(p) /\ W = Running(p)
  OBVIOUS
<1>1. /\ p \in PoolRec /\ Fits(S, T, p.queue)
      /\ S \in [Slots -> SlotRec] /\ T \in [Tasks -> TaskRec]
      /\ CountInv(S, T, p.pendingTasks, p.pendingBytes, p.activeTasks)
      /\ p.pendingTasks \in Int /\ p.pendingBytes \in Int /\ p.activeTasks \in Int
  BY DEF Good, PoolRec
<1>2. X \subseteq Charged(T) /\ Charged(T2) = Charged(T) \ X
  <2>1. \A t \in X : t \in Tasks /\ T[t].admitted
    BY ClosedKinds
  <2>2. \A t \in Tasks : T2[t].admitted <=> T[t].admitted /\ t \notin X
    BY <1>1, ClosedTypes
  <2>3. QED
    BY <2>1, <2>2 DEF Charged
<1>3. /\ Cardinality(Charged(T2)) = Cardinality(Charged(T)) - Cardinality(X)
      /\ Cardinality(Charged(T2) \cap Big) = Cardinality(Charged(T) \cap Big) - Cardinality(X \cap Big)
      /\ Cardinality(X) \in Nat /\ Cardinality(X \cap Big) \in Nat
  <2>1. X \in SUBSET Charged(T)
    BY <1>2
  <2>2. Charged(T2) = Charged(T) \ X
    BY <1>2
  <2>3. ASSUME NEW C, NEW D \in SUBSET Charged(C), NEW C2, Charged(C2) = Charged(C) \ D
        PROVE  /\ Cardinality(Charged(C2)) = Cardinality(Charged(C)) - Cardinality(D)
               /\ Cardinality(Charged(C2) \cap Big) =
                     Cardinality(Charged(C) \cap Big) - Cardinality(D \cap Big)
               /\ Cardinality(D) \in Nat /\ Cardinality(D \cap Big) \in Nat
    BY <2>3, ChargesDrop
  <2>4. QED
    BY <2>1, <2>2, <2>3
<1>4. Live(p) = Alive(S) /\ Alive(S2) = Alive(S) /\ \A s \in Slots : S2[s].task = NoTask
  <2>1. ASSUME NEW s \in Slots PROVE S2[s].live = S[s].live /\ S2[s].task = NoTask
    <3>1. CASE S[s].live
      BY <1>1, <3>1, ClosedTypes, ZenonT(40)
    <3>2. CASE ~S[s].live
      <4>1. S2[s] = S[s] /\ SlotInv(S, T, s)
        BY <1>1, <3>2, ClosedTypes DEF Fits
      <4>2. QED
        BY <3>2, <4>1 DEF SlotInv
    <3>3. QED
      BY <3>1, <3>2
  <2>2. QED
    BY <2>1 DEF Live, Alive
<1>5. Cardinality(W) = Cardinality(Busy(S)) /\ Cardinality(Busy(S)) \in Nat /\ Cardinality(Busy(S2)) = 0
  <2>1. W = {S[s].task : s \in Busy(S)}
    <3>1. ASSUME NEW s \in Busy(S) PROVE s \in Live(p)
      BY <1>1 DEF Busy, Live, Fits, SlotInv
    <3>2. QED
      BY <3>1 DEF Running, Busy, Live
  <2>2. Busy(S2) = {}
    BY <1>4 DEF Busy
  <2>3. \A s \in Slots : SlotInv(S, T, s)
    BY <1>1 DEF Fits
  <2>4. Busy(S) \in SUBSET Slots
    BY DEF Busy
  <2>5. QED
    BY <1>1, <2>1, <2>2, <2>3, <2>4, RunningCount, SlotsFinite, FS_EmptySet
<1>6. PICK a \in Int, b \in Int, n \in Int :
          /\ a = p.pendingTasks - Cardinality(X)
          /\ b = p.pendingBytes - (Cardinality(X) + Cardinality(X \cap Big))
          /\ n = p.activeTasks - Cardinality(W)
  BY <1>1, <1>3, <1>5
<1>7. CloseOnly(p, TRUE, <<>>, S2, T2, a, b, n, q)
  <2>1. q = [p EXCEPT !.closed = TRUE, !.queue = <<>>, !.pendingTasks = a, !.pendingBytes = b,
                      !.activeTasks = n, !.tasks = T2, !.slots = S2]
    BY <1>6 DEF Close, ClosedSlots, ClosedTasks, Queued, Running
  <2>2. CloseSet(p, TRUE, <<>>, S2, T2, a, b, n, q)
    BY <1>1, <1>6, <2>1, ClosedTypes DEF CloseSet
  <2>3. QED
    BY <2>2, CloseFields
<1>8. CountInv(S2, T2, a, b, n)
  <2>1. PICK c \in Nat, d \in Nat, x \in Nat, y \in Nat :
            /\ c = Cardinality(Charged(T)) /\ d = Cardinality(Charged(T) \cap Big)
            /\ x = Cardinality(X) /\ y = Cardinality(X \cap Big)
    BY <1>3, ChargedFinite
  <2>2. /\ p.pendingTasks = c /\ p.pendingBytes = c + d /\ c <= MaxPendingTasks
        /\ c + d <= MaxPendingBytes /\ p.activeTasks = Cardinality(Busy(S))
        /\ Cardinality(Alive(S)) <= MaxWorkers
    BY <1>1, <2>1 DEF CountInv
  <2>3. a = c - x /\ b = (c + d) - (x + y) /\ n = 0
    BY <1>5, <1>6, <2>1, <2>2
  <2>4. Cardinality(Charged(T2)) = c - x /\ Cardinality(Charged(T2) \cap Big) = d - y
    BY <1>3, <2>1
  <2>5. MaxPendingTasks \in Int /\ MaxPendingBytes \in Int
    BY PoolAssumption
  <2>6. a <= MaxPendingTasks /\ b <= MaxPendingBytes
    BY <2>2, <2>3, <2>5
  <2>7. (c - x) + (d - y) = (c + d) - (x + y)
    OBVIOUS
  <2>8. QED
    BY <1>4, <1>5, <2>2, <2>3, <2>4, <2>6, <2>7 DEF CountInv
<1>9. Fits(S2, T2, <<>>)
  BY ClosedFits
<1>10. RotInv(q)
  <2>1. q.rotated \in SUBSET Slots /\ q.slots = S2
    BY <1>7 DEF CloseOnly, PoolRec
  <2>2. QED
    BY <1>4, <2>1 DEF RotInv
<1>11. Good(q)
  BY <1>7, <1>8, <1>9, <1>10 DEF Good, CloseOnly
<1>12. Hosted(q)
  BY <1>4, <1>7 DEF Hosted, HostInv, CloseOnly
<1>13. Justified(q)
  BY <1>7 DEF Justified, Open, CloseOnly
<1>14. QED
  BY <1>11, <1>12, <1>13

\* fail keeps the invariant; the slot's own worker may have gone
LEMMA FailGood ==
    ASSUME NEW p, Good(p), NEW s \in Slots, p.slots[s].live,
           \A x \in Slots \ {s} : HostInv(p.slots, p.tasks, x),
           NEW q, q = Fail(p, s)
    PROVE  Good(q) /\ Hosted(q) /\ (Justified(p) => Justified(q))
<1>1. /\ p \in PoolRec /\ p.slots \in [Slots -> SlotRec] /\ p.tasks \in [Tasks -> TaskRec]
      /\ SlotInv(p.slots, p.tasks, s)
  BY DEF Good, PoolRec, Fits
<1>2. CASE p.slots[s].retiring
  <2>1. q = p
    BY <1>2 DEF Fail
  <2>2. HostInv(p.slots, p.tasks, s)
    BY <1>1, <1>2 DEF SlotInv, HostInv
  <2>3. Hosted(p)
    BY <2>2 DEF Hosted
  <2>4. QED
    BY <2>1, <2>3
<1>3. CASE ~p.slots[s].retiring /\ ~p.restartOnError
  <2>1. q = Close(p)
    BY <1>3 DEF Fail
  <2>2. QED
    BY <2>1, CloseGood
<1>4. CASE ~p.slots[s].retiring /\ p.restartOnError /\ p.slots[s].task # NoTask
  <2>1. PICK t \in Tasks : t = p.slots[s].task
    BY <1>1, <1>4 DEF SlotRec
  <2>2. ~p.tasks[t].done /\ p.tasks[t].slot = s /\ s # NoSlot
    BY <1>1, <1>4, <2>1, PoolConstants DEF SlotInv
  <2>3. q = FinishInSlot(p, t, s, TRUE)
    BY <1>4, <2>1, <2>2 DEF Fail, Finish
  <2>4. Good(q) /\ Hosted(q) /\ Calm(p, q)
    BY <2>1, <2>3, EndRetireGood
  <2>5. QED
    BY <2>4, CalmKeeps
<1>5. CASE ~p.slots[s].retiring /\ p.restartOnError /\ p.slots[s].task = NoTask
  <2>1. q = Retire(p, s)
    BY <1>5 DEF Fail
  <2>2. Good(q) /\ Hosted(q) /\ Calm(p, q)
    BY <1>5, <2>1, RetireGood
  <2>3. QED
    BY <2>2, CalmKeeps
<1>6. QED
  BY <1>2, <1>3, <1>4, <1>5

-----------------------------------------------------------------------------
(* The invariant and the actions.                                          *)

\* What every reachable state of the pool satisfies
Sound(p) == Good(p) /\ Hosted(p) /\ Justified(p)

\* close is called
LEMMA CloseCalledKeeps ==
    ASSUME Sound(pool), CloseCalled
    PROVE  Sound(pool')
BY CloseGood DEF CloseCalled, Sound

\* A slot's idle timer fires
LEMMA IdleTimeoutKeeps ==
    ASSUME Sound(pool), NEW s \in Slots, IdleTimeout(s)
    PROVE  Sound(pool')
<1>1. pool.slots[s].idleTimer /\ pool' = Retire(pool, s)
  BY DEF IdleTimeout
<1>2. SlotInv(pool.slots, pool.tasks, s)
  BY DEF Sound, Good, Fits
<1>3. pool.slots[s].live
  BY <1>1, <1>2 DEF SlotInv, NoSlotEntry
<1>4. pool.slots[s].task = NoTask
  BY <1>1, <1>2 DEF SlotInv
<1>5. Good(pool') /\ Calm(pool, pool')
       /\ ((\A x \in Slots \ {s} : HostInv(pool.slots, pool.tasks, x)) => Hosted(pool'))
  BY <1>1, <1>3, <1>4, RetireGood DEF Sound
<1>6. QED
  BY <1>5, CalmKeeps DEF Sound, Hosted

\* The worker faults
LEMMA WorkerFaultsKeeps ==
    ASSUME Sound(pool), NEW s \in Slots, WorkerFaults(s)
    PROVE  Sound(pool')
<1>1. pool.slots[s].worker = "up" /\ pool' = Fail(pool, s)
  BY DEF WorkerFaults
<1>2. SlotInv(pool.slots, pool.tasks, s)
  BY DEF Sound, Good, Fits
<1>3. pool.slots[s].live
  BY <1>1, <1>2 DEF SlotInv, NoSlotEntry
<1>4. QED
  BY <1>1, <1>3, FailGood DEF Sound, Hosted

\* The worker exits: its slot keeps nothing in its hands before it fails
LEMMA WorkerExitsKeeps ==
    ASSUME Sound(pool), NEW s \in Slots, WorkerExits(s)
    PROVE  Sound(pool')
<1>1. pool \in PoolRec /\ pool.slots \in [Slots -> SlotRec] /\ Fits(pool.slots, pool.tasks, pool.queue)
  BY DEF Sound, Good, PoolRec
<1>2. PICK x \in SlotRec : x = pool.slots[s]
  BY <1>1
<1>3. PICK r : r = [x EXCEPT !.worker = "gone", !.exec = NoTask, !.reads = {}]
  OBVIOUS
<1>4. PICK z : z = [pool EXCEPT !.slots[s] = [@ EXCEPT !.worker = "gone", !.exec = NoTask, !.reads = {}]]
  OBVIOUS
<1>5. x.worker = "up" /\ pool' = Fail(z, s)
  BY <1>2, <1>4 DEF WorkerExits
<1>6. SlotInv(pool.slots, pool.tasks, s)
  BY <1>1 DEF Fits
<1>7. x.live
  BY <1>2, <1>5, <1>6 DEF SlotInv, NoSlotEntry
<1>8. /\ r \in SlotRec /\ r.live = x.live /\ r.task = x.task /\ r.exec = NoTask /\ r.reads = {}
      /\ r.completions = x.completions /\ r.retiring = x.retiring
      /\ r.retirementFailed = x.retirementFailed /\ r.idleTimer = x.idleTimer
  BY <1>3 DEF SlotRec
<1>9. Lesser(pool.slots[s], r)
  BY <1>2, <1>7, <1>8 DEF Lesser
<1>10. SlotSet(pool, s, r, z)
  BY <1>1, <1>2, <1>3, <1>4, <1>8 DEF SlotSet
<1>11. /\ Good(z) /\ SlotOnly(pool, s, r, z) /\ Calm(pool, z)
       /\ z.slots[s] = r /\ \A y \in Slots \ {s} : z.slots[y] = pool.slots[y]
  BY <1>9, <1>10, LesserGood DEF Sound
<1>12. z.slots[s].live
  BY <1>7, <1>8, <1>11
<1>13. \A y \in Slots \ {s} : HostInv(z.slots, z.tasks, y)
  BY <1>11 DEF Sound, Hosted, HostInv, SlotOnly
<1>14. Justified(z)
  BY <1>11, CalmKeeps DEF Sound
<1>15. QED
  BY <1>5, <1>11, <1>12, <1>13, <1>14, FailGood DEF Sound

-----------------------------------------------------------------------------
(* A slot and its task change together.                                    *)

\* The slot s of p and its task t get the records r and u
Move(p, s, r, t, u, q) ==
    /\ LeaveOnly(p, s, r, t, u, p.activeTasks, q)
    /\ s \in Slots /\ r \in SlotRec /\ t \in Tasks /\ u \in TaskRec
    /\ p.slots[s].task = t /\ r.task = t /\ r.live /\ r.exec \in {NoTask, t}
    /\ r.retiring = p.slots[s].retiring /\ r.retirementFailed = p.slots[s].retirementFailed
    /\ r.idleTimer = p.slots[s].idleTimer /\ r.completions = p.slots[s].completions
    /\ r.reads \subseteq p.slots[s].reads \cup {<<t, "input">>, <<t, "answer">>}
    /\ r.reads # {} => r.worker = "up"
    /\ r.exec = t => u.admitted /\ ~u.preparing
    /\ <<t, "input">> \in r.reads => ~u.preparing /\ ~u.consumed
    /\ <<t, "answer">> \in r.reads => ~u.preparing /\ u.exchange = "sent"
    /\ u.called = p.tasks[t].called /\ u.slot = p.tasks[t].slot /\ u.done = p.tasks[t].done
    /\ u.admitted = p.tasks[t].admitted /\ u.settled = p.tasks[t].settled
    /\ u.preparing => u.admitted /\ u.handler = "none" /\ ~u.consumed

\* Such a move keeps the invariant
LEMMA MoveGood ==
    ASSUME NEW p, Good(p), NEW s, NEW r, NEW t, NEW u, NEW q, Move(p, s, r, t, u, q)
    PROVE  /\ Good(q)
           /\ Hosted(p) /\ (u.handler # "none" => r.worker = "up") => Hosted(q)
           /\ /\ u.exchange = "host" => p.tasks[t].exchange = "host"
              /\ u.pressure = p.tasks[t].pressure
              => Calm(p, q)
<1> USE DEF Move
<1>1. /\ p \in PoolRec /\ p.slots \in [Slots -> SlotRec] /\ p.tasks \in [Tasks -> TaskRec]
      /\ Fits(p.slots, p.tasks, p.queue) /\ s \in Slots /\ t \in Tasks
  BY DEF Good, PoolRec
<1>2. PICK x, v : x = p.slots[s] /\ v = p.tasks[t]
  OBVIOUS
<1>3. SlotInv(p.slots, p.tasks, s) /\ TaskInv(p.slots, p.tasks, p.queue, t)
  BY <1>1 DEF Fits
<1>4. t # NoTask /\ v.slot = s /\ ~v.done /\ ~v.settled /\ v.called /\ s # NoSlot
      /\ ~x.retiring /\ ~x.retirementFailed /\ ~x.idleTimer /\ x.live
  <2>1. t # NoTask /\ s # NoSlot /\ x.task = t
    BY <1>1, <1>2, PoolConstants
  <2>2. ~x.retiring /\ ~x.retirementFailed /\ ~x.idleTimer /\ x.live /\ v.slot = s /\ ~v.done
    BY <1>2, <1>3, <2>1 DEF SlotInv
  <2>3. ~v.settled /\ v.called
    BY <1>2, <1>3, <2>1, <2>2 DEF TaskInv
  <2>4. QED
    BY <2>1, <2>2, <2>3
<1>5. q.slots[s] = r /\ \A y \in Slots \ {s} : q.slots[y] = p.slots[y]
  BY <1>1 DEF LeaveOnly
<1>6. q.tasks[t] = u /\ \A y \in Tasks \ {t} : q.tasks[y] = p.tasks[y]
  BY <1>1 DEF LeaveOnly
<1>7. SlotInv(q.slots, q.tasks, s)
  <2>1. /\ r.live /\ r.task = t /\ ~r.retiring /\ ~r.retirementFailed /\ ~r.idleTimer
        /\ q.tasks[t].slot = s /\ ~q.tasks[t].done /\ r.exec \in {NoTask, t}
        /\ r.exec = t => q.tasks[t].admitted /\ ~q.tasks[t].preparing
    BY <1>2, <1>4, <1>6
  <2>2. \A y \in r.completions : q.tasks[y].slot = s /\ q.tasks[y].done
    <3>1. \A y \in r.completions : y \in Tasks /\ p.tasks[y].slot = s /\ p.tasks[y].done
      BY <1>3 DEF SlotInv, SlotRec
    <3>2. \A y \in r.completions : y # t
      BY <1>2, <1>4, <3>1
    <3>3. QED
      BY <1>6, <3>1, <3>2
  <2>3. ASSUME NEW y \in Tasks
        PROVE  /\ <<y, "input">> \in r.reads =>
                     q.tasks[y].slot = s /\ ~q.tasks[y].preparing /\ ~q.tasks[y].consumed
               /\ <<y, "answer">> \in r.reads =>
                     q.tasks[y].slot = s /\ ~q.tasks[y].preparing /\ q.tasks[y].exchange = "sent"
    <3>1. CASE y = t
      BY <1>6, <2>1, <3>1
    <3>2. CASE y # t
      <4>1. /\ <<y, "input">> \in r.reads => <<y, "input">> \in p.slots[s].reads
            /\ <<y, "answer">> \in r.reads => <<y, "answer">> \in p.slots[s].reads
        BY <3>2
      <4>2. q.tasks[y] = p.tasks[y]
        BY <1>6, <3>2
      <4>3. /\ <<y, "input">> \in p.slots[s].reads =>
                  p.tasks[y].slot = s /\ ~p.tasks[y].preparing /\ ~p.tasks[y].consumed
            /\ <<y, "answer">> \in p.slots[s].reads =>
                  p.tasks[y].slot = s /\ ~p.tasks[y].preparing /\ p.tasks[y].exchange = "sent"
        BY <1>3 DEF SlotInv
      <4>4. QED
        BY <4>1, <4>2, <4>3
    <3>3. QED
      BY <3>1, <3>2
  <2>4. r.reads # {} => r.worker = "up"
    OBVIOUS
  <2>5. QED
    BY <1>4, <1>5, <2>1, <2>2, <2>3, <2>4 DEF SlotInv
<1>8. TaskInv(q.slots, q.tasks, q.queue, t)
  <2>1. /\ u.called /\ u.slot = s /\ ~u.done /\ ~u.settled
        /\ u.preparing => u.admitted /\ u.handler = "none" /\ ~u.consumed /\ r.exec = NoTask
    BY <1>2, <1>4
  <2>2. r.task = t
    OBVIOUS
  <2>3. QED
    BY <1>4, <1>5, <1>6, <2>1, <2>2 DEF TaskInv
<1>9. SlotStep(p, q, s, {t})
  <2>1. /\ q.slots[s].live = p.slots[s].live /\ q.slots[s].task = p.slots[s].task
        /\ p.slots[s].task = t
    BY <1>2, <1>4, <1>5, ZenonT(40)
  <2>2. \A y \in {t} : /\ p.tasks[y].slot = s /\ q.tasks[y].admitted = p.tasks[y].admitted
                       /\ TaskInv(q.slots, q.tasks, q.queue, y)
    BY <1>2, <1>4, <1>6, <1>8
  <2>3. /\ q \in PoolRec /\ q.queue = p.queue /\ q.rotation = p.rotation /\ q.rotated = p.rotated
        /\ q.awaited = p.awaited /\ q.pendingTasks = p.pendingTasks
        /\ q.pendingBytes = p.pendingBytes /\ q.activeTasks = p.activeTasks
    BY DEF LeaveOnly, Kept
  <2>4. QED
    BY <1>1, <1>5, <1>6, <1>7, <2>1, <2>2, <2>3 DEF SlotStep
<1>10. Good(q) /\ (/\ \A y \in Slots \ {s} : HostInv(p.slots, p.tasks, y)
                   /\ HostInv(q.slots, q.tasks, s)
                   => Hosted(q))
  BY <1>9, SlotGood
<1>11. (u.handler # "none" => r.worker = "up") => HostInv(q.slots, q.tasks, s)
  <2>1. q.slots[s].task = t
    BY <1>5
  <2>2. QED
    BY <1>5, <1>6, <2>1 DEF HostInv
<1>12. ASSUME u.exchange = "host" => p.tasks[t].exchange = "host", u.pressure = p.tasks[t].pressure
       PROVE  Calm(p, q)
  <2>1. q.slots[s].task = t /\ p.slots[s].task = t /\ q.slots[s].live = p.slots[s].live
        /\ q.slots[s].retiring = p.slots[s].retiring
        /\ q.slots[s].retirementFailed = p.slots[s].retirementFailed
    BY <1>2, <1>4, <1>5
  <2>2. s \in HostWaiting(q) => s \in HostWaiting(p)
    BY <1>6, <1>12, <2>1 DEF HostWaiting, Live
  <2>3. Relief(p, s) => Relief(q, s)
    BY <1>6, <1>12, <2>1 DEF Relief
  <2>4. s \notin Free(q)
    BY <1>4, <2>1 DEF Free
  <2>5. Open(q) => Open(p)
    BY DEF Open, LeaveOnly, Kept
  <2>6. QED
    BY <1>9, <2>2, <2>3, <2>4, <2>5, CalmSlot
<1>13. QED
  BY <1>10, <1>11, <1>12 DEF Hosted

\* The charge of a task whose preparation has come too late
LateRelease(p, t, q) == q = ReleaseAdmission([p EXCEPT !.tasks[t].preparing = FALSE], t)

\* Giving it back keeps the invariant
LEMMA UnprepareGood ==
    ASSUME NEW p, Sound(p), NEW t \in Tasks, p.tasks[t].preparing, p.tasks[t].done,
           NEW q, LateRelease(p, t, q)
    PROVE  Sound(q)
<1>1. /\ Good(p) /\ Hosted(p) /\ p \in PoolRec /\ p.tasks \in [Tasks -> TaskRec]
      /\ Fits(p.slots, p.tasks, p.queue) /\ p.pendingTasks \in Int /\ p.pendingBytes \in Int
  BY DEF Sound, Good, PoolRec
<1>2. PICK v \in TaskRec : v = p.tasks[t]
  BY <1>1
<1>3. PICK u : u = [v EXCEPT !.preparing = FALSE]
  OBVIOUS
<1>4. /\ u \in TaskRec /\ ~u.preparing /\ u.called = v.called /\ u.done = v.done /\ u.slot = v.slot
      /\ u.admitted = v.admitted /\ u.consumed = v.consumed /\ u.exchange = v.exchange
      /\ u.handler = v.handler /\ u.settled = v.settled /\ u.pressure = v.pressure
  BY <1>3 DEF TaskRec
<1>5. PICK z : z = [p EXCEPT !.tasks[t].preparing = FALSE]
  OBVIOUS
<1>6. /\ TaskInv(p.slots, p.tasks, p.queue, t) /\ \A s \in Slots : SlotInv(p.slots, p.tasks, s)
      /\ v.preparing /\ v.done /\ t # NoTask
  BY <1>1, <1>2, PoolConstants DEF Fits
<1>7. \A s \in Slots : /\ p.slots[s].exec # t
                       /\ <<t, "input">> \notin p.slots[s].reads
                       /\ <<t, "answer">> \notin p.slots[s].reads
  BY <1>2, <1>6 DEF SlotInv
<1>8. TaskInv(p.slots, [p.tasks EXCEPT ![t] = u], p.queue, t)
  <2>1. PICK T2 : T2 = [p.tasks EXCEPT ![t] = u]
    OBVIOUS
  <2>2. T2[t] = u
    BY <1>1, <2>1
  <2>3. TaskInv(p.slots, T2, p.queue, t)
    BY <1>2, <1>4, <1>6, <2>2 DEF TaskInv
  <2>4. QED
    BY <2>1, <2>3
<1>9. Harmless(p.slots, p.tasks, t, u)
  BY <1>2, <1>4, <1>6, <1>7 DEF Harmless
<1>10. \A s \in Slots : p.slots[s].task = t /\ u.handler # "none" => p.slots[s].worker = "up"
  BY <1>1, <1>2, <1>4, <1>6 DEF Hosted, HostInv
<1>11. TaskStep(p, t, u, p.pendingTasks, p.pendingBytes, z)
  <2>1. z = [p EXCEPT !.tasks[t] = u]
    BY <1>2, <1>3, <1>5
  <2>2. z = [p EXCEPT !.tasks[t] = u, !.pendingTasks = p.pendingTasks,
                      !.pendingBytes = p.pendingBytes]
    BY <1>1, <2>1, PlainStep
  <2>3. QED
    BY <1>1, <1>2, <1>4, <1>8, <1>9, <1>10, <2>2 DEF TaskStep
<1>12. /\ Good(z) /\ Hosted(z) /\ Kept(p, z) /\ z.queue = p.queue /\ z.slots = p.slots
       /\ z.tasks = [p.tasks EXCEPT ![t] = u]
  BY <1>11, TaskGood
<1>13. Calm(p, z)
  BY <1>1, <1>2, <1>4, <1>12, CalmTask
<1>14. z.tasks[t] = u /\ z.tasks \in [Tasks -> TaskRec]
  BY <1>1, <1>4, <1>12
<1>15. q = ReleaseAdmission(z, t)
  BY <1>5 DEF LateRelease
<1>16. (\A s \in Slots : z.slots[s].exec # t) /\ z.tasks[t].done /\ ~z.tasks[t].preparing
  BY <1>4, <1>6, <1>7, <1>12, <1>14
<1>17. /\ Good(q) /\ Hosted(q) /\ Kept(z, q) /\ q.queue = z.queue /\ q.slots = z.slots
       /\ q.tasks = [z.tasks EXCEPT ![t] = [z.tasks[t] EXCEPT !.admitted = FALSE]]
  BY <1>12, <1>15, <1>16, ReleaseGood
<1>18. PICK w : w = [u EXCEPT !.admitted = FALSE]
  OBVIOUS
<1>19. w.exchange = u.exchange /\ w.pressure = u.pressure
  BY <1>4, <1>18 DEF TaskRec
<1>20. q.tasks = [z.tasks EXCEPT ![t] = w]
  BY <1>14, <1>17, <1>18
<1>21. Calm(z, q)
  BY <1>12, <1>14, <1>17, <1>19, <1>20, CalmTask
<1>22. Justified(q)
  BY <1>13, <1>21, CalmTrans, CalmKeeps DEF Sound
<1>23. QED
  BY <1>17, <1>22 DEF Sound

\* The input factory rejected
LEMMA PreparationFailsKeeps ==
    ASSUME Sound(pool), NEW t \in Tasks, PreparationFails(t)
    PROVE  Sound(pool')
<1>1. pool.tasks[t].preparing
  BY DEF PreparationFails
<1>2. PICK p : p = Finish(pool, t, FALSE)
  OBVIOUS
<1>3. LateRelease(p, t, pool')
  BY <1>2 DEF PreparationFails, LateRelease
<1>4. CASE pool.tasks[t].done
  <2>1. p = pool
    BY <1>2, <1>4 DEF Finish
  <2>2. QED
    BY <1>1, <1>3, <1>4, <2>1, UnprepareGood
<1>5. CASE ~pool.tasks[t].done
  <2>1. /\ pool \in PoolRec /\ TaskInv(pool.slots, pool.tasks, pool.queue, t)
        /\ \A s \in Slots : SlotInv(pool.slots, pool.tasks, s)
        /\ pool.tasks[t] \in TaskRec
    BY DEF Sound, Good, Fits, PoolRec
  <2>2. PICK s \in Slots : s = pool.tasks[t].slot /\ s # NoSlot
    <3>1. pool.tasks[t].slot # NoSlot
      BY <1>1, <2>1 DEF TaskInv
    <3>2. pool.tasks[t].slot \in Slots \cup {NoSlot}
      BY <2>1 DEF TaskRec
    <3>3. QED
      BY <3>1, <3>2
  <2>3. pool.slots[s].task = t /\ pool.slots[s].exec = NoTask
    BY <1>1, <1>5, <2>1, <2>2 DEF TaskInv
  <2>4. <<t, "input">> \notin pool.slots[s].reads /\ <<t, "answer">> \notin pool.slots[s].reads
    BY <1>1, <2>1 DEF SlotInv
  <2>5. p = FinishInSlot(pool, t, s, FALSE)
    BY <1>2, <1>5, <2>2 DEF Finish
  <2>6. Good(p) /\ Hosted(p) /\ Justified(p) /\ p.tasks[t].done /\ p.tasks[t].preparing
    BY <1>1, <2>3, <2>4, <2>5, EndGood DEF Sound
  <2>7. QED
    BY <1>3, <2>6, UnprepareGood DEF Sound
<1>6. QED
  BY <1>4, <1>5

\* A task that is not done has its slot
LEMMA SlotOf ==
    ASSUME NEW p, Good(p), NEW t \in Tasks, p.tasks[t].preparing \/ p.tasks[t].handler # "none",
           ~p.tasks[t].done
    PROVE  \E s \in Slots : /\ s = p.tasks[t].slot /\ s # NoSlot /\ p.slots[s].task = t
                            /\ p.slots[s].live
<1>1. /\ p \in PoolRec /\ TaskInv(p.slots, p.tasks, p.queue, t)
      /\ p.tasks[t] \in TaskRec
  BY DEF Good, Fits, PoolRec
<1>2. p.tasks[t].slot # NoSlot
  BY <1>1 DEF TaskInv
<1>3. p.tasks[t].slot \in Slots
  BY <1>1, <1>2 DEF TaskRec
<1>4. p.slots[p.tasks[t].slot].task = t /\ SlotInv(p.slots, p.tasks, p.tasks[t].slot)
  BY <1>1, <1>2, <1>3 DEF TaskInv, Good, Fits
<1>5. QED
  BY <1>2, <1>3, <1>4, PoolConstants DEF SlotInv

\* The input factory resolved
LEMMA PreparedKeeps ==
    ASSUME Sound(pool), NEW t \in Tasks, Prepared(t)
    PROVE  Sound(pool')
<1>1. pool.tasks[t].preparing
  BY DEF Prepared
<1>2. PICK z : z = [pool EXCEPT !.tasks[t].preparing = FALSE]
  OBVIOUS
<1>3. PICK s : s = pool.tasks[t].slot
  OBVIOUS
<1>4. pool' = IF z.tasks[t].done THEN ReleaseAdmission(z, t)
              ELSE [z EXCEPT !.slots[s] = [@ EXCEPT !.worker = "up", !.exec = t,
                                                    !.reads = z.slots[s].reads \cup {<<t, "input">>}]]
  BY <1>2, <1>3 DEF Prepared
<1>5. /\ pool \in PoolRec /\ Good(pool) /\ Fits(pool.slots, pool.tasks, pool.queue)
      /\ pool.slots \in [Slots -> SlotRec] /\ pool.tasks \in [Tasks -> TaskRec]
      /\ pool.activeTasks \in Int
  BY DEF Sound, Good, PoolRec
<1>6. PICK v \in TaskRec : v = pool.tasks[t]
  BY <1>5
<1>7. PICK u : u = [v EXCEPT !.preparing = FALSE]
  OBVIOUS
<1>8. /\ u \in TaskRec /\ ~u.preparing /\ u.called = v.called /\ u.done = v.done /\ u.slot = v.slot
      /\ u.admitted = v.admitted /\ u.consumed = v.consumed /\ u.exchange = v.exchange
      /\ u.handler = v.handler /\ u.settled = v.settled /\ u.pressure = v.pressure
  BY <1>7 DEF TaskRec
<1>9. z.tasks[t].done = v.done
  <2>1. z.tasks = [pool.tasks EXCEPT ![t] = u]
    BY <1>2, <1>5, <1>6, <1>7 DEF PoolRec
  <2>2. QED
    BY <1>5, <1>8, <2>1
<1>10. CASE v.done
  <2>1. LateRelease(pool, t, pool')
    BY <1>2, <1>4, <1>9, <1>10 DEF LateRelease
  <2>2. QED
    BY <1>1, <1>6, <1>10, <2>1, UnprepareGood
<1>11. CASE ~v.done
  <2>1. s \in Slots /\ pool.slots[s].task = t /\ pool.slots[s].live
    BY <1>1, <1>3, <1>5, <1>6, <1>11, SlotOf
  <2>2. TaskInv(pool.slots, pool.tasks, pool.queue, t) /\ SlotInv(pool.slots, pool.tasks, s)
    BY <1>5, <2>1 DEF Fits
  <2>3. PICK x \in SlotRec : x = pool.slots[s]
    BY <1>5, <2>1
  <2>4. PICK R \in SUBSET (Tasks \X {"input", "answer"}) : R = x.reads \cup {<<t, "input">>}
    <3>1. x.reads \in SUBSET (Tasks \X {"input", "answer"})
      BY DEF SlotRec
    <3>2. <<t, "input">> \in Tasks \X {"input", "answer"}
      OBVIOUS
    <3>3. QED
      BY <3>1, <3>2
  <2>5. PICK r : r = [x EXCEPT !.worker = "up", !.exec = t, !.reads = R]
    OBVIOUS
  <2>6. /\ r \in SlotRec /\ r.worker = "up" /\ r.exec = t /\ r.reads = R /\ r.live = x.live
        /\ r.task = x.task /\ r.retiring = x.retiring /\ r.retirementFailed = x.retirementFailed
        /\ r.idleTimer = x.idleTimer /\ r.completions = x.completions
    BY <2>5 DEF SlotRec
  <2>7. PICK q : q = pool'
    OBVIOUS
  <2>8. LeaveOnly(pool, s, r, t, u, pool.activeTasks, q)
    <3>1. q = [z EXCEPT !.slots[s] = [@ EXCEPT !.worker = "up", !.exec = t,
                                               !.reads = z.slots[s].reads \cup {<<t, "input">>}]]
      BY <1>4, <1>9, <1>11, <2>7
    <3>2. z = [pool EXCEPT !.tasks[t] = u]
      BY <1>2, <1>6, <1>7
    <3>3. z.slots[s] = x
      BY <1>5, <2>3, <3>2 DEF PoolRec
    <3>4. q = [z EXCEPT !.slots[s] = r]
      BY <2>4, <2>5, <3>1, <3>3
    <3>5. q = [pool EXCEPT !.tasks[t] = u, !.slots[s] = r, !.activeTasks = pool.activeTasks]
      BY <1>5, <3>2, <3>4 DEF PoolRec
    <3>6. LeaveSet(pool, s, r, t, u, pool.activeTasks, q)
      BY <1>5, <1>8, <2>1, <2>6, <3>5 DEF LeaveSet
    <3>7. QED
      BY <3>6, LeaveFields
  <2>9. /\ v.admitted /\ v.handler = "none" /\ ~v.consumed
    BY <1>1, <1>6, <1>11, <2>2 DEF TaskInv
  <2>10. <<t, "answer">> \notin x.reads
    BY <1>1, <2>2, <2>3 DEF SlotInv
  <2>11. Move(pool, s, r, t, u, q)
    BY <1>6, <1>8, <2>1, <2>3, <2>4, <2>6, <2>8, <2>9, <2>10 DEF Move
  <2>12. Good(q) /\ Hosted(q) /\ Calm(pool, q)
    BY <1>5, <1>6, <1>8, <2>6, <2>11, MoveGood DEF Sound
  <2>13. QED
    BY <2>7, <2>12, CalmKeeps DEF Sound
<1>12. QED
  BY <1>10, <1>11

\* Both records change
MoveSet(p, s, r, t, u, q) ==
    /\ s \in Slots /\ r \in SlotRec /\ t \in Tasks /\ u \in TaskRec
    /\ q = [p EXCEPT !.tasks[t] = u, !.slots[s] = r]

\* Or only the task's
AskSet(p, t, u, q) ==
    t \in Tasks /\ u \in TaskRec /\ q = [p EXCEPT !.tasks[t] = u]

\* The fields, if both change
LEMMA MoveFields ==
    ASSUME NEW p, p \in PoolRec, NEW s, NEW r, NEW t, NEW u, NEW q, MoveSet(p, s, r, t, u, q)
    PROVE  LeaveOnly(p, s, r, t, u, p.activeTasks, q)
<1>1. /\ s \in Slots /\ r \in SlotRec /\ t \in Tasks /\ u \in TaskRec
      /\ q = [p EXCEPT !.tasks[t] = u, !.slots[s] = r]
  BY DEF MoveSet
<1>2. q = [p EXCEPT !.tasks[t] = u, !.slots[s] = r, !.activeTasks = p.activeTasks]
  BY <1>1 DEF PoolRec
<1>3. p.activeTasks \in Int
  BY DEF PoolRec
<1>4. LeaveSet(p, s, r, t, u, p.activeTasks, q)
  BY <1>1, <1>2, <1>3 DEF LeaveSet
<1>5. QED
  BY <1>4, LeaveFields

\* The fields, if only the task's record does
LEMMA AskFields ==
    ASSUME NEW p, p \in PoolRec, NEW s \in Slots, NEW t, NEW u, NEW q, AskSet(p, t, u, q)
    PROVE  LeaveOnly(p, s, p.slots[s], t, u, p.activeTasks, q)
<1>1. /\ t \in Tasks /\ u \in TaskRec /\ q = [p EXCEPT !.tasks[t] = u]
  BY DEF AskSet
<1>2. p.slots \in [Slots -> SlotRec] /\ p.slots[s] \in SlotRec
  BY DEF PoolRec
<1>3. PICK r \in SlotRec : r = p.slots[s]
  BY <1>2
<1>4. q = [p EXCEPT !.tasks[t] = u, !.slots[s] = r]
  BY <1>1, <1>2, <1>3 DEF PoolRec
<1>5. MoveSet(p, s, r, t, u, q)
  BY <1>1, <1>4 DEF MoveSet
<1>6. QED
  BY <1>3, <1>5, MoveFields

\* createWorker or postMessage throws
LEMMA FeedFailsKeeps ==
    ASSUME Sound(pool), NEW t \in Tasks, FeedFails(t)
    PROVE  Sound(pool')
<1>1. pool.tasks[t].preparing /\ ~pool.tasks[t].done
  BY DEF FeedFails
<1>2. PICK s : s = pool.tasks[t].slot
  OBVIOUS
<1>3. PICK w \in {pool.slots[s].worker, "up"} :
         pool' = Fail([pool EXCEPT !.tasks[t].preparing = FALSE, !.slots[s].worker = w], s)
  BY <1>2 DEF FeedFails
<1>4. PICK z : z = [pool EXCEPT !.tasks[t].preparing = FALSE, !.slots[s].worker = w]
  OBVIOUS
<1>5. pool' = Fail(z, s)
  BY <1>3, <1>4
<1>6. /\ pool \in PoolRec /\ Good(pool) /\ Fits(pool.slots, pool.tasks, pool.queue)
      /\ pool.slots \in [Slots -> SlotRec] /\ pool.tasks \in [Tasks -> TaskRec]
  BY DEF Sound, Good, PoolRec
<1>7. s \in Slots /\ pool.slots[s].task = t /\ pool.slots[s].live
  BY <1>1, <1>2, <1>6, SlotOf
<1>8. TaskInv(pool.slots, pool.tasks, pool.queue, t) /\ SlotInv(pool.slots, pool.tasks, s)
  BY <1>6, <1>7 DEF Fits
<1>9. PICK v \in TaskRec, x \in SlotRec : v = pool.tasks[t] /\ x = pool.slots[s]
  BY <1>6, <1>7
<1>10. PICK u : u = [v EXCEPT !.preparing = FALSE]
  OBVIOUS
<1>11. PICK r : r = [x EXCEPT !.worker = w]
  OBVIOUS
<1>12. /\ u \in TaskRec /\ ~u.preparing /\ u.called = v.called /\ u.done = v.done /\ u.slot = v.slot
       /\ u.admitted = v.admitted /\ u.consumed = v.consumed /\ u.exchange = v.exchange
       /\ u.handler = v.handler /\ u.settled = v.settled /\ u.pressure = v.pressure
  BY <1>10 DEF TaskRec
<1>13. /\ r \in SlotRec /\ r.worker = w /\ r.exec = x.exec /\ r.reads = x.reads /\ r.live = x.live
       /\ r.task = x.task /\ r.retiring = x.retiring /\ r.retirementFailed = x.retirementFailed
       /\ r.idleTimer = x.idleTimer /\ r.completions = x.completions
  <2>1. w \in {"none", "up", "gone"}
    BY <1>3, <1>9 DEF SlotRec
  <2>2. QED
    BY <1>11, <2>1 DEF SlotRec
<1>14. MoveSet(pool, s, r, t, u, z)
  BY <1>4, <1>7, <1>9, <1>10, <1>11, <1>12, <1>13 DEF MoveSet
<1>15. LeaveOnly(pool, s, r, t, u, pool.activeTasks, z)
  BY <1>6, <1>14, MoveFields
<1>16. /\ v.admitted /\ v.handler = "none" /\ ~v.consumed /\ x.exec = NoTask
       /\ <<t, "input">> \notin x.reads /\ <<t, "answer">> \notin x.reads
       /\ x.reads # {} => x.worker = "up"
  BY <1>1, <1>2, <1>7, <1>8, <1>9, PoolConstants DEF TaskInv, SlotInv
<1>17. r.reads # {} => r.worker = "up"
  BY <1>3, <1>9, <1>13, <1>16
<1>18. Move(pool, s, r, t, u, z)
  BY <1>7, <1>9, <1>12, <1>13, <1>15, <1>16, <1>17 DEF Move
<1>19. Good(z) /\ Hosted(z) /\ Calm(pool, z)
  BY <1>6, <1>9, <1>12, <1>16, <1>18, MoveGood DEF Sound
<1>20. z.slots[s].live
  BY <1>6, <1>7, <1>9, <1>13, <1>15 DEF LeaveOnly
<1>21. QED
  BY <1>5, <1>7, <1>19, <1>20, FailGood, CalmKeeps DEF Sound, Hosted

\* A task whose handler has settled
Answered(v, u) == u = [v EXCEPT !.handler = "answered"]

\* Such a task differs in the handler only
LEMMA AnswerTypes ==
    ASSUME NEW v \in TaskRec, NEW u, Answered(v, u)
    PROVE  /\ u \in TaskRec /\ u.handler = "answered"
           /\ u.called = v.called /\ u.done = v.done /\ u.slot = v.slot
           /\ u.preparing = v.preparing /\ u.admitted = v.admitted /\ u.consumed = v.consumed
           /\ u.exchange = v.exchange /\ u.settled = v.settled /\ u.pressure = v.pressure
BY DEF TaskRec, Answered

\* A handler that settles changes nothing but itself
LEMMA AnswerGood ==
    ASSUME NEW p, Sound(p), NEW t \in Tasks, p.tasks[t].handler = "running",
           NEW u, Answered(p.tasks[t], u), NEW q, AskSet(p, t, u, q)
    PROVE  /\ Sound(q) /\ q.slots = p.slots /\ q.tasks = [p.tasks EXCEPT ![t] = u]
           /\ q.queue = p.queue
<1>1. /\ Good(p) /\ Hosted(p) /\ p \in PoolRec /\ p.tasks \in [Tasks -> TaskRec]
      /\ Fits(p.slots, p.tasks, p.queue) /\ p.pendingTasks \in Int /\ p.pendingBytes \in Int
  BY DEF Sound, Good, PoolRec
<1>2. PICK v \in TaskRec : v = p.tasks[t]
  BY <1>1
<1>3. /\ u \in TaskRec /\ u.handler = "answered"
      /\ u.called = v.called /\ u.done = v.done /\ u.slot = v.slot
      /\ u.preparing = v.preparing /\ u.admitted = v.admitted /\ u.consumed = v.consumed
      /\ u.exchange = v.exchange /\ u.settled = v.settled /\ u.pressure = v.pressure
  BY <1>2, AnswerTypes
<1>4. /\ TaskInv(p.slots, p.tasks, p.queue, t) /\ \A s \in Slots : SlotInv(p.slots, p.tasks, s)
      /\ t # NoTask
  BY <1>1, PoolConstants DEF Fits
<1>5. TaskInv(p.slots, [p.tasks EXCEPT ![t] = u], p.queue, t)
  <2>1. PICK T2 : T2 = [p.tasks EXCEPT ![t] = u]
    OBVIOUS
  <2>2. T2[t] = u
    BY <1>1, <2>1
  <2>3. TaskInv(p.slots, T2, p.queue, t)
    BY <1>2, <1>3, <1>4, <2>2 DEF TaskInv
  <2>4. QED
    BY <2>1, <2>3
<1>6. Harmless(p.slots, p.tasks, t, u)
  <2>1. ASSUME NEW s \in Slots
        PROVE  /\ p.slots[s].exec = t => u.admitted /\ ~u.preparing
               /\ <<t, "input">> \in p.slots[s].reads => ~u.preparing /\ ~u.consumed
               /\ <<t, "answer">> \in p.slots[s].reads => ~u.preparing /\ u.exchange = "sent"
    <3>1. SlotInv(p.slots, p.tasks, s)
      BY <1>2, <1>3, <1>4
    <3>2. p.slots[s].exec = t => u.admitted /\ ~u.preparing
      BY <1>2, <1>3, <1>4, <3>1 DEF SlotInv
    <3>3. <<t, "input">> \in p.slots[s].reads => ~u.preparing /\ ~u.consumed
      BY <1>2, <1>3, <1>4, <3>1 DEF SlotInv
    <3>4. <<t, "answer">> \in p.slots[s].reads => ~u.preparing /\ u.exchange = "sent"
      BY <1>2, <1>3, <1>4, <3>1 DEF SlotInv
    <3>5. QED
      BY <3>2, <3>3, <3>4
  <2>2. QED
    BY <1>2, <1>3, <2>1 DEF Harmless
<1>7. \A s \in Slots : p.slots[s].task = t /\ u.handler # "none" => p.slots[s].worker = "up"
  BY <1>1, <1>4 DEF Hosted, HostInv
<1>8. TaskStep(p, t, u, p.pendingTasks, p.pendingBytes, q)
  <2>1. q = [p EXCEPT !.tasks[t] = u]
    BY DEF AskSet
  <2>2. q = [p EXCEPT !.tasks[t] = u, !.pendingTasks = p.pendingTasks,
                      !.pendingBytes = p.pendingBytes]
    BY <1>1, <2>1, PlainStep
  <2>3. QED
    BY <1>1, <1>2, <1>3, <1>5, <1>6, <1>7, <2>2 DEF TaskStep
<1>9. /\ Good(q) /\ Hosted(q) /\ Kept(p, q) /\ q.queue = p.queue /\ q.slots = p.slots
      /\ q.tasks = [p.tasks EXCEPT ![t] = u]
  BY <1>8, TaskGood
<1>10. Calm(p, q)
  BY <1>1, <1>2, <1>3, <1>9, CalmTask
<1>11. QED
  BY <1>9, <1>10, CalmKeeps DEF Sound

\* The host's handler rejects
LEMMA HostFailsKeeps ==
    ASSUME Sound(pool), NEW t \in Tasks, HostFails(t)
    PROVE  Sound(pool')
<1>1. pool.tasks[t].handler = "running"
  BY DEF HostFails
<1>2. PICK z : z = [pool EXCEPT !.tasks[t].handler = "answered"]
  OBVIOUS
<1>3. pool' = IF MayFeed(t) THEN Fail(z, pool.tasks[t].slot) ELSE z
  BY <1>2 DEF HostFails
<1>4. Good(pool) /\ Hosted(pool) /\ pool.tasks \in [Tasks -> TaskRec]
  BY DEF Sound, Good, PoolRec
<1>5. PICK v, u : v \in TaskRec /\ v = pool.tasks[t] /\ Answered(v, u)
  BY <1>4 DEF Answered
<1>6. u \in TaskRec
  BY <1>5, AnswerTypes
<1>7. AskSet(pool, t, u, z)
  BY <1>2, <1>5, <1>6 DEF AskSet, Answered
<1>8. Sound(z) /\ z.slots = pool.slots
  <2>1. Sound(z)
    BY <1>1, <1>5, <1>7, AnswerGood
  <2>2. z.slots = pool.slots
    BY <1>2 DEF Sound, Good, PoolRec
  <2>3. QED
    BY <2>1, <2>2
<1>9. CASE ~MayFeed(t)
  BY <1>3, <1>8, <1>9
<1>10. CASE MayFeed(t)
  <2>1. ~pool.tasks[t].done
    BY <1>10 DEF MayFeed
  <2>2. PICK s \in Slots : s = pool.tasks[t].slot /\ pool.slots[s].live
    BY <1>1, <1>4, <2>1, SlotOf
  <2>3. pool' = Fail(z, s)
    BY <1>3, <1>10, <2>2
  <2>4. z.slots[s].live
    BY <1>8, <2>2
  <2>5. Good(z) /\ Justified(z) /\ \A x \in Slots \ {s} : HostInv(z.slots, z.tasks, x)
    BY <1>8 DEF Sound, Hosted
  <2>6. QED
    BY <2>3, <2>4, <2>5, FailGood DEF Sound
<1>11. QED
  BY <1>9, <1>10

\* The host's handler answers
LEMMA HostAnswersKeeps ==
    ASSUME Sound(pool), NEW t \in Tasks, HostAnswers(t)
    PROVE  Sound(pool')
<1>1. pool.tasks[t].handler = "running"
  BY DEF HostAnswers
<1>2. PICK z : z = [pool EXCEPT !.tasks[t].handler = "answered"]
  OBVIOUS
<1>3. PICK s : s = pool.tasks[t].slot
  OBVIOUS
<1>4. pool' = IF MayFeed(t)
              THEN [z EXCEPT !.tasks[t].exchange = "sent",
                             !.slots[s].reads = @ \cup {<<t, "answer">>}]
              ELSE z
  BY <1>2, <1>3 DEF HostAnswers
<1>5. /\ pool \in PoolRec /\ Good(pool) /\ Hosted(pool) /\ Fits(pool.slots, pool.tasks, pool.queue)
      /\ pool.slots \in [Slots -> SlotRec] /\ pool.tasks \in [Tasks -> TaskRec]
  BY DEF Sound, Good, PoolRec
<1>6. PICK v \in TaskRec : v = pool.tasks[t]
  BY <1>5
<1>7. PICK w : Answered(v, w)
  BY DEF Answered
<1>8. /\ w \in TaskRec /\ w.handler = "answered"
      /\ w.called = v.called /\ w.done = v.done /\ w.slot = v.slot
      /\ w.preparing = v.preparing /\ w.admitted = v.admitted /\ w.consumed = v.consumed
      /\ w.exchange = v.exchange /\ w.settled = v.settled /\ w.pressure = v.pressure
  BY <1>7, AnswerTypes
<1>9. AskSet(pool, t, w, z)
  BY <1>2, <1>6, <1>7, <1>8 DEF AskSet, Answered
<1>10. Sound(z)
  BY <1>1, <1>6, <1>7, <1>9, AnswerGood
<1>11. CASE ~MayFeed(t)
  BY <1>4, <1>10, <1>11
<1>12. CASE MayFeed(t)
  <2>1. ~v.done
    BY <1>6, <1>12 DEF MayFeed
  <2>2. s \in Slots /\ pool.slots[s].task = t /\ pool.slots[s].live /\ t # NoTask
    BY <1>1, <1>3, <1>5, <1>6, <2>1, SlotOf, PoolConstants
  <2>3. /\ TaskInv(pool.slots, pool.tasks, pool.queue, t) /\ SlotInv(pool.slots, pool.tasks, s)
        /\ HostInv(pool.slots, pool.tasks, s)
    BY <1>5, <2>2 DEF Fits, Hosted
  <2>4. PICK x \in SlotRec : x = pool.slots[s]
    BY <1>5, <2>2
  <2>5. PICK R \in SUBSET (Tasks \X {"input", "answer"}) : R = x.reads \cup {<<t, "answer">>}
    <3>1. x.reads \in SUBSET (Tasks \X {"input", "answer"})
      BY DEF SlotRec
    <3>2. <<t, "answer">> \in Tasks \X {"input", "answer"}
      OBVIOUS
    <3>3. QED
      BY <3>1, <3>2
  <2>6. PICK r : r = [x EXCEPT !.reads = R]
    OBVIOUS
  <2>7. /\ r \in SlotRec /\ r.worker = x.worker /\ r.exec = x.exec /\ r.reads = R /\ r.live = x.live
        /\ r.task = x.task /\ r.retiring = x.retiring /\ r.retirementFailed = x.retirementFailed
        /\ r.idleTimer = x.idleTimer /\ r.completions = x.completions
    BY <2>6 DEF SlotRec
  <2>8. PICK u : u = [w EXCEPT !.exchange = "sent"]
    OBVIOUS
  <2>9. /\ u \in TaskRec /\ u.exchange = "sent" /\ u.handler = w.handler
        /\ u.called = w.called /\ u.done = w.done /\ u.slot = w.slot
        /\ u.preparing = w.preparing /\ u.admitted = w.admitted /\ u.consumed = w.consumed
        /\ u.settled = w.settled /\ u.pressure = w.pressure
    BY <1>8, <2>8 DEF TaskRec
  <2>10. PICK q : q = pool'
    OBVIOUS
  <2>11. MoveSet(pool, s, r, t, u, q)
    <3>1. q = [z EXCEPT !.tasks[t].exchange = "sent", !.slots[s].reads = @ \cup {<<t, "answer">>}]
      BY <1>4, <1>12, <2>10
    <3>2. z = [pool EXCEPT !.tasks[t] = w]
      BY <1>9 DEF AskSet
    <3>3. z.tasks[t] = w /\ z.slots[s] = x
      BY <1>5, <2>4, <3>2 DEF PoolRec
    <3>4. q = [z EXCEPT !.tasks[t] = u, !.slots[s] = r]
      BY <2>5, <2>6, <2>8, <3>1, <3>3
    <3>5. q = [pool EXCEPT !.tasks[t] = u, !.slots[s] = r]
      BY <1>5, <3>2, <3>4 DEF PoolRec
    <3>6. QED
      BY <2>2, <2>7, <2>9, <3>5 DEF MoveSet
  <2>12. LeaveOnly(pool, s, r, t, u, pool.activeTasks, q)
    BY <1>5, <2>11, MoveFields
  <2>13. ~v.preparing
    BY <1>1, <1>6, <2>3 DEF TaskInv
  <2>14. x.exec = t => v.admitted
    BY <1>6, <2>2, <2>3, <2>4 DEF SlotInv
  <2>15. x.worker = "up"
    BY <1>1, <1>6, <2>2, <2>3, <2>4 DEF HostInv
  <2>16. /\ x.exec \in {NoTask, t} /\ (<<t, "input">> \in x.reads => ~v.consumed)
    BY <1>6, <2>2, <2>3, <2>4 DEF SlotInv
  <2>17. Move(pool, s, r, t, u, q)
    BY <1>6, <1>8, <2>2, <2>4, <2>5, <2>7, <2>9, <2>12, <2>13, <2>14, <2>15, <2>16 DEF Move
  <2>18. Good(q) /\ Hosted(q) /\ Calm(pool, q)
    BY <1>5, <1>6, <1>8, <2>7, <2>9, <2>15, <2>17, MoveGood DEF Sound
  <2>19. QED
    BY <2>10, <2>18, CalmKeeps DEF Sound
<1>13. QED
  BY <1>11, <1>12

\* What the pool knows of a thread it hears
LEMMA HeardSlot ==
    ASSUME Sound(pool), NEW s \in Slots, NEW t \in Tasks, Hears(s, t)
    PROVE  /\ pool \in PoolRec /\ Good(pool) /\ Hosted(pool)
           /\ pool.slots \in [Slots -> SlotRec] /\ pool.tasks \in [Tasks -> TaskRec]
           /\ SlotInv(pool.slots, pool.tasks, s) /\ TaskInv(pool.slots, pool.tasks, pool.queue, t)
           /\ t # NoTask /\ pool.slots[s].live /\ pool.slots[s].exec = t
           /\ pool.slots[s].worker = "up"
           /\ pool.tasks[t].slot = s /\ pool.tasks[t].admitted /\ ~pool.tasks[t].preparing
           /\ pool.slots[s].task \in {t, NoTask}
<1>1. /\ pool \in PoolRec /\ Good(pool) /\ Hosted(pool)
      /\ pool.slots \in [Slots -> SlotRec] /\ pool.tasks \in [Tasks -> TaskRec]
      /\ SlotInv(pool.slots, pool.tasks, s) /\ TaskInv(pool.slots, pool.tasks, pool.queue, t)
  BY DEF Sound, Good, Fits, PoolRec
<1>2. pool.slots[s].exec = t /\ pool.slots[s].worker = "up" /\ t # NoTask
  BY DEF Hears
<1>3. pool.slots[s].live
  BY <1>1, <1>2 DEF SlotInv, NoSlotEntry
<1>4. pool.tasks[t].slot = s /\ pool.tasks[t].admitted /\ ~pool.tasks[t].preparing
  BY <1>1, <1>2 DEF SlotInv
<1>5. pool.slots[s].task \in {t, NoTask}
  BY <1>1, <1>2 DEF SlotInv
<1>6. QED
  BY <1>1, <1>2, <1>3, <1>4, <1>5

\* A receipt
LEMMA ConsumesKeeps ==
    ASSUME Sound(pool), NEW s \in Slots, NEW t \in Tasks, NEW what \in {"input", "answer"},
           Consumes(s, t, what)
    PROVE  Sound(pool')
<1>1. Hears(s, t) /\ <<t, what>> \in pool.slots[s].reads
  BY DEF Consumes
<1>2. PICK z : z = [pool EXCEPT !.slots[s].reads = @ \ {<<t, what>>}]
  OBVIOUS
<1>3. PICK q : q = pool'
  OBVIOUS
<1>4. q = IF pool.slots[s].task # t THEN Fail(z, s)
          ELSE IF what = "input" THEN [z EXCEPT !.tasks[t].consumed = TRUE]
          ELSE [z EXCEPT !.tasks[t].exchange = "none"]
  BY <1>2, <1>3 DEF Consumes
<1>5. /\ pool \in PoolRec /\ Good(pool) /\ Hosted(pool)
      /\ pool.slots \in [Slots -> SlotRec] /\ pool.tasks \in [Tasks -> TaskRec]
      /\ SlotInv(pool.slots, pool.tasks, s) /\ TaskInv(pool.slots, pool.tasks, pool.queue, t)
      /\ t # NoTask /\ pool.slots[s].live /\ pool.slots[s].exec = t
      /\ pool.slots[s].worker = "up"
      /\ pool.tasks[t].slot = s /\ pool.tasks[t].admitted /\ ~pool.tasks[t].preparing
  BY <1>1, HeardSlot
<1>6. PICK v \in TaskRec, x \in SlotRec : v = pool.tasks[t] /\ x = pool.slots[s]
  BY <1>5
<1>7. PICK R \in SUBSET (Tasks \X {"input", "answer"}) : R = x.reads \ {<<t, what>>}
  <2>1. x.reads \in SUBSET (Tasks \X {"input", "answer"})
    BY DEF SlotRec
  <2>2. QED
    BY <2>1
<1>8. PICK r : r = [x EXCEPT !.reads = R]
  OBVIOUS
<1>9. /\ r \in SlotRec /\ r.worker = x.worker /\ r.exec = x.exec /\ r.reads = R /\ r.live = x.live
      /\ r.task = x.task /\ r.retiring = x.retiring /\ r.retirementFailed = x.retirementFailed
      /\ r.idleTimer = x.idleTimer /\ r.completions = x.completions
  BY <1>8 DEF SlotRec
<1>10. SlotSet(pool, s, r, z)
  BY <1>2, <1>5, <1>6, <1>7, <1>8, <1>9 DEF SlotSet
<1>11. CASE pool.slots[s].task # t
  <2>1. Lesser(x, r)
    BY <1>5, <1>6, <1>7, <1>9 DEF Lesser
  <2>2. Lesser(pool.slots[s], r)
    BY <1>6, <2>1
  <2>3. /\ Good(z) /\ SlotOnly(pool, s, r, z) /\ Calm(pool, z) /\ z.slots[s] = r
        /\ \A y \in Slots \ {s} : z.slots[y] = pool.slots[y]
    BY <1>5, <1>10, <2>2, LesserGood
  <2>4. \A y \in Slots \ {s} : HostInv(z.slots, z.tasks, y)
    BY <1>5, <2>3 DEF Hosted, HostInv, SlotOnly
  <2>5. z.slots[s].live /\ Justified(z)
    BY <1>5, <1>6, <1>9, <2>3, CalmKeeps DEF Sound
  <2>6. q = Fail(z, s)
    BY <1>4, <1>11
  <2>7. Good(q) /\ Hosted(q) /\ Justified(q)
    BY <2>3, <2>4, <2>5, <2>6, FailGood
  <2>8. QED
    BY <1>3, <2>7 DEF Sound
<1>12. CASE pool.slots[s].task = t
  <2>1. PICK u : u = IF what = "input" THEN [v EXCEPT !.consumed = TRUE]
                     ELSE [v EXCEPT !.exchange = "none"]
    OBVIOUS
  <2>2. CASE what = "input"
    <3>1. u = [v EXCEPT !.consumed = TRUE]
      BY <2>1, <2>2
    <3>2. /\ u \in TaskRec /\ u.exchange = v.exchange /\ u.handler = v.handler
          /\ u.called = v.called /\ u.done = v.done /\ u.slot = v.slot
          /\ u.preparing = v.preparing /\ u.admitted = v.admitted /\ u.consumed
          /\ u.settled = v.settled /\ u.pressure = v.pressure
      BY <3>1 DEF TaskRec
    <3>3. MoveSet(pool, s, r, t, u, q)
      <4>1. q = [z EXCEPT !.tasks[t].consumed = TRUE]
        BY <1>4, <1>12, <2>2
      <4>2. z = [pool EXCEPT !.slots[s] = r]
        BY <1>10 DEF SlotSet
      <4>3. z.tasks[t] = v
        BY <1>6, <4>2 DEF SlotSet
      <4>4. q = [z EXCEPT !.tasks[t] = u]
        BY <3>1, <4>1, <4>3
      <4>5. q = [pool EXCEPT !.tasks[t] = u, !.slots[s] = r]
        BY <1>5, <4>2, <4>4 DEF PoolRec
      <4>6. QED
        BY <1>9, <3>2, <4>5 DEF MoveSet
    <3>4. LeaveOnly(pool, s, r, t, u, pool.activeTasks, q)
      BY <1>5, <3>3, MoveFields
    <3>5. <<t, "answer">> \in x.reads => v.exchange = "sent"
      BY <1>5, <1>6 DEF SlotInv
    <3>6. <<t, "input">> \notin R /\ (<<t, "answer">> \in R => v.exchange = "sent")
      BY <1>7, <2>2, <3>5
    <3>7. Move(pool, s, r, t, u, q)
      BY <1>5, <1>6, <1>7, <1>9, <1>12, <3>2, <3>4, <3>6 DEF Move
    <3>8. Good(q) /\ Hosted(q) /\ Calm(pool, q)
      BY <1>5, <1>6, <1>9, <3>2, <3>7, MoveGood
    <3>9. QED
      BY <1>3, <3>8, CalmKeeps DEF Sound
  <2>3. CASE what # "input"
    <3>1. u = [v EXCEPT !.exchange = "none"] /\ what = "answer"
      BY <2>1, <2>3
    <3>2. /\ u \in TaskRec /\ u.exchange = "none" /\ u.handler = v.handler
          /\ u.called = v.called /\ u.done = v.done /\ u.slot = v.slot
          /\ u.preparing = v.preparing /\ u.admitted = v.admitted /\ u.consumed = v.consumed
          /\ u.settled = v.settled /\ u.pressure = v.pressure
      BY <3>1 DEF TaskRec
    <3>3. MoveSet(pool, s, r, t, u, q)
      <4>1. q = [z EXCEPT !.tasks[t].exchange = "none"]
        BY <1>4, <1>12, <2>3
      <4>2. z = [pool EXCEPT !.slots[s] = r]
        BY <1>10 DEF SlotSet
      <4>3. z.tasks[t] = v
        BY <1>6, <4>2 DEF SlotSet
      <4>4. q = [z EXCEPT !.tasks[t] = u]
        BY <3>1, <4>1, <4>3
      <4>5. q = [pool EXCEPT !.tasks[t] = u, !.slots[s] = r]
        BY <1>5, <4>2, <4>4 DEF PoolRec
      <4>6. QED
        BY <1>9, <3>2, <4>5 DEF MoveSet
    <3>4. LeaveOnly(pool, s, r, t, u, pool.activeTasks, q)
      BY <1>5, <3>3, MoveFields
    <3>5. <<t, "input">> \in x.reads => ~v.consumed
      BY <1>5, <1>6 DEF SlotInv
    <3>6. <<t, "answer">> \notin R /\ (<<t, "input">> \in R => ~v.consumed)
      BY <1>7, <3>1, <3>5
    <3>7. Move(pool, s, r, t, u, q)
      BY <1>5, <1>6, <1>7, <1>9, <1>12, <3>2, <3>4, <3>6 DEF Move
    <3>8. Good(q) /\ Hosted(q) /\ Calm(pool, q)
      BY <1>5, <1>6, <1>9, <3>2, <3>7, MoveGood
    <3>9. QED
      BY <1>3, <3>8, CalmKeeps DEF Sound
  <2>4. QED
    BY <2>2, <2>3
<1>13. QED
  BY <1>11, <1>12

\* A request to the host
LEMMA RequestsKeeps ==
    ASSUME Sound(pool), NEW s \in Slots, NEW t \in Tasks, Requests(s, t)
    PROVE  Sound(pool')
<1>1. Hears(s, t)
  BY DEF Requests
<1>2. /\ pool \in PoolRec /\ Good(pool) /\ Hosted(pool)
      /\ pool.slots \in [Slots -> SlotRec] /\ pool.tasks \in [Tasks -> TaskRec]
      /\ SlotInv(pool.slots, pool.tasks, s)
      /\ t # NoTask /\ pool.slots[s].live /\ pool.slots[s].exec = t
      /\ pool.slots[s].worker = "up"
      /\ pool.tasks[t].slot = s /\ pool.tasks[t].admitted /\ ~pool.tasks[t].preparing
  BY <1>1, HeardSlot
<1>3. CASE pool.slots[s].task # t \/ pool.tasks[t].exchange # "none"
  <2>1. pool' = Fail(pool, s)
    BY <1>3 DEF Requests
  <2>2. QED
    BY <1>2, <2>1, FailGood DEF Sound, Hosted
<1>4. CASE pool.slots[s].task = t /\ pool.tasks[t].exchange = "none"
  <2>1. PICK z : z = [pool EXCEPT !.tasks[t] = [@ EXCEPT !.exchange = "host", !.pressure = FALSE,
                                                         !.handler = "running"]]
    OBVIOUS
  <2>2. pool' = Dispatch(z)
    BY <1>4, <2>1 DEF Requests
  <2>3. PICK v \in TaskRec, x \in SlotRec : v = pool.tasks[t] /\ x = pool.slots[s]
    BY <1>2
  <2>4. PICK u : u = [v EXCEPT !.exchange = "host", !.pressure = FALSE, !.handler = "running"]
    OBVIOUS
  <2>5. /\ u \in TaskRec /\ u.called = v.called /\ u.done = v.done /\ u.slot = v.slot
        /\ u.preparing = v.preparing /\ u.admitted = v.admitted /\ u.consumed = v.consumed
        /\ u.settled = v.settled
    BY <2>4 DEF TaskRec
  <2>6. AskSet(pool, t, u, z)
    BY <2>1, <2>3, <2>4, <2>5 DEF AskSet
  <2>7. LeaveOnly(pool, s, x, t, u, pool.activeTasks, z)
    BY <1>2, <2>3, <2>6, AskFields
  <2>8. /\ <<t, "answer">> \notin x.reads /\ (<<t, "input">> \in x.reads => ~v.consumed)
    BY <1>2, <1>4, <2>3 DEF SlotInv
  <2>9. Move(pool, s, x, t, u, z)
    BY <1>2, <1>4, <2>3, <2>5, <2>7, <2>8 DEF Move
  <2>10. Good(z) /\ Hosted(z)
    BY <1>2, <2>3, <2>9, MoveGood
  <2>11. QED
    BY <2>2, <2>10, DispatchGood DEF Sound
<1>5. QED
  BY <1>3, <1>4

\* A result
LEMMA RepliesKeeps ==
    ASSUME Sound(pool), NEW s \in Slots, NEW t \in Tasks, Replies(s, t)
    PROVE  Sound(pool')
<1>1. Hears(s, t)
  BY DEF Replies
<1>2. PICK z : z = [pool EXCEPT !.slots[s].exec = NoTask]
  OBVIOUS
<1>3. PICK b \in BOOLEAN : b = MayStillRead(t)
  BY DEF MayStillRead, Sound, Good, PoolRec, TaskRec
<1>4. PICK q : q = pool'
  OBVIOUS
<1>5. q = IF pool.slots[s].task # t THEN Fail(z, s) ELSE Finish(z, t, b)
  BY <1>2, <1>3, <1>4 DEF Replies
<1>6. /\ pool \in PoolRec /\ Good(pool) /\ Hosted(pool)
      /\ pool.slots \in [Slots -> SlotRec] /\ pool.tasks \in [Tasks -> TaskRec]
      /\ SlotInv(pool.slots, pool.tasks, s)
      /\ t # NoTask /\ pool.slots[s].live /\ pool.slots[s].exec = t
      /\ pool.slots[s].worker = "up" /\ pool.tasks[t].slot = s
  BY <1>1, HeardSlot
<1>7. PICK x \in SlotRec : x = pool.slots[s]
  BY <1>6
<1>8. PICK r : r = [x EXCEPT !.exec = NoTask]
  OBVIOUS
<1>9. /\ r \in SlotRec /\ r.worker = x.worker /\ r.exec = NoTask /\ r.reads = x.reads
      /\ r.live = x.live /\ r.task = x.task /\ r.retiring = x.retiring
      /\ r.retirementFailed = x.retirementFailed
      /\ r.idleTimer = x.idleTimer /\ r.completions = x.completions
  BY <1>8 DEF SlotRec
<1>10. SlotSet(pool, s, r, z)
  BY <1>2, <1>6, <1>7, <1>8, <1>9 DEF SlotSet
<1>11. Lesser(pool.slots[s], r)
  BY <1>6, <1>7, <1>9 DEF Lesser
<1>12. /\ Good(z) /\ SlotOnly(pool, s, r, z) /\ Calm(pool, z) /\ z.slots[s] = r
       /\ \A y \in Slots \ {s} : z.slots[y] = pool.slots[y]
  BY <1>6, <1>10, <1>11, LesserGood
<1>13. HostInv(z.slots, z.tasks, s)
  BY <1>6, <1>7, <1>9, <1>12 DEF HostInv
<1>14. Hosted(z)
  BY <1>6, <1>12, <1>13 DEF Hosted, HostInv, SlotOnly
<1>15. Justified(z) /\ z.slots[s].live /\ z.tasks = pool.tasks
  BY <1>6, <1>7, <1>9, <1>12, CalmKeeps DEF Sound, SlotOnly
<1>16. CASE pool.slots[s].task # t
  <2>1. q = Fail(z, s)
    BY <1>5, <1>16
  <2>2. Good(q) /\ Hosted(q) /\ Justified(q)
    BY <1>12, <1>14, <1>15, <2>1, FailGood DEF Hosted
  <2>3. QED
    BY <1>4, <2>2 DEF Sound
<1>17. CASE pool.slots[s].task = t
  <2>1. q = Finish(z, t, b)
    BY <1>5, <1>17
  <2>2. ~z.tasks[t].done /\ z.tasks[t].slot = s /\ s # NoSlot /\ z.slots[s].task = t
    BY <1>6, <1>7, <1>9, <1>12, <1>15, <1>17, PoolConstants DEF SlotInv
  <2>3. q = FinishInSlot(z, t, s, b)
    BY <2>1, <2>2 DEF Finish
  <2>4. CASE b
    <3>1. q = FinishInSlot(z, t, s, TRUE)
      BY <2>3, <2>4
    <3>2. \A y \in Slots \ {s} : HostInv(z.slots, z.tasks, y)
      BY <1>14 DEF Hosted
    <3>3. Good(q) /\ Hosted(q) /\ Calm(z, q)
      BY <1>12, <2>2, <3>1, <3>2, EndRetireGood
    <3>4. QED
      BY <1>4, <1>15, <3>3, CalmKeeps DEF Sound
  <2>5. CASE ~b
    <3>1. q = FinishInSlot(z, t, s, FALSE)
      BY <2>3, <2>5
    <3>2. pool.tasks[t].exchange = "none" /\ pool.tasks[t].consumed
      BY <1>3, <2>5 DEF MayStillRead
    <3>3. <<t, "input">> \notin x.reads /\ <<t, "answer">> \notin x.reads
      BY <1>6, <1>7, <3>2 DEF SlotInv
    <3>4. /\ z.slots[s].exec = NoTask
          /\ <<t, "input">> \notin z.slots[s].reads /\ <<t, "answer">> \notin z.slots[s].reads
      BY <1>9, <1>12, <3>3
    <3>5. Good(q) /\ Hosted(q) /\ Justified(q)
      BY <1>12, <1>14, <2>2, <3>1, <3>4, EndGood
    <3>6. QED
      BY <1>4, <3>5 DEF Sound
  <2>6. QED
    BY <2>4, <2>5
<1>18. QED
  BY <1>16, <1>17

-----------------------------------------------------------------------------
(* A task without a slot changes, and the queue with it.                   *)

\* Such a step as an assignment, and the fields it leaves
QueueSet(p, t, u, Q, a, b, q) ==
    /\ t \in Tasks /\ u \in TaskRec /\ Q \in Seq(Tasks) /\ a \in Int /\ b \in Int
    /\ q = [p EXCEPT !.tasks[t] = u, !.queue = Q, !.pendingTasks = a, !.pendingBytes = b]

QueueOnly(p, t, u, Q, a, b, q) ==
    /\ q \in PoolRec /\ Kept(p, q) /\ q.queue = Q /\ q.slots = p.slots
    /\ q.pendingTasks = a /\ q.pendingBytes = b /\ q.activeTasks = p.activeTasks
    /\ q.tasks = [p.tasks EXCEPT ![t] = u]

\* The fields then
LEMMA QueueFields ==
    ASSUME NEW p, p \in PoolRec, NEW t, NEW u, NEW Q, NEW a, NEW b, NEW q,
           QueueSet(p, t, u, Q, a, b, q)
    PROVE  QueueOnly(p, t, u, Q, a, b, q)
<1> /\ t \in Tasks /\ u \in TaskRec /\ Q \in Seq(Tasks) /\ a \in Int /\ b \in Int
    /\ q = [p EXCEPT !.tasks[t] = u, !.queue = Q, !.pendingTasks = a, !.pendingBytes = b]
  BY DEF QueueSet
<1> QED
  BY DEF PoolRec, Kept, QueueOnly

\* The task t is no slot's, and the queue Q suits its new record u
QueueStep(p, t, u, Q, a, b, q) ==
    /\ QueueOnly(p, t, u, Q, a, b, q)
    /\ t \in Tasks /\ u \in TaskRec
    /\ p.tasks[t].slot = NoSlot
    /\ TaskInv(q.slots, q.tasks, Q, t) /\ QueueInv(q.tasks, Q)
    /\ \A x \in Tasks \ {t} : (\E i \in 1 .. Len(p.queue) : p.queue[i] = x) =>
                                (\E i \in 1 .. Len(Q) : Q[i] = x)
    /\ CountInv(q.slots, q.tasks, a, b, p.activeTasks)

\* Such a step keeps the invariant
LEMMA QueueGood ==
    ASSUME NEW p, Good(p), Hosted(p), NEW t, NEW u, NEW Q, NEW a, NEW b, NEW q,
           QueueStep(p, t, u, Q, a, b, q)
    PROVE  Good(q) /\ Hosted(q) /\ Untouched(q, t)
<1> USE DEF QueueStep
<1>1. /\ p \in PoolRec /\ p.slots \in [Slots -> SlotRec] /\ p.tasks \in [Tasks -> TaskRec]
      /\ Fits(p.slots, p.tasks, p.queue) /\ t \in Tasks
  BY DEF Good, PoolRec
<1>2. /\ q \in PoolRec /\ q.slots = p.slots /\ q.queue = Q /\ q.pendingTasks = a
      /\ q.pendingBytes = b /\ q.activeTasks = p.activeTasks /\ Kept(p, q)
      /\ q.tasks = [p.tasks EXCEPT ![t] = u] /\ q.tasks \in [Tasks -> TaskRec]
  BY DEF QueueOnly, PoolRec
<1>3. \A x \in Tasks \ {t} : q.tasks[x] = p.tasks[x]
  BY <1>1, <1>2
<1>4. Changes(p.slots, p.tasks, p.queue, q.slots, q.tasks, Q, {}, {t})
  BY <1>1, <1>2, <1>3 DEF Changes
<1>5. Fits(q.slots, q.tasks, q.queue)
  BY <1>2, <1>4, FitStep
<1>6. RotInv(q)
  BY <1>2 DEF RotInv, Kept, Good
<1>7. Good(q)
  BY <1>2, <1>5, <1>6 DEF Good
<1>8. ASSUME NEW s \in Slots
      PROVE  /\ HostInv(q.slots, q.tasks, s) /\ p.slots[s].exec # t
             /\ <<t, "input">> \notin p.slots[s].reads /\ <<t, "answer">> \notin p.slots[s].reads
  <2>1. SlotInv(p.slots, p.tasks, s) /\ s # NoSlot /\ HostInv(p.slots, p.tasks, s) /\ t # NoTask
    BY <1>1, PoolConstants DEF Fits, Hosted
  <2>2. p.slots[s].task \in Tasks \cup {NoTask}
    BY <1>1 DEF SlotRec
  <2>3. p.slots[s].task # t
    BY <2>1 DEF SlotInv
  <2>4. HostInv(q.slots, q.tasks, s)
    BY <1>2, <1>3, <2>1, <2>2, <2>3 DEF HostInv
  <2>5. QED
    BY <2>1, <2>4 DEF SlotInv
<1>9. QED
  BY <1>2, <1>7, <1>8 DEF Hosted, Untouched

\* The queue without the entry at k
LEMMA RemovedEntries ==
    ASSUME NEW q \in Seq(Tasks), NEW k \in 1 .. Len(q), NEW r, r = RemoveAt(q, k)
    PROVE  /\ r \in Seq(Tasks) /\ Len(q) \in Nat /\ Len(r) = Len(q) - 1
           /\ \A i \in 1 .. Len(r) : r[i] = IF i < k THEN q[i] ELSE q[i + 1]
<1> PICK n \in Nat : n = Len(q)
  OBVIOUS
<1> PICK a, b : a = SubSeq(q, 1, k - 1) /\ b = SubSeq(q, k + 1, n)
  OBVIOUS
<1>1. k \in 1 .. n /\ (\A i \in 1 .. n : q[i] \in Tasks)
  OBVIOUS
<1>2. /\ a \in Seq(Tasks) /\ Len(a) = k - 1
      /\ \A i \in 1 .. k - 1 : a[i] = q[i]
  <2>1. PICK m \in Int : m = k - 1 /\ m >= 0 /\ m <= n
    BY <1>1
  <2>2. \A i \in 1 .. m : q[i] \in Tasks
    BY <1>1, <2>1
  <2>3. /\ SubSeq(q, 1, m) \in Seq(Tasks) /\ Len(SubSeq(q, 1, m)) = (IF 1 <= m THEN m - 1 + 1 ELSE 0)
        /\ \A i \in 1 .. m - 1 + 1 : SubSeq(q, 1, m)[i] = q[1 + i - 1]
    BY <2>1, <2>2, SubSeqProperties
  <2>4. a = SubSeq(q, 1, m)
    BY <2>1
  <2>5. Len(a) = m
    BY <2>1, <2>3, <2>4
  <2>6. \A i \in 1 .. m : i \in 1 .. m - 1 + 1 /\ 1 + i - 1 = i
    BY <2>1
  <2>7. \A i \in 1 .. m : a[i] = q[i]
    BY <2>3, <2>4, <2>6
  <2>8. QED
    BY <2>1, <2>3, <2>4, <2>5, <2>7
<1>3. /\ b \in Seq(Tasks) /\ Len(b) = n - k
      /\ \A i \in 1 .. n - k : b[i] = q[k + i]
  <2>1. PICK m \in Int : m = k + 1 /\ m >= 2 /\ m <= n + 1
    BY <1>1
  <2>2. \A i \in m .. n : q[i] \in Tasks
    BY <1>1, <2>1
  <2>3. /\ SubSeq(q, m, n) \in Seq(Tasks) /\ Len(SubSeq(q, m, n)) = (IF m <= n THEN n - m + 1 ELSE 0)
        /\ \A i \in 1 .. n - m + 1 : SubSeq(q, m, n)[i] = q[m + i - 1]
    BY <2>1, <2>2, SubSeqProperties
  <2>4. b = SubSeq(q, m, n)
    BY <2>1
  <2>5. Len(b) = n - k
    BY <1>1, <2>1, <2>3, <2>4
  <2>6. \A i \in 1 .. n - k : i \in 1 .. n - m + 1 /\ m + i - 1 = k + i
    BY <1>1, <2>1
  <2>7. \A i \in 1 .. n - k : b[i] = q[k + i]
    BY <2>3, <2>4, <2>6
  <2>8. QED
    BY <2>3, <2>4, <2>5, <2>7
<1>4. r = a \o b
  BY DEF RemoveAt
<1>5. /\ a \o b \in Seq(Tasks) /\ Len(a \o b) = Len(a) + Len(b)
      /\ \A i \in 1 .. Len(a) + Len(b) : (a \o b)[i] = IF i <= Len(a) THEN a[i] ELSE b[i - Len(a)]
  <2>1. a \in Seq(Tasks) /\ b \in Seq(Tasks)
    BY <1>2, <1>3
  <2>2. a \o b \in Seq(Tasks) /\ Len(a \o b) = Len(a) + Len(b)
    BY <2>1, ConcatProperties
  <2>3. \A i \in 1 .. Len(a) + Len(b) : (a \o b)[i] = IF i <= Len(a) THEN a[i] ELSE b[i - Len(a)]
    BY <2>1, ConcatProperties, ZenonT(40)
  <2>4. QED
    BY <2>2, <2>3
<1>6. Len(r) = n - 1 /\ Len(a) + Len(b) = n - 1
  <2>1. Len(a) = k - 1 /\ Len(b) = n - k
    BY <1>2, <1>3
  <2>2. Len(a) + Len(b) = n - 1
    <3>1. (k - 1) + (n - k) = n - 1
      BY <1>1
    <3>2. QED
      BY <2>1, <3>1, Zenon
  <2>3. Len(r) = Len(a) + Len(b)
    BY <1>4, <1>5, Zenon
  <2>4. QED
    BY <2>2, <2>3
<1>7. ASSUME NEW i \in 1 .. n - 1 PROVE r[i] = IF i < k THEN q[i] ELSE q[i + 1]
  <2>1. r[i] = IF i <= k - 1 THEN a[i] ELSE b[i - (k - 1)]
    BY <1>2, <1>4, <1>5, <1>6
  <2>2. CASE i < k
    <3>1. i <= k - 1 /\ i \in 1 .. k - 1
      BY <1>1, <2>2
    <3>2. QED
      BY <1>2, <2>1, <2>2, <3>1
  <2>3. CASE ~(i < k)
    <3>1. ~(i <= k - 1) /\ i - (k - 1) \in 1 .. n - k /\ k + (i - (k - 1)) = i + 1
      BY <1>1, <2>3
    <3>2. QED
      BY <1>3, <2>1, <2>3, <3>1
  <2>4. QED
    BY <2>2, <2>3
<1>8. QED
  BY <1>4, <1>5, <1>6, <1>7

\* The queue q names every task once, t among them
QueuedOnce(q, t) ==
    /\ q \in Seq(Tasks) /\ t \in Tasks /\ \E i \in 1 .. Len(q) : q[i] = t
    /\ \A i, j \in 1 .. Len(q) : q[i] = q[j] => i = j

\* The queue r names the others, once
Without(q, t, r) ==
    /\ r \in Seq(Tasks)
    /\ \A i \in 1 .. Len(r) : r[i] # t /\ \E j \in 1 .. Len(q) : q[j] = r[i]
    /\ \A i, j \in 1 .. Len(r) : r[i] = r[j] => i = j
    /\ \A x \in Tasks \ {t} : (\E i \in 1 .. Len(q) : q[i] = x) =>
                                (\E i \in 1 .. Len(r) : r[i] = x)

\* The splice of cancel takes out the task and no other one
LEMMA UnqueuedEntries ==
    ASSUME NEW q, NEW t, QueuedOnce(q, t)
    PROVE  Without(q, t, Unqueued(q, t))
<1> PICK r : r = Unqueued(q, t)
  OBVIOUS
<1> /\ q \in Seq(Tasks) /\ t \in Tasks /\ \E i \in 1 .. Len(q) : q[i] = t
    /\ \A i, j \in 1 .. Len(q) : q[i] = q[j] => i = j
  BY DEF QueuedOnce
<1>1. PICK k \in 1 .. Len(q) : q[k] = t
  OBVIOUS
<1>2. PICK n \in Nat : n = Len(q) /\ k \in 1 .. n
  OBVIOUS
<1>3. {i \in DOMAIN q : q[i] = t} = {k}
  BY <1>1
<1>4. r = RemoveAt(q, k)
  BY <1>3 DEF Unqueued
<1>5. /\ r \in Seq(Tasks) /\ Len(r) = n - 1
      /\ \A i \in 1 .. n - 1 : r[i] = IF i < k THEN q[i] ELSE q[i + 1]
  <2>1. /\ r \in Seq(Tasks) /\ Len(r) = Len(q) - 1
        /\ \A i \in 1 .. Len(r) : r[i] = IF i < k THEN q[i] ELSE q[i + 1]
    BY <1>4, RemovedEntries
  <2>2. QED
    BY <1>2, <2>1
<1>6. \A i, j \in 1 .. n : q[i] = q[j] => i = j
  BY <1>2
<1>7. ASSUME NEW i \in 1 .. n - 1
      PROVE  \E j \in 1 .. n : /\ j = (IF i < k THEN i ELSE i + 1) /\ j # k
                               /\ r[i] = q[j] /\ r[i] # t
  <2>1. PICK j \in Int : j = IF i < k THEN i ELSE i + 1
    OBVIOUS
  <2>2. j \in 1 .. n /\ j # k
    BY <1>2, <2>1
  <2>3. r[i] = q[j]
    BY <1>5, <2>1
  <2>4. q[j] # t
    BY <1>1, <1>2, <1>6, <2>2
  <2>5. QED
    BY <2>1, <2>2, <2>3, <2>4
<1>8. ASSUME NEW i \in 1 .. n - 1, NEW j \in 1 .. n - 1, r[i] = r[j] PROVE i = j
  <2>1. PICK i2 \in 1 .. n : i2 = (IF i < k THEN i ELSE i + 1) /\ i2 # k /\ r[i] = q[i2]
    BY <1>7
  <2>2. PICK j2 \in 1 .. n : j2 = (IF j < k THEN j ELSE j + 1) /\ j2 # k /\ r[j] = q[j2]
    BY <1>7
  <2>3. i2 = j2
    BY <1>6, <1>8, <2>1, <2>2
  <2>4. QED
    BY <1>2, <2>1, <2>2, <2>3
<1>9. ASSUME NEW x \in Tasks \ {t}, NEW i \in 1 .. n, q[i] = x
      PROVE  \E j \in 1 .. n - 1 : r[j] = x
  <2>1. i # k
    BY <1>1, <1>9
  <2>2. PICK j \in Int : j = IF i < k THEN i ELSE i - 1
    OBVIOUS
  <2>3. j \in 1 .. n - 1 /\ (IF j < k THEN j ELSE j + 1) = i
    BY <1>2, <2>1, <2>2
  <2>4. r[j] = q[i]
    BY <1>5, <2>3
  <2>5. QED
    BY <1>9, <2>3, <2>4
<1>10. Without(q, t, r)
  BY <1>2, <1>5, <1>7, <1>8, <1>9 DEF Without
<1>11. QED
  BY <1>10

\* The queue with one more task
LEMMA AppendedEntries ==
    ASSUME NEW q \in Seq(Tasks), NEW t \in Tasks, NEW r, r = Append(q, t)
    PROVE  /\ r \in Seq(Tasks) /\ r # <<>> /\ Len(q) \in Nat /\ Len(r) = Len(q) + 1
           /\ r[Len(q) + 1] = t /\ \A i \in 1 .. Len(q) : r[i] = q[i]
BY AppendProperties

\* A task that is finished without ever having had a slot
SlotlessEnd(p, t, u, Q, q) ==
    /\ t \in Tasks /\ u \in TaskRec
    /\ QueueOnly(p, t, u, Q, p.pendingTasks, p.pendingBytes, q)
    /\ p.tasks[t].slot = NoSlot /\ u.slot = NoSlot /\ u.called /\ u.done /\ ~u.preparing
    /\ u.handler = "none" /\ u.admitted = p.tasks[t].admitted
    /\ Without(p.queue, t, Q)

\* Such an end keeps the invariant
LEMMA SlotlessGood ==
    ASSUME NEW p, Good(p), Hosted(p), NEW t, NEW u, NEW Q, NEW q, SlotlessEnd(p, t, u, Q, q)
    PROVE  Good(q) /\ Hosted(q) /\ Untouched(q, t) /\ q.tasks[t] = u
<1> USE DEF SlotlessEnd, Without
<1>1. /\ p \in PoolRec /\ p.tasks \in [Tasks -> TaskRec] /\ Fits(p.slots, p.tasks, p.queue)
      /\ CountInv(p.slots, p.tasks, p.pendingTasks, p.pendingBytes, p.activeTasks)
      /\ p.queue \in Seq(Tasks)
  BY DEF Good, PoolRec
<1>2. q.slots = p.slots /\ q.tasks[t] = u /\ \A x \in Tasks \ {t} : q.tasks[x] = p.tasks[x]
  BY <1>1 DEF QueueOnly
<1>3. TaskInv(q.slots, q.tasks, Q, t)
  BY <1>2 DEF TaskInv
<1>4. QueueInv(q.tasks, Q)
  <2>1. QueueInv(p.tasks, p.queue) /\ \A i \in 1 .. Len(p.queue) : p.queue[i] \in Tasks
    BY <1>1 DEF Fits
  <2>2. ASSUME NEW i \in 1 .. Len(Q)
        PROVE  /\ q.tasks[Q[i]].called /\ q.tasks[Q[i]].admitted
               /\ ~q.tasks[Q[i]].done /\ q.tasks[Q[i]].slot = NoSlot
    <3>1. PICK j \in 1 .. Len(p.queue) : p.queue[j] = Q[i] /\ Q[i] # t /\ Q[i] \in Tasks
      BY <2>1
    <3>2. q.tasks[Q[i]] = p.tasks[p.queue[j]]
      BY <1>2, <3>1
    <3>3. QED
      BY <2>1, <3>2 DEF QueueInv
  <2>3. QED
    BY <2>2 DEF QueueInv
<1>5. CountInv(q.slots, q.tasks, p.pendingTasks, p.pendingBytes, p.activeTasks)
  <2>1. Charged(q.tasks) = Charged(p.tasks)
    BY <1>2 DEF Charged
  <2>2. QED
    BY <1>1, <1>2, <2>1 DEF CountInv
<1>6. QueueStep(p, t, u, Q, p.pendingTasks, p.pendingBytes, q)
  BY <1>3, <1>4, <1>5 DEF QueueStep
<1>7. QED
  BY <1>2, <1>6, QueueGood

\* abort and timeout
LEMMA CancelKeeps ==
    ASSUME Sound(pool), NEW t \in Tasks, Cancel(t)
    PROVE  Sound(pool')
<1>1. /\ pool \in PoolRec /\ Good(pool) /\ Hosted(pool) /\ Fits(pool.slots, pool.tasks, pool.queue)
      /\ pool.slots \in [Slots -> SlotRec] /\ pool.tasks \in [Tasks -> TaskRec]
      /\ pool.queue \in Seq(Tasks) /\ pool.pendingTasks \in Int /\ pool.pendingBytes \in Int
      /\ TaskInv(pool.slots, pool.tasks, pool.queue, t)
  BY DEF Sound, Good, Fits, PoolRec
<1>2. pool.tasks[t].called /\ ~pool.tasks[t].done
  BY DEF Cancel
<1>3. CASE pool.tasks[t].slot # NoSlot
  <2>1. PICK s \in Slots : s = pool.tasks[t].slot
    BY <1>1, <1>3 DEF TaskRec
  <2>2. pool.slots[s].task = t /\ SlotInv(pool.slots, pool.tasks, s)
    BY <1>1, <1>2, <1>3, <2>1 DEF TaskInv, Fits
  <2>3. pool.slots[s].live
    BY <2>2, PoolConstants DEF SlotInv
  <2>4. pool' = Fail(pool, s)
    BY <1>3, <2>1 DEF Cancel
  <2>5. \A x \in Slots \ {s} : HostInv(pool.slots, pool.tasks, x)
    BY <1>1 DEF Hosted
  <2>6. QED
    BY <1>1, <2>3, <2>4, <2>5, FailGood DEF Sound
<1>4. CASE pool.tasks[t].slot = NoSlot
  <2>1. PICK Q : Q = Unqueued(pool.queue, t)
    OBVIOUS
  <2>2. \E i \in 1 .. Len(pool.queue) : pool.queue[i] = t
    BY <1>1, <1>2, <1>4 DEF TaskInv
  <2>3. \A i, j \in 1 .. Len(pool.queue) : pool.queue[i] = pool.queue[j] => i = j
    BY <1>1 DEF Fits, QueueInv
  <2>4. Q \in Seq(Tasks) /\ Without(pool.queue, t, Q)
    <3>1. QueuedOnce(pool.queue, t)
      BY <1>1, <2>2, <2>3 DEF QueuedOnce
    <3>2. Without(pool.queue, t, Q)
      BY <2>1, <3>1, UnqueuedEntries
    <3>3. QED
      BY <3>2 DEF Without
  <2>5. PICK z : z = [pool EXCEPT !.queue = Q]
    OBVIOUS
  <2>6. z \in PoolRec /\ z.tasks = pool.tasks
    BY <1>1, <2>4, <2>5 DEF PoolRec
  <2>7. pool' = Finish(z, t, FALSE)
    BY <1>4, <2>1, <2>5 DEF Cancel
  <2>8. PICK y : y = [z EXCEPT !.tasks[t].done = TRUE]
    OBVIOUS
  <2>9. pool' = Dispatch(Complete(y, t))
    BY <1>2, <1>4, <2>6, <2>7, <2>8 DEF Finish
  <2>10. PICK v \in TaskRec : v = pool.tasks[t]
    BY <1>1
  <2>11. PICK u : u = [v EXCEPT !.done = TRUE]
    OBVIOUS
  <2>12. /\ u \in TaskRec /\ u.done /\ u.called = v.called /\ u.admitted = v.admitted
         /\ u.preparing = v.preparing /\ u.slot = v.slot /\ u.handler = v.handler
    BY <2>11 DEF TaskRec
  <2>13. QueueSet(pool, t, u, Q, pool.pendingTasks, pool.pendingBytes, y)
    <3>1. y = [z EXCEPT !.tasks[t] = u]
      BY <2>6, <2>8, <2>10, <2>11
    <3>2. y = [pool EXCEPT !.tasks[t] = u, !.queue = Q, !.pendingTasks = pool.pendingTasks,
                           !.pendingBytes = pool.pendingBytes]
      BY <1>1, <2>5, <3>1 DEF PoolRec
    <3>3. QED
      BY <1>1, <2>4, <2>12, <3>2 DEF QueueSet
  <2>14. QueueOnly(pool, t, u, Q, pool.pendingTasks, pool.pendingBytes, y)
    BY <1>1, <2>13, QueueFields
  <2>15. /\ u.slot = NoSlot /\ u.called /\ ~u.preparing /\ u.handler = "none"
         /\ u.admitted = pool.tasks[t].admitted
    BY <1>1, <1>2, <1>4, <2>10, <2>12 DEF TaskInv
  <2>16. Good(y) /\ Hosted(y) /\ Untouched(y, t) /\ y.tasks[t] = u
    <3>1. SlotlessEnd(pool, t, u, Q, y)
      BY <1>4, <2>4, <2>12, <2>14, <2>15 DEF SlotlessEnd
    <3>2. QED
      BY <1>1, <3>1, SlotlessGood
  <2>17. PICK x : x = Complete(y, t)
    OBVIOUS
  <2>18. Good(x) /\ Hosted(x)
    BY <2>12, <2>16, <2>17, CompleteGood
  <2>19. QED
    BY <2>9, <2>17, <2>18, DispatchGood DEF Sound
<1>5. QED
  BY <1>3, <1>4

\* The task t is called and joins the queue, with the record u
Admission(p, t, u, a, b, q) ==
    /\ t \in Tasks /\ u \in TaskRec
    /\ QueueOnly(p, t, u, Append(p.queue, t), a, b, q)
    /\ ~p.tasks[t].called /\ ~Overloaded(p, t)
    /\ u.called /\ u.admitted /\ ~u.done /\ ~u.preparing /\ u.slot = NoSlot
    /\ u.handler = "none" /\ ~u.consumed /\ ~u.settled
    /\ a = p.pendingTasks + 1 /\ b = p.pendingBytes + InputBytes(t)

\* The limits still hold then
LEMMA AdmittedGood ==
    ASSUME NEW p, Good(p), Hosted(p), NEW t, NEW u, NEW a, NEW b, NEW q,
           Admission(p, t, u, a, b, q)
    PROVE  Good(q) /\ Hosted(q)
<1> /\ t \in Tasks /\ u \in TaskRec
    /\ QueueOnly(p, t, u, Append(p.queue, t), a, b, q)
    /\ ~p.tasks[t].called /\ ~Overloaded(p, t)
    /\ u.called /\ u.admitted /\ ~u.done /\ ~u.preparing /\ u.slot = NoSlot
    /\ u.handler = "none" /\ ~u.consumed /\ ~u.settled
    /\ a = p.pendingTasks + 1 /\ b = p.pendingBytes + InputBytes(t)
  BY DEF Admission
<1> PICK Q : Q = Append(p.queue, t)
  OBVIOUS
<1>1. /\ p \in PoolRec /\ p.tasks \in [Tasks -> TaskRec] /\ Fits(p.slots, p.tasks, p.queue)
      /\ CountInv(p.slots, p.tasks, p.pendingTasks, p.pendingBytes, p.activeTasks)
      /\ p.queue \in Seq(Tasks) /\ p.pendingTasks \in Int /\ p.pendingBytes \in Int
  BY DEF Good, PoolRec
<1>2. /\ q.slots = p.slots /\ q.tasks[t] = u /\ \A x \in Tasks \ {t} : q.tasks[x] = p.tasks[x]
      /\ QueueOnly(p, t, u, Q, a, b, q)
  BY <1>1 DEF QueueOnly
<1>3. TaskInv(p.slots, p.tasks, p.queue, t) /\ QueueInv(p.tasks, p.queue)
  BY <1>1 DEF Fits
<1>4. p.tasks[t].slot = NoSlot /\ ~p.tasks[t].admitted
  BY <1>3 DEF TaskInv
<1>5. PICK n \in Nat : n = Len(p.queue)
  BY <1>1
<1>6. Len(Q) = n + 1 /\ Q[n + 1] = t /\ \A i \in 1 .. n : Q[i] = p.queue[i]
  BY <1>1, <1>5, AppendedEntries
<1>7. \A i \in 1 .. n : p.queue[i] \in Tasks /\ p.queue[i] # t
  BY <1>1, <1>3, <1>5 DEF QueueInv
<1>8. TaskInv(q.slots, q.tasks, Q, t)
  <2>1. n + 1 \in 1 .. Len(Q) /\ Q[n + 1] = t
    BY <1>6
  <2>2. \E i \in 1 .. Len(Q) : Q[i] = t
    BY <2>1
  <2>3. QED
    BY <1>2, <2>2 DEF TaskInv
<1>9. QueueInv(q.tasks, Q)
  <2>1. ASSUME NEW i \in 1 .. n + 1
        PROVE  /\ q.tasks[Q[i]].called /\ q.tasks[Q[i]].admitted
               /\ ~q.tasks[Q[i]].done /\ q.tasks[Q[i]].slot = NoSlot
    <3>1. CASE i = n + 1
      BY <1>2, <1>6, <3>1
    <3>2. CASE i # n + 1
      <4>1. i \in 1 .. n
        BY <3>2
      <4>2. q.tasks[Q[i]] = p.tasks[p.queue[i]]
        BY <1>2, <1>6, <1>7, <4>1
      <4>3. QED
        BY <1>3, <1>5, <4>1, <4>2 DEF QueueInv
    <3>3. QED
      BY <3>1, <3>2
  <2>2. ASSUME NEW i \in 1 .. n + 1, NEW j \in 1 .. n + 1, Q[i] = Q[j]
        PROVE  i = j
    <3>1. CASE i \in 1 .. n /\ j \in 1 .. n
      BY <1>3, <1>5, <1>6, <2>2, <3>1 DEF QueueInv
    <3>2. CASE i = n + 1 /\ j \in 1 .. n
      BY <1>6, <1>7, <2>2, <3>2
    <3>3. CASE i \in 1 .. n /\ j = n + 1
      BY <1>6, <1>7, <2>2, <3>3
    <3>4. QED
      BY <3>1, <3>2, <3>3
  <2>3. QED
    BY <1>6, <2>1, <2>2 DEF QueueInv
<1>10. \A x \in Tasks \ {t} : (\E i \in 1 .. Len(p.queue) : p.queue[i] = x) =>
                                (\E i \in 1 .. Len(Q) : Q[i] = x)
  <2>1. \A i \in 1 .. n : i \in 1 .. n + 1 /\ Q[i] = p.queue[i]
    BY <1>6
  <2>2. QED
    BY <1>5, <1>6, <2>1
<1>11. CountInv(q.slots, q.tasks, a, b, p.activeTasks)
  <2>1. t \notin Charged(p.tasks) /\ Charged(q.tasks) = Charged(p.tasks) \cup {t}
    BY <1>2, <1>4 DEF Charged
  <2>2. /\ Cardinality(Charged(q.tasks)) = Cardinality(Charged(p.tasks)) + 1
        /\ Cardinality(Charged(q.tasks)) + Cardinality(Charged(q.tasks) \cap Big) =
              Cardinality(Charged(p.tasks)) + Cardinality(Charged(p.tasks) \cap Big) + InputBytes(t)
        /\ InputBytes(t) \in {1, 2}
    BY <2>1, ChargeGrows
  <2>3. a <= MaxPendingTasks /\ b <= MaxPendingBytes
    <3>1. p.pendingTasks < MaxPendingTasks /\ p.pendingBytes + InputBytes(t) <= MaxPendingBytes
      <4>1. MaxPendingTasks \in Int /\ MaxPendingBytes \in Int
        BY PoolAssumption
      <4>2. PICK m \in Int : m = p.pendingBytes + InputBytes(t)
        BY <1>1, <2>2
      <4>3. QED
        BY <1>1, <4>1, <4>2 DEF Overloaded
    <3>2. MaxPendingTasks \in Int
      BY PoolAssumption
    <3>3. QED
      BY <1>1, <3>1, <3>2
  <2>4. a = Cardinality(Charged(q.tasks))
    BY <1>1, <2>2 DEF CountInv
  <2>5. b = Cardinality(Charged(q.tasks)) + Cardinality(Charged(q.tasks) \cap Big)
    <3>1. p.pendingBytes = Cardinality(Charged(p.tasks)) + Cardinality(Charged(p.tasks) \cap Big)
      BY <1>1 DEF CountInv
    <3>2. QED
      BY <2>2, <3>1, Zenon
  <2>6. QED
    BY <1>1, <1>2, <2>3, <2>4, <2>5 DEF CountInv
<1>12. QueueStep(p, t, u, Q, a, b, q)
  BY <1>2, <1>4, <1>8, <1>9, <1>10, <1>11 DEF QueueStep
<1>13. QED
  BY <1>12, QueueGood

\* A task that nobody has called is as it was
LEMMA Uncalled ==
    ASSUME NEW p, Good(p), NEW t \in Tasks, ~p.tasks[t].called
    PROVE  /\ p.tasks[t].slot = NoSlot /\ ~p.tasks[t].admitted /\ ~p.tasks[t].preparing
           /\ p.tasks[t].handler = "none" /\ ~p.tasks[t].done
           /\ ~p.tasks[t].consumed /\ ~p.tasks[t].settled
           /\ Without(p.queue, t, p.queue)
<1>1. p \in PoolRec /\ TaskInv(p.slots, p.tasks, p.queue, t) /\ QueueInv(p.tasks, p.queue)
  BY DEF Good, Fits
<1>2. p.queue \in Seq(Tasks) /\ \A i \in 1 .. Len(p.queue) : p.queue[i] # t
  BY <1>1 DEF PoolRec, QueueInv
<1>3. Without(p.queue, t, p.queue)
  BY <1>1, <1>2 DEF Without, QueueInv
<1>4. QED
  BY <1>1, <1>3 DEF TaskInv

\* run: a closed or overloaded pool refuses the task, else it is queued
LEMMA RunKeeps ==
    ASSUME Sound(pool), NEW t \in Tasks, Run(t)
    PROVE  Sound(pool')
<1>1. /\ pool \in PoolRec /\ Good(pool) /\ Hosted(pool) /\ pool.tasks \in [Tasks -> TaskRec]
      /\ pool.queue \in Seq(Tasks) /\ pool.pendingTasks \in Int /\ pool.pendingBytes \in Int
  BY DEF Sound, Good, PoolRec
<1>2. ~pool.tasks[t].called
  BY DEF Run
<1>3. PICK v \in TaskRec : v = pool.tasks[t]
  BY <1>1
<1>4. /\ v.slot = NoSlot /\ ~v.admitted /\ ~v.preparing /\ v.handler = "none" /\ ~v.done
      /\ ~v.consumed /\ ~v.settled /\ Without(pool.queue, t, pool.queue)
  BY <1>1, <1>2, <1>3, Uncalled
<1>5. PICK w : w = [v EXCEPT !.called = TRUE]
  OBVIOUS
<1>6. /\ w \in TaskRec /\ w.called /\ w.slot = NoSlot /\ ~w.admitted /\ ~w.preparing
      /\ w.handler = "none" /\ ~w.done /\ ~w.consumed /\ ~w.settled
  BY <1>4, <1>5 DEF TaskRec
<1>7. PICK p : p = [pool EXCEPT !.tasks[t].called = TRUE]
  OBVIOUS
<1>8. p = [pool EXCEPT !.tasks[t] = w]
  BY <1>1, <1>3, <1>5, <1>7
<1>9. p \in PoolRec /\ p.closed = pool.closed /\ p.queue = pool.queue /\ p.tasks[t] = w
      /\ p.pendingTasks = pool.pendingTasks /\ p.pendingBytes = pool.pendingBytes
  BY <1>1, <1>6, <1>8 DEF PoolRec
<1>10. pool' = IF p.closed
               THEN [p EXCEPT !.tasks[t] = [@ EXCEPT !.done = TRUE, !.settled = TRUE]]
               ELSE IF Overloaded(p, t) THEN Finish(p, t, FALSE)
               ELSE Dispatch([p EXCEPT !.queue = Append(@, t), !.tasks[t].admitted = TRUE,
                                       !.pendingTasks = @ + 1,
                                       !.pendingBytes = @ + InputBytes(t)])
  BY <1>7 DEF Run
<1>11. CASE p.closed
  <2>1. PICK u : u = [w EXCEPT !.done = TRUE, !.settled = TRUE]
    OBVIOUS
  <2>2. /\ u \in TaskRec /\ u.called /\ u.done /\ u.slot = NoSlot /\ ~u.preparing
        /\ u.handler = "none" /\ u.admitted = v.admitted
    BY <1>4, <1>5, <1>6, <2>1 DEF TaskRec
  <2>3. PICK z : z = pool'
    OBVIOUS
  <2>4. z = [p EXCEPT !.tasks[t] = u]
    BY <1>9, <1>10, <1>11, <2>1, <2>3
  <2>5. QueueSet(pool, t, u, pool.queue, pool.pendingTasks, pool.pendingBytes, z)
    <3>1. z = [pool EXCEPT !.tasks[t] = u]
      BY <1>1, <1>8, <2>4 DEF PoolRec
    <3>2. z = [pool EXCEPT !.tasks[t] = u, !.queue = pool.queue,
                           !.pendingTasks = pool.pendingTasks, !.pendingBytes = pool.pendingBytes]
      BY <1>1, <3>1 DEF PoolRec
    <3>3. QED
      BY <1>1, <2>2, <3>2 DEF QueueSet
  <2>6. QueueOnly(pool, t, u, pool.queue, pool.pendingTasks, pool.pendingBytes, z)
    BY <1>1, <2>5, QueueFields
  <2>7. SlotlessEnd(pool, t, u, pool.queue, z)
    BY <1>3, <1>4, <2>2, <2>6 DEF SlotlessEnd
  <2>8. Good(z) /\ Hosted(z)
    BY <1>1, <2>7, SlotlessGood
  <2>9. Justified(z)
    BY <1>9, <1>11, <2>6 DEF QueueOnly, Kept, Justified, Open
  <2>10. QED
    BY <2>3, <2>8, <2>9 DEF Sound
<1>12. CASE ~p.closed /\ Overloaded(p, t)
  <2>1. PICK u : u = [w EXCEPT !.done = TRUE]
    OBVIOUS
  <2>2. /\ u \in TaskRec /\ u.called /\ u.done /\ u.slot = NoSlot /\ ~u.preparing
        /\ u.handler = "none" /\ u.admitted = v.admitted
    BY <1>4, <1>5, <1>6, <2>1 DEF TaskRec
  <2>3. PICK z : z = [p EXCEPT !.tasks[t].done = TRUE]
    OBVIOUS
  <2>4. z = [p EXCEPT !.tasks[t] = u]
    BY <1>9, <2>1, <2>3
  <2>5. pool' = Dispatch(Complete(z, t))
    BY <1>6, <1>9, <1>10, <1>12, <2>3 DEF Finish
  <2>6. QueueSet(pool, t, u, pool.queue, pool.pendingTasks, pool.pendingBytes, z)
    <3>1. z = [pool EXCEPT !.tasks[t] = u]
      BY <1>1, <1>8, <2>4 DEF PoolRec
    <3>2. z = [pool EXCEPT !.tasks[t] = u, !.queue = pool.queue,
                           !.pendingTasks = pool.pendingTasks, !.pendingBytes = pool.pendingBytes]
      BY <1>1, <3>1 DEF PoolRec
    <3>3. QED
      BY <1>1, <2>2, <3>2 DEF QueueSet
  <2>7. QueueOnly(pool, t, u, pool.queue, pool.pendingTasks, pool.pendingBytes, z)
    BY <1>1, <2>6, QueueFields
  <2>8. SlotlessEnd(pool, t, u, pool.queue, z)
    BY <1>3, <1>4, <2>2, <2>7 DEF SlotlessEnd
  <2>9. Good(z) /\ Hosted(z) /\ Untouched(z, t) /\ z.tasks[t] = u
    BY <1>1, <2>8, SlotlessGood
  <2>10. PICK x : x = Complete(z, t)
    OBVIOUS
  <2>11. Good(x) /\ Hosted(x)
    BY <2>2, <2>9, <2>10, CompleteGood
  <2>12. QED
    BY <2>5, <2>10, <2>11, DispatchGood DEF Sound
<1>13. CASE ~p.closed /\ ~Overloaded(p, t)
  <2>1. PICK u : u = [w EXCEPT !.admitted = TRUE]
    OBVIOUS
  <2>2. /\ u \in TaskRec /\ u.called /\ u.admitted /\ ~u.done /\ u.slot = NoSlot /\ ~u.preparing
        /\ u.handler = "none" /\ ~u.consumed /\ ~u.settled
    BY <1>6, <2>1 DEF TaskRec
  <2>3. PICK Q : Q = Append(pool.queue, t)
    OBVIOUS
  <2>4. PICK a, b : a = pool.pendingTasks + 1 /\ b = pool.pendingBytes + InputBytes(t)
    OBVIOUS
  <2>5. Q \in Seq(Tasks) /\ a \in Int /\ b \in Int
    <3>1. InputBytes(t) \in Int
      BY DEF InputBytes
    <3>2. QED
      BY <1>1, <2>3, <2>4, <3>1, AppendProperties
  <2>6. PICK z : z = [p EXCEPT !.queue = Append(@, t), !.tasks[t].admitted = TRUE,
                               !.pendingTasks = @ + 1, !.pendingBytes = @ + InputBytes(t)]
    OBVIOUS
  <2>7. z = [p EXCEPT !.tasks[t] = u, !.queue = Q, !.pendingTasks = a, !.pendingBytes = b]
    BY <1>9, <2>1, <2>3, <2>4, <2>6 DEF PoolRec
  <2>8. pool' = Dispatch(z)
    BY <1>10, <1>13, <2>6
  <2>9. QueueSet(pool, t, u, Q, a, b, z)
    <3>1. z = [pool EXCEPT !.tasks[t] = u, !.queue = Q, !.pendingTasks = a, !.pendingBytes = b]
      BY <1>1, <1>8, <2>7, ZenonT(40) DEF PoolRec
    <3>2. QED
      BY <2>2, <2>5, <3>1 DEF QueueSet
  <2>10. QueueOnly(pool, t, u, Append(pool.queue, t), a, b, z)
    BY <1>1, <2>3, <2>9, QueueFields
  <2>11. ~Overloaded(pool, t)
    BY <1>9, <1>13 DEF Overloaded
  <2>12. Admission(pool, t, u, a, b, z)
    BY <1>2, <2>2, <2>4, <2>10, <2>11 DEF Admission
  <2>13. Good(z) /\ Hosted(z)
    BY <1>1, <2>12, AdmittedGood
  <2>14. QED
    BY <2>8, <2>13, DispatchGood DEF Sound
<1>14. QED
  BY <1>11, <1>12, <1>13

-----------------------------------------------------------------------------
(* Rotation.                                                               *)

\* The fields of a rotation change
RotationSet(p, w, f, X, Y, q) ==
    /\ w \in {"none", "settling", "retiring", "broken"} /\ f \in BOOLEAN
    /\ X \in SUBSET Slots /\ Y \in SUBSET Tasks
    /\ q = [p EXCEPT !.rotation = w, !.rotationFailed = f, !.rotated = X, !.awaited = Y]

\* What becomes of the fields then
RotationOnly(p, w, f, X, Y, q) ==
    /\ q \in PoolRec /\ q.slots = p.slots /\ q.tasks = p.tasks /\ q.queue = p.queue
    /\ q.pendingTasks = p.pendingTasks /\ q.pendingBytes = p.pendingBytes
    /\ q.activeTasks = p.activeTasks /\ q.closed = p.closed
    /\ q.rotation = w /\ q.rotationFailed = f /\ q.rotated = X /\ q.awaited = Y

\* The other fields stay
LEMMA RotationFields ==
    ASSUME NEW p, p \in PoolRec, NEW w, NEW f, NEW X, NEW Y, NEW q, RotationSet(p, w, f, X, Y, q)
    PROVE  RotationOnly(p, w, f, X, Y, q)
<1> /\ w \in {"none", "settling", "retiring", "broken"} /\ f \in BOOLEAN
    /\ X \in SUBSET Slots /\ Y \in SUBSET Tasks
    /\ q = [p EXCEPT !.rotation = w, !.rotationFailed = f, !.rotated = X, !.awaited = Y]
  BY DEF RotationSet
<1> QED
  BY DEF PoolRec, RotationOnly

\* A rotation that waits for the tasks of its slots keeps the invariant
LEMMA RotationGood ==
    ASSUME NEW p, Good(p), Hosted(p), NEW w, NEW f, NEW X, NEW Y, NEW q,
           RotationSet(p, w, f, X, Y, q),
           w = "settling" => \A s \in X : p.slots[s].task \in Y \cup {NoTask}
    PROVE  Good(q) /\ Hosted(q) /\ RotationOnly(p, w, f, X, Y, q)
<1>1. p \in PoolRec
  BY DEF Good
<1>2. RotationOnly(p, w, f, X, Y, q)
  BY <1>1, RotationFields
<1>3. RotInv(q)
  BY <1>2 DEF RotationOnly, RotInv
<1>4. Good(q)
  BY <1>2, <1>3 DEF Good, RotationOnly
<1>5. Hosted(q)
  BY <1>2 DEF Hosted, RotationOnly
<1>6. QED
  BY <1>2, <1>4, <1>5

\* rotate: dispatch is paused
LEMMA RotateKeeps ==
    ASSUME Sound(pool), Rotate
    PROVE  Sound(pool')
<1>1. Good(pool) /\ Hosted(pool) /\ pool \in PoolRec /\ pool.slots \in [Slots -> SlotRec]
  BY DEF Sound, Good, PoolRec
<1>2. PICK X, Y : X = Live(pool) /\ Y = {pool.slots[s].task : s \in Live(pool)} \ {NoTask}
  OBVIOUS
<1>3. X \subseteq Slots
  BY <1>2 DEF Live
<1>4. Y \subseteq Tasks
  <2>1. \A s \in Slots : pool.slots[s].task \in Tasks \cup {NoTask}
    BY <1>1 DEF SlotRec
  <2>2. QED
    BY <1>2, <1>3, <2>1
<1>5. PICK q : q = pool'
  OBVIOUS
<1>6. RotationSet(pool, "settling", FALSE, X, Y, q)
  <2>1. q = [pool EXCEPT !.rotation = "settling", !.rotationFailed = FALSE, !.rotated = X,
                         !.awaited = Y]
    BY <1>2, <1>5 DEF Rotate
  <2>2. QED
    BY <1>3, <1>4, <2>1 DEF RotationSet
<1>7. \A s \in X : pool.slots[s].task \in Y \cup {NoTask}
  BY <1>2
<1>8. Good(q) /\ Hosted(q) /\ RotationOnly(pool, "settling", FALSE, X, Y, q)
  BY <1>1, <1>6, <1>7, RotationGood
<1>9. Justified(q)
  BY <1>8 DEF RotationOnly, Justified, Open
<1>10. QED
  BY <1>5, <1>8, <1>9 DEF Sound

\* The rotation is over, or has failed: dispatch
LEMMA RotateEndsKeeps ==
    ASSUME Sound(pool), RotateEnds
    PROVE  Sound(pool')
<1>1. Good(pool) /\ Hosted(pool) /\ pool \in PoolRec
  BY DEF Sound, Good
<1>2. PICK p : p = [pool EXCEPT !.rotation = "none", !.rotated = {}, !.awaited = {},
                                !.rotationFailed = (pool.rotation = "broken")]
  OBVIOUS
<1>3. PICK f \in BOOLEAN : f = (pool.rotation = "broken")
  OBVIOUS
<1>4. RotationSet(pool, "none", f, {}, {}, p)
  <2>1. p = [pool EXCEPT !.rotation = "none", !.rotationFailed = f, !.rotated = {}, !.awaited = {}]
    BY <1>1, <1>2, <1>3 DEF PoolRec
  <2>2. QED
    BY <2>1 DEF RotationSet
<1>5. Good(p) /\ Hosted(p)
  BY <1>1, <1>4, RotationGood
<1>6. pool' = Dispatch(p)
  BY <1>2 DEF RotateEnds
<1>7. QED
  BY <1>5, <1>6, DispatchGood DEF Sound

\* What becomes of the fields when the rotation's slots retire
RetiresOnly(p, S, q) ==
    /\ q \in PoolRec /\ q.slots = S /\ q.tasks = p.tasks /\ q.queue = p.queue
    /\ q.pendingTasks = p.pendingTasks /\ q.pendingBytes = p.pendingBytes
    /\ q.activeTasks = p.activeTasks /\ q.rotation = "retiring"

\* The slots of the rotation retire
LEMMA RotateRetiresKeeps ==
    ASSUME Sound(pool), RotateRetires
    PROVE  Sound(pool')
<1>1. /\ pool \in PoolRec /\ pool.slots \in [Slots -> SlotRec] /\ pool.tasks \in [Tasks -> TaskRec]
      /\ Fits(pool.slots, pool.tasks, pool.queue) /\ Good(pool) /\ Hosted(pool) /\ RotInv(pool)
      /\ CountInv(pool.slots, pool.tasks, pool.pendingTasks, pool.pendingBytes, pool.activeTasks)
      /\ pool.rotated \in SUBSET Slots
  BY DEF Sound, Good, PoolRec
<1>2. pool.rotation = "settling" /\ \A t \in pool.awaited : pool.tasks[t].settled
  BY DEF RotateRetires
<1>3. PICK q : q = pool'
  OBVIOUS
<1>4. PICK S : S = [s \in Slots |->
                      IF s \in pool.rotated /\ pool.slots[s].live
                      THEN [pool.slots[s] EXCEPT !.retiring = TRUE, !.idleTimer = FALSE]
                      ELSE pool.slots[s]]
  OBVIOUS
<1>5. PICK X : X = {s \in Slots : s \in pool.rotated /\ pool.slots[s].live}
  OBVIOUS
<1>6. /\ \A s \in X : pool.slots[s].live /\ s \in Slots /\ s \in pool.rotated
      /\ \A s \in X : S[s] = [pool.slots[s] EXCEPT !.retiring = TRUE, !.idleTimer = FALSE]
      /\ \A s \in Slots \ X : S[s] = pool.slots[s]
      /\ X \in SUBSET Slots
  BY <1>4, <1>5
<1>7. ASSUME NEW s \in X
      PROVE  LET x == pool.slots[s]
                 r == S[s]
             IN  /\ r \in SlotRec /\ r.live = x.live /\ r.task = x.task /\ r.exec = x.exec
                 /\ r.reads = x.reads /\ r.worker = x.worker /\ r.completions = x.completions
                 /\ r.retiring
  <2>1. PICK x \in SlotRec : x = pool.slots[s]
    BY <1>1, <1>6
  <2>2. PICK r : r = S[s]
    OBVIOUS
  <2>3. r = [x EXCEPT !.retiring = TRUE, !.idleTimer = FALSE]
    BY <1>6, <2>1, <2>2
  <2>4. /\ r \in SlotRec /\ r.live = x.live /\ r.task = x.task /\ r.exec = x.exec
        /\ r.reads = x.reads /\ r.worker = x.worker /\ r.completions = x.completions
        /\ r.retiring
    BY <2>1, <2>3 DEF SlotRec
  <2>5. QED
    BY <2>1, <2>2, <2>4
<1>8. S \in [Slots -> SlotRec]
  <2>1. \A s \in Slots : S[s] \in SlotRec
    BY <1>1, <1>6, <1>7
  <2>2. S = [s \in Slots |-> S[s]]
    BY <1>4
  <2>3. QED
    BY <2>1, <2>2
<1>9. RetiresOnly(pool, S, q)
  <2>1. q = [pool EXCEPT !.rotation = "retiring", !.slots = S]
    BY <1>3, <1>4 DEF RotateRetires
  <2>2. QED
    BY <1>1, <1>8, <2>1 DEF PoolRec, RetiresOnly
<1>10. ASSUME NEW s \in X PROVE pool.slots[s].task = NoTask
  <2>1. pool.slots[s].task \in pool.awaited \cup {NoTask}
    BY <1>1, <1>2, <1>6 DEF RotInv
  <2>2. ASSUME pool.slots[s].task \in pool.awaited PROVE FALSE
    <3>1. PICK t \in Tasks : t = pool.slots[s].task /\ t \in pool.awaited
      BY <1>1, <2>2 DEF PoolRec
    <3>2. pool.tasks[t].done
      BY <1>1, <1>2, <3>1 DEF Fits, TaskInv
    <3>3. SlotInv(pool.slots, pool.tasks, s) /\ t # NoTask
      BY <1>1, <1>6, PoolConstants DEF Fits
    <3>4. QED
      BY <3>1, <3>2, <3>3 DEF SlotInv
  <2>3. QED
    BY <2>1, <2>2
<1>11. ASSUME NEW s \in X PROVE SlotInv(S, pool.tasks, s)
  <2>1. SlotInv(pool.slots, pool.tasks, s)
    BY <1>1, <1>6 DEF Fits
  <2>2. PICK x, r : x = pool.slots[s] /\ r = S[s]
    OBVIOUS
  <2>3. /\ x.live /\ x.task = NoTask /\ r.live /\ r.task = NoTask /\ r.exec = x.exec
        /\ r.reads = x.reads /\ r.worker = x.worker /\ r.completions = x.completions /\ r.retiring
    BY <1>6, <1>7, <1>10, <2>2
  <2>4. QED
    BY <2>1, <2>2, <2>3 DEF SlotInv
<1>12. Fits(S, pool.tasks, pool.queue)
  <2>1. QueueInv(pool.tasks, pool.queue)
    BY <1>1 DEF Fits
  <2>2. Changes(pool.slots, pool.tasks, pool.queue, S, pool.tasks, pool.queue, X, {})
    BY <1>1, <1>6, <1>8, <1>10, <1>11, <2>1 DEF Changes
  <2>3. QED
    BY <2>2, FitStep
<1>13. \A s \in Slots : /\ S[s].task = pool.slots[s].task /\ S[s].live = pool.slots[s].live
                        /\ S[s].worker = pool.slots[s].worker
  BY <1>6, <1>7
<1>14. CountInv(S, pool.tasks, pool.pendingTasks, pool.pendingBytes, pool.activeTasks)
  <2>1. Busy(S) = Busy(pool.slots) /\ Alive(S) = Alive(pool.slots)
    BY <1>13 DEF Busy, Alive
  <2>2. QED
    BY <1>1, <2>1 DEF CountInv
<1>15. Good(q)
  BY <1>9, <1>12, <1>14 DEF Good, RetiresOnly, RotInv
<1>16. Hosted(q)
  BY <1>1, <1>9, <1>13 DEF Hosted, RetiresOnly, HostInv
<1>17. Justified(q)
  BY <1>9 DEF RetiresOnly, Justified, Open
<1>18. QED
  BY <1>3, <1>15, <1>16, <1>17 DEF Sound

-----------------------------------------------------------------------------
(* The end of a retirement.                                                *)

\* A slot that retires is live, runs no task, and its waiters are its own
LEMMA RetiringSlot ==
    ASSUME NEW p, Good(p), NEW s \in Slots, p.slots[s].retiring
    PROVE  /\ p.slots[s].live /\ p.slots[s].task = NoTask
           /\ p.slots[s].completions \in SUBSET Tasks
           /\ \A t \in p.slots[s].completions : p.tasks[t].slot = s /\ p.tasks[t].done
<1>1. p.slots \in [Slots -> SlotRec] /\ SlotInv(p.slots, p.tasks, s)
  BY DEF Good, PoolRec, Fits
<1>2. p.slots[s].completions \in SUBSET Tasks
  BY <1>1 DEF SlotRec
<1>3. ~NoSlotEntry.retiring
  BY DEF NoSlotEntry
<1>4. QED
  BY <1>1, <1>2, <1>3 DEF SlotInv

\* The slot s and the tasks change, and the rotation
CustodySet(p, s, r, T, w, q) ==
    /\ s \in Slots /\ r \in SlotRec /\ T \in [Tasks -> TaskRec]
    /\ w \in {"none", "settling", "retiring", "broken"}
    /\ q = [p EXCEPT !.slots[s] = r, !.tasks = T, !.rotation = w]

\* What becomes of the fields then
CustodyOnly(p, s, r, T, w, q) ==
    /\ q \in PoolRec /\ q.slots = [p.slots EXCEPT ![s] = r] /\ q.tasks = T /\ q.queue = p.queue
    /\ q.pendingTasks = p.pendingTasks /\ q.pendingBytes = p.pendingBytes
    /\ q.activeTasks = p.activeTasks /\ q.closed = p.closed
    /\ q.rotation = w /\ q.rotationFailed = p.rotationFailed
    /\ q.rotated = p.rotated /\ q.awaited = p.awaited

\* The other fields stay
LEMMA CustodyFields ==
    ASSUME NEW p, p \in PoolRec, NEW s, NEW r, NEW T, NEW w, NEW q, CustodySet(p, s, r, T, w, q)
    PROVE  CustodyOnly(p, s, r, T, w, q)
<1> /\ s \in Slots /\ r \in SlotRec /\ T \in [Tasks -> TaskRec]
    /\ w \in {"none", "settling", "retiring", "broken"}
    /\ q = [p EXCEPT !.slots[s] = r, !.tasks = T, !.rotation = w]
  BY DEF CustodySet
<1> QED
  BY DEF PoolRec, CustodyOnly

\* terminate() failed: the waiters are told, custody stays
LEMMA RetirementFailsKeeps ==
    ASSUME Sound(pool), NEW s \in Slots, RetirementFails(s)
    PROVE  Sound(pool')
<1>1. /\ pool \in PoolRec /\ pool.slots \in [Slots -> SlotRec] /\ pool.tasks \in [Tasks -> TaskRec]
      /\ Fits(pool.slots, pool.tasks, pool.queue) /\ Good(pool) /\ Hosted(pool)
      /\ Justified(pool)
  BY DEF Sound, Good, PoolRec
<1>2. pool.slots[s].retiring
  BY DEF RetirementFails
<1>3. PICK x \in SlotRec : x = pool.slots[s]
  BY <1>1
<1>4. PICK Y : Y = x.completions
  OBVIOUS
<1>5. /\ x.live /\ x.task = NoTask /\ Y \in SUBSET Tasks
      /\ \A t \in Y : pool.tasks[t].slot = s /\ pool.tasks[t].done
  BY <1>1, <1>2, <1>3, <1>4, RetiringSlot
<1>6. PICK r : r = [x EXCEPT !.retiring = FALSE, !.retirementFailed = TRUE]
  OBVIOUS
<1>7. /\ r \in SlotRec /\ r.live = x.live /\ r.task = x.task /\ r.exec = x.exec /\ r.reads = x.reads
      /\ r.worker = x.worker /\ r.completions = x.completions /\ r.retirementFailed
  BY <1>6 DEF SlotRec
<1>8. PICK T : T = [t \in Tasks |-> IF t \in Y THEN [pool.tasks[t] EXCEPT !.settled = TRUE]
                                    ELSE pool.tasks[t]]
  OBVIOUS
<1>9. /\ \A t \in Tasks : t \in Y => T[t] = [pool.tasks[t] EXCEPT !.settled = TRUE]
      /\ \A t \in Tasks : t \notin Y => T[t] = pool.tasks[t]
      /\ T = [t \in Tasks |-> T[t]]
  BY <1>8
<1>10. ASSUME NEW t \in Y
       PROVE  /\ T[t] \in TaskRec /\ T[t].called = pool.tasks[t].called
              /\ T[t].done = pool.tasks[t].done /\ T[t].admitted = pool.tasks[t].admitted
              /\ T[t].preparing = pool.tasks[t].preparing /\ T[t].slot = pool.tasks[t].slot
              /\ T[t].consumed = pool.tasks[t].consumed /\ T[t].exchange = pool.tasks[t].exchange
              /\ T[t].handler = pool.tasks[t].handler
  <2>1. PICK v \in TaskRec : v = pool.tasks[t]
    BY <1>1, <1>5
  <2>2. PICK u : u = [v EXCEPT !.settled = TRUE]
    OBVIOUS
  <2>3. /\ u \in TaskRec /\ u.called = v.called /\ u.done = v.done /\ u.admitted = v.admitted
        /\ u.preparing = v.preparing /\ u.slot = v.slot /\ u.consumed = v.consumed
        /\ u.exchange = v.exchange /\ u.handler = v.handler
    BY <2>1, <2>2 DEF TaskRec
  <2>4. T[t] = u
    BY <1>5, <1>9, <2>1, <2>2
  <2>5. QED
    BY <2>1, <2>3, <2>4
<1>11. T \in [Tasks -> TaskRec]
  <2>1. \A t \in Tasks : T[t] \in TaskRec
    BY <1>1, <1>9, <1>10
  <2>2. QED
    BY <1>9, <2>1
<1>12. PICK w : w = IF pool.rotation = "retiring" /\ s \in pool.rotated THEN "broken"
                    ELSE pool.rotation
  OBVIOUS
<1>13. /\ w \in {"none", "settling", "retiring", "broken"}
       /\ w \in {pool.rotation, "broken"} /\ (w = "none" => pool.rotation = "none")
       /\ w = "settling" => pool.rotation = "settling"
  <2>1. pool.rotation \in {"none", "settling", "retiring", "broken"}
    BY <1>1 DEF PoolRec
  <2>2. QED
    BY <1>12, <2>1
<1>14. PICK q : q = pool'
  OBVIOUS
<1>15. CustodyOnly(pool, s, r, T, w, q)
  <2>1. q = [pool EXCEPT !.slots[s] = r, !.tasks = T, !.rotation = w]
    BY <1>1, <1>3, <1>4, <1>6, <1>8, <1>12, <1>14 DEF RetirementFails, PoolRec
  <2>2. CustodySet(pool, s, r, T, w, q)
    BY <1>7, <1>11, <1>13, <2>1 DEF CustodySet
  <2>3. QED
    BY <1>1, <2>2, CustodyFields
<1>16. q.slots[s] = r /\ q.tasks = T /\ \A y \in Slots \ {s} : q.slots[y] = pool.slots[y]
  BY <1>1, <1>15 DEF CustodyOnly
<1>17. SlotInv(q.slots, q.tasks, s)
  <2>1. SlotInv(pool.slots, pool.tasks, s)
    BY <1>1 DEF Fits
  <2>2. \A t \in Tasks : /\ T[t].slot = pool.tasks[t].slot /\ T[t].done = pool.tasks[t].done
                         /\ T[t].admitted = pool.tasks[t].admitted
                         /\ T[t].preparing = pool.tasks[t].preparing
                         /\ T[t].consumed = pool.tasks[t].consumed
                         /\ T[t].exchange = pool.tasks[t].exchange
    BY <1>9, <1>10
  <2>3. x.exec \in Tasks \cup {NoTask} /\ Y \in SUBSET Tasks
    BY <1>3, <1>5 DEF SlotRec
  <2>4. /\ x.exec # NoTask =>
              pool.tasks[x.exec].slot = s /\ pool.tasks[x.exec].admitted
                /\ ~pool.tasks[x.exec].preparing
        /\ x.reads # {} => x.worker = "up"
        /\ \A t \in Tasks : <<t, "input">> \in x.reads =>
              pool.tasks[t].slot = s /\ ~pool.tasks[t].preparing /\ ~pool.tasks[t].consumed
        /\ \A t \in Tasks : <<t, "answer">> \in x.reads =>
              pool.tasks[t].slot = s /\ ~pool.tasks[t].preparing
                /\ pool.tasks[t].exchange = "sent"
    BY <1>3, <2>1 DEF SlotInv
  <2>5. /\ r.exec # NoTask => T[r.exec].slot = s /\ T[r.exec].admitted /\ ~T[r.exec].preparing
        /\ r.reads # {} => r.worker = "up"
    BY <1>7, <2>2, <2>3, <2>4
  <2>6. /\ \A t \in Tasks : <<t, "input">> \in r.reads =>
              T[t].slot = s /\ ~T[t].preparing /\ ~T[t].consumed
        /\ \A t \in Tasks : <<t, "answer">> \in r.reads =>
              T[t].slot = s /\ ~T[t].preparing /\ T[t].exchange = "sent"
    BY <1>7, <2>2, <2>4
  <2>7. \A t \in r.completions : T[t].slot = s /\ T[t].done
    BY <1>4, <1>5, <1>7, <2>2
  <2>8. r.live /\ r.task = NoTask /\ r.retirementFailed
    BY <1>5, <1>7
  <2>9. QED
    BY <1>16, <2>5, <2>6, <2>7, <2>8 DEF SlotInv
<1>18. ASSUME NEW t \in Y PROVE TaskInv(q.slots, q.tasks, q.queue, t)
  <2>1. TaskInv(pool.slots, pool.tasks, pool.queue, t) /\ t \in Tasks
    BY <1>1, <1>5 DEF Fits
  <2>2. q.tasks[t].done /\ q.tasks[t].slot = s /\ s # NoSlot
    BY <1>5, <1>10, <1>16, PoolConstants
  <2>3. QED
    BY <1>5, <1>10, <1>16, <2>1, <2>2 DEF TaskInv
<1>19. SlotStep(pool, q, s, Y)
  <2>1. /\ q \in PoolRec /\ q.queue = pool.queue /\ q.pendingTasks = pool.pendingTasks
        /\ q.pendingBytes = pool.pendingBytes /\ q.activeTasks = pool.activeTasks
        /\ q.rotation = "settling" => pool.rotation = "settling" /\ q.rotated = pool.rotated
                                        /\ q.awaited = pool.awaited
    BY <1>13, <1>15 DEF CustodyOnly
  <2>2. /\ \A t \in Tasks \ Y : q.tasks[t] = pool.tasks[t]
        /\ \A t \in Y : pool.tasks[t].slot = s /\ q.tasks[t].admitted = pool.tasks[t].admitted
    BY <1>5, <1>9, <1>10, <1>16
  <2>3. /\ pool.slots[s].task = NoTask /\ q.slots[s].task = NoTask
        /\ q.slots[s].live = pool.slots[s].live
    BY <1>3, <1>5, <1>7, <1>16
  <2>4. QED
    BY <1>1, <1>5, <1>16, <1>17, <1>18, <2>1, <2>2, <2>3 DEF SlotStep
<1>20. Good(q)
  BY <1>19, SlotGood
<1>21. Hosted(q)
  <2>1. \A y \in Slots \ {s} : HostInv(pool.slots, pool.tasks, y)
    BY <1>1 DEF Hosted
  <2>2. HostInv(q.slots, q.tasks, s)
    BY <1>5, <1>7, <1>16 DEF HostInv
  <2>3. QED
    BY <1>19, <2>1, <2>2, SlotGood
<1>22. Justified(q)
  <2>1. Open(q) => Open(pool)
    BY <1>13, <1>15 DEF CustodyOnly, Open
  <2>2. q.slots[s].task = NoTask /\ q.slots[s].retirementFailed
    BY <1>5, <1>7, <1>16
  <2>3. Calm(pool, q)
    BY <1>19, <2>1, <2>2, CalmRetiring
  <2>4. QED
    BY <1>1, <2>3, CalmKeeps
<1>23. QED
  BY <1>14, <1>20, <1>21, <1>22 DEF Sound

\* The slot s and the tasks change, and the charges
RemovalSet(p, s, r, T, a, b, q) ==
    /\ s \in Slots /\ r \in SlotRec /\ T \in [Tasks -> TaskRec] /\ a \in Int /\ b \in Int
    /\ q = [p EXCEPT !.slots[s] = r, !.tasks = T, !.pendingTasks = a, !.pendingBytes = b]

\* What becomes of the fields then
RemovalOnly(p, s, r, T, a, b, q) ==
    /\ q \in PoolRec /\ q.slots = [p.slots EXCEPT ![s] = r] /\ q.tasks = T /\ q.queue = p.queue
    /\ q.pendingTasks = a /\ q.pendingBytes = b /\ q.activeTasks = p.activeTasks /\ Kept(p, q)

\* The other fields stay
LEMMA RemovalFields ==
    ASSUME NEW p, p \in PoolRec, NEW s, NEW r, NEW T, NEW a, NEW b, NEW q,
           RemovalSet(p, s, r, T, a, b, q)
    PROVE  RemovalOnly(p, s, r, T, a, b, q)
<1> /\ s \in Slots /\ r \in SlotRec /\ T \in [Tasks -> TaskRec] /\ a \in Int /\ b \in Int
    /\ q = [p EXCEPT !.slots[s] = r, !.tasks = T, !.pendingTasks = a, !.pendingBytes = b]
  BY DEF RemovalSet
<1> QED
  BY DEF PoolRec, Kept, RemovalOnly

\* The tasks Y that waited for their slot's end complete, and those of C give
\* their charges back
Completed(T, Y, C, U) ==
    /\ U \in [Tasks -> TaskRec] /\ Y \in SUBSET Tasks
    /\ C = {t \in Y : T[t].admitted /\ ~T[t].preparing}
    /\ \A t \in Tasks \ Y : U[t] = T[t]
    /\ \A t \in Y : /\ U[t].called = T[t].called /\ U[t].done = T[t].done
                    /\ U[t].preparing = T[t].preparing /\ U[t].slot = T[t].slot
                    /\ U[t].handler = T[t].handler
                    /\ U[t].admitted = (T[t].admitted /\ t \notin C)

\* The slot s is gone and its tasks are completed
Removal(p, s, Y, C, U, a, b, q) ==
    /\ Good(p) /\ s \in Slots
    /\ p.slots[s].retiring /\ Y = p.slots[s].completions
    /\ Completed(p.tasks, Y, C, U)
    /\ RemovalOnly(p, s, NoSlotEntry, U, a, b, q)
    /\ a = p.pendingTasks - Cardinality(C)
    /\ b = p.pendingBytes - Cardinality(C) - Cardinality(C \cap Big)

\* The slots and tasks still fit each other then
LEMMA RemovalFits ==
    ASSUME NEW p, NEW s, NEW Y, NEW C, NEW U, NEW a, NEW b, NEW q, Removal(p, s, Y, C, U, a, b, q)
    PROVE  Fits(q.slots, U, p.queue)
<1>1. /\ p \in PoolRec /\ p.slots \in [Slots -> SlotRec] /\ p.tasks \in [Tasks -> TaskRec]
      /\ Fits(p.slots, p.tasks, p.queue) /\ Good(p) /\ s \in Slots /\ p.queue \in Seq(Tasks)
      /\ s # NoSlot
  BY PoolConstants DEF Removal, Good, PoolRec
<1>2. /\ p.slots[s].task = NoTask /\ Y \in SUBSET Tasks
      /\ \A t \in Y : p.tasks[t].slot = s /\ p.tasks[t].done
  BY <1>1, RetiringSlot DEF Removal
<1>3. /\ q.slots \in [Slots -> SlotRec] /\ q.slots[s] = NoSlotEntry
      /\ \A x \in Slots \ {s} : q.slots[x] = p.slots[x]
  BY <1>1 DEF Removal, RemovalOnly, PoolRec
<1>4. /\ U \in [Tasks -> TaskRec] /\ C = {t \in Y : p.tasks[t].admitted /\ ~p.tasks[t].preparing}
      /\ \A t \in Tasks \ Y : U[t] = p.tasks[t]
      /\ \A t \in Y : /\ U[t].called = p.tasks[t].called /\ U[t].done = p.tasks[t].done
                      /\ U[t].preparing = p.tasks[t].preparing /\ U[t].slot = p.tasks[t].slot
                      /\ U[t].handler = p.tasks[t].handler
                      /\ U[t].admitted = (p.tasks[t].admitted /\ t \notin C)
  BY DEF Removal, Completed
<1>5. SlotInv(q.slots, U, s)
  <2>1. /\ NoSlotEntry.task = NoTask /\ NoSlotEntry.exec = NoTask /\ NoSlotEntry.reads = {}
        /\ NoSlotEntry.completions = {}
    BY DEF NoSlotEntry
  <2>2. QED
    BY <1>3, <2>1 DEF SlotInv
<1>6. ASSUME NEW t \in Y PROVE TaskInv(q.slots, U, p.queue, t)
  <2>1. TaskInv(p.slots, p.tasks, p.queue, t) /\ t \in Tasks
    BY <1>1, <1>2 DEF Fits
  <2>2. U[t].done /\ U[t].slot = s
    BY <1>2, <1>4
  <2>3. U[t].called
    BY <1>1, <1>2, <1>4, <2>1 DEF TaskInv
  <2>4. U[t].preparing => U[t].admitted /\ U[t].handler = "none"
    BY <1>4, <2>1 DEF TaskInv
  <2>5. QED
    BY <1>1, <2>2, <2>3, <2>4 DEF TaskInv
<1>7. QueueInv(U, p.queue)
  <2>1. QueueInv(p.tasks, p.queue) /\ \A i \in 1 .. Len(p.queue) : p.queue[i] \in Tasks
    BY <1>1 DEF Fits
  <2>2. \A i \in 1 .. Len(p.queue) : p.queue[i] \notin Y
    BY <1>1, <1>2, <2>1 DEF QueueInv
  <2>3. \A i \in 1 .. Len(p.queue) : U[p.queue[i]] = p.tasks[p.queue[i]]
    BY <1>4, <2>1, <2>2
  <2>4. QED
    BY <2>1, <2>3 DEF QueueInv
<1>8. Changes(p.slots, p.tasks, p.queue, q.slots, U, p.queue, {s}, Y)
  BY <1>1, <1>2, <1>3, <1>4, <1>5, <1>6, <1>7 DEF Changes
<1>9. QED
  BY <1>8, FitStep

\* The counters follow
LEMMA RemovalCounts ==
    ASSUME NEW p, NEW s, NEW Y, NEW C, NEW U, NEW a, NEW b, NEW q, Removal(p, s, Y, C, U, a, b, q)
    PROVE  CountInv(q.slots, U, a, b, p.activeTasks)
<1>1. /\ p \in PoolRec /\ p.slots \in [Slots -> SlotRec] /\ Good(p) /\ s \in Slots
      /\ p.pendingTasks \in Int /\ p.pendingBytes \in Int
      /\ CountInv(p.slots, p.tasks, p.pendingTasks, p.pendingBytes, p.activeTasks)
  BY DEF Removal, Good, PoolRec
<1>2. p.slots[s].task = NoTask /\ p.slots[s].live /\ Y \in SUBSET Tasks
  BY <1>1, RetiringSlot DEF Removal
<1>3. q.slots[s] = NoSlotEntry /\ \A x \in Slots \ {s} : q.slots[x] = p.slots[x]
  BY <1>1 DEF Removal, RemovalOnly
<1>4. /\ C = {t \in Y : p.tasks[t].admitted /\ ~p.tasks[t].preparing}
      /\ \A t \in Tasks \ Y : U[t] = p.tasks[t]
      /\ \A t \in Y : U[t].admitted = (p.tasks[t].admitted /\ t \notin C)
  BY DEF Removal, Completed
<1>5. C \in SUBSET Charged(p.tasks) /\ Charged(U) = Charged(p.tasks) \ C
  <2>1. \A t \in Tasks : U[t].admitted <=> p.tasks[t].admitted /\ t \notin C
    BY <1>2, <1>4
  <2>2. Charged(U) = Charged(p.tasks) \ C
    BY <2>1 DEF Charged
  <2>3. QED
    BY <1>2, <1>4, <2>2 DEF Charged
<1>6. ASSUME NEW T, NEW D \in SUBSET Charged(T), NEW T2, Charged(T2) = Charged(T) \ D
      PROVE  /\ Cardinality(Charged(T2)) = Cardinality(Charged(T)) - Cardinality(D)
             /\ Cardinality(Charged(T2) \cap Big) =
                   Cardinality(Charged(T) \cap Big) - Cardinality(D \cap Big)
             /\ Cardinality(D) \in Nat /\ Cardinality(D \cap Big) \in Nat
  BY <1>6, ChargesDrop
<1>7. PICK c, d \in Nat : c = Cardinality(C) /\ d = Cardinality(C \cap Big)
  BY <1>5, <1>6
<1>8. PICK m, n \in Int : m = Cardinality(Charged(p.tasks))
                          /\ n = Cardinality(Charged(p.tasks) \cap Big)
  BY ChargedFinite
<1>9. Cardinality(Charged(U)) = m - c /\ Cardinality(Charged(U) \cap Big) = n - d
  BY <1>5, <1>6, <1>7, <1>8, ZenonT(40)
<1>10. /\ p.pendingTasks = m /\ p.pendingBytes = m + n
      /\ m <= MaxPendingTasks /\ m + n <= MaxPendingBytes
  BY <1>1, <1>8 DEF CountInv
<1>11. a = m - c /\ b = m + n - c - d
  BY <1>7, <1>10 DEF Removal
<1>12. a = Cardinality(Charged(U))
       /\ b = Cardinality(Charged(U)) + Cardinality(Charged(U) \cap Big)
  <2>1. m + n - c - d = (m - c) + (n - d)
    OBVIOUS
  <2>2. QED
    BY <1>9, <1>11, <2>1
<1>13. a <= MaxPendingTasks /\ b <= MaxPendingBytes
  <2>1. MaxPendingTasks \in Int /\ MaxPendingBytes \in Int
    BY PoolAssumption
  <2>2. QED
    BY <1>10, <1>11, <2>1
<1>14. Busy(q.slots) = Busy(p.slots)
  <2>1. NoSlotEntry.task = NoTask
    BY DEF NoSlotEntry
  <2>2. QED
    BY <1>2, <1>3, <2>1 DEF Busy
<1>15. Cardinality(Alive(q.slots)) <= MaxWorkers
  <2>1. Alive(q.slots) \in SUBSET Alive(p.slots) /\ Alive(p.slots) \in SUBSET Slots
    <3>1. ~NoSlotEntry.live
      BY DEF NoSlotEntry
    <3>2. QED
      BY <1>3, <3>1 DEF Alive
  <2>2. Cardinality(Alive(q.slots)) <= Cardinality(Alive(p.slots))
    BY <2>1, SlotSubset
  <2>3. Cardinality(Alive(q.slots)) \in Nat /\ Cardinality(Alive(p.slots)) \in Nat
    BY <2>1, SlotsFinite
  <2>4. Cardinality(Alive(p.slots)) <= MaxWorkers /\ MaxWorkers \in Nat
    BY <1>1, PoolConstants DEF CountInv
  <2>5. QED
    BY <2>2, <2>3, <2>4
<1>16. p.activeTasks = Cardinality(Busy(q.slots))
  BY <1>1, <1>14 DEF CountInv
<1>17. QED
  BY <1>12, <1>13, <1>15, <1>16 DEF CountInv

\* The removal keeps the invariant
LEMMA RemovalGood ==
    ASSUME NEW p, NEW s, NEW Y, NEW C, NEW U, NEW a, NEW b, NEW q, Removal(p, s, Y, C, U, a, b, q),
           Hosted(p)
    PROVE  Good(q) /\ Hosted(q)
<1>1. /\ Good(p) /\ p.slots \in [Slots -> SlotRec] /\ s \in Slots /\ RotInv(p)
      /\ Fits(p.slots, p.tasks, p.queue) /\ p.rotated \in SUBSET Slots
  BY DEF Removal, Good, PoolRec
<1>2. /\ q \in PoolRec /\ q.tasks = U /\ q.queue = p.queue /\ q.pendingTasks = a
      /\ q.pendingBytes = b /\ q.activeTasks = p.activeTasks /\ Kept(p, q)
  BY DEF Removal, RemovalOnly
<1>3. q.slots[s] = NoSlotEntry /\ \A x \in Slots \ {s} : q.slots[x] = p.slots[x]
  BY <1>1 DEF Removal, RemovalOnly
<1>4. NoSlotEntry.task = NoTask
  BY DEF NoSlotEntry
<1>5. RotInv(q)
  BY <1>1, <1>2, <1>3, <1>4 DEF RotInv, Kept
<1>6. Good(q)
  BY <1>2, <1>5, RemovalFits, RemovalCounts DEF Good
<1>7. ASSUME NEW x \in Slots PROVE HostInv(q.slots, q.tasks, x)
  <2>1. CASE x = s
    BY <1>3, <1>4, <2>1 DEF HostInv
  <2>2. CASE x # s
    <3>1. /\ q.slots[x] = p.slots[x] /\ SlotInv(p.slots, p.tasks, x)
          /\ HostInv(p.slots, p.tasks, x) /\ p.slots[x].task \in Tasks \cup {NoTask}
      BY <1>1, <1>3, <2>2 DEF Fits, Hosted, SlotRec
    <3>2. \A t \in Y : p.tasks[t].slot = s
      BY <1>1, RetiringSlot DEF Removal
    <3>3. \A t \in Tasks \ Y : U[t] = p.tasks[t]
      BY DEF Removal, Completed
    <3>4. p.slots[x].task # NoTask => U[p.slots[x].task] = p.tasks[p.slots[x].task]
      BY <2>2, <3>1, <3>2, <3>3 DEF SlotInv
    <3>5. QED
      BY <1>2, <3>1, <3>4 DEF HostInv
  <2>3. QED
    BY <2>1, <2>2
<1>8. QED
  BY <1>6, <1>7 DEF Hosted

\* terminate() resolved: the slot goes, its tasks complete, dispatch
LEMMA RetiredKeeps ==
    ASSUME Sound(pool), NEW s \in Slots, Retired(s)
    PROVE  Sound(pool')
<1>1. /\ pool \in PoolRec /\ pool.slots \in [Slots -> SlotRec] /\ pool.tasks \in [Tasks -> TaskRec]
      /\ Good(pool) /\ Hosted(pool) /\ pool.pendingTasks \in Int /\ pool.pendingBytes \in Int
  BY DEF Sound, Good, PoolRec
<1>2. pool.slots[s].retiring
  BY DEF Retired
<1>3. PICK Y : Y = pool.slots[s].completions
  OBVIOUS
<1>4. Y \in SUBSET Tasks
  BY <1>1, <1>2, <1>3, RetiringSlot
<1>5. PICK C : C = {t \in Y : pool.tasks[t].admitted /\ ~pool.tasks[t].preparing}
  OBVIOUS
<1>6. PICK U : U = [t \in Tasks |->
                      IF t \notin Y THEN pool.tasks[t]
                      ELSE [pool.tasks[t] EXCEPT !.admitted = (@ /\ t \notin C), !.consumed = TRUE,
                                                 !.exchange = "none", !.settled = TRUE]]
  OBVIOUS
<1>7. /\ \A t \in Tasks \ Y : U[t] = pool.tasks[t]
      /\ \A t \in Tasks : t \in Y => U[t] = [pool.tasks[t] EXCEPT !.admitted = (@ /\ t \notin C),
                                 !.consumed = TRUE, !.exchange = "none", !.settled = TRUE]
      /\ U = [t \in Tasks |-> U[t]]
  BY <1>6
<1>8. ASSUME NEW t \in Y
      PROVE  /\ U[t] \in TaskRec
             /\ U[t].called = pool.tasks[t].called /\ U[t].done = pool.tasks[t].done
             /\ U[t].preparing = pool.tasks[t].preparing /\ U[t].slot = pool.tasks[t].slot
             /\ U[t].handler = pool.tasks[t].handler
             /\ U[t].admitted = (pool.tasks[t].admitted /\ t \notin C)
  <2>1. PICK v \in TaskRec : v = pool.tasks[t]
    BY <1>1, <1>4
  <2>2. PICK b \in BOOLEAN : b = (v.admitted /\ t \notin C)
    OBVIOUS
  <2>3. PICK u : u = [v EXCEPT !.admitted = b, !.consumed = TRUE, !.exchange = "none",
                               !.settled = TRUE]
    OBVIOUS
  <2>4. U[t] = u
    BY <1>4, <1>7, <2>1, <2>2, <2>3 DEF TaskRec
  <2>5. /\ u \in TaskRec /\ u.called = v.called /\ u.done = v.done /\ u.preparing = v.preparing
        /\ u.slot = v.slot /\ u.handler = v.handler /\ u.admitted = b
    BY <2>1, <2>2, <2>3, ZenonT(40) DEF TaskRec
  <2>6. QED
    BY <2>1, <2>2, <2>4, <2>5
<1>9. U \in [Tasks -> TaskRec]
  <2>1. \A t \in Tasks : U[t] \in TaskRec
    BY <1>1, <1>7, <1>8
  <2>2. QED
    BY <1>7, <2>1
<1>10. Completed(pool.tasks, Y, C, U)
  BY <1>4, <1>5, <1>7, <1>8, <1>9 DEF Completed
<1>11. PICK a, b : a = pool.pendingTasks - Cardinality(C)
                   /\ b = pool.pendingBytes - Cardinality(C) - Cardinality(C \cap Big)
  OBVIOUS
<1>12. a \in Int /\ b \in Int
  <2>1. C \in SUBSET Tasks /\ C \cap Big \in SUBSET Tasks
    BY <1>4, <1>5
  <2>2. IsFiniteSet(C) /\ IsFiniteSet(C \cap Big)
    BY <2>1, PoolConstants, FS_Subset
  <2>3. Cardinality(C) \in Nat /\ Cardinality(C \cap Big) \in Nat
    BY <2>2, FS_CardinalityType
  <2>4. QED
    BY <1>1, <1>11, <2>3
<1>13. PICK q : q = [pool EXCEPT !.slots[s] = NoSlotEntry, !.tasks = U, !.pendingTasks = a,
                                 !.pendingBytes = b]
  OBVIOUS
<1>14. NoSlotEntry \in SlotRec
  BY DEF NoSlotEntry, SlotRec
<1>15. RemovalOnly(pool, s, NoSlotEntry, U, a, b, q)
  <2>1. RemovalSet(pool, s, NoSlotEntry, U, a, b, q)
    BY <1>9, <1>12, <1>13, <1>14 DEF RemovalSet
  <2>2. QED
    BY <1>1, <2>1, RemovalFields
<1>16. Good(q) /\ Hosted(q)
  <2>1. Removal(pool, s, Y, C, U, a, b, q)
    BY <1>1, <1>2, <1>3, <1>10, <1>11, <1>15 DEF Removal
  <2>2. QED
    BY <1>1, <2>1, RemovalGood
<1>17. pool' = Dispatch(q)
  <2>1. pool' = AfterExit([pool EXCEPT !.slots[s] = NoSlotEntry,
            !.pendingTasks = @ - Cardinality(C),
            !.pendingBytes = @ - Cardinality(C) - Cardinality(C \cap Big),
            !.tasks = U])
    BY <1>3, <1>5, <1>6 DEF Retired
  <2>2. [pool EXCEPT !.slots[s] = NoSlotEntry,
            !.pendingTasks = @ - Cardinality(C),
            !.pendingBytes = @ - Cardinality(C) - Cardinality(C \cap Big),
            !.tasks = U] = q
    BY <1>1, <1>11, <1>13 DEF PoolRec
  <2>3. QED
    BY <2>1, <2>2 DEF AfterExit
<1>18. QED
  BY <1>16, <1>17, DispatchGood DEF Sound

-----------------------------------------------------------------------------
(* The theorems.                                                           *)

\* The inductive invariant
PoolInvariant == Sound(pool) /\ faults \in Nat /\ rotations \in Nat

\* It holds of the empty pool
LEMMA PoolStarts == Init => PoolInvariant
<1> SUFFICES ASSUME Init PROVE PoolInvariant
  OBVIOUS
<1> PICK p : p = pool
  OBVIOUS
<1>1. PICK restart \in BOOLEAN :
          p = [restartOnError |-> restart, queue |-> <<>>,
               slots |-> [s \in Slots |-> NoSlotEntry], tasks |-> [t \in Tasks |-> FreshTask],
               pendingTasks |-> 0, pendingBytes |-> 0, activeTasks |-> 0,
               closed |-> FALSE, rotation |-> "none", rotated |-> {}, awaited |-> {},
               rotationFailed |-> FALSE]
  BY PoolAssumption DEF Init
<1>2. NoSlotEntry \in SlotRec /\ FreshTask \in TaskRec
  BY DEF NoSlotEntry, SlotRec, FreshTask, TaskRec
<1>3. p \in PoolRec
  BY <1>1, <1>2 DEF PoolRec
<1>4. /\ p.queue = <<>> /\ p.pendingTasks = 0 /\ p.pendingBytes = 0 /\ p.activeTasks = 0
      /\ p.rotation = "none"
      /\ \A s \in Slots : p.slots[s] = NoSlotEntry
      /\ \A t \in Tasks : p.tasks[t] = FreshTask
  BY <1>1
<1>5. /\ NoSlotEntry.task = NoTask /\ NoSlotEntry.exec = NoTask /\ ~NoSlotEntry.live
      /\ NoSlotEntry.reads = {} /\ NoSlotEntry.completions = {}
  BY DEF NoSlotEntry
<1>6. /\ ~FreshTask.called /\ ~FreshTask.done /\ ~FreshTask.admitted /\ ~FreshTask.preparing
      /\ FreshTask.slot = NoSlot /\ ~FreshTask.consumed /\ ~FreshTask.settled
      /\ FreshTask.handler = "none"
  BY DEF FreshTask
<1>7. Fits(p.slots, p.tasks, p.queue)
  <2>1. \A s \in Slots : SlotInv(p.slots, p.tasks, s)
    BY <1>4, <1>5 DEF SlotInv
  <2>2. \A t \in Tasks : TaskInv(p.slots, p.tasks, p.queue, t)
    BY <1>4, <1>6 DEF TaskInv
  <2>3. QueueInv(p.tasks, p.queue)
    BY <1>4 DEF QueueInv
  <2>4. QED
    BY <2>1, <2>2, <2>3 DEF Fits
<1>8. CountInv(p.slots, p.tasks, p.pendingTasks, p.pendingBytes, p.activeTasks)
  <2>1. /\ Charged(p.tasks) = {} /\ Charged(p.tasks) \cap Big = {}
        /\ Busy(p.slots) = {} /\ Alive(p.slots) = {}
    BY <1>4, <1>5, <1>6 DEF Charged, Busy, Alive
  <2>2. Cardinality({}) = 0
    BY FS_EmptySet
  <2>3. 0 <= MaxPendingTasks /\ 0 <= MaxPendingBytes /\ 0 <= MaxWorkers
    BY PoolAssumption
  <2>4. QED
    BY <1>4, <2>1, <2>2, <2>3 DEF CountInv
<1>9. Good(p)
  BY <1>3, <1>4, <1>7, <1>8 DEF Good, RotInv
<1>10. Hosted(p) /\ Justified(p)
  BY <1>4, <1>5 DEF Hosted, HostInv, Justified
<1>11. QED
  BY <1>9, <1>10 DEF PoolInvariant, Sound, Init

\* The counters that bound faults and rotations only grow
LEMMA CountersKeep ==
    ASSUME faults \in Nat, rotations \in Nat, Next
    PROVE  faults' \in Nat /\ rotations' \in Nat
<1>1. ASSUME NEW t \in Tasks, Run(t) \/ Cancel(t) \/ Preparation(t) \/ Host(t)
      PROVE  faults' \in {faults, faults + 1} /\ rotations' = rotations
  <2>1. CASE Run(t) \/ Cancel(t) \/ Host(t)
    BY <2>1 DEF Run, Cancel, Host, HostAnswers, HostFails
  <2>2. CASE Preparation(t)
    BY <2>2 DEF Preparation, Prepared, PreparationFails, FeedFails
  <2>3. QED
    BY <1>1, <2>1, <2>2
<1>2. ASSUME NEW s \in Slots,
             IdleTimeout(s) \/ Retirement(s) \/ Messages(s) \/ WorkerFaults(s) \/ WorkerExits(s)
      PROVE  faults' \in {faults, faults + 1} /\ rotations' = rotations
  <2>1. CASE IdleTimeout(s)
    BY <2>1 DEF IdleTimeout
  <2>2. CASE Retirement(s)
    BY <2>2 DEF Retirement, Retired, RetirementFails
  <2>3. CASE Messages(s)
    BY <2>3 DEF Messages, Consumes, Requests, Replies
  <2>4. CASE WorkerFaults(s)
    BY <2>4 DEF WorkerFaults
  <2>5. CASE WorkerExits(s)
    BY <2>5, Zenon DEF WorkerExits
  <2>6. QED
    BY <1>2, <2>1, <2>2, <2>3, <2>4, <2>5
<1>3. CASE CloseCalled \/ RotateRetires \/ RotateEnds
  BY <1>3 DEF CloseCalled, RotateRetires, RotateEnds
<1>4. CASE Rotate
  BY <1>4 DEF Rotate
<1>5. QED
  BY <1>1, <1>2, <1>3, <1>4 DEF Next

\* Every step keeps the invariant
LEMMA PoolKeeps == PoolInvariant /\ [Next]_vars => PoolInvariant'
<1> SUFFICES ASSUME PoolInvariant, [Next]_vars PROVE PoolInvariant'
  OBVIOUS
<1>1. Sound(pool) /\ faults \in Nat /\ rotations \in Nat
  BY DEF PoolInvariant
<1>2. ASSUME NEW t \in Tasks, Run(t) \/ Cancel(t) \/ Preparation(t) \/ Host(t)
      PROVE  Sound(pool')
  <2>1. CASE Run(t)
    BY <1>1, <2>1, RunKeeps
  <2>2. CASE Cancel(t)
    BY <1>1, <2>2, CancelKeeps
  <2>3. CASE Preparation(t)
    BY <1>1, <2>3, PreparedKeeps, PreparationFailsKeeps, FeedFailsKeeps DEF Preparation
  <2>4. CASE Host(t)
    BY <1>1, <2>4, HostAnswersKeeps, HostFailsKeeps DEF Host
  <2>5. QED
    BY <1>2, <2>1, <2>2, <2>3, <2>4
<1>3. ASSUME NEW s \in Slots,
             IdleTimeout(s) \/ Retirement(s) \/ Messages(s) \/ WorkerFaults(s) \/ WorkerExits(s)
      PROVE  Sound(pool')
  <2>1. CASE IdleTimeout(s)
    BY <1>1, <2>1, IdleTimeoutKeeps
  <2>2. CASE Retirement(s)
    BY <1>1, <2>2, RetiredKeeps, RetirementFailsKeeps DEF Retirement
  <2>3. CASE Messages(s)
    BY <1>1, <2>3, ConsumesKeeps, RequestsKeeps, RepliesKeeps DEF Messages
  <2>4. CASE WorkerFaults(s)
    BY <1>1, <2>4, WorkerFaultsKeeps
  <2>5. CASE WorkerExits(s)
    BY <1>1, <2>5, WorkerExitsKeeps
  <2>6. QED
    BY <1>3, <2>1, <2>2, <2>3, <2>4, <2>5
<1>4. ASSUME CloseCalled \/ Rotate \/ RotateRetires \/ RotateEnds
      PROVE  Sound(pool')
  BY <1>1, <1>4, CloseCalledKeeps, RotateKeeps, RotateRetiresKeeps, RotateEndsKeeps
<1>5. CASE Next
  <2>1. Sound(pool')
    BY <1>2, <1>3, <1>4, <1>5 DEF Next
  <2>2. QED
    BY <1>1, <1>5, <2>1, CountersKeep DEF PoolInvariant
<1>6. CASE UNCHANGED vars
  <2>1. pool' = pool /\ faults' = faults /\ rotations' = rotations
    BY <1>6 DEF vars
  <2>2. Sound(pool')
    BY <1>1, <2>1
  <2>3. QED
    BY <1>1, <2>1, <2>2 DEF PoolInvariant
<1>7. QED
  BY <1>5, <1>6

\* PoolInvariant holds throughout
THEOREM PoolInvariantHolds == Spec => []PoolInvariant
<1>1. QED
  BY PoolStarts, PoolKeeps, PTL DEF Spec

\* It entails what the runs check
LEMMA InvariantEntails ==
    PoolInvariant => ChargesAreExact /\ OneTaskPerWorker /\ ReleasedIsUnread /\ QueueIsJustified
<1> SUFFICES ASSUME PoolInvariant
             PROVE  ChargesAreExact /\ OneTaskPerWorker /\ ReleasedIsUnread /\ QueueIsJustified
  OBVIOUS
<1>1. /\ pool \in PoolRec /\ Fits(pool.slots, pool.tasks, pool.queue) /\ Justified(pool)
      /\ CountInv(pool.slots, pool.tasks, pool.pendingTasks, pool.pendingBytes, pool.activeTasks)
      /\ faults \in Nat /\ rotations \in Nat
  BY DEF PoolInvariant, Sound, Good
<1>2. /\ \A s \in Slots : SlotInv(pool.slots, pool.tasks, s)
      /\ \A t \in Tasks : TaskInv(pool.slots, pool.tasks, pool.queue, t)
  BY <1>1 DEF Fits
<1>3. {pool.pendingTasks, pool.pendingBytes, pool.activeTasks} \subseteq Nat
  <2>1. PICK c, d \in Nat : c = Cardinality(Charged(pool.tasks))
                            /\ d = Cardinality(Charged(pool.tasks) \cap Big)
    BY ChargedFinite
  <2>2. Cardinality(Busy(pool.slots)) \in Nat
    BY SlotsFinite DEF Busy
  <2>3. pool.pendingTasks = c /\ pool.pendingBytes = c + d
        /\ pool.activeTasks = Cardinality(Busy(pool.slots))
    BY <1>1, <2>1 DEF CountInv
  <2>4. QED
    BY <2>1, <2>2, <2>3
<1>4. TypeOK
  BY <1>1, <1>3 DEF TypeOK, PoolRec, SlotRec, TaskRec
<1>5. ChargesAreExact
  <2>1. {s \in Live(pool) : pool.slots[s].task # NoTask} = Busy(pool.slots)
    BY <1>2 DEF SlotInv, Busy, Live
  <2>2. {t \in Tasks : pool.tasks[t].admitted} = Charged(pool.tasks)
    BY DEF Charged
  <2>3. ASSUME NEW t \in Tasks, pool.tasks[t].preparing \/ \E s \in Slots : pool.slots[s].exec = t
        PROVE  t \in Charged(pool.tasks)
    <3>1. CASE pool.tasks[t].preparing
      BY <1>2, <3>1 DEF TaskInv, Charged
    <3>2. CASE \E s \in Slots : pool.slots[s].exec = t
      <4>1. PICK s \in Slots : pool.slots[s].exec = t
        BY <3>2
      <4>2. pool.tasks[t].admitted
        BY <1>2, <2>3, <4>1, PoolConstants DEF SlotInv
      <4>3. QED
        BY <4>2 DEF Charged
    <3>3. QED
      BY <2>3, <3>1, <3>2
  <2>4. QED
    BY <1>1, <1>4, <2>1, <2>2, <2>3 DEF CountInv, ChargesAreExact
<1>6. OneTaskPerWorker
  <2>1. Live(pool) = Alive(pool.slots)
    BY DEF Live, Alive
  <2>2. QED
    BY <1>1, <1>2, <2>1 DEF OneTaskPerWorker, SlotInv, CountInv
<1>7. ReleasedIsUnread
  <2>1. ASSUME NEW s \in Slots, NEW t \in Tasks
        PROVE  /\ <<t, "input">> \in pool.slots[s].reads => ~pool.tasks[t].consumed
               /\ <<t, "answer">> \in pool.slots[s].reads => pool.tasks[t].exchange = "sent"
    BY <1>2 DEF SlotInv
  <2>2. QED
    BY <2>1 DEF ReleasedIsUnread
<1>8. QueueIsJustified
  BY <1>1 DEF Justified, QueueIsJustified
<1>9. QED
  BY <1>5, <1>6, <1>7, <1>8

\* The counters are what they count, within the limits, and what a factory or a
\* thread still works on is charged: custody of releaseAdmission 611-618
THEOREM ChargesAlwaysExact == Spec => []ChargesAreExact
<1>1. PoolInvariant => ChargesAreExact
  BY InvariantEntails
<1>2. QED
  BY <1>1, PoolInvariantHolds, PTL

\* A thread runs one task, its slot's, and gets no other's buffers, whatever
\* late preparation or slow handler there is (isolation of dispatch and answer)
THEOREM WorkersRunOneTask == Spec => []OneTaskPerWorker
<1>1. PoolInvariant => OneTaskPerWorker
  BY InvariantEntails
<1>2. QED
  BY <1>1, PoolInvariantHolds, PTL

\* Buffers are released after the receipt or the thread's end (receive 392-397)
THEOREM BuffersReleasedUnread == Spec => []ReleasedIsUnread
<1>1. PoolInvariant => ReleasedIsUnread
  BY InvariantEntails
<1>2. QED
  BY <1>1, PoolInvariantHolds, PTL

\* dispatch leaves no task queued beside a free slot (dispatch 203-256)
THEOREM QueueAlwaysJustified == Spec => []QueueIsJustified
<1>1. PoolInvariant => QueueIsJustified
  BY InvariantEntails
<1>2. QED
  BY <1>1, PoolInvariantHolds, PTL
===============================================================================
