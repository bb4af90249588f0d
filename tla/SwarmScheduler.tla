---------------------------- MODULE SwarmScheduler ----------------------------
(***************************************************************************)
(* The in-process scheduler of child runs,                                 *)
(* src/src/agents/subagents/swarm/swarm-scheduler.ts, for one group: runs  *)
(* reserve a FIFO position, are prepared, activated with a launch, started *)
(* when the lane has capacity, and removed by cancellation or shutdown.    *)
(*                                                                         *)
(* An item is one reservation (a QueuedSwarmRun object).  Run ids are used *)
(* again by later reservations, and so are the elements of Items once      *)
(* nothing refers to the old object any more: the number of reservations   *)
(* in a behaviour is not bounded.  All of it runs on one event loop.       *)
(***************************************************************************)
EXTENDS Integers, Sequences, FiniteSets, SequencesExt

CONSTANTS
    Runs,         \* run ids
    NoRun,
    Items,        \* bound: the reservations that exist at a time
    NoItem,       \* no item: nothing at this run id, or a restored active run
    Owners,       \* lifecycle owners (gateway lifecycles)
    NoOwner,
    Limits,       \* the values of maxConcurrent the callers pass
    Holdable,     \* bound: the reservations somebody holds, once each
    MaxRestored   \* bound: the restored runs

ASSUME SwarmAssumption ==
    /\ NoItem \notin Items /\ NoOwner \notin Owners /\ NoRun \notin Runs
    /\ IsFiniteSet(Items) /\ Holdable \subseteq Items /\ Limits \subseteq Nat \ {0}

VARIABLES
    lane,     \* the group's lane [limit, active, queue]
    pump,     \* lane.pumpScheduled
    loc,      \* runLocations: [state, item] of each run id
    item,     \* the QueuedSwarmRun objects
    snapshot  \* runs of an earlier process that the durable registry lists as active

vars == <<lane, pump, loc, item, snapshot>>

Nowhere == [state |-> "none", item |-> NoItem]
Unused == [run |-> NoRun, launch |-> FALSE, owner |-> NoOwner, held |-> "no", prep |-> "none",
           pend |-> "none", removal |-> "none", reason |-> "none", joins |-> FALSE]

Init ==
    /\ lane = [limit |-> 0, active |-> {}, queue |-> <<>>]
    /\ pump = FALSE
    /\ loc = [r \in Runs |-> Nowhere]
    /\ item = [i \in Items |-> Unused]
    /\ snapshot \in SUBSET Runs
    /\ IsFiniteSet(snapshot) /\ Cardinality(snapshot) <= MaxRestored

IsQueued(i) == item[i].run # NoRun /\ loc[item[i].run] = [state |-> "queued", item |-> i]
IsActive(i) == item[i].run # NoRun /\ loc[item[i].run] = [state |-> "active", item |-> i]

\* Whether something still refers to an item that is at "at" in runLocations:
\* its location, its pending launch, its removal or its holder
Referenced(i, it, at) ==
    \/ it.run # NoRun /\ at[it.run].item = i
    \/ it.pend \in {"starting", "failing"}
    \/ it.removal \in {"waiting", "cleaning"}
    \/ it.held = "held"

Kept(items, at) == [i \in Items |-> IF Referenced(i, items[i], at) THEN items[i] ELSE Unused]

-----------------------------------------------------------------------------
(* Lanes.                                                                  *)

\* Mutant of Restorable: a restored snapshot overrides a live reservation
RestorableAll(runs) == runs

\* "A live reservation is newer than a restored active snapshot"
Restorable(runs) == {r \in runs : loc[r].state = "none"}

\* ensureLane: the new limit, and the active runs of the restored snapshot
Ensured(limit, runs) ==
    [limit |-> limit, active |-> lane.active \cup Restorable(runs), queue |-> lane.queue]

RestoredLoc(runs) ==
    [r \in Runs |-> IF r \in Restorable(runs) THEN [state |-> "active", item |-> NoItem]
                    ELSE loc[r]]

\* reserveSwarmRun: a FIFO position before the asynchronous preparation begins
Reserve(i, r, limit, restored) ==
    LET l == Ensured(limit, restored)
        at == RestoredLoc(restored)
    IN  /\ item[i] = Unused
        /\ IF at[r].state # "none"
           THEN /\ lane' = l /\ loc' = at
                /\ item' = item
           ELSE /\ lane' = [l EXCEPT !.queue = Append(@, i)]
                /\ loc' = [at EXCEPT ![r] = [state |-> "queued", item |-> i]]
                /\ item' = [item EXCEPT ![i] = [Unused EXCEPT !.run = r]]
        /\ UNCHANGED <<pump, snapshot>>

-----------------------------------------------------------------------------
(* Removal and release.                                                    *)

\* Mutant of Joins: the cleanup does not wait for an admitted launch
JoinsNothing(i) == FALSE

\* Mutant of Joins: it waits for a launch that was never admitted
JoinsAlways(i) == TRUE

\* Whether the cleanup has a pendingLaunch to wait for
Joins(i) == item[i].pend # "none"

\* finalizeRemovedRun: the cleanup of the items in "those" begins, once each
\* and only where there is something to clean up; a shutdown overrides the reason
Finalized(those, reason) ==
    [i \in Items |->
        IF i \notin those THEN item[i]
        ELSE IF item[i].removal = "none" /\ (item[i].launch \/ item[i].prep # "none")
        THEN [item[i] EXCEPT !.removal = "waiting", !.reason = reason, !.joins = Joins(i)]
        ELSE [item[i] EXCEPT !.reason = IF reason = "shutdown" THEN reason ELSE @]]

\* The queue without "those", in the same order: the places that are kept, each
\* moved up to its rank among them
Without(queue, those) ==
    LET kept == {n \in DOMAIN queue : queue[n] \notin those}
        Nth(j) == CHOOSE n \in kept : Cardinality({m \in kept : m <= n}) = j
    IN  [j \in 1 .. Cardinality(kept) |-> queue[Nth(j)]]

\* Mutant of PumpAfter: capacity is given back without a pump
PumpAfterNothing(l) == pump

\* pumpLane, then deleteLaneIfIdle: the pump of a deleted lane does nothing
PumpAfter(l) == l.active # {} \/ l.queue # <<>>

\* removeQueuedSwarmRun and releaseSwarmRun: the locations go, the lane is
\* pumped, and deleted if idle
Vacate(those, runs, items) ==
    /\ loc' = [r \in Runs |-> IF r \in runs THEN Nowhere ELSE loc[r]]
    /\ lane' = [lane EXCEPT !.queue = Without(@, those), !.active = @ \ runs]
    /\ pump' = IF runs = {} THEN pump ELSE PumpAfter(lane')
    /\ item' = Kept(items, loc')

\* The launch's signal aborts, or a holder withdraws the reservation
Cancel(i) ==
    /\ IsQueued(i) /\ (item[i].launch \/ item[i].held = "held")
    /\ Vacate({i}, {item[i].run}, Finalized({i}, "cancelled"))
    /\ UNCHANGED snapshot

\* releaseSwarmRun by the run's owner: the run has ended
Release(r) ==
    /\ loc[r].state = "active"
    /\ Vacate({}, {r}, item)
    /\ snapshot' = snapshot \ {r}

\* The preparation's promise and the admitted launch have settled: onRemoved
\* is called
RemovalJoins(i) ==
    /\ item[i].removal = "waiting"
    /\ item[i].prep # "pending"
    /\ item[i].joins => item[i].pend = "settled"
    /\ item' = [item EXCEPT ![i].removal = "cleaning"]
    /\ UNCHANGED <<lane, pump, loc, snapshot>>

\* onRemoved returns or throws
RemovalEnds(i) ==
    /\ item[i].removal = "cleaning"
    /\ item' = Kept([item EXCEPT ![i].removal = "done"], loc)
    /\ UNCHANGED <<lane, pump, loc, snapshot>>

-----------------------------------------------------------------------------
(* Activation, holds and launches.                                         *)

\* activateSwarmRun
Activate(i, o) ==
    /\ IsQueued(i) /\ ~item[i].launch
    /\ item' = [item EXCEPT ![i].launch = TRUE, ![i].owner = o]
    /\ pump' = TRUE
    /\ UNCHANGED <<lane, loc, snapshot>>

\* holdQueuedSwarmRun
Hold(i) ==
    /\ IsQueued(i) /\ item[i].held = "no" /\ i \in Holdable
    /\ item' = [item EXCEPT ![i].held = "held"]
    /\ UNCHANGED <<lane, pump, loc, snapshot>>

\* bindPreparation of a current hold
BindPreparation(i, o) ==
    /\ IsQueued(i) /\ item[i].held = "held" /\ item[i].prep = "none"
    /\ item' = [item EXCEPT ![i].prep = "pending",
                            ![i].owner = IF item[i].launch THEN @ ELSE o]
    /\ UNCHANGED <<lane, pump, loc, snapshot>>

PreparationSettles(i) ==
    /\ item[i].prep = "pending"
    /\ item' = [item EXCEPT ![i].prep = "settled"]
    /\ UNCHANGED <<lane, pump, loc, snapshot>>

\* release of a hold pumps the lane the item was in, which is the group's lane
\* as long as the item is queued and may have been deleted later
ReleaseHold(i) ==
    /\ item[i].held = "held"
    /\ item' = Kept([item EXCEPT ![i].held = "released"], loc)
    /\ pump' \in {pump, PumpAfter(lane)} /\ (IsQueued(i) => pump')
    /\ UNCHANGED <<lane, loc, snapshot>>

Launchable(i) == item[i].launch /\ item[i].held # "held"

\* Mutant of Admitted: a launchable run overtakes a held or unprepared one
AdmittedOutOfOrder(l) ==
    LET ready == SelectSeq(l.queue, Launchable)
        n == l.limit - Cardinality(l.active)
    IN  IF n <= 0 THEN <<>> ELSE SubSeq(ready, 1, IF n < Len(ready) THEN n ELSE Len(ready))

\* The runs the loop of pumpLane takes from the head of the queue
Admitted(l) ==
    LET k == CHOOSE k \in 0 .. Len(l.queue) :
                /\ \A j \in 1 .. k : Launchable(l.queue[j]) /\ Cardinality(l.active) + j <= l.limit
                /\ k < Len(l.queue) => ~Launchable(l.queue[k + 1])
                                       \/ Cardinality(l.active) + k >= l.limit
    IN  SubSeq(l.queue, 1, k)

\* The pump microtask: "acquiring capacity and invoking launch are one
\* synchronous dispatch boundary"
Pump ==
    LET started == Range(Admitted(lane))
        runs == {item[i].run : i \in started}
    IN  /\ pump
        /\ pump' = FALSE
        /\ lane' = [lane EXCEPT !.queue = Without(@, started),
                                !.active = @ \cup runs]
        /\ loc' = [r \in Runs |-> IF r \in runs THEN [loc[r] EXCEPT !.state = "active"]
                                  ELSE loc[r]]
        /\ item' = [i \in Items |-> IF i \in started THEN [item[i] EXCEPT !.pend = "starting"]
                                    ELSE item[i]]
        /\ UNCHANGED snapshot

\* launch.start() resolves
StartSucceeds(i) ==
    /\ item[i].pend = "starting"
    /\ item' = Kept([item EXCEPT ![i].pend = "settled"], loc)
    /\ UNCHANGED <<lane, pump, loc, snapshot>>

\* launch.start() rejects: onStartFailure runs
StartFails(i) ==
    /\ item[i].pend = "starting"
    /\ item' = [item EXCEPT ![i].pend = "failing"]
    /\ UNCHANGED <<lane, pump, loc, snapshot>>

\* onStartFailure settles.  A failure that is durable gives the slot back; an
\* unconfirmed one keeps it until shutdown; a run that has left its slot, or a
\* retained close error, has the item cleaned up.
FailureSettles(i, out) ==
    /\ item[i].pend = "failing"
    /\ LET cleaned == IF out = "retained" \/ ~IsActive(i) THEN {i} ELSE {}
           items == [Finalized(cleaned, "cancelled") EXCEPT ![i].pend = "settled"]
           left == IF out = "persisted" /\ IsActive(i) THEN {item[i].run} ELSE {}
       IN  Vacate({}, left, items)
    /\ UNCHANGED snapshot

-----------------------------------------------------------------------------
(* Shutdown.                                                               *)

\* The items closeSwarmScheduler(o) retires and awaits: pending removals and
\* launches, and located items with a launch or a preparation, of this owner
Owned(o) ==
    {i \in Items : /\ item[i].owner = o
                   /\ \/ item[i].removal \in {"waiting", "cleaning"}
                      \/ item[i].pend \in {"starting", "failing"}
                      \/ IsQueued(i) \/ IsActive(i)}

Close(o) ==
    /\ Owned(o) # {}
    /\ Vacate(Owned(o), {item[i].run : i \in {j \in Owned(o) : IsQueued(j) \/ IsActive(j)}},
              Finalized(Owned(o), "shutdown"))
    /\ UNCHANGED snapshot

-----------------------------------------------------------------------------
Reservation(i) ==
    \E r \in Runs, limit \in Limits, restored \in SUBSET snapshot : Reserve(i, r, limit, restored)
Launch(i) == \/ StartSucceeds(i) \/ StartFails(i)
             \/ \E out \in {"persisted", "unconfirmed", "retained"} : FailureSettles(i, out)
Removal(i) == RemovalJoins(i) \/ RemovalEnds(i)

Next ==
    \/ \E i \in Items : \/ Reservation(i) \/ Cancel(i) \/ Removal(i) \/ Launch(i)
                        \/ Hold(i) \/ ReleaseHold(i) \/ PreparationSettles(i)
                        \/ \E o \in Owners : Activate(i, o) \/ BindPreparation(i, o)
    \/ \E r \in Runs : Release(r)
    \/ Pump
    \/ \E o \in Owners : Close(o)

Spec == Init /\ [][Next]_vars

\* Microtasks run, launches, preparations and cleanups settle, holders let go,
\* active runs end, and every reservation is activated (or removed)
LiveSpec ==
    /\ Spec
    /\ \A i \in Items : /\ WF_vars(Launch(i)) /\ WF_vars(Removal(i))
                        /\ WF_vars(PreparationSettles(i)) /\ WF_vars(ReleaseHold(i))
                        /\ WF_vars(\E o \in Owners : Activate(i, o))
    /\ \A r \in Runs : WF_vars(Release(r))
    /\ WF_vars(Pump)

-----------------------------------------------------------------------------
(* Properties.                                                             *)

\* Every variable keeps its type, and a removal has a reason for onRemoved
TypeOK ==
    /\ lane \in [limit : Nat, active : SUBSET Runs, queue : Seq(Items)]
    /\ pump \in BOOLEAN
    /\ loc \in [Runs -> [state : {"none", "queued", "active"}, item : Items \cup {NoItem}]]
    /\ item \in [Items -> [run : Runs \cup {NoRun}, launch : BOOLEAN,
           owner : Owners \cup {NoOwner}, held : {"no", "held", "released"},
           prep : {"none", "pending", "settled"},
           pend : {"none", "starting", "failing", "settled"},
           removal : {"none", "waiting", "cleaning", "done"},
           reason : {"none", "cancelled", "shutdown"}, joins : BOOLEAN]]
    /\ \A i \in Items : item[i].removal # "none" => item[i].reason # "none"
    /\ snapshot \in SUBSET Runs

\* runLocations and the lane describe the same world: a queued run is one node
\* of the queue, an active run one of the slots, and there is nothing else in
\* either, whatever snapshots are restored and run ids used again
\* (ensureLane 243-251, removeQueuedSwarmRun, releaseSwarmRun); the state is
\* well typed
OnePlace ==
    /\ TypeOK
    /\ \A r \in Runs : loc[r].state = "active" <=> r \in lane.active
    /\ \A r \in Runs : loc[r].state = "queued" =>
          /\ loc[r].item \in Range(lane.queue) /\ item[loc[r].item].run = r
    /\ \A i \in Range(lane.queue) : IsQueued(i)
    /\ Cardinality(Range(lane.queue)) = Len(lane.queue)

\* "Release preparation only after an abandoned launch can no longer use it":
\* onRemoved is never called while start or onStartFailure of the same run is
\* executing, however cancellation, shutdown, failure and early release of the
\* slot interleave (finalizeRemovedRun 114-155)
CleanupAfterLaunch ==
    \A i \in Items : item[i].removal \in {"cleaning", "done"} =>
        item[i].pend \in {"none", "settled"}

\* A reservation that is being removed is never started, which is what
\* settleCancellation tells the canceller, and no launch is invoked twice;
\* capacity goes by the order of reservation: a run that starts leaves no older
\* one behind in the queue and makes no more active runs than the limit
StartsAreRight ==
    [][\A i \in Items : item[i].pend # "starting" /\ item'[i].pend = "starting" =>
          /\ item[i].pend = "none" /\ item[i].removal = "none"
          /\ \A j, k \in DOMAIN lane.queue : lane.queue[j] = i /\ k < j =>
                lane.queue[k] \notin Range(lane'.queue)
          /\ Cardinality({r \in Runs : loc'[r].state = "active"}) <= lane.limit]_vars

\* Every reservation is started or removed in the end, with any number of
\* later reservations competing: a launchable run at the head of the queue has
\* its pump queued by every release, removal, activation and end of a hold
\* (pumpLane)
EveryRunIsServed == \A i \in Items : IsQueued(i) ~> ~IsQueued(i)

\* Every cleanup ends, so a shutdown that awaits it returns
RemovalReturns ==
    \A i \in Items : item[i].removal = "waiting" ~> item[i].removal \in {"none", "done"}
=============================================================================
