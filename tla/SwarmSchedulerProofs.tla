------------------------- MODULE SwarmSchedulerProofs -------------------------
(***************************************************************************)
(* The lane and runLocations describe the same world, no cleanup overlaps  *)
(* a launch, and runs start in order within the limit, for every number of *)
(* reservations, run ids, owners and restored runs and every limit.        *)
(***************************************************************************)
EXTENDS SwarmScheduler, SequenceTheorems, FiniteSetTheorems, WellFoundedInduction, TLAPS

States == {"none", "queued", "active"}
Reservations ==
    [run : Runs \cup {NoRun}, launch : BOOLEAN, owner : Owners \cup {NoOwner},
     held : {"no", "held", "released"}, prep : {"none", "pending", "settled"},
     pend : {"none", "starting", "failing", "settled"},
     removal : {"none", "waiting", "cleaning", "done"},
     reason : {"none", "cancelled", "shutdown"}, joins : BOOLEAN]
Positions == DOMAIN lane.queue

\* The queue, the slots and the locations agree
LaneInv ==
    /\ \A r \in Runs : loc[r].state = "active" <=> r \in lane.active
    /\ \A r \in Runs : loc[r].state = "queued" =>
          /\ \E n \in Positions : lane.queue[n] = loc[r].item
          /\ item[loc[r].item].run = r
    /\ \A n \in Positions : IsQueued(lane.queue[n])
    /\ \A m, n \in Positions : lane.queue[m] = lane.queue[n] => m = n

\* What is in the queue was never admitted and is not being removed
FreshInv ==
    \A n \in Positions : item[lane.queue[n]].pend = "none" /\ item[lane.queue[n]].removal = "none"

\* A cleanup that does not wait for a launch has none, and one that has begun
\* has none any more
Settled(it) ==
    /\ it.removal # "none" /\ ~it.joins => it.pend = "none"
    /\ it.removal \in {"cleaning", "done"} => it.pend \in {"none", "settled"}
    /\ it.removal # "none" => it.reason # "none"

CleanInv == \A i \in Items : Settled(item[i])

\* Only finitely many runs are restored, so only finitely many are active
FiniteInv == IsFiniteSet(lane.active) /\ IsFiniteSet(snapshot)

IInv == TypeOK /\ LaneInv /\ FreshInv /\ CleanInv /\ FiniteInv

-----------------------------------------------------------------------------
(* Numbers and queues.                                                     *)

\* Every non-empty set of numbers has a least element
LEMMA LeastNumber ==
    ASSUME NEW T \in SUBSET Nat, T # {}
    PROVE  \E x \in T : \A y \in T : x <= y
<1>1. PICK x \in T : \A y \in T : ~(<<y, x>> \in OpToRel(<, Nat))
  BY NatLessThanWellFounded, WFMin
<1>2. \A y \in T : ~(y < x)
  BY <1>1 DEF OpToRel
<1>3. QED
  BY <1>2

\* The elements of a finite set of numbers are numbered by their ranks
LEMMA Ranks ==
    ASSUME NEW last \in Nat, NEW kept \in SUBSET (1 .. last)
    PROVE  /\ IsFiniteSet(kept) /\ Cardinality(kept) \in Nat
           /\ \A n \in kept : Cardinality({m \in kept : m <= n}) \in 1 .. Cardinality(kept)
           /\ \A m, n \in kept :
                 Cardinality({x \in kept : x <= m}) = Cardinality({x \in kept : x <= n}) => m = n
           /\ \A j \in 1 .. Cardinality(kept) :
                 \E n \in kept : Cardinality({m \in kept : m <= n}) = j
<1> DEFINE C == Cardinality(kept)
           Upto(n) == {m \in kept : m <= n}
<1>1. IsFiniteSet(kept) /\ C \in Nat
  <2>1. IsFiniteSet(1 .. last)
    BY FS_Interval
  <2>2. IsFiniteSet(kept)
    BY <2>1, FS_Subset
  <2>3. QED
    BY <2>2, FS_CardinalityType
<1>2. ASSUME NEW n \in kept PROVE IsFiniteSet(Upto(n)) /\ Cardinality(Upto(n)) \in 1 .. C
  <2>1. Upto(n) \in SUBSET kept
    OBVIOUS
  <2>2. IsFiniteSet(Upto(n)) /\ Cardinality(Upto(n)) <= C
    BY <1>1, <2>1, FS_Subset
  <2>3. Cardinality(Upto(n)) \in Nat
    BY <2>2, FS_CardinalityType
  <2>4. n \in Upto(n)
    BY <1>2
  <2>5. Cardinality(Upto(n)) # 0
    BY <2>2, <2>4, FS_EmptySet
  <2>6. QED
    BY <1>1, <2>2, <2>3, <2>5
<1>3. ASSUME NEW m \in kept, NEW n \in kept, m < n
      PROVE  Cardinality(Upto(m)) # Cardinality(Upto(n))
  <2>1. Upto(m) \in SUBSET Upto(n)
    <3>1. \A x \in kept : x \in Nat
      OBVIOUS
    <3>2. \A x \in kept : x <= m => x <= n
      BY <1>3, <3>1
    <3>3. QED
      BY <3>2
  <2>2. n \in Upto(n) /\ n \notin Upto(m)
    BY <1>3
  <2>3. IsFiniteSet(Upto(n))
    BY <1>2
  <2> HIDE DEF Upto
  <2>4. Upto(m) # Upto(n)
    BY <2>2
  <2>5. Cardinality(Upto(n)) = Cardinality(Upto(m)) => Upto(n) = Upto(m)
    BY <2>1, <2>3, FS_Subset
  <2>6. QED
    BY <2>4, <2>5
<1>4. ASSUME NEW m \in kept, NEW n \in kept, Cardinality(Upto(m)) = Cardinality(Upto(n))
      PROVE  m = n
  <2>1. m \in Nat /\ n \in Nat
    OBVIOUS
  <2>2. ~(m < n) /\ ~(n < m)
    BY <1>3, <1>4
  <2>3. QED
    BY <2>1, <2>2
<1> DEFINE f == [n \in kept |-> Cardinality(Upto(n))]
<1>5. f \in Injection(kept, 1 .. C)
  <2>1. f \in [kept -> 1 .. C]
    BY <1>2
  <2>2. IsInjective(f)
    BY <1>4 DEF IsInjective
  <2>3. QED
    BY <2>1, <2>2 DEF Injection
<1>6. IsFiniteSet(1 .. C) /\ Cardinality(1 .. C) = C
  BY <1>1, FS_Interval
<1>7. f \in Surjection(kept, 1 .. C)
  BY <1>5, <1>6, FS_Injection
<1>8. \A j \in 1 .. C : \E n \in kept : f[n] = j
  BY <1>7 DEF Surjection
<1>9. \A j \in 1 .. C : \E n \in kept : Cardinality(Upto(n)) = j
  BY <1>8
<1>10. QED
  BY <1>1, <1>2, <1>4, <1>9

\* A queue without some of its items has the others
LEMMA WithoutFacts ==
    ASSUME NEW q \in Seq(Items), \A m, n \in DOMAIN q : q[m] = q[n] => m = n,
           NEW those, NEW d, d = Without(q, those)
    PROVE  /\ d \in Seq(Items)
           /\ \A n \in DOMAIN d : d[n] \notin those /\ \E m \in DOMAIN q : q[m] = d[n]
           /\ \A m \in DOMAIN q : q[m] \notin those => \E n \in DOMAIN d : d[n] = q[m]
           /\ \A m, n \in DOMAIN d : d[m] = d[n] => m = n
<1>1. Len(q) \in Nat /\ DOMAIN q = 1 .. Len(q) /\ q \in [1 .. Len(q) -> Items]
  BY LenProperties
<1> DEFINE kept == {n \in DOMAIN q : q[n] \notin those}
           C == Cardinality(kept)
           Rank(n) == Cardinality({m \in kept : m <= n})
           Nth(j) == CHOOSE n \in kept : Rank(n) = j
<1>2. kept \in SUBSET (1 .. Len(q))
  BY <1>1
<1>3. /\ C \in Nat /\ \A n \in kept : Rank(n) \in 1 .. C
      /\ \A m, n \in kept : Rank(m) = Rank(n) => m = n
      /\ \A j \in 1 .. C : \E n \in kept : Rank(n) = j
  BY <1>1, <1>2, Ranks
<1>4. d = [j \in 1 .. C |-> q[Nth(j)]]
  BY DEF Without
<1> HIDE DEF kept, C, Rank
<1>5. \A j \in 1 .. C : Nth(j) \in kept /\ Rank(Nth(j)) = j
  BY <1>3
<1>6. \A n \in kept : Rank(n) \in 1 .. C /\ Nth(Rank(n)) = n
  BY <1>3, <1>5
<1> HIDE DEF Nth
<1>7. \A n : n \in kept <=> n \in DOMAIN q /\ q[n] \notin those
  BY DEF kept
<1>8. DOMAIN d = 1 .. C /\ \A j \in 1 .. C : d[j] = q[Nth(j)]
  BY <1>4
<1>9. \A j \in 1 .. C : q[Nth(j)] \in Items
  BY <1>1, <1>5, <1>7
<1>10. d \in Seq(Items)
  <2>1. d \in [1 .. C -> Items]
    BY <1>4, <1>9
  <2>2. QED
    BY <1>3, <2>1, SeqDef
<1>11. \A n \in DOMAIN d : d[n] \notin those /\ \E m \in DOMAIN q : q[m] = d[n]
  BY <1>5, <1>7, <1>8
<1>12. \A m \in DOMAIN q : q[m] \notin those => \E n \in DOMAIN d : d[n] = q[m]
  BY <1>6, <1>7, <1>8
<1>13. ASSUME NEW m \in DOMAIN d, NEW n \in DOMAIN d, d[m] = d[n] PROVE m = n
  <2>1. Nth(m) = Nth(n)
    BY <1>5, <1>7, <1>8, <1>13
  <2>2. QED
    BY <1>5, <1>8, <2>1
<1>14. QED
  BY <1>10, <1>11, <1>12, <1>13

\* What the pump admits is the longest prefix of launchable runs that fits
LEMMA AdmittedFacts ==
    ASSUME lane.queue \in Seq(Items), lane.limit \in Nat, IsFiniteSet(lane.active)
    PROVE  \E k \in 0 .. Len(lane.queue) :
              /\ Range(Admitted(lane)) = {lane.queue[j] : j \in 1 .. k}
              /\ \A j \in 1 .. k : /\ Launchable(lane.queue[j])
                                   /\ Cardinality(lane.active) + j <= lane.limit
<1>1. PICK q : q = lane.queue
  OBVIOUS
<1>2. PICK c : c = Cardinality(lane.active)
  OBVIOUS
<1>3. PICK l : l = lane.limit
  OBVIOUS
<1>4. Len(q) \in Nat /\ DOMAIN q = 1 .. Len(q) /\ q \in Seq(Items)
  BY <1>1, LenProperties
<1>5. c \in Nat /\ l \in Nat
  BY <1>2, <1>3, FS_CardinalityType
<1> DEFINE Stops(k) == k < Len(q) => ~Launchable(q[k + 1]) \/ c + k >= l
           Fits(k) == \A j \in 1 .. k : Launchable(q[j]) /\ c + j <= l
           Stopping == {k \in 0 .. Len(q) : Stops(k)}
<1>6. Stopping \in SUBSET Nat /\ Len(q) \in Stopping
  BY <1>4
<1>7. PICK k \in Stopping : \A y \in Stopping : k <= y
  BY <1>6, LeastNumber
<1>8. k \in 0 .. Len(q) /\ Stops(k)
  BY <1>7
<1>9. Fits(k)
  <2> SUFFICES ASSUME NEW j \in 1 .. k PROVE Launchable(q[j]) /\ c + j <= l
    OBVIOUS
  <2>1. j - 1 \in 0 .. Len(q) /\ j - 1 < k /\ (j - 1) + 1 = j /\ j - 1 < Len(q) /\ j \in Nat
    BY <1>4, <1>8
  <2>2. j - 1 \notin Stopping
    BY <1>7, <1>8, <2>1
  <2>3. ~Stops(j - 1)
    BY <2>1, <2>2
  <2>4. Launchable(q[j]) /\ ~(c + (j - 1) >= l)
    BY <2>1, <2>3
  <2>5. QED
    BY <1>5, <2>1, <2>4
<1> DEFINE Chosen == CHOOSE n \in 0 .. Len(q) : Fits(n) /\ Stops(n)
<1>10. Chosen \in 0 .. Len(q) /\ Fits(Chosen)
  BY <1>8, <1>9
<1>11. Admitted(lane) = SubSeq(q, 1, Chosen)
  BY <1>1, <1>2, <1>3 DEF Admitted
<1> HIDE DEF Chosen, Fits, Stops
<1>12. PICK n \in 0 .. Len(q) : n = Chosen
  BY <1>10
<1>13. PICK a : a = SubSeq(q, 1, n)
  OBVIOUS
<1>14. DOMAIN a = 1 .. n /\ \A j \in 1 .. n : a[j] = q[j]
  <2>1. \A j \in 1 .. n : q[j] \in Items
    <3>1. q \in [1 .. Len(q) -> Items]
      BY <1>4, LenProperties
    <3>2. \A j \in 1 .. n : j \in 1 .. Len(q)
      BY <1>4, <1>12
    <3>3. QED
      BY <3>1, <3>2
  <2>2. n \in Int /\ n \in Nat
    BY <1>4, <1>12
  <2>3. /\ a \in Seq(Items) /\ Len(a) = IF 1 <= n THEN n - 1 + 1 ELSE 0
        /\ \A j \in 1 .. n - 1 + 1 : a[j] = q[1 + j - 1]
    BY <1>13, <2>1, <2>2, SubSeqProperties
  <2>4. Len(a) = n
    BY <2>2, <2>3
  <2>5. DOMAIN a = 1 .. n
    BY <2>3, <2>4, LenProperties
  <2>6. n - 1 + 1 = n /\ \A j \in 1 .. n : 1 + j - 1 = j
    BY <2>2
  <2>7. QED
    BY <2>3, <2>5, <2>6
<1>15. Range(Admitted(lane)) = {q[j] : j \in 1 .. n}
  BY <1>11, <1>12, <1>13, <1>14 DEF Range
<1>16. \A j \in 1 .. n : Launchable(q[j]) /\ c + j <= l
  BY <1>10, <1>12 DEF Fits
<1>17. QED
  BY <1>1, <1>2, <1>3, <1>12, <1>15, <1>16

-----------------------------------------------------------------------------
(* Items.                                                                  *)

\* A typed state has typed parts
LEMMA Parts ==
    ASSUME TypeOK
    PROVE  /\ lane.limit \in Nat /\ lane.active \in SUBSET Runs /\ lane.queue \in Seq(Items)
           /\ loc \in [Runs -> [state : States, item : Items \cup {NoItem}]]
           /\ item \in [Items -> Reservations] /\ snapshot \in SUBSET Runs
           /\ Positions = 1 .. Len(lane.queue) /\ Len(lane.queue) \in Nat
           /\ \A n \in Positions : lane.queue[n] \in Items
<1>1. lane.queue \in Seq(Items)
  BY DEF TypeOK
<1>2. /\ Positions = 1 .. Len(lane.queue) /\ Len(lane.queue) \in Nat
      /\ \A n \in Positions : lane.queue[n] \in Items
  BY <1>1, LenProperties DEF Positions
<1>3. QED
  BY <1>1, <1>2 DEF TypeOK, States, Reservations

\* An unused item is none of anything
LEMMA UnusedFacts ==
    /\ Unused \in Reservations /\ Settled(Unused) /\ Unused.run = NoRun
    /\ Unused.pend = "none" /\ Unused.removal = "none"
BY DEF Unused, Reservations, Settled

\* Collecting the items nothing refers to takes none that has its location
LEMMA KeptFacts ==
    ASSUME NEW items \in [Items -> Reservations], \A i \in Items : Settled(items[i]),
           NEW at, NEW kept, kept = Kept(items, at)
    PROVE  /\ kept \in [Items -> Reservations] /\ \A i \in Items : Settled(kept[i])
           /\ \A i \in Items : kept[i] = items[i] \/ kept[i] = Unused
           /\ \A i \in Items : items[i].run # NoRun /\ at[items[i].run].item = i =>
                 kept[i] = items[i]
<1>1. kept = [i \in Items |-> IF Referenced(i, items[i], at) THEN items[i] ELSE Unused]
  BY DEF Kept
<1>2. \A i \in Items : kept[i] = items[i] \/ kept[i] = Unused
  BY <1>1
<1>3. \A i \in Items : items[i].run # NoRun /\ at[items[i].run].item = i => kept[i] = items[i]
  BY <1>1 DEF Referenced
<1>4. kept \in [Items -> Reservations]
  BY <1>1, UnusedFacts
<1>5. \A i \in Items : Settled(kept[i])
  BY <1>2, UnusedFacts
<1>6. QED
  BY <1>2, <1>3, <1>4, <1>5

\* Beginning a cleanup keeps what is known of the items
LEMMA FinalizedFacts ==
    ASSUME IInv, NEW those, NEW reason \in {"cancelled", "shutdown"},
           NEW items, items = Finalized(those, reason)
    PROVE  /\ items \in [Items -> Reservations] /\ \A i \in Items : Settled(items[i])
           /\ \A i \in Items : items[i].run = item[i].run /\ items[i].pend = item[i].pend
           /\ \A i \in Items : i \notin those => items[i] = item[i]
           /\ \A i \in Items : items[i].removal # "none" => item[i].pend = "none" \/ items[i].joins
<1>1. item \in [Items -> Reservations] /\ CleanInv
  BY Parts DEF IInv
<1>2. ASSUME NEW i \in Items
      PROVE  /\ items[i] \in Reservations /\ Settled(items[i])
             /\ items[i].run = item[i].run /\ items[i].pend = item[i].pend
             /\ i \notin those => items[i] = item[i]
  <2>1. PICK it : it = item[i]
    OBVIOUS
  <2>2. it \in Reservations /\ Settled(it)
    BY <1>1, <2>1 DEF CleanInv
  <2>3. items[i] = IF i \notin those THEN it
                   ELSE IF it.removal = "none" /\ (it.launch \/ it.prep # "none")
                   THEN [it EXCEPT !.removal = "waiting", !.reason = reason, !.joins = Joins(i)]
                   ELSE [it EXCEPT !.reason = IF reason = "shutdown" THEN reason ELSE @]
    BY <2>1 DEF Finalized
  <2>4. Joins(i) = (it.pend # "none")
    BY <2>1 DEF Joins
  <2>5. CASE i \notin those
    BY <2>1, <2>2, <2>3, <2>5
  <2>6. CASE i \in those /\ it.removal = "none" /\ (it.launch \/ it.prep # "none")
    <3>1. PICK u : u = [it EXCEPT !.removal = "waiting", !.reason = reason,
                                  !.joins = it.pend # "none"]
      OBVIOUS
    <3>2. /\ u \in Reservations /\ u.removal = "waiting" /\ u.reason = reason
          /\ (u.joins <=> it.pend # "none") /\ u.run = it.run /\ u.pend = it.pend
      <4>1. /\ u.removal = "waiting" /\ u.reason = reason
            /\ u.joins = (it.pend # "none") /\ u.run = it.run /\ u.pend = it.pend
        BY <2>2, <3>1 DEF Reservations
      <4>2. (it.pend # "none") \in BOOLEAN
        OBVIOUS
      <4>3. u \in Reservations
        BY <2>2, <3>1, <4>2 DEF Reservations
      <4>4. QED
        BY <4>1, <4>3
    <3>3. items[i] = u
      BY <2>3, <2>4, <2>6, <3>1
    <3>4. Settled(u)
      BY <3>2 DEF Settled
    <3>5. QED
      BY <2>1, <2>6, <3>2, <3>3, <3>4
  <2>7. CASE i \in those /\ ~(it.removal = "none" /\ (it.launch \/ it.prep # "none"))
    <3>1. PICK u : u = [it EXCEPT !.reason = IF reason = "shutdown" THEN reason ELSE it.reason]
      OBVIOUS
    <3>2. /\ u \in Reservations /\ u.removal = it.removal
          /\ u.joins = it.joins /\ u.run = it.run /\ u.pend = it.pend
          /\ u.reason = it.reason \/ u.reason = "shutdown"
      BY <2>2, <3>1 DEF Reservations
    <3>3. items[i] = u
      BY <2>3, <2>7, <3>1
    <3>4. Settled(u)
      BY <2>2, <3>2 DEF Settled
    <3>5. QED
      BY <2>1, <2>7, <3>2, <3>3, <3>4
  <2>8. QED
    BY <2>5, <2>6, <2>7
<1>3. items \in [Items -> Reservations]
  BY <1>2 DEF Finalized
<1>4. \A i \in Items : items[i].removal # "none" => item[i].pend = "none" \/ items[i].joins
  BY <1>2 DEF Settled
<1>5. QED
  BY <1>2, <1>3, <1>4

\* A queued item is located by its run, which is one of the runs
LEMMA QueuedFacts ==
    ASSUME TypeOK, NEW i \in Items, IsQueued(i) \/ IsActive(i)
    PROVE  item[i].run \in Runs /\ item[i].run # NoRun /\ loc[item[i].run].item = i
<1>1. item[i].run \in Runs \cup {NoRun}
  BY Parts DEF Reservations
<1>2. QED
  BY <1>1 DEF IsQueued, IsActive

\* A step that leaves queue, slots and locations alone, and of the queued items
\* what the invariants speak of
LEMMA QuietLane ==
    ASSUME IInv, lane' = lane, loc' = loc, snapshot' = snapshot,
           \A i \in Items : IsQueued(i) =>
              /\ item'[i].run = item[i].run
              /\ item'[i].pend = item[i].pend /\ item'[i].removal = item[i].removal
    PROVE  LaneInv' /\ FreshInv' /\ FiniteInv'
<1>1. TypeOK /\ LaneInv /\ FreshInv /\ FiniteInv
  BY DEF IInv
<1>2. \A n \in Positions : lane.queue[n] \in Items /\ IsQueued(lane.queue[n])
  BY <1>1, Parts DEF LaneInv
<1>3. Positions' = Positions
  BY DEF Positions
<1>4. \A n \in Positions : IsQueued(lane.queue[n])'
  BY <1>2 DEF IsQueued
<1>5. ASSUME NEW r \in Runs, loc[r].state = "queued"
      PROVE  /\ \E n \in Positions : lane.queue[n] = loc[r].item
             /\ item'[loc[r].item].run = r
  <2>1. PICK n \in Positions : lane.queue[n] = loc[r].item
    BY <1>1, <1>5 DEF LaneInv
  <2>2. item[loc[r].item].run = r
    BY <1>1, <1>5 DEF LaneInv
  <2>3. QED
    BY <1>2, <2>1, <2>2
<1>6. LaneInv'
  BY <1>1, <1>3, <1>4, <1>5 DEF LaneInv
<1>7. FreshInv'
  BY <1>1, <1>2, <1>3 DEF FreshInv
<1>8. FiniteInv'
  BY <1>1 DEF FiniteInv
<1>9. QED
  BY <1>6, <1>7, <1>8

\* A step that changes items only
LEMMA ItemsKeep ==
    ASSUME IInv, lane' = lane, loc' = loc, snapshot' = snapshot, pump' \in BOOLEAN,
           item' \in [Items -> Reservations], \A i \in Items : Settled(item'[i]),
           \A i \in Items : IsQueued(i) =>
              /\ item'[i].run = item[i].run
              /\ item'[i].pend = item[i].pend /\ item'[i].removal = item[i].removal
    PROVE  IInv'
<1>1. LaneInv' /\ FreshInv' /\ FiniteInv'
  BY QuietLane
<1>2. CleanInv'
  BY DEF CleanInv, Settled
<1>3. /\ lane' \in [limit : Nat, active : SUBSET Runs, queue : Seq(Items)]
      /\ loc' \in [Runs -> [state : States, item : Items \cup {NoItem}]]
      /\ snapshot' \in SUBSET Runs
  BY DEF IInv, TypeOK, States
<1>4. TypeOK'
  BY <1>2, <1>3 DEF TypeOK, States, Reservations, CleanInv, Settled
<1>5. QED
  BY <1>1, <1>2, <1>4 DEF IInv

\* Some reservations and some runs leave the lane
LEMMA VacateKeeps ==
    ASSUME IInv, NEW those \in SUBSET Items, NEW runs \in SUBSET Runs,
           NEW items \in [Items -> Reservations], \A i \in Items : Settled(items[i]),
           \A i \in Items : items[i].run = item[i].run,
           \A i \in Items : IsQueued(i) =>
              /\ i \in those <=> item[i].run \in runs
              /\ i \notin those => /\ items[i].pend = item[i].pend
                                   /\ items[i].removal = item[i].removal,
           Vacate(those, runs, items), snapshot' \in SUBSET snapshot
    PROVE  IInv'
<1>1. TypeOK /\ LaneInv /\ FreshInv /\ FiniteInv /\ CleanInv
  BY DEF IInv
<1>2. /\ lane \in [limit : Nat, active : SUBSET Runs, queue : Seq(Items)]
      /\ loc \in [Runs -> [state : States, item : Items \cup {NoItem}]]
      /\ snapshot \in SUBSET Runs /\ pump \in BOOLEAN
      /\ \A n \in Positions : lane.queue[n] \in Items
  BY <1>1, Parts DEF TypeOK, States
<1>3. PICK q : q = lane.queue
  OBVIOUS
<1>4. PICK d : d = Without(q, those)
  OBVIOUS
<1>5. q \in Seq(Items) /\ Positions = DOMAIN q /\ \A m, n \in DOMAIN q : q[m] = q[n] => m = n
  BY <1>1, <1>2, <1>3 DEF Positions, LaneInv
<1>6. /\ d \in Seq(Items)
      /\ \A n \in DOMAIN d : d[n] \notin those /\ \E m \in DOMAIN q : q[m] = d[n]
      /\ \A m \in DOMAIN q : q[m] \notin those => \E n \in DOMAIN d : d[n] = q[m]
      /\ \A m, n \in DOMAIN d : d[m] = d[n] => m = n
  BY <1>4, <1>5, WithoutFacts
<1>7. /\ loc' = [r \in Runs |-> IF r \in runs THEN Nowhere ELSE loc[r]]
      /\ lane' = [lane EXCEPT !.queue = d, !.active = lane.active \ runs]
      /\ pump' = IF runs = {} THEN pump ELSE PumpAfter(lane')
      /\ item' = Kept(items, loc')
  BY <1>3, <1>4 DEF Vacate
<1>8. /\ lane'.queue = d /\ lane'.active = lane.active \ runs
      /\ lane' \in [limit : Nat, active : SUBSET Runs, queue : Seq(Items)]
      /\ Positions' = DOMAIN d
  BY <1>2, <1>6, <1>7 DEF Positions
<1>9. /\ item' \in [Items -> Reservations] /\ \A i \in Items : Settled(item'[i])
      /\ \A i \in Items : items[i].run # NoRun /\ loc'[items[i].run].item = i =>
            item'[i] = items[i]
  BY <1>7, KeptFacts
<1>10. \A r \in Runs : r \notin runs => loc'[r] = loc[r]
  BY <1>7
<1>11. \A r \in Runs : r \in runs => loc'[r].state = "none"
  BY <1>7 DEF Nowhere
\* what stays in the queue
<1>12. ASSUME NEW i \in Items, IsQueued(i), i \notin those
       PROVE  /\ item'[i] = items[i] /\ IsQueued(i)'
              /\ item'[i].pend = item[i].pend /\ item'[i].removal = item[i].removal
  <2>1. item[i].run \in Runs /\ item[i].run # NoRun /\ loc[item[i].run].item = i
    BY <1>1, <1>12, QueuedFacts
  <2>2. item[i].run \notin runs
    BY <1>12
  <2>3. loc'[item[i].run] = loc[item[i].run]
    BY <1>10, <2>1, <2>2
  <2>4. item'[i] = items[i]
    BY <1>9, <2>1, <2>3
  <2>5. QED
    BY <1>12, <2>1, <2>3, <2>4 DEF IsQueued
<1>13. \A n \in DOMAIN d : d[n] \in Items /\ IsQueued(d[n]) /\ d[n] \notin those
  <2> SUFFICES ASSUME NEW n \in DOMAIN d PROVE d[n] \in Items /\ IsQueued(d[n]) /\ d[n] \notin those
    OBVIOUS
  <2>1. PICK m \in DOMAIN q : q[m] = d[n]
    BY <1>6
  <2>2. m \in Positions /\ lane.queue[m] = d[n]
    BY <1>3, <1>5, <2>1
  <2>3. QED
    BY <1>1, <1>2, <1>6, <2>2 DEF LaneInv
<1>14. LaneInv'
  <2>1. \A r \in Runs : loc'[r].state = "active" <=> r \in lane'.active
    BY <1>1, <1>8, <1>10, <1>11 DEF LaneInv
  <2>2. ASSUME NEW r \in Runs, loc'[r].state = "queued"
        PROVE  /\ \E n \in DOMAIN d : d[n] = loc'[r].item
               /\ item'[loc'[r].item].run = r
    <3>1. r \notin runs /\ loc'[r] = loc[r] /\ loc[r].state = "queued"
      BY <1>10, <1>11, <2>2
    <3>2. PICK m \in Positions : lane.queue[m] = loc[r].item
      BY <1>1, <3>1 DEF LaneInv
    <3>3. PICK i \in Items : i = loc[r].item /\ i = lane.queue[m]
      BY <1>2, <3>2
    <3>4. item[i].run = r /\ IsQueued(i)
      BY <1>1, <3>1, <3>2, <3>3 DEF LaneInv
    <3>5. i \notin those
      BY <3>1, <3>4
    <3>6. \E n \in DOMAIN d : d[n] = i
      BY <1>3, <1>5, <1>6, <3>3, <3>5
    <3>7. item'[i].run = r
      BY <1>12, <3>4, <3>5
    <3>8. QED
      BY <3>1, <3>3, <3>6, <3>7
  <2>3. \A n \in DOMAIN d : IsQueued(d[n])'
    BY <1>12, <1>13
  <2>4. QED
    BY <1>6, <1>8, <2>1, <2>2, <2>3 DEF LaneInv
<1>15. FreshInv'
  <2> SUFFICES ASSUME NEW n \in DOMAIN d
               PROVE  item'[d[n]].pend = "none" /\ item'[d[n]].removal = "none"
    BY <1>8 DEF FreshInv
  <2>1. item'[d[n]].pend = item[d[n]].pend /\ item'[d[n]].removal = item[d[n]].removal
    BY <1>12, <1>13
  <2>2. PICK m \in DOMAIN q : q[m] = d[n]
    BY <1>6
  <2>3. item[d[n]].pend = "none" /\ item[d[n]].removal = "none"
    BY <1>1, <1>3, <1>5, <2>2 DEF FreshInv
  <2>4. QED
    BY <2>1, <2>3
<1>16. FiniteInv'
  <2>1. lane'.active \in SUBSET lane.active
    BY <1>8
  <2>2. QED
    BY <1>1, <2>1, FS_Subset DEF FiniteInv
<1>17. CleanInv'
  BY <1>9 DEF CleanInv, Settled
<1>18. TypeOK'
  <2>1. loc' \in [Runs -> [state : States, item : Items \cup {NoItem}]]
    BY <1>2, <1>7 DEF Nowhere, States
  <2>2. pump' \in BOOLEAN
    BY <1>2, <1>7 DEF PumpAfter
  <2>3. snapshot' \in SUBSET Runs
    BY <1>2
  <2>4. QED
    BY <1>8, <1>9, <1>17, <2>1, <2>2, <2>3 DEF TypeOK, States, Reservations, CleanInv, Settled
<1>19. QED
  BY <1>14, <1>15, <1>16, <1>17, <1>18 DEF IInv

-----------------------------------------------------------------------------
(* The steps that change items only.                                       *)

\* An item in a launch or a removal is not in the queue any more
LEMMA BusyIsNotQueued ==
    ASSUME IInv, NEW i \in Items, IsQueued(i)
    PROVE  item[i].pend = "none" /\ item[i].removal = "none"
<1>1. TypeOK /\ LaneInv /\ FreshInv
  BY DEF IInv
<1>2. item[i].run \in Runs /\ loc[item[i].run].state = "queued" /\ loc[item[i].run].item = i
  BY <1>1, QueuedFacts DEF IsQueued
<1>3. PICK n \in Positions : lane.queue[n] = i
  BY <1>1, <1>2 DEF LaneInv
<1>4. QED
  BY <1>1, <1>3 DEF FreshInv

\* One item changes, and keeps what the invariants ask of it
LEMMA OneItemKeeps ==
    ASSUME IInv, lane' = lane, loc' = loc, snapshot' = snapshot, pump' \in BOOLEAN,
           NEW i \in Items, NEW it \in Reservations, Settled(it), it.run = item[i].run,
           IsQueued(i) => it.pend = item[i].pend /\ it.removal = item[i].removal,
           item' = [item EXCEPT ![i] = it] \/ item' = Kept([item EXCEPT ![i] = it], loc)
    PROVE  IInv'
<1>1. TypeOK /\ CleanInv /\ item \in [Items -> Reservations]
  BY Parts DEF IInv
<1>2. PICK items : items = [item EXCEPT ![i] = it]
  OBVIOUS
<1>3. /\ items \in [Items -> Reservations]
      /\ items[i] = it /\ \A j \in Items : j # i => items[j] = item[j]
  BY <1>1, <1>2
<1>4. \A j \in Items : Settled(items[j])
  BY <1>1, <1>3 DEF CleanInv
<1>5. /\ item' \in [Items -> Reservations] /\ \A j \in Items : Settled(item'[j])
      /\ \A j \in Items : items[j].run # NoRun /\ loc[items[j].run].item = j =>
            item'[j] = items[j]
  <2>1. CASE item' = items
    BY <1>3, <1>4, <2>1
  <2>2. CASE item' = Kept(items, loc)
    BY <1>3, <1>4, <2>2, KeptFacts
  <2>3. QED
    BY <1>2, <2>1, <2>2
<1>6. ASSUME NEW j \in Items, IsQueued(j)
      PROVE  /\ item'[j].run = item[j].run
             /\ item'[j].pend = item[j].pend /\ item'[j].removal = item[j].removal
  <2>1. item[j].run # NoRun /\ loc[item[j].run].item = j
    BY <1>1, <1>6, QueuedFacts
  <2>2. items[j].run = item[j].run
    BY <1>3
  <2>3. item'[j] = items[j]
    BY <1>5, <2>1, <2>2
  <2>4. CASE j = i
    BY <1>3, <1>6, <2>2, <2>3, <2>4
  <2>5. CASE j # i
    BY <1>3, <2>3, <2>5
  <2>6. QED
    BY <2>4, <2>5
<1>7. QED
  BY <1>5, <1>6, ItemsKeep

\* A removal step leaves the launch alone, and the cleanup begins after it
LEMMA RemovalKeeps ==
    ASSUME IInv, NEW i \in Items, Removal(i)
    PROVE  IInv'
<1>1. TypeOK /\ item[i] \in Reservations /\ Settled(item[i]) /\ pump \in BOOLEAN
  BY Parts DEF IInv, CleanInv, TypeOK
<1>2. CASE RemovalJoins(i)
  <2>1. PICK it : it = [item[i] EXCEPT !.removal = "cleaning"]
    OBVIOUS
  <2>2. /\ it \in Reservations /\ it.run = item[i].run /\ it.removal = "cleaning"
        /\ it.pend = item[i].pend /\ it.joins = item[i].joins /\ it.reason = item[i].reason
    BY <1>1, <2>1 DEF Reservations
  <2>3. item[i].removal = "waiting" /\ (item[i].joins => item[i].pend = "settled")
    BY <1>2 DEF RemovalJoins
  <2>4. Settled(it)
    BY <1>1, <2>2, <2>3 DEF Settled
  <2>5. ~IsQueued(i)
    BY <2>3, BusyIsNotQueued
  <2>6. item' = [item EXCEPT ![i] = it]
    BY <1>2, <2>1 DEF RemovalJoins
  <2>7. lane' = lane /\ loc' = loc /\ snapshot' = snapshot /\ pump' \in BOOLEAN
    BY <1>1, <1>2 DEF RemovalJoins
  <2>8. QED
    BY <2>2, <2>4, <2>5, <2>6, <2>7, OneItemKeeps
<1>3. CASE RemovalEnds(i)
  <2>1. PICK it : it = [item[i] EXCEPT !.removal = "done"]
    OBVIOUS
  <2>2. /\ it \in Reservations /\ it.run = item[i].run /\ it.removal = "done"
        /\ it.pend = item[i].pend /\ it.joins = item[i].joins /\ it.reason = item[i].reason
    BY <1>1, <2>1 DEF Reservations
  <2>3. item[i].removal = "cleaning"
    BY <1>3 DEF RemovalEnds
  <2>4. Settled(it)
    BY <1>1, <2>2, <2>3 DEF Settled
  <2>5. ~IsQueued(i)
    BY <2>3, BusyIsNotQueued
  <2>6. item' = Kept([item EXCEPT ![i] = it], loc)
    BY <1>3, <2>1 DEF RemovalEnds
  <2>7. lane' = lane /\ loc' = loc /\ snapshot' = snapshot /\ pump' \in BOOLEAN
    BY <1>1, <1>3 DEF RemovalEnds
  <2>8. QED
    BY <2>2, <2>4, <2>5, <2>6, <2>7, OneItemKeeps
<1>4. QED
  BY <1>2, <1>3 DEF Removal

\* Activation, holds and preparations change neither launch nor removal
LEMMA PreparingKeeps ==
    ASSUME IInv, NEW i \in Items,
           \/ Hold(i) \/ ReleaseHold(i) \/ PreparationSettles(i)
           \/ \E o \in Owners : Activate(i, o) \/ BindPreparation(i, o)
    PROVE  IInv'
<1>1. /\ TypeOK /\ item \in [Items -> Reservations] /\ item[i] \in Reservations
      /\ Settled(item[i]) /\ pump \in BOOLEAN
  BY Parts DEF IInv, CleanInv, TypeOK
<1> DEFINE Same(it) == /\ it \in Reservations /\ it.run = item[i].run /\ it.pend = item[i].pend
                       /\ it.removal = item[i].removal /\ it.joins = item[i].joins
                       /\ it.reason = item[i].reason
           Changed(it) == item' = [item EXCEPT ![i] = it]
                          \/ item' = Kept([item EXCEPT ![i] = it], loc)
<1>0. ASSUME NEW it, Same(it), Changed(it), UNCHANGED <<lane, loc, snapshot>>, pump' \in BOOLEAN
      PROVE  IInv'
  <2>1. Settled(it)
    BY <1>0, <1>1 DEF Settled, Same
  <2>2. lane' = lane /\ loc' = loc /\ snapshot' = snapshot
    BY <1>0
  <2>3. QED
    BY <1>0, <2>1, <2>2, OneItemKeeps DEF Same, Changed
<1> HIDE DEF Same, Changed
<1>2. CASE Hold(i)
  <2>1. PICK it : it = [item[i] EXCEPT !.held = "held"]
    OBVIOUS
  <2>2. Same(it)
    BY <1>1, <2>1 DEF Reservations, Same
  <2>3. Changed(it)
    BY <1>2, <2>1 DEF Hold, Changed
  <2>4. UNCHANGED <<lane, loc, snapshot>> /\ pump' \in BOOLEAN
    BY <1>1, <1>2 DEF Hold
  <2>5. QED
    BY <1>0, <2>2, <2>3, <2>4
<1>3. CASE ReleaseHold(i)
  <2>1. PICK it : it = [item[i] EXCEPT !.held = "released"]
    OBVIOUS
  <2>2. Same(it)
    BY <1>1, <2>1 DEF Reservations, Same
  <2>3. Changed(it)
    BY <1>3, <2>1 DEF ReleaseHold, Changed
  <2>4. pump' \in BOOLEAN
    BY <1>1, <1>3 DEF ReleaseHold, PumpAfter
  <2>5. UNCHANGED <<lane, loc, snapshot>>
    BY <1>3 DEF ReleaseHold
  <2>6. QED
    BY <1>0, <2>2, <2>3, <2>4, <2>5
<1>4. CASE PreparationSettles(i)
  <2>1. PICK it : it = [item[i] EXCEPT !.prep = "settled"]
    OBVIOUS
  <2>2. Same(it)
    BY <1>1, <2>1 DEF Reservations, Same
  <2>3. Changed(it)
    BY <1>4, <2>1 DEF PreparationSettles, Changed
  <2>4. UNCHANGED <<lane, loc, snapshot>> /\ pump' \in BOOLEAN
    BY <1>1, <1>4 DEF PreparationSettles
  <2>5. QED
    BY <1>0, <2>2, <2>3, <2>4
<1>5. ASSUME NEW o \in Owners, Activate(i, o) PROVE IInv'
  <2>1. PICK it : it = [item[i] EXCEPT !.launch = TRUE, !.owner = o]
    OBVIOUS
  <2>2. Same(it)
    BY <1>1, <2>1 DEF Reservations, Same
  <2>3. Changed(it)
    BY <1>1, <1>5, <2>1 DEF Activate, Changed
  <2>4. UNCHANGED <<lane, loc, snapshot>> /\ pump' \in BOOLEAN
    BY <1>1, <1>5 DEF Activate
  <2>5. QED
    BY <1>0, <2>2, <2>3, <2>4
<1>6. ASSUME NEW o \in Owners, BindPreparation(i, o) PROVE IInv'
  <2>1. PICK it : it = [item[i] EXCEPT !.prep = "pending",
                                       !.owner = IF item[i].launch THEN item[i].owner ELSE o]
    OBVIOUS
  <2>2. Same(it)
    BY <1>1, <2>1 DEF Reservations, Same
  <2>3. Changed(it)
    BY <1>1, <1>6, <2>1 DEF BindPreparation, Changed
  <2>4. UNCHANGED <<lane, loc, snapshot>> /\ pump' \in BOOLEAN
    BY <1>1, <1>6 DEF BindPreparation
  <2>5. QED
    BY <1>0, <2>2, <2>3, <2>4
<1>7. QED
  BY <1>2, <1>3, <1>4, <1>5, <1>6

-----------------------------------------------------------------------------
(* Launches, cancellations, releases and shutdown.                         *)

\* launch.start() settles or fails on an item that left the queue
LEMMA StartKeeps ==
    ASSUME IInv, NEW i \in Items, StartSucceeds(i) \/ StartFails(i)
    PROVE  IInv'
<1>1. TypeOK /\ item[i] \in Reservations /\ Settled(item[i]) /\ pump \in BOOLEAN
  BY Parts DEF IInv, CleanInv, TypeOK
<1>2. item[i].pend = "starting" /\ UNCHANGED <<lane, loc, snapshot>> /\ pump' \in BOOLEAN
  BY <1>1 DEF StartSucceeds, StartFails
<1>3. ~IsQueued(i)
  BY <1>2, BusyIsNotQueued
<1>4. PICK pend \in {"settled", "failing"} :
         LET it == [item[i] EXCEPT !.pend = pend]
         IN  item' = [item EXCEPT ![i] = it] \/ item' = Kept([item EXCEPT ![i] = it], loc)
  <2>1. CASE StartSucceeds(i)
    BY <2>1 DEF StartSucceeds
  <2>2. CASE StartFails(i)
    BY <2>2 DEF StartFails
  <2>3. QED
    BY <2>1, <2>2
<1>5. PICK it : it = [item[i] EXCEPT !.pend = pend]
  OBVIOUS
<1>6. /\ it \in Reservations /\ it.run = item[i].run /\ it.pend = pend
      /\ it.removal = item[i].removal /\ it.joins = item[i].joins /\ it.reason = item[i].reason
  BY <1>1, <1>5 DEF Reservations
<1>7. Settled(it)
  BY <1>1, <1>2, <1>6 DEF Settled
<1>8. item' = [item EXCEPT ![i] = it] \/ item' = Kept([item EXCEPT ![i] = it], loc)
  BY <1>4, <1>5
<1>9. lane' = lane /\ loc' = loc /\ snapshot' = snapshot
  BY <1>2
<1>10. QED
  BY <1>2, <1>3, <1>6, <1>7, <1>8, <1>9, OneItemKeeps

\* Two queued items do not have the same run
LEMMA QueuedRunsDiffer ==
    ASSUME TypeOK, NEW i \in Items, NEW j \in Items, item[i].run = item[j].run,
           IsQueued(i) \/ IsActive(i), IsQueued(j) \/ IsActive(j)
    PROVE  i = j
BY QueuedFacts

\* A withdrawn reservation leaves the queue
LEMMA CancelKeeps ==
    ASSUME IInv, NEW i \in Items, Cancel(i)
    PROVE  IInv'
<1>1. IsQueued(i) /\ TypeOK
  BY DEF Cancel, IInv
<1>2. PICK items : items = Finalized({i}, "cancelled")
  OBVIOUS
<1>3. /\ items \in [Items -> Reservations] /\ \A j \in Items : Settled(items[j])
      /\ \A j \in Items : items[j].run = item[j].run
      /\ \A j \in Items : j \notin {i} => items[j] = item[j]
  BY <1>2, FinalizedFacts
<1>4. Vacate({i}, {item[i].run}, items) /\ snapshot' \in SUBSET snapshot
  BY <1>2 DEF Cancel
<1>5. {i} \in SUBSET Items /\ {item[i].run} \in SUBSET Runs
  BY <1>1, QueuedFacts
<1>6. ASSUME NEW j \in Items, IsQueued(j)
      PROVE  /\ j \in {i} <=> item[j].run \in {item[i].run}
             /\ j \notin {i} => /\ items[j].pend = item[j].pend
                                /\ items[j].removal = item[j].removal
  BY <1>1, <1>3, <1>6, QueuedRunsDiffer
<1>7. QED
  BY <1>3, <1>4, <1>5, <1>6, VacateKeeps

\* An active run gives its slot back
LEMMA ReleaseKeeps ==
    ASSUME IInv, NEW r \in Runs, Release(r)
    PROVE  IInv'
<1>1. TypeOK /\ loc[r].state = "active" /\ snapshot' \in SUBSET snapshot
  BY DEF Release, IInv
<1>2. item \in [Items -> Reservations] /\ \A j \in Items : Settled(item[j])
  BY Parts DEF IInv, CleanInv
<1>3. Vacate({}, {r}, item)
  BY DEF Release
<1>4. \A j \in Items : IsQueued(j) => item[j].run # r
  BY <1>1 DEF IsQueued
<1>5. {} \in SUBSET Items /\ {r} \in SUBSET Runs
  OBVIOUS
<1>6. QED
  BY <1>1, <1>2, <1>3, <1>4, <1>5, VacateKeeps

\* A failed start settles, gives the slot back or not, and is cleaned up or not
LEMMA FailureKeeps ==
    ASSUME IInv, NEW i \in Items, NEW out, FailureSettles(i, out)
    PROVE  IInv'
<1>1. /\ TypeOK /\ item[i].pend = "failing" /\ snapshot' \in SUBSET snapshot
      /\ item \in [Items -> Reservations] /\ Settled(item[i])
  BY Parts DEF FailureSettles, IInv, CleanInv
<1>2. PICK cleaned : cleaned = IF out = "retained" \/ ~IsActive(i) THEN {i} ELSE {}
  OBVIOUS
<1>3. PICK begun : begun = Finalized(cleaned, "cancelled")
  OBVIOUS
<1>4. PICK left : left = IF out = "persisted" /\ IsActive(i) THEN {item[i].run} ELSE {}
  OBVIOUS
<1>5. PICK items : items = [begun EXCEPT ![i].pend = "settled"]
  OBVIOUS
<1>6. Vacate({}, left, items)
  BY <1>2, <1>3, <1>4, <1>5 DEF FailureSettles
<1>7. /\ begun \in [Items -> Reservations] /\ \A j \in Items : Settled(begun[j])
      /\ \A j \in Items : begun[j].run = item[j].run /\ begun[j].pend = item[j].pend
      /\ \A j \in Items : j \notin cleaned => begun[j] = item[j]
  BY <1>3, FinalizedFacts
<1>8. PICK it : it = [begun[i] EXCEPT !.pend = "settled"]
  OBVIOUS
<1>9. begun[i] \in Reservations /\ begun[i].pend = "failing" /\ Settled(begun[i])
  BY <1>1, <1>7
<1>10. /\ it \in Reservations /\ it.run = begun[i].run /\ it.pend = "settled"
       /\ it.removal = begun[i].removal /\ it.joins = begun[i].joins
       /\ it.reason = begun[i].reason
  BY <1>8, <1>9 DEF Reservations
<1>11. Settled(it)
  BY <1>9, <1>10 DEF Settled
<1>12. items[i] = it /\ \A j \in Items : j # i => items[j] = begun[j]
  BY <1>5, <1>7, <1>8
<1>13. items \in [Items -> Reservations]
  BY <1>5, <1>7, <1>8, <1>10
<1>14. \A j \in Items : Settled(items[j])
  BY <1>7, <1>11, <1>12
<1>15. \A j \in Items : items[j].run = item[j].run
  BY <1>7, <1>10, <1>12
<1>16. ~IsQueued(i) /\ \A j \in Items : j # i => items[j] = item[j]
  BY <1>1, <1>2, <1>7, <1>12, BusyIsNotQueued
<1>17. \A j \in Items : IsQueued(j) => item[j].run \notin left
  BY <1>4 DEF IsQueued, IsActive
<1>18. {} \in SUBSET Items /\ left \in SUBSET Runs
  BY <1>1, <1>4, QueuedFacts
<1>19. QED
  BY <1>1, <1>6, <1>13, <1>14, <1>15, <1>16, <1>17, <1>18, VacateKeeps

\* A shutdown retires what its owner has in the lane
LEMMA CloseKeeps ==
    ASSUME IInv, NEW o \in Owners, Close(o)
    PROVE  IInv'
<1>1. TypeOK /\ snapshot' \in SUBSET snapshot
  BY DEF Close, IInv
<1>2. PICK those : those = Owned(o)
  OBVIOUS
<1>3. PICK runs : runs = {item[i].run : i \in {j \in those : IsQueued(j) \/ IsActive(j)}}
  OBVIOUS
<1>4. PICK items : items = Finalized(those, "shutdown")
  OBVIOUS
<1>5. /\ items \in [Items -> Reservations] /\ \A j \in Items : Settled(items[j])
      /\ \A j \in Items : items[j].run = item[j].run
      /\ \A j \in Items : j \notin those => items[j] = item[j]
  BY <1>4, FinalizedFacts
<1>6. Vacate(those, runs, items)
  BY <1>2, <1>3, <1>4 DEF Close
<1>7. those \in SUBSET Items
  BY <1>2 DEF Owned
<1>8. runs \in SUBSET Runs
  BY <1>1, <1>3, <1>7, QueuedFacts
<1>9. ASSUME NEW j \in Items, IsQueued(j)
      PROVE  j \in those <=> item[j].run \in runs
  <2>1. j \in those => item[j].run \in runs
    BY <1>3, <1>9
  <2>2. ASSUME item[j].run \in runs PROVE j \in those
    <3>1. PICK i \in those : (IsQueued(i) \/ IsActive(i)) /\ item[i].run = item[j].run
      BY <1>3, <2>2
    <3>2. i = j
      BY <1>1, <1>7, <1>9, <3>1, QueuedRunsDiffer
    <3>3. QED
      BY <3>1, <3>2
  <2>3. QED
    BY <2>1, <2>2
<1>10. QED
  BY <1>1, <1>5, <1>6, <1>7, <1>8, <1>9, VacateKeeps

-----------------------------------------------------------------------------
(* Reservations.                                                           *)

\* A queue with one more item at its end
LEMMA Appended ==
    ASSUME NEW q \in Seq(Items), \A m, n \in DOMAIN q : q[m] = q[n] => m = n,
           NEW i \in Items, \A n \in DOMAIN q : q[n] # i, NEW d, d = Append(q, i)
    PROVE  /\ d \in Seq(Items)
           /\ \A n \in DOMAIN d : d[n] = i \/ \E m \in DOMAIN q : q[m] = d[n]
           /\ \A m \in DOMAIN q : \E n \in DOMAIN d : d[n] = q[m]
           /\ \E n \in DOMAIN d : d[n] = i
           /\ \A m, n \in DOMAIN d : d[m] = d[n] => m = n
<1>1. Len(q) \in Nat /\ DOMAIN q = 1 .. Len(q)
  BY LenProperties
<1>2. /\ d \in Seq(Items) /\ Len(d) = Len(q) + 1
      /\ \A n \in 1 .. Len(q) : d[n] = q[n]
      /\ d[Len(q) + 1] = i
  BY AppendProperties
<1>3. DOMAIN d = 1 .. (Len(q) + 1)
  BY <1>2, LenProperties
<1>4. \A n \in DOMAIN d : n \in DOMAIN q \/ n = Len(q) + 1
  BY <1>1, <1>3
<1>5. \A n \in DOMAIN q : n \in DOMAIN d /\ d[n] = q[n]
  BY <1>1, <1>2, <1>3
<1>6. Len(q) + 1 \in DOMAIN d
  BY <1>1, <1>3
<1>7. \A m, n \in DOMAIN d : d[m] = d[n] => m = n
  BY <1>2, <1>4, <1>5
<1>8. QED
  BY <1>2, <1>4, <1>5, <1>6, <1>7

\* The restored runs take slots nobody else has
LEMMA RestoredFacts ==
    ASSUME IInv, NEW restored \in SUBSET snapshot, NEW limit \in Limits,
           NEW l, l = Ensured(limit, restored), NEW at, at = RestoredLoc(restored)
    PROVE  /\ l \in [limit : Nat, active : SUBSET Runs, queue : Seq(Items)]
           /\ l.queue = lane.queue /\ IsFiniteSet(l.active)
           /\ at \in [Runs -> [state : States, item : Items \cup {NoItem}]]
           /\ \A r \in Runs : at[r].state = "active" <=> r \in l.active
           /\ \A r \in Runs : loc[r].state # "none" => at[r] = loc[r]
           /\ \A r \in Runs : at[r].state # "active" => at[r] = loc[r]
<1>1. TypeOK /\ LaneInv /\ FiniteInv
  BY DEF IInv
<1>2. /\ lane.active \in SUBSET Runs /\ lane.queue \in Seq(Items) /\ snapshot \in SUBSET Runs
      /\ loc \in [Runs -> [state : States, item : Items \cup {NoItem}]]
  BY <1>1, Parts
<1>3. PICK more : more = Restorable(restored)
  OBVIOUS
<1>4. /\ more \in SUBSET snapshot /\ more \in SUBSET Runs
      /\ \A r \in more : loc[r].state = "none"
  BY <1>2, <1>3 DEF Restorable
<1>5. IsFiniteSet(more) /\ IsFiniteSet(lane.active)
  BY <1>1, <1>4, FS_Subset DEF FiniteInv
<1>6. l = [limit |-> limit, active |-> lane.active \cup more, queue |-> lane.queue]
  BY <1>3 DEF Ensured
<1>7. at = [r \in Runs |-> IF r \in more THEN [state |-> "active", item |-> NoItem] ELSE loc[r]]
  BY <1>3 DEF RestoredLoc
<1>8. limit \in Nat
  BY SwarmAssumption
<1>9. IsFiniteSet(l.active)
  <2>1. l.active = lane.active \cup more
    BY <1>6
  <2>2. IsFiniteSet(lane.active \cup more)
    BY <1>5, FS_Union
  <2>3. QED
    BY <2>1, <2>2
<1>10. l \in [limit : Nat, active : SUBSET Runs, queue : Seq(Items)] /\ l.queue = lane.queue
  BY <1>2, <1>4, <1>6, <1>8
<1>11. at \in [Runs -> [state : States, item : Items \cup {NoItem}]]
  BY <1>2, <1>7 DEF States
<1>12. /\ \A r \in Runs : r \in more => at[r].state = "active"
       /\ \A r \in Runs : r \notin more => at[r] = loc[r]
  BY <1>7
<1>13. \A r \in Runs : at[r].state = "active" <=> r \in l.active
  BY <1>1, <1>6, <1>12 DEF LaneInv
<1>14. QED
  BY <1>4, <1>9, <1>10, <1>11, <1>12, <1>13

\* A reservation is the last of the queue, or was there before
LEMMA ReserveKeeps ==
    ASSUME IInv, NEW i \in Items, Reservation(i)
    PROVE  IInv'
<1>1. PICK r \in Runs, limit \in Limits, restored \in SUBSET snapshot :
         Reserve(i, r, limit, restored)
  BY DEF Reservation
<1>2. /\ TypeOK /\ LaneInv /\ FreshInv /\ FiniteInv /\ CleanInv
      /\ item \in [Items -> Reservations] /\ pump \in BOOLEAN /\ snapshot \in SUBSET Runs
      /\ loc \in [Runs -> [state : States, item : Items \cup {NoItem}]]
      /\ \A n \in Positions : lane.queue[n] \in Items
  BY Parts DEF IInv, TypeOK
<1>3. PICK l : l = Ensured(limit, restored)
  OBVIOUS
<1>4. PICK at : at = RestoredLoc(restored)
  OBVIOUS
<1>5. /\ l \in [limit : Nat, active : SUBSET Runs, queue : Seq(Items)]
      /\ l.queue = lane.queue /\ IsFiniteSet(l.active)
      /\ at \in [Runs -> [state : States, item : Items \cup {NoItem}]]
      /\ \A x \in Runs : at[x].state = "active" <=> x \in l.active
      /\ \A x \in Runs : loc[x].state # "none" => at[x] = loc[x]
      /\ \A x \in Runs : at[x].state # "active" => at[x] = loc[x]
  BY <1>3, <1>4, RestoredFacts
<1>6. item[i] = Unused /\ pump' = pump /\ snapshot' = snapshot
  BY <1>1 DEF Reserve
<1>7. PICK q : q = lane.queue
  OBVIOUS
<1>8. q \in Seq(Items) /\ Positions = DOMAIN q /\ \A m, n \in DOMAIN q : q[m] = q[n] => m = n
  BY <1>2, <1>7, Parts DEF Positions, LaneInv
<1>9. \A n \in DOMAIN q : q[n] \in Items /\ IsQueued(q[n]) /\ q[n] # i
  <2>1. ~IsQueued(i)
    BY <1>6, UnusedFacts DEF IsQueued
  <2>2. QED
    BY <1>2, <1>7, <1>8, <2>1 DEF LaneInv
\* the items of the queue stay where they are
<1>10. ASSUME NEW j \in Items, IsQueued(j)
       PROVE  item[j].run \in Runs /\ item[j].run # NoRun /\ at[item[j].run] = loc[item[j].run]
  <2>1. item[j].run \in Runs /\ item[j].run # NoRun
    BY <1>2, <1>10, QueuedFacts
  <2>2. loc[item[j].run].state # "none"
    BY <1>10 DEF IsQueued
  <2>3. QED
    BY <1>5, <2>1, <2>2
<1>11. CASE at[r].state # "none"
  <2>1. lane' = l /\ loc' = at /\ item' = item
    BY <1>1, <1>3, <1>4, <1>11 DEF Reserve
  <2>2. Positions' = DOMAIN q /\ lane'.queue = q
    BY <1>5, <1>7, <2>1 DEF Positions
  <2>3. \A n \in DOMAIN q : IsQueued(q[n])'
    BY <1>9, <1>10, <2>1 DEF IsQueued
  <2>4. ASSUME NEW x \in Runs, at[x].state = "queued"
        PROVE  (\E n \in DOMAIN q : q[n] = at[x].item) /\ item[at[x].item].run = x
    BY <1>2, <1>5, <1>7, <1>8, <2>4 DEF LaneInv
  <2>5. LaneInv'
    BY <1>5, <1>8, <2>1, <2>2, <2>3, <2>4 DEF LaneInv
  <2>6. FreshInv'
    BY <1>2, <1>7, <1>8, <2>1, <2>2 DEF FreshInv
  <2>7. FiniteInv'
    BY <1>2, <1>5, <1>6, <2>1 DEF FiniteInv
  <2>8. CleanInv'
    BY <1>2, <2>1 DEF CleanInv
  <2>9. TypeOK'
    BY <1>2, <1>5, <1>6, <2>1, <2>8
    DEF TypeOK, States, Reservations, CleanInv, Settled
  <2>10. QED
    BY <2>5, <2>6, <2>7, <2>8, <2>9 DEF IInv
<1>12. CASE at[r].state = "none"
  <2>1. PICK d : d = Append(q, i)
    OBVIOUS
  <2>2. /\ d \in Seq(Items)
        /\ \A n \in DOMAIN d : d[n] = i \/ \E m \in DOMAIN q : q[m] = d[n]
        /\ \A m \in DOMAIN q : \E n \in DOMAIN d : d[n] = q[m]
        /\ \E n \in DOMAIN d : d[n] = i
        /\ \A m, n \in DOMAIN d : d[m] = d[n] => m = n
    BY <1>8, <1>9, <2>1, Appended
  <2>3. PICK it : it = [Unused EXCEPT !.run = r]
    OBVIOUS
  <2>4. /\ it \in Reservations /\ it.run = r /\ it.pend = "none" /\ it.removal = "none"
        /\ Settled(it)
    BY <2>3 DEF Unused, Reservations, Settled
  <2>5. /\ lane' = [l EXCEPT !.queue = Append(l.queue, i)]
        /\ loc' = [at EXCEPT ![r] = [state |-> "queued", item |-> i]]
        /\ item' = [item EXCEPT ![i] = it]
    BY <1>1, <1>3, <1>4, <1>12, <2>3 DEF Reserve
  <2>6. /\ lane' \in [limit : Nat, active : SUBSET Runs, queue : Seq(Items)]
        /\ lane'.active = l.active /\ lane'.queue = d /\ Positions' = DOMAIN d
    BY <1>5, <1>7, <2>1, <2>2, <2>5 DEF Positions
  <2>7. /\ loc' \in [Runs -> [state : States, item : Items \cup {NoItem}]]
        /\ loc'[r] = [state |-> "queued", item |-> i]
        /\ \A x \in Runs : x # r => loc'[x] = at[x]
    BY <1>5, <2>5 DEF States
  <2>8. /\ item' \in [Items -> Reservations] /\ item'[i] = it
        /\ \A j \in Items : j # i => item'[j] = item[j]
    BY <1>2, <2>4, <2>5
  <2>9. IsQueued(i)'
    BY <2>4, <2>7, <2>8, SwarmAssumption DEF IsQueued
  <2>10. ASSUME NEW n \in DOMAIN q PROVE IsQueued(q[n])'
    <3>1. PICK j \in Items : j = q[n] /\ IsQueued(j) /\ j # i
      BY <1>9
    <3>2. item'[j] = item[j]
      BY <2>8, <3>1
    <3>3. PICK x \in Runs : x = item[j].run /\ x # NoRun /\ at[x] = loc[x]
      BY <1>10, <3>1
    <3>4. loc[x] = [state |-> "queued", item |-> j]
      BY <3>1, <3>3 DEF IsQueued
    <3>5. x # r
      BY <1>12, <3>3, <3>4
    <3>6. loc'[x] = [state |-> "queued", item |-> j]
      BY <2>7, <3>3, <3>4, <3>5
    <3>7. IsQueued(j)'
      BY <3>2, <3>3, <3>6 DEF IsQueued
    <3>8. QED
      BY <3>1, <3>7
  <2>11. \A n \in DOMAIN d : IsQueued(d[n])'
    BY <2>2, <2>9, <2>10
  <2>12. ASSUME NEW x \in Runs, loc'[x].state = "queued"
         PROVE  (\E n \in DOMAIN d : d[n] = loc'[x].item) /\ item'[loc'[x].item].run = x
    <3>1. CASE x = r
      BY <2>2, <2>4, <2>7, <2>8, <3>1
    <3>2. CASE x # r
      <4>1. loc'[x] = loc[x] /\ loc[x].state = "queued"
        BY <1>5, <2>7, <2>12, <3>2
      <4>2. PICK m \in DOMAIN q : q[m] = loc[x].item
        BY <1>2, <1>7, <1>8, <4>1 DEF LaneInv
      <4>3. item[q[m]].run = x
        BY <1>2, <4>1, <4>2 DEF LaneInv
      <4>4. item'[q[m]].run = x
        BY <1>9, <2>8, <4>3
      <4>5. QED
        BY <2>2, <4>1, <4>2, <4>4
    <3>3. QED
      BY <3>1, <3>2
  <2>13. \A x \in Runs : loc'[x].state = "active" <=> x \in lane'.active
    BY <1>5, <1>12, <2>6, <2>7
  <2>14. LaneInv'
    BY <2>2, <2>6, <2>11, <2>12, <2>13 DEF LaneInv
  <2>15. ASSUME NEW n \in DOMAIN d
         PROVE  item'[d[n]].pend = "none" /\ item'[d[n]].removal = "none"
    <3>1. CASE d[n] = i
      BY <2>4, <2>8, <3>1
    <3>2. ASSUME NEW m \in DOMAIN q, q[m] = d[n]
          PROVE  item'[d[n]].pend = "none" /\ item'[d[n]].removal = "none"
      <4>1. item[q[m]].pend = "none" /\ item[q[m]].removal = "none"
        BY <1>2, <1>7, <1>8 DEF FreshInv
      <4>2. QED
        BY <1>9, <2>8, <3>2, <4>1
    <3>3. QED
      BY <2>2, <3>1, <3>2
  <2>16. FreshInv'
    BY <2>6, <2>15 DEF FreshInv
  <2>17. FiniteInv'
    BY <1>2, <1>5, <1>6, <2>6 DEF FiniteInv
  <2>18. CleanInv'
    BY <1>2, <2>4, <2>8 DEF CleanInv, Settled
  <2>19. TypeOK'
    BY <1>2, <1>6, <2>6, <2>7, <2>8, <2>18
    DEF TypeOK, States, Reservations, CleanInv, Settled
  <2>20. QED
    BY <2>14, <2>16, <2>17, <2>18, <2>19 DEF IInv
<1>13. QED
  BY <1>11, <1>12

-----------------------------------------------------------------------------
(* The pump.                                                               *)

\* The pump starts a prefix of the queue: launchable runs, as many as fit
LEMMA PumpFacts ==
    ASSUME IInv, Pump
    PROVE  \E k \in 0 .. Len(lane.queue), started \in SUBSET Items, runs \in SUBSET Runs :
              /\ started = {lane.queue[j] : j \in 1 .. k}
              /\ runs = {item[i].run : i \in started}
              /\ k > 0 => Cardinality(lane.active) + k <= lane.limit
              /\ IsFiniteSet(runs) /\ Cardinality(runs) <= k
              /\ lane' = [lane EXCEPT !.queue = Without(@, started), !.active = @ \cup runs]
              /\ loc' = [r \in Runs |-> IF r \in runs THEN [loc[r] EXCEPT !.state = "active"]
                                        ELSE loc[r]]
              /\ item' = [i \in Items |-> IF i \in started
                                          THEN [item[i] EXCEPT !.pend = "starting"]
                                          ELSE item[i]]
<1>1. /\ TypeOK /\ LaneInv /\ lane.queue \in Seq(Items) /\ lane.limit \in Nat
      /\ IsFiniteSet(lane.active) /\ Positions = 1 .. Len(lane.queue)
      /\ Len(lane.queue) \in Nat /\ \A n \in Positions : lane.queue[n] \in Items
  BY Parts DEF IInv, FiniteInv
<1>2. PICK k \in 0 .. Len(lane.queue) :
         /\ Range(Admitted(lane)) = {lane.queue[j] : j \in 1 .. k}
         /\ \A j \in 1 .. k : /\ Launchable(lane.queue[j])
                              /\ Cardinality(lane.active) + j <= lane.limit
  BY <1>1, AdmittedFacts
<1>3. PICK started : started = Range(Admitted(lane))
  OBVIOUS
<1>4. PICK runs : runs = {item[i].run : i \in started}
  OBVIOUS
<1>5. k \in Nat /\ \A j \in 1 .. k : j \in Positions
  BY <1>1, <1>2
<1>6. \A j \in 1 .. k : lane.queue[j] \in Items /\ item[lane.queue[j]].run \in Runs
  BY <1>1, <1>5, QueuedFacts DEF LaneInv
<1>7. started = {lane.queue[j] : j \in 1 .. k}
  BY <1>2, <1>3
<1>8. started \in SUBSET Items /\ runs \in SUBSET Runs
  BY <1>4, <1>6, <1>7
<1>9. k > 0 => Cardinality(lane.active) + k <= lane.limit
  <2> SUFFICES ASSUME k > 0 PROVE Cardinality(lane.active) + k <= lane.limit
    OBVIOUS
  <2>1. k \in 1 .. k
    BY <1>5
  <2>2. QED
    BY <1>2, <2>1
<1>10. IsFiniteSet(runs) /\ Cardinality(runs) <= k
  <2> DEFINE f == [j \in 1 .. k |-> item[lane.queue[j]].run]
  <2>1. IsFiniteSet(1 .. k) /\ Cardinality(1 .. k) = k
    BY <1>5, FS_Interval
  <2>2. \A j \in 1 .. k : f[j] \in runs
    BY <1>4, <1>7
  <2>3. \A r \in runs : \E j \in 1 .. k : f[j] = r
    BY <1>4, <1>7
  <2>4. f \in [1 .. k -> runs]
    BY <2>2
  <2>5. f \in Surjection(1 .. k, runs)
    BY <2>3, <2>4 DEF Surjection
  <2> HIDE DEF f
  <2>6. QED
    BY <2>1, <2>5, FS_Surjection
<1>11. /\ lane' = [lane EXCEPT !.queue = Without(@, started), !.active = @ \cup runs]
       /\ loc' = [r \in Runs |-> IF r \in runs THEN [loc[r] EXCEPT !.state = "active"]
                                 ELSE loc[r]]
       /\ item' = [i \in Items |-> IF i \in started THEN [item[i] EXCEPT !.pend = "starting"]
                                   ELSE item[i]]
  BY <1>3, <1>4 DEF Pump
<1>12. QED
  BY <1>7, <1>4, <1>8, <1>9, <1>10, <1>11

\* The started runs go from the queue to the slots
LEMMA PumpKeeps ==
    ASSUME IInv, Pump
    PROVE  IInv'
<1>1. /\ TypeOK /\ LaneInv /\ FreshInv /\ FiniteInv /\ CleanInv
      /\ lane \in [limit : Nat, active : SUBSET Runs, queue : Seq(Items)]
      /\ item \in [Items -> Reservations] /\ snapshot \in SUBSET Runs
      /\ loc \in [Runs -> [state : States, item : Items \cup {NoItem}]]
      /\ Positions = 1 .. Len(lane.queue) /\ \A n \in Positions : lane.queue[n] \in Items
  BY Parts DEF IInv, TypeOK, States
<1>2. PICK k \in 0 .. Len(lane.queue), started \in SUBSET Items, runs \in SUBSET Runs :
         /\ started = {lane.queue[j] : j \in 1 .. k}
         /\ runs = {item[i].run : i \in started}
         /\ IsFiniteSet(runs)
         /\ lane' = [lane EXCEPT !.queue = Without(@, started), !.active = @ \cup runs]
         /\ loc' = [r \in Runs |-> IF r \in runs THEN [loc[r] EXCEPT !.state = "active"]
                                   ELSE loc[r]]
         /\ item' = [i \in Items |-> IF i \in started THEN [item[i] EXCEPT !.pend = "starting"]
                                     ELSE item[i]]
  BY PumpFacts
<1>3. pump' = FALSE /\ snapshot' = snapshot
  BY DEF Pump
<1>4. PICK q : q = lane.queue
  OBVIOUS
<1>5. PICK d : d = Without(q, started)
  OBVIOUS
<1>6. q \in Seq(Items) /\ Positions = DOMAIN q /\ \A m, n \in DOMAIN q : q[m] = q[n] => m = n
  BY <1>1, <1>4 DEF Positions, LaneInv
<1>7. /\ d \in Seq(Items)
      /\ \A n \in DOMAIN d : d[n] \notin started /\ \E m \in DOMAIN q : q[m] = d[n]
      /\ \A m \in DOMAIN q : q[m] \notin started => \E n \in DOMAIN d : d[n] = q[m]
      /\ \A m, n \in DOMAIN d : d[m] = d[n] => m = n
  BY <1>5, <1>6, WithoutFacts
<1>8. /\ lane' \in [limit : Nat, active : SUBSET Runs, queue : Seq(Items)]
      /\ lane'.queue = d /\ lane'.active = lane.active \cup runs /\ Positions' = DOMAIN d
  <2>1. lane' = [lane EXCEPT !.queue = d, !.active = lane.active \cup runs]
    BY <1>2, <1>4, <1>5
  <2>2. lane'.queue = d /\ lane'.active = lane.active \cup runs
    BY <1>1, <2>1
  <2>3. lane.active \cup runs \in SUBSET Runs
    BY <1>1
  <2>4. lane' \in [limit : Nat, active : SUBSET Runs, queue : Seq(Items)]
    BY <1>1, <1>7, <2>1, <2>3
  <2>5. QED
    BY <2>2, <2>4 DEF Positions
\* what is started was queued
<1>9. \A i \in started : i \in Items /\ IsQueued(i)
  <2>1. Len(lane.queue) \in Nat
    BY <1>1, Parts
  <2>2. \A j \in 1 .. k : j \in Positions
    BY <1>1, <1>2, <2>1
  <2>3. QED
    BY <1>1, <1>2, <2>2 DEF LaneInv
<1>10. \A n \in DOMAIN d : d[n] \in Items /\ IsQueued(d[n]) /\ d[n] \notin started
  <2> SUFFICES ASSUME NEW n \in DOMAIN d
               PROVE  d[n] \in Items /\ IsQueued(d[n]) /\ d[n] \notin started
    OBVIOUS
  <2>1. PICK m \in Positions : lane.queue[m] = d[n]
    BY <1>4, <1>6, <1>7
  <2>2. QED
    BY <1>1, <1>7, <2>1 DEF LaneInv
<1>11. /\ \A r \in Runs : r \notin runs => loc'[r] = loc[r]
       /\ \A r \in Runs : r \in runs => loc'[r].state = "active"
       /\ loc' \in [Runs -> [state : States, item : Items \cup {NoItem}]]
  <2>1. \A r \in Runs : [loc[r] EXCEPT !.state = "active"]
                           \in [state : States, item : Items \cup {NoItem}]
    BY <1>1 DEF States
  <2>2. \A r \in Runs : [loc[r] EXCEPT !.state = "active"].state = "active"
    BY <1>1
  <2>3. QED
    BY <1>1, <1>2, <2>1, <2>2
<1>12. \A i \in Items : i \notin started => item'[i] = item[i]
  BY <1>2
<1>13. ASSUME NEW i \in Items, IsQueued(i), i \notin started
       PROVE  IsQueued(i)' /\ item[i].run \notin runs
  <2>1. item[i].run \in Runs
    BY <1>1, <1>13, QueuedFacts
  <2>2. item[i].run \notin runs
    <3> SUFFICES ASSUME item[i].run \in runs PROVE FALSE
      OBVIOUS
    <3>1. PICK j \in started : item[j].run = item[i].run
      BY <1>2
    <3>2. i = j
      BY <1>1, <1>9, <1>13, <3>1, QueuedRunsDiffer
    <3>3. QED
      BY <1>13, <3>1, <3>2
  <2>3. item'[i] = item[i] /\ loc'[item[i].run] = loc[item[i].run]
    BY <1>11, <1>12, <1>13, <2>1, <2>2
  <2>4. QED
    BY <1>13, <2>2, <2>3 DEF IsQueued
<1>14. LaneInv'
  <2>1. \A r \in Runs : loc'[r].state = "active" <=> r \in lane'.active
    BY <1>1, <1>8, <1>11 DEF LaneInv
  <2>2. ASSUME NEW r \in Runs, loc'[r].state = "queued"
        PROVE  (\E n \in DOMAIN d : d[n] = loc'[r].item) /\ item'[loc'[r].item].run = r
    <3>1. r \notin runs /\ loc'[r] = loc[r] /\ loc[r].state = "queued"
      BY <1>11, <2>2
    <3>2. PICK m \in DOMAIN q : q[m] = loc[r].item
      BY <1>1, <1>4, <1>6, <3>1 DEF LaneInv
    <3>3. PICK i \in Items : i = loc[r].item /\ i = q[m]
      BY <1>1, <1>4, <1>6, <3>2
    <3>4. item[i].run = r
      BY <1>1, <3>1, <3>3 DEF LaneInv
    <3>5. i \notin started
      BY <1>2, <3>1, <3>4
    <3>6. item'[i].run = r
      BY <1>12, <3>4, <3>5
    <3>7. QED
      BY <1>7, <3>1, <3>3, <3>5, <3>6
  <2>3. \A n \in DOMAIN d : IsQueued(d[n])'
    BY <1>10, <1>13
  <2>4. QED
    BY <1>7, <1>8, <2>1, <2>2, <2>3 DEF LaneInv
<1>15. FreshInv'
  <2> SUFFICES ASSUME NEW n \in DOMAIN d
               PROVE  item'[d[n]].pend = "none" /\ item'[d[n]].removal = "none"
    BY <1>8 DEF FreshInv
  <2>1. item'[d[n]] = item[d[n]]
    BY <1>10, <1>12
  <2>2. PICK m \in Positions : lane.queue[m] = d[n]
    BY <1>4, <1>6, <1>7
  <2>3. QED
    BY <1>1, <2>1, <2>2 DEF FreshInv
<1>16. FiniteInv'
  <2>1. IsFiniteSet(lane.active \cup runs)
    BY <1>1, <1>2, FS_Union DEF FiniteInv
  <2>2. QED
    BY <1>1, <1>3, <1>8, <2>1 DEF FiniteInv
<1>17. \A i \in Items : item'[i] \in Reservations /\ Settled(item'[i])
  <2> SUFFICES ASSUME NEW i \in Items PROVE item'[i] \in Reservations /\ Settled(item'[i])
    OBVIOUS
  <2>1. CASE i \notin started
    BY <1>1, <1>12, <2>1 DEF CleanInv
  <2>2. CASE i \in started
    <3>1. item'[i] = [item[i] EXCEPT !.pend = "starting"]
      BY <1>2, <2>2
    <3>2. item[i] \in Reservations /\ item[i].removal = "none"
      BY <1>1, <1>9, <2>2, BusyIsNotQueued
    <3>3. PICK it \in Reservations : it = item[i]
      BY <3>2
    <3>4. PICK u : u = [it EXCEPT !.pend = "starting"]
      OBVIOUS
    <3>5. u \in Reservations /\ u.removal = it.removal
      BY <3>4 DEF Reservations
    <3>6. item'[i] = u /\ u.removal = "none"
      BY <3>1, <3>2, <3>3, <3>4, <3>5
    <3>7. QED
      BY <3>5, <3>6 DEF Settled
  <2>3. QED
    BY <2>1, <2>2
<1>18. CleanInv'
  BY <1>17 DEF CleanInv, Settled
<1>19. item' \in [Items -> Reservations]
  <2>1. item' = [i \in Items |-> item'[i]]
    BY <1>2
  <2>2. QED
    BY <1>17, <2>1
<1>20. TypeOK'
  BY <1>1, <1>3, <1>8, <1>11, <1>18, <1>19
  DEF TypeOK, States, Reservations, CleanInv, Settled
<1>21. QED
  BY <1>14, <1>15, <1>16, <1>18, <1>20 DEF IInv

-----------------------------------------------------------------------------
(* The invariant.                                                          *)

\* An empty group, and some runs of an earlier process
LEMMA InitInv == Init => IInv
<1> SUFFICES ASSUME Init PROVE IInv
  OBVIOUS
<1>1. /\ lane = [limit |-> 0, active |-> {}, queue |-> <<>>] /\ pump = FALSE
      /\ loc = [r \in Runs |-> Nowhere] /\ item = [i \in Items |-> Unused]
      /\ snapshot \in SUBSET Runs /\ IsFiniteSet(snapshot)
  BY DEF Init
<1>2. lane.queue = <<>> /\ lane.active = {} /\ Positions = {}
  BY <1>1 DEF Positions
<1>3. /\ \A r \in Runs : loc[r].state = "none"
      /\ loc \in [Runs -> [state : States, item : Items \cup {NoItem}]]
  BY <1>1 DEF Nowhere, States
<1>4. item \in [Items -> Reservations] /\ \A i \in Items : Settled(item[i])
  BY <1>1, UnusedFacts
<1>5. CleanInv
  BY <1>4 DEF CleanInv
<1>6. lane \in [limit : Nat, active : SUBSET Runs, queue : Seq(Items)]
  BY <1>1
<1>7. TypeOK
  BY <1>1, <1>3, <1>4, <1>5, <1>6
  DEF TypeOK, States, Reservations, CleanInv, Settled
<1>8. LaneInv /\ FreshInv
  BY <1>2, <1>3 DEF LaneInv, FreshInv
<1>9. FiniteInv
  BY <1>1, <1>2, FS_EmptySet DEF FiniteInv
<1>10. QED
  BY <1>5, <1>7, <1>8, <1>9 DEF IInv

\* Every step of the scheduler keeps the invariant
LEMMA NextInv == IInv /\ [Next]_vars => IInv'
<1> SUFFICES ASSUME IInv, [Next]_vars PROVE IInv'
  OBVIOUS
<1>1. ASSUME NEW i \in Items, Launch(i) PROVE IInv'
  BY <1>1, StartKeeps, FailureKeeps DEF Launch
<1>2. ASSUME NEW i \in Items, Reservation(i) \/ Cancel(i) \/ Removal(i) PROVE IInv'
  BY <1>2, ReserveKeeps, CancelKeeps, RemovalKeeps
<1>3. ASSUME NEW i \in Items,
             \/ Hold(i) \/ ReleaseHold(i) \/ PreparationSettles(i)
             \/ \E o \in Owners : Activate(i, o) \/ BindPreparation(i, o)
      PROVE  IInv'
  BY <1>3, PreparingKeeps
<1>4. ASSUME NEW r \in Runs, Release(r) PROVE IInv'
  BY <1>4, ReleaseKeeps
<1>5. CASE Pump
  BY <1>5, PumpKeeps
<1>6. ASSUME NEW o \in Owners, Close(o) PROVE IInv'
  BY <1>6, CloseKeeps
<1>7. ASSUME UNCHANGED vars PROVE IInv'
  <2>1. lane' = lane /\ loc' = loc /\ item' = item /\ pump' = pump /\ snapshot' = snapshot
    BY <1>7 DEF vars
  <2>2. /\ pump \in BOOLEAN /\ item \in [Items -> Reservations]
        /\ \A i \in Items : Settled(item[i])
    BY Parts DEF IInv, TypeOK, CleanInv
  <2>3. QED
    BY <2>1, <2>2, ItemsKeep
<1>8. QED
  BY <1>1, <1>2, <1>3, <1>4, <1>5, <1>6, <1>7 DEF Next

\* The inductive invariant of the scheduler
THEOREM SwarmInvariant == Spec => []IInv
BY InitInv, NextInv, PTL DEF Spec

-----------------------------------------------------------------------------
(* What the invariant says.                                                *)

\* A queue without repetitions has as many items as places
LEMMA RangeOfQueue ==
    ASSUME NEW q \in Seq(Items), \A m, n \in DOMAIN q : q[m] = q[n] => m = n
    PROVE  Cardinality(Range(q)) = Len(q)
<1>1. Len(q) \in Nat /\ DOMAIN q = 1 .. Len(q) /\ q \in [1 .. Len(q) -> Items]
  BY LenProperties
<1>2. IsFiniteSet(1 .. Len(q)) /\ Cardinality(1 .. Len(q)) = Len(q)
  <2>1. PICK last \in Nat : last = Len(q)
    BY <1>1
  <2>2. /\ IsFiniteSet(1 .. last)
        /\ Cardinality(1 .. last) = IF 1 > last THEN 0 ELSE last - 1 + 1
    BY FS_Interval
  <2>3. QED
    BY <2>1, <2>2
<1>3. PICK places : places = 1 .. Len(q)
  OBVIOUS
<1>4. PICK items : items = Range(q)
  OBVIOUS
<1>5. /\ \A n \in places : q[n] \in items
      /\ \A i \in items : \E n \in places : q[n] = i
  BY <1>1, <1>3, <1>4 DEF Range
<1>6. q \in [places -> items]
  BY <1>1, <1>3, <1>5
<1>7. q \in Surjection(places, items)
  BY <1>5, <1>6 DEF Surjection
<1>8. \A m, n \in places : q[m] = q[n] => m = n
  BY <1>1, <1>3
<1>9. q \in Injection(places, items)
  BY <1>6, <1>8 DEF Injection, IsInjective
<1>10. IsFiniteSet(places)
  BY <1>2, <1>3
<1>11. Cardinality(items) = Cardinality(places)
  BY <1>7, <1>9, <1>10, FS_Surjection
<1>12. QED
  BY <1>2, <1>3, <1>4, <1>11

\* runLocations and the lane describe the same world: every queued run is one
\* node of the queue and every active run one of the slots, whatever snapshots
\* are restored and run ids used again (ensureLane, removeQueuedSwarmRun,
\* releaseSwarmRun, pumpLane)
THEOREM SwarmOnePlace == Spec => []OnePlace
<1>1. IInv => OnePlace
  <2> SUFFICES ASSUME IInv PROVE OnePlace
    OBVIOUS
  <2>1. /\ TypeOK /\ LaneInv /\ lane.queue \in Seq(Items) /\ Positions = DOMAIN lane.queue
        /\ \A i : i \in Range(lane.queue) <=> \E n \in Positions : lane.queue[n] = i
    BY Parts DEF IInv, Positions, Range
  <2>2. Cardinality(Range(lane.queue)) = Len(lane.queue)
    BY <2>1, RangeOfQueue DEF LaneInv
  <2>3. \A r \in Runs : loc[r].state = "active" <=> r \in lane.active
    BY <2>1 DEF LaneInv
  <2>4. \A r \in Runs : loc[r].state = "queued" =>
           /\ loc[r].item \in Range(lane.queue) /\ item[loc[r].item].run = r
    BY <2>1 DEF LaneInv
  <2>5. \A i \in Range(lane.queue) : IsQueued(i)
    BY <2>1 DEF LaneInv
  <2>6. QED
    BY <2>1, <2>2, <2>3, <2>4, <2>5 DEF OnePlace
<1>2. QED
  BY <1>1, SwarmInvariant, PTL

\* "Release preparation only after an abandoned launch can no longer use it":
\* onRemoved is never called while start or onStartFailure of the same run is
\* executing (finalizeRemovedRun)
THEOREM SwarmCleanupAfterLaunch == Spec => []CleanupAfterLaunch
<1>1. IInv => CleanupAfterLaunch
  BY DEF IInv, CleanInv, Settled, CleanupAfterLaunch
<1>2. QED
  BY <1>1, SwarmInvariant, PTL

\* No step but the pump's starts a run
LEMMA OnlyThePumpStarts ==
    ASSUME IInv, Next, ~Pump, NEW i \in Items, item'[i].pend = "starting"
    PROVE  item[i].pend = "starting"
<1>1. TypeOK /\ item \in [Items -> Reservations]
  BY Parts DEF IInv
<1> DEFINE NotMore(items) == \A j \in Items :
             items[j].pend = "starting" => item[j].pend = "starting"
<1>2. ASSUME NEW items, NEW at, item' = Kept(items, at), NotMore(items) PROVE NotMore(item')
  BY <1>2, UnusedFacts DEF Kept
<1>3. ASSUME NEW those, NEW reason PROVE NotMore(Finalized(those, reason))
  <2> SUFFICES ASSUME NEW j \in Items
               PROVE  Finalized(those, reason)[j].pend = item[j].pend
    OBVIOUS
  <2>1. PICK it \in Reservations : it = item[j]
    BY <1>1
  <2>2. \/ Finalized(those, reason)[j] = it
        \/ Finalized(those, reason)[j] =
              [it EXCEPT !.removal = "waiting", !.reason = reason, !.joins = Joins(j)]
        \/ Finalized(those, reason)[j] =
              [it EXCEPT !.reason = IF reason = "shutdown" THEN reason ELSE @]
    BY <2>1 DEF Finalized
  <2>3. QED
    BY <2>1, <2>2 DEF Reservations
<1>4. ASSUME NEW those, NEW runs, NEW items, Vacate(those, runs, items), NotMore(items)
      PROVE  NotMore(item')
  BY <1>2, <1>4 DEF Vacate
<1> HIDE DEF NotMore
<1>5. ASSUME NEW j \in Items, Reservation(j) PROVE NotMore(item')
  <2>1. PICK r \in Runs : item' = item \/ item' = [item EXCEPT ![j] = [Unused EXCEPT !.run = r]]
    BY <1>5 DEF Reservation, Reserve
  <2>2. [Unused EXCEPT !.run = r].pend = "none"
    BY DEF Unused
  <2>3. QED
    BY <1>1, <2>1, <2>2 DEF NotMore
<1>6. ASSUME NEW j \in Items, Cancel(j) PROVE NotMore(item')
  BY <1>3, <1>4, <1>6 DEF Cancel
<1>7. ASSUME NEW j \in Items, Removal(j) PROVE NotMore(item')
  <2>1. PICK x : \/ item' = [item EXCEPT ![j].removal = x]
                 \/ item' = Kept([item EXCEPT ![j].removal = x], loc)
    BY <1>7 DEF Removal, RemovalJoins, RemovalEnds
  <2>2. NotMore([item EXCEPT ![j].removal = x])
    BY <1>1 DEF NotMore, Reservations
  <2>3. QED
    BY <1>2, <2>1, <2>2
<1>8. ASSUME NEW j \in Items, StartSucceeds(j) \/ StartFails(j) PROVE NotMore(item')
  <2>1. PICK x \in {"settled", "failing"} : \/ item' = [item EXCEPT ![j].pend = x]
                                            \/ item' = Kept([item EXCEPT ![j].pend = x], loc)
    BY <1>8 DEF StartSucceeds, StartFails
  <2>2. NotMore([item EXCEPT ![j].pend = x])
    BY <1>1, <2>1 DEF NotMore, Reservations
  <2>3. QED
    BY <1>2, <2>1, <2>2
<1>9. ASSUME NEW j \in Items, NEW out, FailureSettles(j, out) PROVE NotMore(item')
  <2>1. PICK cleaned, left :
           Vacate({}, left, [Finalized(cleaned, "cancelled") EXCEPT ![j].pend = "settled"])
    BY <1>9 DEF FailureSettles
  <2>2. PICK begun : begun = Finalized(cleaned, "cancelled")
    OBVIOUS
  <2>3. NotMore(begun) /\ begun \in [Items -> Reservations]
    BY <1>3, <2>2, FinalizedFacts
  <2>4. NotMore([begun EXCEPT ![j].pend = "settled"])
    BY <2>3 DEF NotMore, Reservations
  <2>5. QED
    BY <1>4, <2>1, <2>2, <2>4
<1>10. ASSUME NEW j \in Items, Hold(j) PROVE NotMore(item')
  BY <1>1, <1>10 DEF Hold, NotMore, Reservations
<1>11. ASSUME NEW j \in Items, ReleaseHold(j) PROVE NotMore(item')
  <2>1. NotMore([item EXCEPT ![j].held = "released"])
    BY <1>1 DEF NotMore, Reservations
  <2>2. QED
    BY <1>2, <1>11, <2>1 DEF ReleaseHold
<1>12. ASSUME NEW j \in Items, PreparationSettles(j) PROVE NotMore(item')
  BY <1>1, <1>12 DEF PreparationSettles, NotMore, Reservations
<1>13. ASSUME NEW j \in Items, NEW o \in Owners, Activate(j, o) PROVE NotMore(item')
  BY <1>1, <1>13 DEF Activate, NotMore, Reservations
<1>14. ASSUME NEW j \in Items, NEW o \in Owners, BindPreparation(j, o) PROVE NotMore(item')
  BY <1>1, <1>14 DEF BindPreparation, NotMore, Reservations
<1>15. ASSUME NEW r \in Runs, Release(r) PROVE NotMore(item')
  <2>1. NotMore(item)
    BY DEF NotMore
  <2>2. QED
    BY <1>4, <1>15, <2>1 DEF Release
<1>16. ASSUME NEW o \in Owners, Close(o) PROVE NotMore(item')
  BY <1>3, <1>4, <1>16 DEF Close
<1>17. NotMore(item')
  BY <1>5, <1>6, <1>7, <1>8, <1>9, <1>10, <1>11, <1>12, <1>13, <1>14, <1>15, <1>16
  DEF Next, Launch
<1>18. QED
  BY <1>17 DEF NotMore

\* A reservation that is being removed is never started, no launch is invoked
\* twice, a run that starts leaves no older one behind in the queue, and there
\* are never more active runs than the limit after a start (pumpLane,
\* settleCancellation)
THEOREM SwarmStartsAreRight == Spec => StartsAreRight
<1> DEFINE Right(i) ==
             item[i].pend # "starting" /\ item'[i].pend = "starting" =>
               /\ item[i].pend = "none" /\ item[i].removal = "none"
               /\ \A j, k \in DOMAIN lane.queue : lane.queue[j] = i /\ k < j =>
                     lane.queue[k] \notin Range(lane'.queue)
               /\ Cardinality({r \in Runs : loc'[r].state = "active"}) <= lane.limit
<1>1. ASSUME IInv, IInv', Pump, NEW i \in Items,
             item[i].pend # "starting", item'[i].pend = "starting"
      PROVE  /\ item[i].pend = "none" /\ item[i].removal = "none"
             /\ \A j, k \in DOMAIN lane.queue : lane.queue[j] = i /\ k < j =>
                   lane.queue[k] \notin Range(lane'.queue)
             /\ Cardinality({r \in Runs : loc'[r].state = "active"}) <= lane.limit
  <2>1. /\ TypeOK /\ LaneInv /\ FreshInv /\ lane.limit \in Nat /\ lane.queue \in Seq(Items)
        /\ lane \in [limit : Nat, active : SUBSET Runs, queue : Seq(Items)]
        /\ IsFiniteSet(lane.active) /\ DOMAIN lane.queue = 1 .. Len(lane.queue)
        /\ Positions = DOMAIN lane.queue /\ Len(lane.queue) \in Nat
    BY <1>1, Parts DEF IInv, FiniteInv, TypeOK, Positions
  <2>2. PICK k \in 0 .. Len(lane.queue), started \in SUBSET Items, runs \in SUBSET Runs :
           /\ started = {lane.queue[j] : j \in 1 .. k}
           /\ k > 0 => Cardinality(lane.active) + k <= lane.limit
           /\ IsFiniteSet(runs) /\ Cardinality(runs) <= k
           /\ lane' = [lane EXCEPT !.queue = Without(@, started), !.active = @ \cup runs]
           /\ item' = [x \in Items |-> IF x \in started
                                       THEN [item[x] EXCEPT !.pend = "starting"]
                                       ELSE item[x]]
    BY <1>1, PumpFacts
  <2>3. i \in started
    BY <1>1, <2>2
  <2>4. PICK n \in 1 .. k : lane.queue[n] = i
    BY <2>2, <2>3
  <2>5. k \in Nat /\ n \in Positions /\ k > 0 /\ n \in Nat /\ n <= k
    BY <2>1, <2>2
  <2>6. item[i].pend = "none" /\ item[i].removal = "none"
    BY <2>1, <2>4, <2>5 DEF FreshInv
  <2>7. ASSUME NEW j \in DOMAIN lane.queue, NEW m \in DOMAIN lane.queue,
               lane.queue[j] = i, m < j
        PROVE  lane.queue[m] \notin Range(lane'.queue)
    <3>1. j = n
      BY <2>1, <2>4, <2>5, <2>7 DEF LaneInv
    <3>2. m \in 1 .. k
      BY <2>1, <2>5, <2>7, <3>1
    <3>3. lane.queue[m] \in started
      BY <2>2, <3>2
    <3>4. lane'.queue = Without(lane.queue, started)
      BY <2>1, <2>2
    <3>5. PICK d : d = lane'.queue
      OBVIOUS
    <3>6. \A x, y \in DOMAIN lane.queue : lane.queue[x] = lane.queue[y] => x = y
      BY <2>1 DEF LaneInv
    <3>7. \A x \in DOMAIN d : d[x] \notin started
      BY <2>1, <3>4, <3>5, <3>6, WithoutFacts
    <3>8. QED
      BY <3>3, <3>5, <3>7 DEF Range
  <2>8. {r \in Runs : loc'[r].state = "active"} = lane.active \cup runs
    <3>1. lane'.active = lane.active \cup runs
      BY <2>1, <2>2
    <3>2. \A r \in Runs : loc'[r].state = "active" <=> r \in lane'.active
      BY <1>1 DEF IInv, LaneInv
    <3>3. QED
      BY <2>1, <2>2, <3>1, <3>2
  <2>9. Cardinality(lane.active \cup runs) <= Cardinality(lane.active) + Cardinality(runs)
    <3>1. Cardinality(lane.active \cup runs)
             = Cardinality(lane.active) + Cardinality(runs) - Cardinality(lane.active \cap runs)
      BY <2>1, <2>2, FS_Union
    <3>2. IsFiniteSet(lane.active \cap runs)
      BY <2>1, FS_Intersection
    <3>3. /\ Cardinality(lane.active \cap runs) \in Nat /\ Cardinality(lane.active) \in Nat
          /\ Cardinality(runs) \in Nat
      BY <2>1, <2>2, <3>2, FS_CardinalityType
    <3>4. QED
      BY <3>1, <3>3
  <2>10. Cardinality(lane.active \cup runs) <= lane.limit
    <3>1. IsFiniteSet(lane.active \cup runs)
      BY <2>1, <2>2, FS_Union
    <3>2. /\ Cardinality(lane.active \cup runs) \in Nat /\ Cardinality(lane.active) \in Nat
          /\ Cardinality(runs) \in Nat
      BY <2>1, <2>2, <3>1, FS_CardinalityType
    <3>3. QED
      BY <2>1, <2>2, <2>5, <2>9, <3>2
  <2>11. QED
    BY <2>6, <2>7, <2>8, <2>10
<1>2. IInv /\ IInv' /\ [Next]_vars => [\A i \in Items : Right(i)]_vars
  <2> SUFFICES ASSUME IInv, IInv', Next, NEW i \in Items PROVE Right(i)
    BY DEF vars
  <2>1. CASE Pump
    BY <1>1, <2>1
  <2>2. CASE ~Pump
    BY <2>2, OnlyThePumpStarts
  <2>3. QED
    BY <2>1, <2>2
<1>3. QED
  BY <1>2, SwarmInvariant, PTL DEF Spec, StartsAreRight
=============================================================================
