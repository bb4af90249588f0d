----------------------------- MODULE ChannelProofs -----------------------------
(***************************************************************************)
(* The two loops between a channel and the conversation, for every value   *)
(* of their constants.                                                     *)
(*                                                                         *)
(* InboundDebounce.tla: the debouncer loses no message, handles none       *)
(* twice, keeps the order of a key and its window, and lets nothing        *)
(* through that cancelKey has withdrawn.  The argument speaks of the       *)
(* places of the messages: Held(k, m, x) says that message x is in the     *)
(* task at position m of the chain of k.  A step adds a message at the end *)
(* of a chain, takes the first task or empties the last one.               *)
(*                                                                         *)
(* DraftStream.tla, as Draft: one edit is outstanding at a time, for every *)
(* number of concurrent calls of flush and of updates, with and without    *)
(* coalescing, and whether or not other promise jobs run between the end   *)
(* of a send and the code that waited for it.                              *)
(***************************************************************************)
EXTENDS InboundDebounce, DraftState, SequenceTheorems, WellFoundedInduction, TLAPS

-----------------------------------------------------------------------------
(* The inbound debouncer.                                                  *)

Tasks == [items : SUBSET Items, gen : Nat, ready : BOOLEAN]
Window == Debounce * Multiplier

\* Message x is in the task at position m of the chain of k
Held(k, m, x) == m \in DOMAIN chain[k] /\ x \in chain[k][m].items

\* The task at position m has not been taken by onFlush
Waits(k, m) == m > 1 \/ head[k] = "idle"

\* Messages wait in the order of their arrival, each in one place
PlaceInv ==
    /\ \A k \in Keys : \A m, n \in Nat : \A x, y \in Items :
          Held(k, m, x) /\ Held(k, n, y) /\ m < n => x < y
    /\ \A k, l \in Keys : \A m, n \in Nat : \A x \in Items :
          Held(k, m, x) /\ Held(l, n, x) => k = l
    /\ \A k \in Keys : \A m \in Nat : \A x \in Items : Held(k, m, x) => x <= arrived

\* Who waits in a chain is newer than what the key has flushed, and the ghost of
\* a message says that it waits
WaitInv ==
    /\ \A k \in Keys : \A m \in Nat : \A x \in Items :
          Held(k, m, x) /\ Waits(k, m) => fate[x] = "waiting" /\ x > newest[k]
    /\ \A x \in Items : fate[x] = "waiting" =>
          \E k \in Keys : \E m \in Nat : Held(k, m, x) /\ Waits(k, m)

\* A task of the current generation was made after the last cancellation
FreshInv ==
    \A k \in Keys : \A m \in DOMAIN chain[k] :
        /\ chain[k][m].gen <= gen[k]
        /\ chain[k][m].gen = gen[k] => \A x \in chain[k][m].items : x > cutoff[k]

\* The running task is the first one, the buffer's the last one, and the map
\* has every key with work
LaneInv ==
    \A k \in Keys :
        /\ head[k] # "idle" => chain[k] # <<>> /\ chain[k][1].ready
        /\ buffer[k].open => chain[k] # <<>> /\ ~chain[k][Len(chain[k])].ready
        /\ k \notin tracked => chain[k] = <<>>
        /\ newest[k] <= arrived /\ cutoff[k] <= arrived

\* The buffer's window ends in time
WindowInv ==
    \A k \in Keys :
        IF buffer[k].open THEN age[k] + buffer[k].left = Window /\ buffer[k].due <= buffer[k].left
                          ELSE age[k] = 0

IInv == TypeOK /\ PlaceInv /\ WaitInv /\ FreshInv /\ LaneInv /\ WindowInv

-----------------------------------------------------------------------------
(* Numbers, sets and sequences.                                            *)

\* Every non-empty set of numbers has a least element
LEMMA LeastNumber ==
    ASSUME NEW T \in SUBSET Nat, T # {}
    PROVE  \E x \in T : \A y \in T : x <= y
<1>1. PICK x \in T : \A y \in T : ~(<<y, x>> \in OpToRel(<, Nat))
  BY NatLessThanWellFounded, WFMin
<1>2. \A y \in T : ~(y < x)
  BY <1>1 DEF OpToRel
<1>3. QED
  BY <1>2

\* A non-empty set of messages has a last one
LEMMA LastMessage ==
    ASSUME NEW T \in SUBSET Items, T # {}
    PROVE  Max(T) \in T /\ \A y \in T : y <= Max(T)
<1>1. MaxItems \in Nat /\ T \subseteq Nat
  BY DebounceAssumption DEF Items
<1> DEFINE U == {n \in Nat : \A y \in T : y <= n}
<1>2. MaxItems \in U
  BY <1>1 DEF Items
<1>3. PICK n \in U : \A u \in U : n <= u
  BY <1>2, LeastNumber
<1>4. n \in T
  <2> SUFFICES ASSUME n \notin T PROVE FALSE
    OBVIOUS
  <2>1. PICK z : z \in T
    OBVIOUS
  <2>2. \A y \in T : y < n
    BY <1>1, <1>3
  <2>3. n - 1 \in U
    BY <1>1, <2>1, <2>2, <1>3
  <2>4. QED
    BY <1>3, <2>3
<1>5. \A y \in T : n >= y
  BY <1>1, <1>3
<1>6. \E x \in T : \A y \in T : x >= y
  BY <1>4, <1>5
<1>7. Max(T) \in T /\ \A y \in T : Max(T) >= y
  BY <1>6 DEF Max
<1>8. QED
  BY <1>1, <1>7

\* The first message of a set is one of it
LEMMA FirstMessage ==
    ASSUME NEW T \in SUBSET Items, T # {}
    PROVE  Min(T) \in T
<1>1. T \subseteq Nat
  BY DEF Items
<1>2. \E x \in T : \A y \in T : x <= y
  BY <1>1, LeastNumber
<1>3. QED
  BY <1>2 DEF Min

\* The window is a number
LEMMA WindowNat == Window \in Nat
<1>1. Debounce \in Nat /\ Multiplier \in Nat
  BY DebounceAssumption
<1>2. QED
  BY <1>1 DEF Window

\* A task joins the end of a chain
LEMMA Appended ==
    ASSUME NEW c \in Seq(Tasks), NEW t \in Tasks, NEW d, d = Append(c, t)
    PROVE  /\ d \in Seq(Tasks) /\ Len(d) = Len(c) + 1 /\ DOMAIN d = 1 .. Len(c) + 1 /\ d # <<>>
           /\ d[Len(c) + 1] = t /\ \A m \in DOMAIN c : d[m] = c[m]
           /\ Len(c) \in Nat /\ DOMAIN c = 1 .. Len(c)
<1>1. Len(c) \in Nat /\ DOMAIN c = 1 .. Len(c)
  BY LenProperties
<1>2. /\ d \in Seq(Tasks) /\ Len(d) = Len(c) + 1 /\ d[Len(d)] = t
      /\ \A m \in 1 .. Len(c) : d[m] = c[m]
  BY AppendProperties
<1>3. DOMAIN d = 1 .. Len(d)
  BY <1>2, LenProperties
<1>4. d # <<>>
  BY <1>1, <1>2
<1>5. QED
  BY <1>1, <1>2, <1>3, <1>4

\* The last task of a chain is replaced
LEMMA Replaced ==
    ASSUME NEW c \in Seq(Tasks), c # <<>>, NEW t \in Tasks, NEW d,
           d = [c EXCEPT ![Len(c)] = t]
    PROVE  /\ d \in Seq(Tasks) /\ Len(d) = Len(c) /\ DOMAIN d = 1 .. Len(c) /\ d # <<>>
           /\ d[Len(c)] = t /\ \A m \in DOMAIN c : m # Len(c) => d[m] = c[m]
           /\ Len(c) \in Nat /\ DOMAIN c = 1 .. Len(c) /\ Len(c) \in DOMAIN c
<1>1. Len(c) \in Nat /\ DOMAIN c = 1 .. Len(c) /\ Len(c) # 0
  BY LenProperties, EmptySeq
<1>2. Len(c) \in DOMAIN c
  BY <1>1
<1>3. d \in Seq(Tasks) /\ Len(d) = Len(c)
  BY <1>1, <1>2, ExceptSeq
<1>4. DOMAIN d = 1 .. Len(d)
  BY <1>3, LenProperties
<1>5. d # <<>>
  BY <1>1, <1>3
<1>6. QED
  BY <1>1, <1>2, <1>3, <1>4, <1>5

\* The first task leaves a chain
LEMMA Popped ==
    ASSUME NEW c \in Seq(Tasks), c # <<>>, NEW d, d = Tail(c)
    PROVE  /\ d \in Seq(Tasks) /\ Len(d) = Len(c) - 1 /\ DOMAIN d = 1 .. Len(c) - 1
           /\ \A m \in DOMAIN d : d[m] = c[m + 1]
           /\ Head(c) = c[1] /\ 1 \in DOMAIN c /\ c[1] \in Tasks
           /\ Len(c) \in Nat /\ DOMAIN c = 1 .. Len(c)
<1>1. Len(c) \in Nat /\ DOMAIN c = 1 .. Len(c) /\ Len(c) # 0
  BY LenProperties, EmptySeq
<1>2. Head(c) = c[1] /\ d \in Seq(Tasks) /\ Len(d) = Len(c) - 1
  BY <1>1, HeadTailProperties
<1>3. DOMAIN d = 1 .. Len(d)
  BY <1>2, LenProperties
<1>4. \A m \in 1 .. Len(d) : d[m] = c[m + 1]
  BY <1>1, <1>2, HeadTailProperties
<1>5. c[1] \in Tasks
  BY <1>1, ElementOfSeq
<1>6. QED
  BY <1>1, <1>2, <1>3, <1>4, <1>5

-----------------------------------------------------------------------------
(* What a step does to the places.                                         *)

\* The chain of k becomes d and every other chain stays
ChainBecomes(k, d) == chain' = [chain EXCEPT ![k] = d]

\* A typed state has typed parts
LEMMA Parts ==
    ASSUME TypeOK
    PROVE  /\ arrived \in 0 .. MaxItems /\ MaxItems \in Nat /\ Items \subseteq Nat
           /\ chain \in [Keys -> Seq(Tasks)] /\ gen \in [Keys -> Nat]
           /\ head \in [Keys -> {"idle", "running", "settling"}]
           /\ fate \in [Items -> {"none", "waiting", "flushed", "cancelled"}]
           /\ newest \in [Keys -> 0 .. MaxItems] /\ cutoff \in [Keys -> 0 .. MaxItems]
           /\ \A k \in Keys : /\ chain[k] \in Seq(Tasks) /\ Len(chain[k]) \in Nat
                              /\ DOMAIN chain[k] = 1 .. Len(chain[k])
                              /\ \A m \in DOMAIN chain[k] : chain[k][m] \in Tasks
<1>1. chain \in [Keys -> Seq(Tasks)]
  BY DEF TypeOK, Tasks
<1>2. ASSUME NEW k \in Keys
      PROVE  /\ chain[k] \in Seq(Tasks) /\ Len(chain[k]) \in Nat
             /\ DOMAIN chain[k] = 1 .. Len(chain[k])
             /\ \A m \in DOMAIN chain[k] : chain[k][m] \in Tasks
  <2>1. chain[k] \in Seq(Tasks)
    BY <1>1
  <2>2. Len(chain[k]) \in Nat /\ DOMAIN chain[k] = 1 .. Len(chain[k])
    BY <2>1, LenProperties
  <2>3. QED
    BY <2>1, <2>2, ElementOfSeq
<1>3. MaxItems \in Nat
  BY DebounceAssumption
<1>4. QED
  BY <1>1, <1>2, <1>3 DEF TypeOK, Items

\* Places of other keys stay, those of k are the ones of its new chain
LEMMA Places ==
    ASSUME TypeOK, NEW k \in Keys, NEW d, ChainBecomes(k, d)
    PROVE  /\ \A l \in Keys : l # k => chain'[l] = chain[l]
           /\ chain'[k] = d
           /\ \A l \in Keys : \A m, x : l # k => (Held(l, m, x)' <=> Held(l, m, x))
           /\ \A m, x : Held(k, m, x)' <=> m \in DOMAIN d /\ x \in d[m].items
<1>1. chain \in [Keys -> Seq(Tasks)]
  BY Parts
<1>2. chain'[k] = d /\ \A l \in Keys : l # k => chain'[l] = chain[l]
  BY <1>1 DEF ChainBecomes
<1>3. QED
  BY <1>2 DEF Held

\* A message joins at the end: as a task of its own, or in the last task
Joins(k, i) ==
    /\ \E d \in Seq(Tasks) :
          /\ ChainBecomes(k, d) /\ d # <<>>
          /\ \/ /\ Len(d) = Len(chain[k]) + 1 /\ d[Len(d)].items = {i} /\ d[Len(d)].gen = gen[k]
             \/ /\ chain[k] # <<>> /\ Len(d) = Len(chain[k])
                /\ head[k] # "idle" => Len(d) > 1
                /\ d[Len(d)].items = chain[k][Len(d)].items \cup {i}
                /\ d[Len(d)].gen = chain[k][Len(d)].gen
          /\ \A m \in DOMAIN chain[k] : m < Len(d) =>
                d[m].items = chain[k][m].items /\ d[m].gen = chain[k][m].gen
    /\ fate' = [fate EXCEPT ![i] = "waiting"]
    /\ i = arrived + 1 /\ i \in Items /\ arrived' = arrived + 1
    /\ UNCHANGED <<head, newest, cutoff, gen>>

\* Only whether a task is ready changes, if anything does
Frees(k) ==
    /\ \E d \in Seq(Tasks) :
          /\ ChainBecomes(k, d) /\ Len(d) = Len(chain[k])
          /\ \A m \in DOMAIN chain[k] :
                d[m].items = chain[k][m].items /\ d[m].gen = chain[k][m].gen
    /\ UNCHANGED <<head, fate, newest, cutoff, gen, arrived>>

\* The chain invariants hold after a message joined
LEMMA JoinsPlaces ==
    ASSUME IInv, TypeOK', NEW k \in Keys, NEW i, Joins(k, i)
    PROVE  PlaceInv' /\ WaitInv' /\ FreshInv'
<1>1. PICK d \in Seq(Tasks) :
          /\ ChainBecomes(k, d) /\ d # <<>>
          /\ \/ /\ Len(d) = Len(chain[k]) + 1 /\ d[Len(d)].items = {i} /\ d[Len(d)].gen = gen[k]
             \/ /\ chain[k] # <<>> /\ Len(d) = Len(chain[k])
                /\ head[k] # "idle" => Len(d) > 1
                /\ d[Len(d)].items = chain[k][Len(d)].items \cup {i}
                /\ d[Len(d)].gen = chain[k][Len(d)].gen
          /\ \A m \in DOMAIN chain[k] : m < Len(d) =>
                d[m].items = chain[k][m].items /\ d[m].gen = chain[k][m].gen
  BY DEF Joins
<1>2. TypeOK /\ PlaceInv /\ WaitInv /\ FreshInv /\ LaneInv
  BY DEF IInv
<1>3. PICK n : n = Len(d)
  OBVIOUS
<1>4. n \in Nat \ {0} /\ DOMAIN d = 1 .. n
  BY <1>1, <1>3, LenProperties, EmptySeq
<1>5. PICK c : c = chain[k]
  OBVIOUS
<1>6. Len(c) \in Nat /\ DOMAIN c = 1 .. Len(c)
  BY <1>2, <1>5, Parts
<1>7. /\ \A l \in Keys : l # k => chain'[l] = chain[l]
      /\ chain'[k] = d
      /\ \A l \in Keys : \A m, x : l # k => (Held(l, m, x)' <=> Held(l, m, x))
      /\ \A m, x : Held(k, m, x)' <=> m \in DOMAIN d /\ x \in d[m].items
  BY <1>1, <1>2, Places
<1>8. \A m, x : Held(k, m, x) <=> m \in DOMAIN c /\ x \in c[m].items
  BY <1>5 DEF Held
<1>9. /\ n = Len(c) + 1 \/ n = Len(c)
      /\ \A m \in DOMAIN c : m < n => d[m].items = c[m].items
      /\ n = Len(c) => d[n].items = c[n].items \cup {i}
      /\ n = Len(c) + 1 => d[n].items = {i}
  BY <1>1, <1>3, <1>5, <1>6
<1>10. \A m, x : Held(k, m, x)' <=> Held(k, m, x) \/ (m = n /\ x = i)
  <2> SUFFICES ASSUME NEW m, NEW x
               PROVE  Held(k, m, x)' <=> Held(k, m, x) \/ (m = n /\ x = i)
    OBVIOUS
  <2>1. Held(k, m, x)' <=> m \in 1 .. n /\ x \in d[m].items
    BY <1>4, <1>7
  <2>2. Held(k, m, x) <=> m \in 1 .. Len(c) /\ x \in c[m].items
    BY <1>6, <1>8
  <2>3. PICK e \in Nat : e = Len(c)
    BY <1>6
  <2>4. n \in Nat \ {0} /\ (n = e + 1 \/ n = e)
    BY <1>4, <1>9, <2>3
  <2>5. CASE m = n
    <3>1. m \in 1 .. n
      BY <2>4, <2>5
    <3>2. CASE n = e
      <4>1. d[m].items = c[m].items \cup {i} /\ m \in 1 .. Len(c)
        BY <1>9, <2>3, <2>5, <3>1, <3>2
      <4>2. QED
        BY <2>1, <2>2, <2>5, <3>1, <4>1
    <3>3. CASE n = e + 1
      <4>1. d[m].items = {i}
        BY <1>9, <2>3, <2>5, <3>3
      <4>2. m \notin 1 .. e
        BY <2>4, <2>5, <3>3
      <4>3. QED
        BY <2>1, <2>2, <2>3, <2>5, <3>1, <4>1, <4>2
    <3>4. QED
      BY <2>4, <3>2, <3>3
  <2>6. CASE m # n
    <3>1. m \in 1 .. n <=> m \in 1 .. e
      BY <2>4, <2>6
    <3>2. m \in 1 .. n => m < n
      BY <2>4, <2>6
    <3>3. m \in 1 .. n => d[m].items = c[m].items
      BY <1>6, <1>9, <2>3, <3>1, <3>2
    <3>4. QED
      BY <2>1, <2>2, <2>3, <2>6, <3>1, <3>3
  <2>7. QED
    BY <2>5, <2>6
<1>11. ASSUME NEW m, NEW x, Held(k, m, x) PROVE m <= n
  <2>1. m \in 1 .. Len(c)
    BY <1>6, <1>8, <1>11
  <2>2. n = Len(c) + 1 \/ n = Len(c)
    BY <1>9
  <2>3. QED
    BY <1>6, <2>1, <2>2
<1>12. head' = head /\ newest' = newest /\ cutoff' = cutoff /\ gen' = gen /\ i = arrived + 1
       /\ i \in Items /\ arrived' = arrived + 1 /\ fate' = [fate EXCEPT ![i] = "waiting"]
  BY DEF Joins
<1>13. /\ arrived \in Nat /\ Items \subseteq Nat /\ MaxItems \in Nat
       /\ fate \in [Items -> {"none", "waiting", "flushed", "cancelled"}]
       /\ newest \in [Keys -> 0 .. MaxItems] /\ cutoff \in [Keys -> 0 .. MaxItems]
  BY <1>2, Parts
<1>14. \A l \in Keys : \A m \in Nat : \A x \in Items : Held(l, m, x) => x <= arrived /\ x # i
  BY <1>2, <1>12, <1>13 DEF PlaceInv
<1>15. n > 1 \/ head[k] = "idle"
  <2>1. CASE n = Len(c)
    BY <1>1, <1>3, <1>5, <1>6, <1>4, <2>1
  <2>2. CASE n = Len(c) + 1 /\ head[k] # "idle"
    <3>1. c # <<>>
      BY <1>2, <1>5, <2>2 DEF LaneInv
    <3>2. c \in Seq(Tasks)
      BY <1>2, <1>5, Parts
    <3>3. Len(c) # 0
      BY <3>1, <3>2, EmptySeq
    <3>4. QED
      BY <1>6, <2>2, <3>3
  <2>3. QED
    BY <1>9, <2>1, <2>2
<1>16. PlaceInv'
  <2>1. ASSUME NEW l \in Keys, NEW m \in Nat, NEW o \in Nat, NEW x \in Items, NEW y \in Items,
               Held(l, m, x)', Held(l, o, y)', m < o
        PROVE  x < y
    <3>1. CASE l # k
      BY <1>2, <1>7, <2>1, <3>1 DEF PlaceInv
    <3>2. CASE l = k
      <4>1. Held(k, m, x) \/ (m = n /\ x = i)
        BY <1>10, <2>1, <3>2
      <4>2. Held(k, o, y) \/ (o = n /\ y = i)
        BY <1>10, <2>1, <3>2
      <4>3. o <= n
        BY <1>4, <1>11, <4>2
      <4>4. Held(k, m, x)
        BY <1>4, <2>1, <4>1, <4>3
      <4>5. CASE Held(k, o, y)
        BY <1>2, <2>1, <4>4, <4>5 DEF PlaceInv
      <4>6. CASE y = i
        BY <1>12, <1>13, <1>14, <4>4, <4>6
      <4>7. QED
        BY <4>2, <4>5, <4>6
    <3>3. QED
      BY <3>1, <3>2
  <2>2. ASSUME NEW l \in Keys, NEW j \in Keys, NEW m \in Nat, NEW o \in Nat, NEW x \in Items,
               Held(l, m, x)', Held(j, o, x)'
        PROVE  l = j
    <3>1. Held(l, m, x) \/ (l = k /\ x = i)
      BY <1>7, <1>10, <2>2
    <3>2. Held(j, o, x) \/ (j = k /\ x = i)
      BY <1>7, <1>10, <2>2
    <3>3. CASE x = i
      BY <1>14, <3>1, <3>2, <3>3
    <3>4. CASE x # i
      BY <1>2, <3>1, <3>2, <3>4 DEF PlaceInv
    <3>5. QED
      BY <3>3, <3>4
  <2>3. ASSUME NEW l \in Keys, NEW m \in Nat, NEW x \in Items, Held(l, m, x)'
        PROVE  x <= arrived'
    <3>1. Held(l, m, x) \/ x = i
      BY <1>7, <1>10, <2>3
    <3>2. QED
      BY <1>12, <1>13, <1>14, <3>1
  <2>4. QED
    BY <2>1, <2>2, <2>3 DEF PlaceInv
<1>17. WaitInv'
  <2>1. ASSUME NEW l \in Keys, NEW m \in Nat, NEW x \in Items, Held(l, m, x)', Waits(l, m)'
        PROVE  fate'[x] = "waiting" /\ x > newest'[l]
    <3>1. Waits(l, m)
      BY <1>12, <2>1 DEF Waits
    <3>2. Held(l, m, x) \/ x = i
      BY <1>7, <1>10, <2>1
    <3>3. CASE x = i
      <4>1. newest[l] <= arrived /\ newest[l] \in Nat
        BY <1>2, <1>13 DEF LaneInv
      <4>2. QED
        BY <1>12, <1>13, <3>3, <4>1
    <3>4. CASE Held(l, m, x)
      <4>1. fate[x] = "waiting" /\ x > newest[l]
        BY <1>2, <3>1, <3>4 DEF WaitInv
      <4>2. QED
        BY <1>12, <1>13, <4>1
    <3>5. QED
      BY <3>2, <3>3, <3>4
  <2>2. ASSUME NEW x \in Items, fate'[x] = "waiting"
        PROVE  \E l \in Keys : \E m \in Nat : Held(l, m, x)' /\ Waits(l, m)'
    <3>1. CASE x = i
      <4>1. Held(k, n, x)' /\ Waits(k, n)'
        BY <1>10, <1>12, <1>15, <3>1 DEF Waits
      <4>2. QED
        BY <1>4, <4>1
    <3>2. CASE x # i
      <4>1. fate[x] = "waiting"
        BY <1>12, <1>13, <2>2, <3>2
      <4>2. PICK l \in Keys, m \in Nat : Held(l, m, x) /\ Waits(l, m)
        BY <1>2, <4>1 DEF WaitInv
      <4>3. Held(l, m, x)' /\ Waits(l, m)'
        BY <1>7, <1>10, <1>12, <4>2 DEF Waits
      <4>4. QED
        BY <4>3
    <3>3. QED
      BY <3>1, <3>2
  <2>3. QED
    BY <2>1, <2>2 DEF WaitInv
<1>18. FreshInv'
  <2> SUFFICES ASSUME NEW l \in Keys, NEW m \in DOMAIN chain'[l]
               PROVE  /\ chain'[l][m].gen <= gen'[l]
                      /\ chain'[l][m].gen = gen'[l] =>
                            \A x \in chain'[l][m].items : x > cutoff'[l]
    BY DEF FreshInv
  <2>1. CASE l # k
    BY <1>2, <1>7, <1>12, <2>1 DEF FreshInv
  <2>2. CASE l = k
    <3>1. m \in 1 .. n
      BY <1>4, <1>7, <2>2
    <3>2. i > cutoff[k]
      BY <1>2, <1>12, <1>13 DEF LaneInv
    <3>3. CASE m \in DOMAIN c /\ m < n
      <4>1. d[m].items = c[m].items /\ d[m].gen = c[m].gen
        BY <1>1, <1>3, <1>5, <3>3
      <4>2. QED
        BY <1>2, <1>5, <1>7, <1>12, <2>2, <3>3, <4>1 DEF FreshInv
    <3>4. CASE m = n /\ n = Len(c) + 1
      <4>1. d[m].items = {i} /\ d[m].gen = gen[k]
        BY <1>1, <1>3, <1>5, <1>6, <3>4
      <4>2. gen[k] \in Nat
        BY <1>2, Parts
      <4>3. QED
        BY <1>7, <1>12, <2>2, <3>2, <4>1, <4>2
    <3>5. CASE m = n /\ n = Len(c)
      <4>1. d[m].items = c[m].items \cup {i} /\ d[m].gen = c[m].gen /\ m \in DOMAIN c
        BY <1>1, <1>3, <1>4, <1>5, <1>6, <3>5
      <4>2. QED
        BY <1>2, <1>5, <1>7, <1>12, <2>2, <3>2, <4>1 DEF FreshInv
    <3>6. (m \in DOMAIN c /\ m < n) \/ (m = n /\ n = Len(c) + 1) \/ (m = n /\ n = Len(c))
      <4>1. PICK e \in Nat : e = Len(c)
        BY <1>6
      <4>2. n \in Nat \ {0} /\ (n = e + 1 \/ n = e)
        BY <1>4, <1>9, <4>1
      <4>3. (m \in 1 .. e /\ m < n) \/ (m = n /\ n = e + 1) \/ (m = n /\ n = e)
        BY <3>1, <4>2
      <4>4. QED
        BY <1>6, <4>1, <4>3
    <3>7. QED
      BY <3>3, <3>4, <3>5, <3>6
  <2>3. QED
    BY <2>1, <2>2
<1>19. QED
  BY <1>16, <1>17, <1>18

\* The chain invariants hold when nothing but the readiness of tasks changed
LEMMA FreesPlaces ==
    ASSUME IInv, NEW k \in Keys, Frees(k)
    PROVE  PlaceInv' /\ WaitInv' /\ FreshInv'
<1>1. PICK d \in Seq(Tasks) :
          /\ ChainBecomes(k, d) /\ Len(d) = Len(chain[k])
          /\ \A m \in DOMAIN chain[k] :
                d[m].items = chain[k][m].items /\ d[m].gen = chain[k][m].gen
  BY DEF Frees
<1>2. TypeOK /\ PlaceInv /\ WaitInv /\ FreshInv
  BY DEF IInv
<1>3. DOMAIN d = DOMAIN chain[k]
  <2>1. DOMAIN d = 1 .. Len(d)
    BY <1>1, LenProperties
  <2>2. DOMAIN chain[k] = 1 .. Len(chain[k])
    BY <1>2, Parts
  <2>3. QED
    BY <1>1, <2>1, <2>2
<1>4. /\ \A l \in Keys : l # k => chain'[l] = chain[l]
      /\ chain'[k] = d
      /\ \A l \in Keys : \A m, x : l # k => (Held(l, m, x)' <=> Held(l, m, x))
      /\ \A m, x : Held(k, m, x)' <=> m \in DOMAIN d /\ x \in d[m].items
  BY <1>1, <1>2, Places
<1>5. \A l \in Keys : \A m, x : Held(l, m, x)' <=> Held(l, m, x)
  <2>1. \A m, x : Held(k, m, x)' <=> Held(k, m, x)
    BY <1>1, <1>3, <1>4 DEF Held
  <2>2. QED
    BY <1>4, <2>1
<1>6. head' = head /\ fate' = fate /\ newest' = newest /\ cutoff' = cutoff /\ gen' = gen
      /\ arrived' = arrived
  BY DEF Frees
<1>7. PlaceInv'
  BY <1>2, <1>5, <1>6 DEF PlaceInv
<1>8. WaitInv'
  <2>1. \A l \in Keys : \A m : Waits(l, m)' <=> Waits(l, m)
    BY <1>6 DEF Waits
  <2>2. QED
    BY <1>2, <1>5, <1>6, <2>1 DEF WaitInv
<1>9. FreshInv'
  <2> SUFFICES ASSUME NEW l \in Keys, NEW m \in DOMAIN chain'[l]
               PROVE  /\ chain'[l][m].gen <= gen'[l]
                      /\ chain'[l][m].gen = gen'[l] =>
                            \A x \in chain'[l][m].items : x > cutoff'[l]
    BY DEF FreshInv
  <2>1. CASE l # k
    BY <1>2, <1>4, <1>6, <2>1 DEF FreshInv
  <2>2. CASE l = k
    BY <1>1, <1>2, <1>3, <1>4, <1>6, <2>2 DEF FreshInv
  <2>3. QED
    BY <2>1, <2>2
<1>10. QED
  BY <1>7, <1>8, <1>9

\* What the first task becomes: popped with what it held cancelled or left as it
\* is, or taken by onFlush
Ends(k, d) == chain[k] # <<>> /\ d = Tail(chain[k]) /\ head' = [head EXCEPT ![k] = "idle"]

\* The running task leaves
Leaves(k) ==
    /\ head[k] # "idle" /\ Ends(k, Tail(chain[k])) /\ ChainBecomes(k, Tail(chain[k]))
    /\ UNCHANGED <<fate, newest, cutoff, gen, arrived>>

\* Where the messages are after the first task of k left
LEMMA AfterPop ==
    ASSUME TypeOK, NEW k \in Keys, chain[k] # <<>>, ChainBecomes(k, Tail(chain[k]))
    PROVE  /\ \A l \in Keys : l # k => chain'[l] = chain[l]
           /\ \A l \in Keys : \A m, x : l # k => (Held(l, m, x)' <=> Held(l, m, x))
           /\ \A m, x : Held(k, m, x)' => m \in Nat \ {0} /\ Held(k, m + 1, x)
           /\ \A m \in Nat \ {0} : \A x : Held(k, m + 1, x) => Held(k, m, x)'
           /\ \A m \in DOMAIN chain'[k] :
                 m + 1 \in DOMAIN chain[k] /\ chain'[k][m] = chain[k][m + 1]
           /\ chain'[k] = Tail(chain[k])
           /\ 1 \in DOMAIN chain[k] /\ Head(chain[k]) = chain[k][1] /\ chain[k][1] \in Tasks
           /\ \A m, x : Held(k, m, x) => m \in Nat \ {0}
<1>1. PICK c : c = chain[k]
  OBVIOUS
<1>2. c \in Seq(Tasks) /\ c # <<>>
  BY <1>1, Parts
<1>3. PICK d : d = Tail(c)
  OBVIOUS
<1>4. /\ d \in Seq(Tasks) /\ Len(d) = Len(c) - 1 /\ DOMAIN d = 1 .. Len(c) - 1
      /\ \A m \in DOMAIN d : d[m] = c[m + 1]
      /\ Head(c) = c[1] /\ 1 \in DOMAIN c /\ c[1] \in Tasks
      /\ Len(c) \in Nat /\ DOMAIN c = 1 .. Len(c)
  BY <1>2, <1>3, Popped
<1>5. /\ \A l \in Keys : l # k => chain'[l] = chain[l]
      /\ chain'[k] = d
      /\ \A l \in Keys : \A m, x : l # k => (Held(l, m, x)' <=> Held(l, m, x))
      /\ \A m, x : Held(k, m, x)' <=> m \in DOMAIN d /\ x \in d[m].items
  BY <1>1, <1>3, Places
<1>6. \A m, x : Held(k, m, x) <=> m \in DOMAIN c /\ x \in c[m].items
  BY <1>1 DEF Held
<1>7. ASSUME NEW m, NEW x, Held(k, m, x)' PROVE m \in Nat \ {0} /\ Held(k, m + 1, x)
  <2>1. m \in 1 .. Len(c) - 1 /\ x \in c[m + 1].items
    BY <1>4, <1>5, <1>7
  <2>2. m + 1 \in 1 .. Len(c) /\ m \in Nat \ {0}
    BY <1>4, <2>1
  <2>3. QED
    BY <1>4, <1>6, <2>1, <2>2
<1>8. ASSUME NEW m \in Nat \ {0}, NEW x, Held(k, m + 1, x) PROVE Held(k, m, x)'
  <2>1. m + 1 \in 1 .. Len(c) /\ x \in c[m + 1].items
    BY <1>4, <1>6, <1>8
  <2>2. m \in 1 .. Len(c) - 1
    BY <1>4, <2>1
  <2>3. QED
    BY <1>4, <1>5, <2>1, <2>2
<1>9. ASSUME NEW m \in DOMAIN chain'[k]
      PROVE  m + 1 \in DOMAIN chain[k] /\ chain'[k][m] = chain[k][m + 1]
  <2>1. m \in 1 .. Len(c) - 1
    BY <1>4, <1>5
  <2>2. m + 1 \in 1 .. Len(c)
    BY <1>4, <2>1
  <2>3. QED
    BY <1>1, <1>4, <1>5, <2>2
<1>10. ASSUME NEW m, NEW x, Held(k, m, x) PROVE m \in Nat \ {0}
  <2>1. m \in 1 .. Len(c)
    BY <1>4, <1>6, <1>10
  <2>2. QED
    BY <1>4, <2>1
<1>11. QED
  BY <1>1, <1>3, <1>4, <1>5, <1>7, <1>8, <1>9, <1>10

\* The invariants that do not depend on what becomes of the first task
LEMMA PopPlaces ==
    ASSUME IInv, NEW k \in Keys, chain[k] # <<>>, ChainBecomes(k, Tail(chain[k])),
           UNCHANGED <<cutoff, gen, arrived>>
    PROVE  PlaceInv' /\ FreshInv'
<1>1. TypeOK /\ PlaceInv /\ FreshInv
  BY DEF IInv
<1>2. /\ \A l \in Keys : l # k => chain'[l] = chain[l]
      /\ \A l \in Keys : \A m, x : l # k => (Held(l, m, x)' <=> Held(l, m, x))
      /\ \A m, x : Held(k, m, x)' => m \in Nat \ {0} /\ Held(k, m + 1, x)
      /\ \A m \in DOMAIN chain'[k] : m + 1 \in DOMAIN chain[k] /\ chain'[k][m] = chain[k][m + 1]
  BY <1>1, AfterPop
<1>3. ASSUME NEW l \in Keys, NEW m \in Nat, NEW n \in Nat, NEW x \in Items, NEW y \in Items,
             Held(l, m, x)', Held(l, n, y)', m < n
      PROVE  x < y
  <2>1. CASE l # k
    BY <1>1, <1>2, <1>3, <2>1 DEF PlaceInv
  <2>2. CASE l = k
    <3>1. Held(k, m + 1, x) /\ Held(k, n + 1, y)
      BY <1>2, <1>3, <2>2
    <3>2. m + 1 \in Nat /\ n + 1 \in Nat /\ m + 1 < n + 1
      BY <1>3
    <3>3. QED
      BY <1>1, <3>1, <3>2 DEF PlaceInv
  <2>3. QED
    BY <2>1, <2>2
<1>4. ASSUME NEW l \in Keys, NEW m \in Nat, NEW x \in Items, Held(l, m, x)'
      PROVE  \E j \in Nat : Held(l, j, x)
  <2>1. CASE l # k
    BY <1>2, <1>4, <2>1
  <2>2. CASE l = k
    <3>1. Held(k, m + 1, x) /\ m + 1 \in Nat
      BY <1>2, <1>4, <2>2
    <3>2. QED
      BY <2>2, <3>1
  <2>3. QED
    BY <2>1, <2>2
<1>5. PlaceInv'
  <2>1. ASSUME NEW l \in Keys, NEW j \in Keys, NEW m \in Nat, NEW n \in Nat, NEW x \in Items,
               Held(l, m, x)', Held(j, n, x)'
        PROVE  l = j
    BY <1>1, <1>4, <2>1 DEF PlaceInv
  <2>2. ASSUME NEW l \in Keys, NEW m \in Nat, NEW x \in Items, Held(l, m, x)'
        PROVE  x <= arrived'
    BY <1>1, <1>4, <2>2 DEF PlaceInv
  <2>3. QED
    BY <1>3, <2>1, <2>2 DEF PlaceInv
<1>6. FreshInv'
  <2> SUFFICES ASSUME NEW l \in Keys, NEW m \in DOMAIN chain'[l]
               PROVE  /\ chain'[l][m].gen <= gen'[l]
                      /\ chain'[l][m].gen = gen'[l] =>
                            \A x \in chain'[l][m].items : x > cutoff'[l]
    BY DEF FreshInv
  <2>1. \E n \in DOMAIN chain[l] : chain'[l][m] = chain[l][n]
    BY <1>2
  <2>2. QED
    BY <1>1, <2>1 DEF FreshInv
<1>7. QED
  BY <1>5, <1>6

\* A chain with a task has a first one
LEMMA FirstTask ==
    ASSUME TypeOK, NEW k \in Keys, chain[k] # <<>>
    PROVE  1 \in DOMAIN chain[k] /\ chain[k][1] \in Tasks /\ Head(chain[k]) = chain[k][1]
<1>1. chain[k] \in Seq(Tasks)
  BY Parts
<1>2. QED
  BY <1>1, Popped

\* What is not in the first task is not among its messages
LEMMA Elsewhere ==
    ASSUME IInv, NEW k \in Keys, chain[k] # <<>>,
           NEW l \in Keys, NEW m \in Nat, NEW x \in Items, Held(l, m, x), l # k \/ m > 1
    PROVE  x \notin chain[k][1].items
<1>1. 1 \in DOMAIN chain[k]
  BY FirstTask DEF IInv
<1>2. SUFFICES ASSUME Held(k, 1, x) PROVE FALSE
  BY <1>1 DEF Held
<1>3. PlaceInv /\ Items \subseteq Nat
  BY Parts DEF IInv
<1>4. l = k
  BY <1>2, <1>3 DEF PlaceInv
<1>5. x < x
  BY <1>2, <1>3, <1>4 DEF PlaceInv
<1>6. QED
  BY <1>3, <1>5

\* The running task leaves: what waited behind it moves up
LEMMA LeavesWait ==
    ASSUME IInv, NEW k \in Keys, Leaves(k)
    PROVE  WaitInv'
<1>1. TypeOK /\ WaitInv
  BY DEF IInv
<1>2. /\ head[k] # "idle" /\ chain[k] # <<>> /\ head' = [head EXCEPT ![k] = "idle"]
      /\ ChainBecomes(k, Tail(chain[k])) /\ fate' = fate /\ newest' = newest
  BY DEF Leaves, Ends
<1>3. head'[k] = "idle" /\ \A l \in Keys : l # k => head'[l] = head[l]
  BY <1>1, <1>2, Parts
<1>4. /\ \A l \in Keys : \A m, x : l # k => (Held(l, m, x)' <=> Held(l, m, x))
      /\ \A m, x : Held(k, m, x)' => m \in Nat \ {0} /\ Held(k, m + 1, x)
      /\ \A m \in Nat \ {0} : \A x : Held(k, m + 1, x) => Held(k, m, x)'
      /\ \A m, x : Held(k, m, x) => m \in Nat \ {0}
  BY <1>1, <1>2, AfterPop
<1>5. ASSUME NEW l \in Keys, NEW m \in Nat, NEW x \in Items, Held(l, m, x)', Waits(l, m)'
      PROVE  fate'[x] = "waiting" /\ x > newest'[l]
  <2>1. CASE l # k
    BY <1>1, <1>2, <1>3, <1>4, <1>5, <2>1 DEF WaitInv, Waits
  <2>2. CASE l = k
    <3>1. m \in Nat \ {0} /\ Held(k, m + 1, x)
      BY <1>4, <1>5, <2>2
    <3>2. m + 1 \in Nat /\ Waits(k, m + 1)
      BY <3>1 DEF Waits
    <3>3. QED
      BY <1>1, <1>2, <2>2, <3>1, <3>2 DEF WaitInv
  <2>3. QED
    BY <2>1, <2>2
<1>6. ASSUME NEW x \in Items, fate'[x] = "waiting"
      PROVE  \E l \in Keys : \E m \in Nat : Held(l, m, x)' /\ Waits(l, m)'
  <2>1. PICK l \in Keys, m \in Nat : Held(l, m, x) /\ Waits(l, m)
    BY <1>1, <1>2, <1>6 DEF WaitInv
  <2>2. CASE l # k
    BY <1>3, <1>4, <2>1, <2>2 DEF Waits
  <2>3. CASE l = k
    <3>1. m \in Nat /\ m > 1
      BY <1>2, <2>1, <2>3 DEF Waits
    <3>2. m - 1 \in Nat \ {0} /\ (m - 1) + 1 = m
      BY <3>1
    <3>3. Held(k, m - 1, x)'
      BY <1>4, <2>1, <2>3, <3>2
    <3>4. Waits(k, m - 1)'
      BY <1>3 DEF Waits
    <3>5. QED
      BY <3>2, <3>3, <3>4
  <2>4. QED
    BY <2>2, <2>3
<1>7. QED
  BY <1>5, <1>6 DEF WaitInv

\* The first task gives its messages away, to onFlush or to onCancel: what waits
\* is behind it or of another key
LEMMA GivesAway ==
    ASSUME IInv, NEW k \in Keys, head[k] = "idle", chain[k] # <<>>,
           \/ ChainBecomes(k, Tail(chain[k])) /\ head' = [head EXCEPT ![k] = "idle"]
           \/ chain' = chain /\ head' = [head EXCEPT ![k] = "running"],
           NEW end \in {"flushed", "cancelled"},
           fate' = [i \in Items |-> IF i \in chain[k][1].items THEN end ELSE fate[i]],
           \A l \in Keys : l # k => newest'[l] = newest[l],
           \/ newest'[k] = newest[k]
           \/ newest'[k] \in chain[k][1].items
    PROVE  WaitInv'
<1>1. TypeOK /\ WaitInv /\ PlaceInv
  BY DEF IInv
<1>2. /\ fate \in [Items -> {"none", "waiting", "flushed", "cancelled"}] /\ Items \subseteq Nat
      /\ head \in [Keys -> {"idle", "running", "settling"}]
  BY <1>1, Parts
<1>3. \A l \in Keys : l # k => head'[l] = head[l]
  BY <1>2
<1>4. 1 \in DOMAIN chain[k] /\ chain[k][1] \in Tasks
  BY <1>1, FirstTask
<1>5. ASSUME NEW l \in Keys, NEW m \in Nat, NEW x \in Items, Held(l, m, x)', Waits(l, m)'
      PROVE  \E n \in Nat : Held(l, n, x) /\ (l # k \/ n > 1) /\ Waits(l, n)
  <2>1. CASE ChainBecomes(k, Tail(chain[k])) /\ head' = [head EXCEPT ![k] = "idle"]
    <3>1. /\ \A j \in Keys : \A n, y : j # k => (Held(j, n, y)' <=> Held(j, n, y))
          /\ \A n, y : Held(k, n, y)' => n \in Nat \ {0} /\ Held(k, n + 1, y)
      BY <1>1, <2>1, AfterPop
    <3>2. CASE l # k
      BY <1>3, <1>5, <3>1, <3>2 DEF Waits
    <3>3. CASE l = k
      <4>1. m \in Nat \ {0} /\ Held(k, m + 1, x)
        BY <1>5, <3>1, <3>3
      <4>2. m + 1 \in Nat /\ m + 1 > 1 /\ Waits(k, m + 1)
        BY <4>1 DEF Waits
      <4>3. QED
        BY <3>3, <4>1, <4>2
    <3>4. QED
      BY <3>2, <3>3
  <2>2. CASE chain' = chain /\ head' = [head EXCEPT ![k] = "running"]
    <3>1. Held(l, m, x)
      BY <1>5, <2>2 DEF Held
    <3>2. CASE l # k
      BY <1>3, <1>5, <3>1, <3>2 DEF Waits
    <3>3. CASE l = k
      <4>1. head'[k] = "running"
        BY <1>2, <2>2
      <4>2. m > 1
        BY <1>5, <3>3, <4>1 DEF Waits
      <4>3. QED
        BY <3>1, <3>3, <4>2 DEF Waits
    <3>4. QED
      BY <3>2, <3>3
  <2>3. QED
    BY <2>1, <2>2
<1>6. ASSUME NEW l \in Keys, NEW m \in Nat, NEW x \in Items, Held(l, m, x)', Waits(l, m)'
      PROVE  fate'[x] = "waiting" /\ x > newest'[l]
  <2>1. PICK n \in Nat : Held(l, n, x) /\ (l # k \/ n > 1) /\ Waits(l, n)
    BY <1>5, <1>6
  <2>2. x \notin chain[k][1].items
    BY <2>1, Elsewhere
  <2>3. fate[x] = "waiting" /\ x > newest[l]
    BY <1>1, <2>1 DEF WaitInv
  <2>4. fate'[x] = "waiting"
    BY <2>2, <2>3
  <2>5. CASE l # k
    BY <2>3, <2>4, <2>5
  <2>6. CASE l = k /\ newest'[k] = newest[k]
    BY <2>3, <2>4, <2>6
  <2>7. CASE l = k /\ newest'[k] \in chain[k][1].items
    <3>1. newest'[k] \in Items /\ Held(k, 1, newest'[k])
      BY <1>4, <2>7 DEF Held, Tasks
    <3>2. newest'[k] < x
      BY <1>1, <2>1, <2>7, <3>1 DEF PlaceInv
    <3>3. QED
      BY <1>2, <2>4, <2>7, <3>1, <3>2
  <2>8. QED
    BY <2>5, <2>6, <2>7
<1>7. ASSUME NEW x \in Items, fate'[x] = "waiting"
      PROVE  \E l \in Keys : \E m \in Nat : Held(l, m, x)' /\ Waits(l, m)'
  <2>1. x \notin chain[k][1].items /\ fate[x] = "waiting"
    BY <1>7
  <2>2. PICK l \in Keys, m \in Nat : Held(l, m, x) /\ Waits(l, m)
    BY <1>1, <2>1 DEF WaitInv
  <2>3. CASE chain' = chain /\ head' = [head EXCEPT ![k] = "running"]
    <3>1. Held(l, m, x)'
      BY <2>2, <2>3 DEF Held
    <3>2. CASE l # k
      BY <1>3, <2>2, <3>1, <3>2 DEF Waits
    <3>3. CASE l = k
      <4>1. m # 1 /\ m \in DOMAIN chain[k]
        BY <2>1, <2>2, <3>3 DEF Held
      <4>2. m > 1
        BY <1>1, <4>1, Parts
      <4>3. QED
        BY <3>1, <3>3, <4>2 DEF Waits
    <3>4. QED
      BY <3>2, <3>3
  <2>4. CASE ChainBecomes(k, Tail(chain[k])) /\ head' = [head EXCEPT ![k] = "idle"]
    <3>1. /\ \A j \in Keys : \A n, y : j # k => (Held(j, n, y)' <=> Held(j, n, y))
          /\ \A n \in Nat \ {0} : \A y : Held(k, n + 1, y) => Held(k, n, y)'
      BY <1>1, <2>4, AfterPop
    <3>2. CASE l # k
      BY <1>3, <2>2, <3>1, <3>2 DEF Waits
    <3>3. CASE l = k
      <4>1. m # 1 /\ m \in DOMAIN chain[k]
        BY <2>1, <2>2, <3>3 DEF Held
      <4>2. m - 1 \in Nat \ {0} /\ (m - 1) + 1 = m
        BY <1>1, <4>1, Parts
      <4>3. Held(k, m - 1, x)'
        BY <2>2, <3>1, <3>3, <4>2
      <4>4. head'[k] = "idle"
        BY <1>2, <2>4
      <4>5. Waits(k, m - 1)'
        BY <4>4 DEF Waits
      <4>6. QED
        BY <4>2, <4>3, <4>5
    <3>4. QED
      BY <3>2, <3>3
  <2>5. QED
    BY <2>3, <2>4
<1>8. QED
  BY <1>6, <1>7 DEF WaitInv

-----------------------------------------------------------------------------
(* The actions: the chain invariants.                                      *)

\* The chain whose buffer was released differs in that alone
LEMMA ReleasedFacts ==
    ASSUME IInv, NEW k \in Keys, NEW d, d = Released(k)
    PROVE  /\ d \in Seq(Tasks) /\ Len(d) = Len(chain[k]) /\ DOMAIN d = DOMAIN chain[k]
           /\ Len(d) \in Nat /\ DOMAIN d = 1 .. Len(d)
           /\ \A m \in DOMAIN d : /\ d[m].items = chain[k][m].items /\ d[m].gen = chain[k][m].gen
                                  /\ chain[k][m].ready => d[m].ready
<1>1. PICK c : c = chain[k]
  OBVIOUS
<1>2. c \in Seq(Tasks) /\ Len(c) \in Nat /\ DOMAIN c = 1 .. Len(c)
  BY <1>1, Parts DEF IInv
<1>3. CASE ~buffer[k].open
  BY <1>1, <1>2, <1>3 DEF Released
<1>4. CASE buffer[k].open
  <2>1. c # <<>>
    BY <1>1, <1>4 DEF IInv, LaneInv
  <2>2. Len(c) \in 1 .. Len(c)
    BY <1>2, <2>1, EmptySeq
  <2>3. PICK t : t = c[Len(c)]
    OBVIOUS
  <2>4. t \in Tasks
    BY <1>2, <2>2, <2>3, ElementOfSeq
  <2>5. PICK u : u = [t EXCEPT !.ready = TRUE]
    OBVIOUS
  <2>6. u \in Tasks /\ u.items = t.items /\ u.gen = t.gen /\ u.ready
    BY <2>4, <2>5 DEF Tasks
  <2>7. d = [c EXCEPT ![Len(c)] = u]
    BY <1>1, <1>4, <2>3, <2>5 DEF Released
  <2>8. /\ d \in Seq(Tasks) /\ Len(d) = Len(c) /\ DOMAIN d = 1 .. Len(c)
        /\ d[Len(c)] = u /\ \A m \in DOMAIN c : m # Len(c) => d[m] = c[m]
    BY <1>2, <2>1, <2>6, <2>7, Replaced
  <2>9. QED
    BY <1>1, <1>2, <2>3, <2>6, <2>8
<1>5. QED
  BY <1>3, <1>4

\* flushBuffer releases the task of the buffer
LEMMA FlushFrees ==
    ASSUME IInv, NEW k \in Keys, FlushBuffer(k)
    PROVE  Frees(k)
<1>1. PICK d : d = Released(k)
  OBVIOUS
<1>2. /\ d \in Seq(Tasks) /\ Len(d) = Len(chain[k]) /\ DOMAIN d = DOMAIN chain[k]
      /\ \A m \in DOMAIN d : /\ d[m].items = chain[k][m].items /\ d[m].gen = chain[k][m].gen
  BY <1>1, ReleasedFacts
<1>3. ChainBecomes(k, d)
  BY <1>1 DEF FlushBuffer, ChainBecomes
<1>4. QED
  BY <1>2, <1>3 DEF Frees, FlushBuffer

\* A task for a new message
LEMMA TaskTyped ==
    ASSUME TypeOK, NEW k \in Keys, NEW i \in Items, NEW r \in BOOLEAN, NEW t, t = Task(i, k, r)
    PROVE  t \in Tasks /\ t.items = {i} /\ t.gen = gen[k] /\ t.ready = r
<1>1. gen[k] \in Nat
  BY Parts
<1>2. QED
  BY <1>1 DEF Task, Tasks

\* A message that finds same-key work joins the end of the chain
LEMMA BehindJoins ==
    ASSUME IInv, NEW k \in Keys, NEW i \in Items, i = arrived + 1, arrived' = arrived + 1,
           UNCHANGED <<gen, cutoff>>, EnqueueBehind(k, i)
    PROVE  Joins(k, i)
<1>1. PICK c : c = Released(k)
  OBVIOUS
<1>2. /\ c \in Seq(Tasks) /\ Len(c) = Len(chain[k]) /\ DOMAIN c = DOMAIN chain[k]
      /\ Len(c) \in Nat
      /\ \A m \in DOMAIN c : /\ c[m].items = chain[k][m].items /\ c[m].gen = chain[k][m].gen
  BY <1>1, ReleasedFacts
<1>3. PICK t : t = Task(i, k, TRUE)
  OBVIOUS
<1>4. t \in Tasks /\ t.items = {i} /\ t.gen = gen[k]
  <2>1. gen[k] \in Nat
    BY Parts DEF IInv
  <2>2. QED
    BY <1>3, <2>1 DEF Task, Tasks
<1>5. PICK d : d = Append(c, t)
  OBVIOUS
<1>6. /\ d \in Seq(Tasks) /\ Len(d) = Len(c) + 1 /\ d # <<>>
      /\ d[Len(c) + 1] = t /\ \A m \in DOMAIN c : d[m] = c[m]
  BY <1>2, <1>4, <1>5, Appended
<1>7. ChainBecomes(k, d)
  BY <1>1, <1>3, <1>5 DEF EnqueueBehind, ChainBecomes
<1>8. \A m \in DOMAIN chain[k] : d[m].items = chain[k][m].items /\ d[m].gen = chain[k][m].gen
  BY <1>2, <1>6
<1>9. Len(d) = Len(chain[k]) + 1 /\ d[Len(d)].items = {i} /\ d[Len(d)].gen = gen[k]
  BY <1>2, <1>4, <1>6
<1>10. QED
  BY <1>6, <1>7, <1>8, <1>9 DEF Joins, EnqueueBehind

\* and so does a message that makes a buffer or finds the map full
LEMMA AppendJoins ==
    ASSUME IInv, NEW k \in Keys, NEW i \in Items, i = arrived + 1, arrived' = arrived + 1,
           NEW r \in BOOLEAN, ChainBecomes(k, Append(chain[k], Task(i, k, r))),
           fate' = [fate EXCEPT ![i] = "waiting"], UNCHANGED <<head, newest, gen, cutoff>>
    PROVE  Joins(k, i)
<1>1. PICK c : c = chain[k]
  OBVIOUS
<1>2. c \in Seq(Tasks) /\ Len(c) \in Nat
  BY <1>1, Parts DEF IInv
<1>3. PICK t : t = Task(i, k, r)
  OBVIOUS
<1>4. t \in Tasks /\ t.items = {i} /\ t.gen = gen[k]
  BY <1>3, TaskTyped DEF IInv
<1>5. PICK d : d = Append(c, t)
  OBVIOUS
<1>6. /\ d \in Seq(Tasks) /\ Len(d) = Len(c) + 1 /\ d # <<>>
      /\ d[Len(c) + 1] = t /\ \A m \in DOMAIN c : d[m] = c[m]
  BY <1>2, <1>4, <1>5, Appended
<1>7. ChainBecomes(k, d)
  BY <1>1, <1>3, <1>5
<1>8. \A m \in DOMAIN chain[k] : d[m].items = chain[k][m].items /\ d[m].gen = chain[k][m].gen
  BY <1>1, <1>6
<1>9. Len(d) = Len(chain[k]) + 1 /\ d[Len(d)].items = {i} /\ d[Len(d)].gen = gen[k]
  BY <1>1, <1>2, <1>4, <1>6
<1>10. QED
  BY <1>6, <1>7, <1>8, <1>9 DEF Joins

\* A chain whose last task takes the message in
Widen(c, i) == [c EXCEPT ![Len(c)].items = @ \cup {i}]

\* The task of an open buffer takes the message in
LEMMA Widened ==
    ASSUME IInv, NEW k \in Keys, NEW i \in Items, buffer[k].open, NEW d,
           d = Widen(chain[k], i)
    PROVE  /\ d \in Seq(Tasks) /\ Len(d) = Len(chain[k]) /\ d # <<>> /\ chain[k] # <<>>
           /\ Len(d) \in Nat /\ DOMAIN d = 1 .. Len(d) /\ DOMAIN chain[k] = DOMAIN d
           /\ d[Len(d)].items = chain[k][Len(d)].items \cup {i}
           /\ d[Len(d)].gen = chain[k][Len(d)].gen /\ ~d[Len(d)].ready
           /\ \A m \in DOMAIN chain[k] : m # Len(d) => d[m] = chain[k][m]
           /\ \A m \in DOMAIN chain[k] : d[m].ready = chain[k][m].ready
           /\ head[k] # "idle" => Len(d) > 1
<1>1. PICK c : c = chain[k]
  OBVIOUS
<1>2. c \in Seq(Tasks) /\ Len(c) \in Nat /\ DOMAIN c = 1 .. Len(c)
  BY <1>1, Parts DEF IInv
<1>3. c # <<>> /\ ~c[Len(c)].ready
  BY <1>1 DEF IInv, LaneInv
<1>4. Len(c) \in 1 .. Len(c)
  BY <1>2, <1>3, EmptySeq
<1>5. PICK t : t = c[Len(c)]
  OBVIOUS
<1>6. t \in Tasks
  BY <1>2, <1>4, <1>5, ElementOfSeq
<1>7. PICK u : u = [t EXCEPT !.items = t.items \cup {i}]
  OBVIOUS
<1>8. u \in Tasks /\ u.items = t.items \cup {i} /\ u.gen = t.gen /\ u.ready = t.ready
  BY <1>6, <1>7 DEF Tasks
<1>9. d = [c EXCEPT ![Len(c)] = u]
  BY <1>1, <1>5, <1>7 DEF Widen
<1>10. /\ d \in Seq(Tasks) /\ Len(d) = Len(c) /\ DOMAIN d = 1 .. Len(c) /\ d # <<>>
       /\ d[Len(c)] = u /\ \A m \in DOMAIN c : m # Len(c) => d[m] = c[m]
  <2>1. c \in Seq(Tasks) /\ c # <<>> /\ u \in Tasks
    BY <1>2, <1>3, <1>8
  <2>2. QED
    BY <1>9, <2>1, Replaced
<1>11. head[k] # "idle" => Len(c) > 1
  <2>1. head[k] # "idle" => c[1].ready
    BY <1>1 DEF IInv, LaneInv
  <2>2. QED
    BY <1>2, <1>3, <1>4, <2>1
<1>12. QED
  BY <1>1, <1>2, <1>3, <1>5, <1>8, <1>10, <1>11

\* A message to be debounced joins the end of the chain
LEMMA DebouncedJoins ==
    ASSUME IInv, NEW k \in Keys, NEW i \in Items, i = arrived + 1, arrived' = arrived + 1,
           UNCHANGED <<gen, cutoff>>, EnqueueDebounced(k, i)
    PROVE  Joins(k, i)
<1>1. CASE buffer[k].open
  <2>1. PICK d : d = Widen(chain[k], i)
    OBVIOUS
  <2>2. ChainBecomes(k, d)
    BY <1>1, <2>1 DEF EnqueueDebounced, ChainBecomes, Widen
  <2>3. /\ d \in Seq(Tasks) /\ Len(d) = Len(chain[k]) /\ d # <<>> /\ chain[k] # <<>>
        /\ Len(d) \in Nat /\ DOMAIN d = 1 .. Len(d) /\ DOMAIN chain[k] = DOMAIN d
        /\ d[Len(d)].items = chain[k][Len(d)].items \cup {i}
        /\ d[Len(d)].gen = chain[k][Len(d)].gen /\ ~d[Len(d)].ready
        /\ \A m \in DOMAIN chain[k] : m # Len(d) => d[m] = chain[k][m]
        /\ \A m \in DOMAIN chain[k] : d[m].ready = chain[k][m].ready
        /\ head[k] # "idle" => Len(d) > 1
    BY SMTT(60), <1>1, <2>1, Widened
  <2>4. \A m \in DOMAIN chain[k] : m < Len(d) =>
             d[m].items = chain[k][m].items /\ d[m].gen = chain[k][m].gen
    BY <2>3
  <2>5. QED
    BY <2>2, <2>3, <2>4 DEF Joins, EnqueueDebounced
<1>2. CASE ~buffer[k].open
  <2>1. \E r \in BOOLEAN : ChainBecomes(k, Append(chain[k], Task(i, k, r)))
    BY <1>2 DEF EnqueueDebounced, ChainBecomes
  <2>2. QED
    BY <2>1, AppendJoins DEF EnqueueDebounced
<1>3. QED
  BY <1>1, <1>2

\* An immediate message of an idle key does not wait
LEMMA NowPlaces ==
    ASSUME IInv, NEW k \in Keys, NEW i \in Items, i = arrived + 1, arrived' = arrived + 1,
           UNCHANGED <<gen, cutoff>>, EnqueueNow(k, i)
    PROVE  PlaceInv' /\ WaitInv' /\ FreshInv'
<1>1. TypeOK /\ PlaceInv /\ WaitInv /\ FreshInv /\ LaneInv
  BY DEF IInv
<1>2. chain[k] = <<>>
  BY <1>1 DEF EnqueueNow, MustQueue, LaneInv
<1>3. /\ arrived \in Nat /\ Items \subseteq Nat /\ MaxItems \in Nat /\ gen[k] \in Nat
      /\ chain \in [Keys -> Seq(Tasks)] /\ newest \in [Keys -> 0 .. MaxItems]
      /\ cutoff \in [Keys -> 0 .. MaxItems] /\ head \in [Keys -> {"idle", "running", "settling"}]
      /\ fate \in [Items -> {"none", "waiting", "flushed", "cancelled"}]
  BY <1>1, Parts
<1>4. Max({i}) = i
  <2>1. {i} \in SUBSET Items /\ {i} # {}
    OBVIOUS
  <2>2. QED
    BY <2>1, LastMessage
<1>5. /\ fate' = [x \in Items |-> IF x \in {i} THEN "flushed" ELSE fate[x]]
      /\ newest' = [newest EXCEPT ![k] = i]
  BY <1>4 DEF EnqueueNow, Hands
<1>6. PICK t : t = Task(i, k, TRUE)
  OBVIOUS
<1>7. t \in Tasks /\ t.items = {i} /\ t.gen = gen[k]
  BY <1>3, <1>6 DEF Task, Tasks
<1>8. \/ chain' = chain /\ head' = head
      \/ ChainBecomes(k, <<t>>) /\ head' = [head EXCEPT ![k] = "running"]
  BY <1>6 DEF EnqueueNow, ChainBecomes
<1>9. \A m, x : ~Held(k, m, x)
  BY <1>2 DEF Held
<1>10. /\ \A l \in Keys : l # k => chain'[l] = chain[l] /\ head'[l] = head[l]
       /\ \A m \in DOMAIN chain'[k] : m = 1 /\ chain'[k][m] = t /\ head'[k] = "running"
  <2>1. CASE chain' = chain /\ head' = head
    BY <1>2, <2>1
  <2>2. CASE ChainBecomes(k, <<t>>) /\ head' = [head EXCEPT ![k] = "running"]
    BY <1>3, <2>2 DEF ChainBecomes
  <2>3. QED
    BY <1>8, <2>1, <2>2
<1>11. /\ \A l \in Keys : \A m, x : l # k => (Held(l, m, x)' <=> Held(l, m, x))
       /\ \A m, x : Held(k, m, x)' => m = 1 /\ x = i /\ ~Waits(k, m)'
  BY <1>7, <1>10 DEF Held, Waits
<1>12. PlaceInv'
  <2>1. \A l \in Keys : \A m \in Nat : \A x \in Items :
           Held(l, m, x)' => Held(l, m, x) \/ (l = k /\ m = 1 /\ x = i)
    BY <1>11
  <2>2. \A l \in Keys : \A m \in Nat : \A x \in Items : Held(l, m, x) => x # i /\ x <= arrived
    BY <1>1, <1>3 DEF PlaceInv
  <2>3. ASSUME NEW l \in Keys, NEW m \in Nat, NEW n \in Nat, NEW x \in Items, NEW y \in Items,
               Held(l, m, x)', Held(l, n, y)', m < n
        PROVE  x < y
    BY <1>1, <1>9, <2>1, <2>3 DEF PlaceInv
  <2>4. ASSUME NEW l \in Keys, NEW j \in Keys, NEW m \in Nat, NEW n \in Nat, NEW x \in Items,
               Held(l, m, x)', Held(j, n, x)'
        PROVE  l = j
    BY <1>1, <2>1, <2>2, <2>4 DEF PlaceInv
  <2>5. ASSUME NEW l \in Keys, NEW m \in Nat, NEW x \in Items, Held(l, m, x)'
        PROVE  x <= arrived'
    BY <1>3, <2>1, <2>2, <2>5
  <2>6. QED
    BY <2>3, <2>4, <2>5 DEF PlaceInv
<1>13. WaitInv'
  <2>1. ASSUME NEW l \in Keys, NEW m \in Nat, NEW x \in Items, Held(l, m, x)', Waits(l, m)'
        PROVE  fate'[x] = "waiting" /\ x > newest'[l]
    <3>1. l # k /\ Held(l, m, x)
      BY <1>11, <2>1
    <3>2. Waits(l, m)
      BY <1>10, <2>1, <3>1 DEF Waits
    <3>3. x # i
      BY <1>1, <1>3, <3>1 DEF PlaceInv
    <3>4. fate[x] = "waiting" /\ x > newest[l]
      BY <1>1, <3>1, <3>2 DEF WaitInv
    <3>5. QED
      BY <1>3, <1>5, <3>1, <3>3, <3>4
  <2>2. ASSUME NEW x \in Items, fate'[x] = "waiting"
        PROVE  \E l \in Keys : \E m \in Nat : Held(l, m, x)' /\ Waits(l, m)'
    <3>1. fate[x] = "waiting"
      BY <1>5, <2>2
    <3>2. PICK l \in Keys, m \in Nat : Held(l, m, x) /\ Waits(l, m)
      BY <1>1, <3>1 DEF WaitInv
    <3>3. l # k
      BY <1>9, <3>2
    <3>4. Held(l, m, x)' /\ Waits(l, m)'
      BY <1>10, <1>11, <3>2, <3>3 DEF Waits
    <3>5. QED
      BY <3>4
  <2>3. QED
    BY <2>1, <2>2 DEF WaitInv
<1>14. FreshInv'
  <2> SUFFICES ASSUME NEW l \in Keys, NEW m \in DOMAIN chain'[l]
               PROVE  /\ chain'[l][m].gen <= gen'[l]
                      /\ chain'[l][m].gen = gen'[l] =>
                            \A x \in chain'[l][m].items : x > cutoff'[l]
    BY DEF FreshInv
  <2>1. CASE l # k
    BY <1>1, <1>10, <2>1 DEF FreshInv
  <2>2. CASE l = k
    <3>1. i > cutoff[k]
      BY <1>1, <1>3 DEF LaneInv
    <3>2. QED
      BY <1>3, <1>7, <1>10, <2>2, <3>1
  <2>3. QED
    BY <2>1, <2>2
<1>15. QED
  BY <1>12, <1>13, <1>14

\* The chain that was emptied at its end differs in that alone
LEMMA EmptiedFacts ==
    ASSUME IInv, NEW k \in Keys, buffer[k].open, NEW d, d = Emptied(k)
    PROVE  /\ d \in Seq(Tasks) /\ Len(d) = Len(chain[k]) /\ DOMAIN d = DOMAIN chain[k]
           /\ Len(d) \in DOMAIN d /\ d[Len(d)].items = {}
           /\ Len(d) \in Nat /\ DOMAIN d = 1 .. Len(d)
           /\ \A m \in DOMAIN d : /\ m # Len(d) => d[m] = chain[k][m]
                                  /\ d[m].gen = chain[k][m].gen
                                  /\ chain[k][m].ready => d[m].ready
<1>1. PICK c : c = chain[k]
  OBVIOUS
<1>2. c \in Seq(Tasks) /\ Len(c) \in Nat /\ DOMAIN c = 1 .. Len(c)
  BY <1>1, Parts DEF IInv
<1>3. c # <<>>
  BY <1>1 DEF IInv, LaneInv
<1>4. Len(c) \in 1 .. Len(c)
  BY <1>2, <1>3, EmptySeq
<1>5. PICK t : t = c[Len(c)]
  OBVIOUS
<1>6. t \in Tasks
  BY <1>2, <1>4, <1>5, ElementOfSeq
<1>7. PICK u : u = [t EXCEPT !.items = {}, !.ready = TRUE]
  OBVIOUS
<1>8. u \in Tasks /\ u.items = {} /\ u.gen = t.gen /\ u.ready
  BY <1>6, <1>7 DEF Tasks
<1>9. d = [c EXCEPT ![Len(c)] = u]
  BY <1>1, <1>2, <1>4, <1>5, <1>6, <1>7 DEF Emptied
<1>10. /\ d \in Seq(Tasks) /\ Len(d) = Len(c) /\ DOMAIN d = 1 .. Len(c) /\ d # <<>>
       /\ d[Len(c)] = u /\ \A m \in DOMAIN c : m # Len(c) => d[m] = c[m]
  BY <1>2, <1>3, <1>8, <1>9, Replaced
<1>11. QED
  BY <1>1, <1>2, <1>4, <1>5, <1>8, <1>10

\* cancelKey empties the buffer's task and outdates all others
LEMMA CancelPlaces ==
    ASSUME IInv, NEW k \in Keys, CancelKey(k)
    PROVE  PlaceInv' /\ WaitInv' /\ FreshInv'
<1>1. TypeOK /\ PlaceInv /\ WaitInv /\ FreshInv
  BY DEF IInv
<1>2. /\ gen \in [Keys -> Nat] /\ cutoff \in [Keys -> 0 .. MaxItems] /\ Items \subseteq Nat
      /\ fate \in [Items -> {"none", "waiting", "flushed", "cancelled"}]
      /\ chain \in [Keys -> Seq(Tasks)]
  BY <1>1, Parts
<1>3. /\ gen' = [gen EXCEPT ![k] = gen[k] + 1] /\ cutoff' = [cutoff EXCEPT ![k] = arrived]
      /\ arrived' = arrived /\ head' = head /\ newest' = newest
  BY DEF CancelKey, Invalidated
<1>4. \A l \in Keys : \A m : Waits(l, m)' <=> Waits(l, m)
  BY <1>3 DEF Waits
\* which messages lose their place
<1>5. /\ \A l \in Keys : l # k => chain'[l] = chain[l]
      /\ \A m \in DOMAIN chain'[k] : m \in DOMAIN chain[k] /\ chain'[k][m].gen = chain[k][m].gen
      /\ \A l \in Keys : \A m, x : Held(l, m, x)' => Held(l, m, x)
      /\ \A l \in Keys : \A m \in Nat : \A x \in Items :
            Held(l, m, x) => IF Held(l, m, x)' THEN fate'[x] = fate[x] ELSE fate'[x] = "cancelled"
      /\ \A x \in Items : fate'[x] = "waiting" => fate[x] = "waiting"
  <2>1. CASE ~buffer[k].open
    <3>1. chain' = chain /\ fate' = fate
      BY <2>1 DEF CancelKey
    <3>2. QED
      BY <3>1 DEF Held
  <2>2. CASE buffer[k].open
    <3>1. PICK d : d = Emptied(k)
      OBVIOUS
    <3>2. /\ d \in Seq(Tasks) /\ Len(d) = Len(chain[k]) /\ DOMAIN d = DOMAIN chain[k]
          /\ Len(d) \in DOMAIN d /\ d[Len(d)].items = {} /\ Len(d) \in Nat
          /\ \A m \in DOMAIN d : /\ m # Len(d) => d[m] = chain[k][m]
                                 /\ d[m].gen = chain[k][m].gen
      BY <2>2, <3>1, EmptiedFacts
    <3>3. PICK n : n = Len(chain[k])
      OBVIOUS
    <3>4. /\ ChainBecomes(k, d)
          /\ fate' = [x \in Items |-> IF x \in chain[k][n].items THEN "cancelled" ELSE fate[x]]
      BY <2>2, <3>1, <3>3 DEF CancelKey, ChainBecomes
    <3>5. /\ \A l \in Keys : l # k => chain'[l] = chain[l]
          /\ chain'[k] = d
          /\ \A l \in Keys : \A m, x : l # k => (Held(l, m, x)' <=> Held(l, m, x))
          /\ \A m, x : Held(k, m, x)' <=> m \in DOMAIN d /\ x \in d[m].items
      BY <1>1, <3>4, Places
    <3>6. \A m, x : Held(k, m, x)' <=> Held(k, m, x) /\ m # n
      BY <3>2, <3>3, <3>5 DEF Held
    <3>7. n \in Nat /\ \A x : x \in chain[k][n].items <=> Held(k, n, x)
      BY <3>2, <3>3 DEF Held
    <3>8. ASSUME NEW l \in Keys, NEW m \in Nat, NEW x \in Items, Held(l, m, x)
          PROVE  IF Held(l, m, x)' THEN fate'[x] = fate[x] ELSE fate'[x] = "cancelled"
      <4>1. CASE x \notin chain[k][n].items
        <5>1. l # k \/ m # n
          BY <3>7, <3>8, <4>1
        <5>2. Held(l, m, x)'
          BY <3>5, <3>6, <3>8, <5>1
        <5>3. QED
          BY <3>4, <4>1, <5>2
      <4>2. CASE x \in chain[k][n].items
        <5>1. Held(k, n, x)
          BY <3>7, <4>2
        <5>2. l = k
          BY <1>1, <3>7, <3>8, <5>1 DEF PlaceInv
        <5>3. ~(m < n) /\ ~(n < m)
          BY <1>1, <1>2, <3>7, <3>8, <5>1, <5>2 DEF PlaceInv
        <5>4. m = n
          BY <3>7, <5>3
        <5>5. ~Held(l, m, x)'
          BY <3>6, <5>2, <5>4
        <5>6. QED
          BY <3>4, <4>2, <5>5
      <4>3. QED
        BY <4>1, <4>2
    <3>9. \A x \in Items : fate'[x] = "waiting" => fate[x] = "waiting"
      BY <3>4
    <3>10. \A m \in DOMAIN chain'[k] : m \in DOMAIN chain[k] /\ chain'[k][m].gen = chain[k][m].gen
      BY <3>2, <3>5
    <3>11. \A l \in Keys : \A m, x : Held(l, m, x)' => Held(l, m, x)
      BY <3>5, <3>6
    <3>12. QED
      BY <3>5, <3>8, <3>9, <3>10, <3>11
  <2>3. QED
    BY <2>1, <2>2
<1>6. PlaceInv'
  BY <1>1, <1>3, <1>5 DEF PlaceInv
<1>7. WaitInv'
  <2>1. ASSUME NEW l \in Keys, NEW m \in Nat, NEW x \in Items, Held(l, m, x)', Waits(l, m)'
        PROVE  fate'[x] = "waiting" /\ x > newest'[l]
    BY <1>1, <1>3, <1>4, <1>5, <2>1 DEF WaitInv
  <2>2. ASSUME NEW x \in Items, fate'[x] = "waiting"
        PROVE  \E l \in Keys : \E m \in Nat : Held(l, m, x)' /\ Waits(l, m)'
    <3>1. PICK l \in Keys, m \in Nat : Held(l, m, x) /\ Waits(l, m)
      BY <1>1, <1>5, <2>2 DEF WaitInv
    <3>2. Held(l, m, x)'
      BY <1>5, <2>2, <3>1
    <3>3. QED
      BY <1>4, <3>1, <3>2
  <2>3. QED
    BY <2>1, <2>2 DEF WaitInv
<1>8. FreshInv'
  <2> SUFFICES ASSUME NEW l \in Keys, NEW m \in DOMAIN chain'[l]
               PROVE  /\ chain'[l][m].gen <= gen'[l]
                      /\ chain'[l][m].gen = gen'[l] =>
                            \A x \in chain'[l][m].items : x > cutoff'[l]
    BY DEF FreshInv
  <2>1. CASE l # k
    BY <1>1, <1>2, <1>3, <1>5, <2>1 DEF FreshInv
  <2>2. CASE l = k
    <3>1. m \in DOMAIN chain[k] /\ chain'[k][m].gen = chain[k][m].gen
      BY <1>5, <2>2
    <3>2. chain[k][m].gen <= gen[k] /\ chain[k][m].gen \in Nat /\ gen[k] \in Nat
      <4>1. chain[k][m] \in Tasks
        BY <1>1, <3>1, Parts
      <4>2. QED
        BY <1>1, <1>2, <3>1, <4>1 DEF FreshInv, Tasks
    <3>3. gen'[k] = gen[k] + 1
      BY <1>2, <1>3
    <3>4. QED
      BY <2>2, <3>1, <3>2, <3>3
  <2>3. QED
    BY <2>1, <2>2
<1>9. QED
  BY <1>6, <1>7, <1>8

\* The task at the head runs: it is dropped or taken by onFlush
LEMMA RunPlaces ==
    ASSUME IInv, NEW k \in Keys, RunHead(k)
    PROVE  PlaceInv' /\ WaitInv' /\ FreshInv'
<1>1. TypeOK /\ PlaceInv /\ WaitInv /\ FreshInv
  BY DEF IInv
<1>2. /\ head[k] = "idle" /\ chain[k] # <<>> /\ UNCHANGED <<cutoff, gen, arrived>>
  BY DEF RunHead, HeadReady
<1>3. PICK t : t = chain[k][1]
  OBVIOUS
<1>4. t \in Tasks /\ Head(chain[k]) = t
  BY <1>1, <1>2, <1>3, FirstTask
<1>5. /\ fate \in [Items -> {"none", "waiting", "flushed", "cancelled"}]
      /\ newest \in [Keys -> 0 .. MaxItems]
  BY <1>1, Parts
<1>6. \/ ChainBecomes(k, Tail(chain[k])) /\ head' = [head EXCEPT ![k] = "idle"]
      \/ chain' = chain /\ head' = [head EXCEPT ![k] = "running"]
  BY DEF RunHead, Pop, ChainBecomes
<1>7. \/ t.items = {} /\ fate' = fate /\ newest' = newest
      \/ /\ fate' = [i \in Items |-> IF i \in t.items THEN "cancelled" ELSE fate[i]]
         /\ newest' = newest
      \/ t.items # {} /\ Hands(k, t.items)
  BY <1>4 DEF RunHead
<1>8. WaitInv'
  <2>1. CASE t.items = {} /\ fate' = fate /\ newest' = newest
    <3>1. fate' = [i \in Items |-> IF i \in chain[k][1].items THEN "cancelled" ELSE fate[i]]
      BY <1>3, <1>5, <2>1
    <3>2. QED
      BY <1>2, <1>6, <2>1, <3>1, GivesAway
  <2>2. CASE /\ fate' = [i \in Items |-> IF i \in t.items THEN "cancelled" ELSE fate[i]]
             /\ newest' = newest
    BY <1>2, <1>3, <1>6, <2>2, GivesAway
  <2>3. CASE t.items # {} /\ Hands(k, t.items)
    <3>1. /\ fate' = [i \in Items |-> IF i \in t.items THEN "flushed" ELSE fate[i]]
          /\ newest' = [newest EXCEPT ![k] = Max(t.items)]
      BY <2>3 DEF Hands
    <3>2. Max(t.items) \in t.items
      BY <1>4, <2>3, LastMessage DEF Tasks
    <3>3. newest'[k] \in t.items /\ \A l \in Keys : l # k => newest'[l] = newest[l]
      BY <1>5, <3>1, <3>2
    <3>4. QED
      BY <1>2, <1>3, <1>6, <3>1, <3>3, GivesAway
  <2>4. QED
    BY <1>7, <2>1, <2>2, <2>3
<1>9. PlaceInv' /\ FreshInv'
  <2>1. CASE ChainBecomes(k, Tail(chain[k]))
    BY <1>2, <2>1, PopPlaces
  <2>2. CASE chain' = chain
    <3>1. \A l \in Keys : \A m, x : Held(l, m, x)' <=> Held(l, m, x)
      BY <2>2 DEF Held
    <3>2. PlaceInv'
      BY <1>1, <1>2, <3>1 DEF PlaceInv
    <3>3. FreshInv'
      BY <1>1, <1>2, <2>2 DEF FreshInv
    <3>4. QED
      BY <3>2, <3>3
  <2>3. QED
    BY <1>6, <2>1, <2>2
<1>10. QED
  BY <1>8, <1>9

\* Steps that move no message and change no generation that is in use
LEMMA QuietPlaces ==
    ASSUME IInv, chain' = chain, UNCHANGED <<fate, newest, cutoff, arrived>>,
           \A k \in Keys : head'[k] = "idle" <=> head[k] = "idle",
           \A k \in Keys : gen'[k] = gen[k] \/ chain[k] = <<>>
    PROVE  PlaceInv' /\ WaitInv' /\ FreshInv'
<1>1. TypeOK /\ PlaceInv /\ WaitInv /\ FreshInv
  BY DEF IInv
<1>2. \A k \in Keys : \A m, x : Held(k, m, x)' <=> Held(k, m, x)
  BY DEF Held
<1>3. \A k \in Keys : \A m : Waits(k, m)' <=> Waits(k, m)
  BY DEF Waits
<1>4. PlaceInv'
  BY <1>1, <1>2 DEF PlaceInv
<1>5. WaitInv'
  BY <1>1, <1>2, <1>3 DEF WaitInv
<1>6. FreshInv'
  <2> SUFFICES ASSUME NEW k \in Keys, NEW m \in DOMAIN chain[k]
               PROVE  /\ chain[k][m].gen <= gen'[k]
                      /\ chain[k][m].gen = gen'[k] => \A x \in chain[k][m].items : x > cutoff[k]
    BY DEF FreshInv
  <2>1. chain[k] # <<>>
    OBVIOUS
  <2>2. QED
    BY <1>1, <2>1 DEF FreshInv
<1>7. QED
  BY <1>4, <1>5, <1>6

-----------------------------------------------------------------------------
(* Types, lanes and windows.                                               *)

\* A chain that is a sequence of tasks leaves the map of chains typed
LEMMA ChainTyped ==
    ASSUME TypeOK, NEW k \in Keys, NEW d \in Seq(Tasks), ChainBecomes(k, d)
    PROVE  /\ chain' \in [Keys -> Seq([items : SUBSET Items, gen : Nat, ready : BOOLEAN])]
           /\ chain'[k] = d /\ \A l \in Keys : l # k => chain'[l] = chain[l]
<1>1. chain \in [Keys -> Seq(Tasks)]
  BY Parts
<1>2. chain' \in [Keys -> Seq(Tasks)]
  BY <1>1 DEF ChainBecomes
<1>3. chain'[k] = d /\ \A l \in Keys : l # k => chain'[l] = chain[l]
  BY <1>1 DEF ChainBecomes
<1>4. QED
  BY <1>2, <1>3 DEF Tasks

\* The lane invariant of a step on one key
LEMMA LaneStep ==
    ASSUME IInv, TypeOK', NEW k \in Keys, arrived' \in {arrived, arrived + 1},
           \A l \in Keys : l # k =>
              /\ chain'[l] = chain[l] /\ head'[l] = head[l] /\ buffer'[l] = buffer[l]
              /\ (l \in tracked' <=> l \in tracked)
              /\ newest'[l] = newest[l] /\ cutoff'[l] = cutoff[l],
           head'[k] # "idle" => chain'[k] # <<>> /\ chain'[k][1].ready,
           buffer'[k].open => chain'[k] # <<>> /\ ~chain'[k][Len(chain'[k])].ready,
           k \notin tracked' => chain'[k] = <<>>,
           newest'[k] <= arrived', cutoff'[k] <= arrived'
    PROVE  LaneInv'
<1> SUFFICES ASSUME NEW l \in Keys
             PROVE  /\ head'[l] # "idle" => chain'[l] # <<>> /\ chain'[l][1].ready
                    /\ buffer'[l].open => chain'[l] # <<>> /\ ~chain'[l][Len(chain'[l])].ready
                    /\ l \notin tracked' => chain'[l] = <<>>
                    /\ newest'[l] <= arrived' /\ cutoff'[l] <= arrived'
  BY DEF LaneInv
<1>1. CASE l = k
  BY <1>1
<1>2. CASE l # k
  <2>1. arrived \in Nat /\ newest[l] \in Nat /\ cutoff[l] \in Nat /\ arrived <= arrived'
    BY Parts DEF IInv
  <2>2. newest[l] <= arrived /\ cutoff[l] <= arrived
    BY DEF IInv, LaneInv
  <2>3. newest'[l] <= arrived' /\ cutoff'[l] <= arrived'
    BY <1>2, <2>1, <2>2
  <2>4. QED
    BY <1>2, <2>3 DEF IInv, LaneInv
<1>3. QED
  BY <1>1, <1>2

\* The window invariant of a step on one key
LEMMA WindowStep ==
    ASSUME IInv, NEW k \in Keys,
           \A l \in Keys : l # k => buffer'[l] = buffer[l] /\ age'[l] = age[l],
           IF buffer'[k].open
           THEN age'[k] + buffer'[k].left = Window /\ buffer'[k].due <= buffer'[k].left
           ELSE age'[k] = 0
    PROVE  WindowInv'
<1> SUFFICES ASSUME NEW l \in Keys
             PROVE  IF buffer'[l].open
                    THEN age'[l] + buffer'[l].left = Window /\ buffer'[l].due <= buffer'[l].left
                    ELSE age'[l] = 0
  BY DEF WindowInv, Window
<1>1. CASE l = k
  BY <1>1
<1>2. CASE l # k
  BY <1>2 DEF IInv, WindowInv
<1>3. QED
  BY <1>1, <1>2

\* The other parts of a typed state
LEMMA Buffers ==
    ASSUME TypeOK
    PROVE  /\ buffer \in [Keys -> [open : BOOLEAN, due : Nat, left : Nat]]
           /\ age \in [Keys -> Nat] /\ NoBuffer \in [open : BOOLEAN, due : Nat, left : Nat]
           /\ ~NoBuffer.open /\ cancels \in [Keys -> 0 .. MaxCancels] /\ MaxCancels \in Nat
           /\ tracked \in SUBSET Keys /\ completions \in SUBSET Items /\ serialize \in Serialize
           /\ Debounce \in Nat /\ Multiplier \in Nat /\ Window \in Nat
           /\ arrived \in 0 .. MaxItems /\ arrived \in Nat /\ MaxItems \in Nat
           /\ Items \subseteq Nat /\ gen \in [Keys -> Nat]
           /\ head \in [Keys -> {"idle", "running", "settling"}]
           /\ fate \in [Items -> {"none", "waiting", "flushed", "cancelled"}]
           /\ newest \in [Keys -> 0 .. MaxItems] /\ cutoff \in [Keys -> 0 .. MaxItems]
           /\ \A k \in Keys : newest[k] \in Nat /\ cutoff[k] \in Nat
<1>1. MaxItems \in Nat /\ MaxCancels \in Nat /\ Debounce \in Nat /\ Multiplier \in Nat
  BY DebounceAssumption
<1>2. arrived \in 0 .. MaxItems /\ arrived \in Nat /\ Items \subseteq Nat
  BY <1>1 DEF TypeOK, Items
<1>3. /\ newest \in [Keys -> 0 .. MaxItems] /\ cutoff \in [Keys -> 0 .. MaxItems]
      /\ gen \in [Keys -> Nat] /\ head \in [Keys -> {"idle", "running", "settling"}]
      /\ fate \in [Items -> {"none", "waiting", "flushed", "cancelled"}]
      /\ buffer \in [Keys -> [open : BOOLEAN, due : Nat, left : Nat]]
      /\ age \in [Keys -> Nat] /\ cancels \in [Keys -> 0 .. MaxCancels]
      /\ tracked \in SUBSET Keys /\ completions \in SUBSET Items /\ serialize \in Serialize
  BY DEF TypeOK
<1>4. NoBuffer \in [open : BOOLEAN, due : Nat, left : Nat] /\ ~NoBuffer.open
  BY DEF NoBuffer
<1>5. \A k \in Keys : newest[k] \in Nat /\ cutoff[k] \in Nat
  BY <1>1, <1>3
<1>6. QED
  BY <1>1, <1>2, <1>3, <1>4, <1>5, WindowNat

\* An immediate message behind same-key work
LEMMA BehindKeeps ==
    ASSUME IInv, NEW k \in Keys, NEW i \in Items, i = arrived + 1, arrived' = arrived + 1,
           UNCHANGED <<gen, cutoff, cancels, serialize>>, EnqueueBehind(k, i)
    PROVE  TypeOK' /\ LaneInv' /\ WindowInv'
<1>1. TypeOK /\ LaneInv
  BY DEF IInv
<1>2. PICK c : c = Released(k)
  OBVIOUS
<1>3. /\ c \in Seq(Tasks) /\ Len(c) = Len(chain[k]) /\ DOMAIN c = DOMAIN chain[k]
      /\ Len(c) \in Nat /\ DOMAIN c = 1 .. Len(c)
      /\ \A m \in DOMAIN c : chain[k][m].ready => c[m].ready
  BY <1>2, ReleasedFacts
<1>4. PICK t : t = Task(i, k, TRUE)
  OBVIOUS
<1>5. t \in Tasks
  BY <1>1, <1>4, TaskTyped
<1>6. PICK d : d = Append(c, t)
  OBVIOUS
<1>7. /\ d \in Seq(Tasks) /\ d # <<>> /\ \A m \in DOMAIN c : d[m] = c[m]
  BY <1>3, <1>5, <1>6, Appended
<1>8. ChainBecomes(k, d)
  BY <1>2, <1>4, <1>6 DEF EnqueueBehind, ChainBecomes
<1>9. /\ chain' \in [Keys -> Seq([items : SUBSET Items, gen : Nat, ready : BOOLEAN])]
      /\ chain'[k] = d /\ \A l \in Keys : l # k => chain'[l] = chain[l]
  BY <1>1, <1>7, <1>8, ChainTyped
<1>10. /\ buffer' = [buffer EXCEPT ![k] = NoBuffer] /\ tracked' = tracked \cup {k}
       /\ fate' = [fate EXCEPT ![i] = "waiting"] /\ age' = [age EXCEPT ![k] = 0]
       /\ head' = head /\ completions' = completions /\ newest' = newest
  BY DEF EnqueueBehind
<1>11. /\ buffer \in [Keys -> [open : BOOLEAN, due : Nat, left : Nat]]
       /\ age \in [Keys -> Nat] /\ NoBuffer \in [open : BOOLEAN, due : Nat, left : Nat]
       /\ ~NoBuffer.open /\ arrived \in Nat /\ MaxItems \in Nat
       /\ newest[k] \in Nat /\ cutoff[k] \in Nat
  BY <1>1, Buffers
<1>12. buffer'[k] = NoBuffer /\ age'[k] = 0
       /\ \A l \in Keys : l # k => buffer'[l] = buffer[l] /\ age'[l] = age[l]
  BY <1>10, <1>11
<1>13. TypeOK'
  <2>1. arrived' \in 0 .. MaxItems
    BY <1>11 DEF Items
  <2>2. buffer' \in [Keys -> [open : BOOLEAN, due : Nat, left : Nat]] /\ age' \in [Keys -> Nat]
    BY <1>10, <1>11
  <2>3. fate' \in [Items -> {"none", "waiting", "flushed", "cancelled"}]
    BY <1>1, <1>10 DEF TypeOK
  <2>4. tracked' \in SUBSET Keys
    BY <1>1, <1>10 DEF TypeOK
  <2>5. QED
    BY <1>1, <1>9, <1>10, <2>1, <2>2, <2>3, <2>4 DEF TypeOK
<1>14. head'[k] # "idle" => chain'[k][1].ready
  <2> SUFFICES ASSUME head[k] # "idle" PROVE d[1].ready
    BY <1>9, <1>10
  <2>1. chain[k] # <<>> /\ chain[k][1].ready
    BY <1>1 DEF LaneInv
  <2>2. 1 \in DOMAIN chain[k]
    BY <1>1, <2>1, FirstTask
  <2>3. QED
    BY <1>3, <1>7, <2>1, <2>2
<1>15. LaneInv'
  <2>1. newest'[k] <= arrived' /\ cutoff'[k] <= arrived'
    BY <1>1, <1>10, <1>11 DEF LaneInv
  <2>2. \A l \in Keys : l # k =>
           /\ chain'[l] = chain[l] /\ head'[l] = head[l] /\ buffer'[l] = buffer[l]
           /\ (l \in tracked' <=> l \in tracked)
           /\ newest'[l] = newest[l] /\ cutoff'[l] = cutoff[l]
    BY <1>9, <1>10, <1>12
  <2>3. k \in tracked' /\ ~buffer'[k].open /\ chain'[k] # <<>>
    BY <1>7, <1>9, <1>10, <1>11, <1>12
  <2>4. QED
    BY <1>13, <1>14, <2>1, <2>2, <2>3, LaneStep
<1>16. WindowInv'
  BY <1>11, <1>12, WindowStep
<1>17. QED
  BY <1>13, <1>15, <1>16

\* An immediate message of an idle key
LEMMA NowKeeps ==
    ASSUME IInv, NEW k \in Keys, NEW i \in Items, i = arrived + 1, arrived' = arrived + 1,
           UNCHANGED <<gen, cutoff, cancels, serialize>>, EnqueueNow(k, i)
    PROVE  TypeOK' /\ LaneInv' /\ WindowInv'
<1>1. TypeOK /\ LaneInv /\ WindowInv
  BY DEF IInv
<1>2. /\ k \notin tracked /\ ~buffer[k].open /\ buffer' = buffer /\ age' = age
      /\ tracked' = (IF serialize THEN tracked \cup {k} ELSE tracked)
  BY DEF EnqueueNow, MustQueue
<1>3. chain[k] = <<>>
  BY <1>1, <1>2 DEF LaneInv
<1>4. head[k] = "idle"
  BY <1>1, <1>3 DEF LaneInv
<1>5. Max({i}) = i
  <2>1. {i} \in SUBSET Items /\ {i} # {}
    OBVIOUS
  <2>2. QED
    BY <2>1, LastMessage
<1>6. /\ fate' = [x \in Items |-> IF x \in {i} THEN "flushed" ELSE fate[x]]
      /\ newest' = [newest EXCEPT ![k] = i]
  BY <1>5 DEF EnqueueNow, Hands
<1>7. PICK t : t = Task(i, k, TRUE)
  OBVIOUS
<1>8. t \in Tasks /\ t.ready
  BY <1>1, <1>7, TaskTyped
<1>9. /\ completions' \in {completions, completions \cup {i}}
      /\ \/ chain' = chain /\ head' = head
         \/ /\ serialize /\ ChainBecomes(k, <<t>>)
            /\ head' = [head EXCEPT ![k] = "running"]
  BY <1>7 DEF EnqueueNow, ChainBecomes
<1>10. /\ arrived \in Nat /\ MaxItems \in Nat /\ cutoff \in [Keys -> 0 .. MaxItems]
       /\ newest \in [Keys -> 0 .. MaxItems] /\ Items \subseteq Nat
       /\ head \in [Keys -> {"idle", "running", "settling"}]
       /\ tracked \in SUBSET Keys /\ completions \in SUBSET Items
       /\ fate \in [Items -> {"none", "waiting", "flushed", "cancelled"}]
  BY <1>1, Buffers
<1>11. /\ chain' \in [Keys -> Seq([items : SUBSET Items, gen : Nat, ready : BOOLEAN])]
       /\ head' \in [Keys -> {"idle", "running", "settling"}]
       /\ \A l \in Keys : l # k => chain'[l] = chain[l] /\ head'[l] = head[l]
       /\ \/ chain'[k] = <<>> /\ head'[k] = "idle"
          \/ chain'[k] # <<>> /\ chain'[k][1].ready /\ k \in tracked'
  <2>1. CASE chain' = chain /\ head' = head
    BY <1>1, <1>3, <1>4, <1>10, <2>1 DEF TypeOK
  <2>2. CASE serialize /\ ChainBecomes(k, <<t>>) /\ head' = [head EXCEPT ![k] = "running"]
    <3>1. <<t>> \in Seq(Tasks) /\ <<t>> # <<>> /\ <<t>>[1] = t
      BY <1>8
    <3>2. /\ chain' \in [Keys -> Seq([items : SUBSET Items, gen : Nat, ready : BOOLEAN])]
          /\ chain'[k] = <<t>> /\ \A l \in Keys : l # k => chain'[l] = chain[l]
      BY <1>1, <2>2, <3>1, ChainTyped
    <3>3. QED
      BY <1>2, <1>8, <1>10, <2>2, <3>1, <3>2
  <2>3. QED
    BY <1>9, <2>1, <2>2
<1>12. TypeOK'
  <2>1. fate' \in [Items -> {"none", "waiting", "flushed", "cancelled"}]
    BY <1>6, <1>10
  <2>2. newest' \in [Keys -> 0 .. MaxItems]
    BY <1>6, <1>10 DEF Items
  <2>3. arrived' \in 0 .. MaxItems
    BY <1>10 DEF Items
  <2>4. tracked' \in SUBSET Keys /\ completions' \in SUBSET Items
    BY <1>2, <1>9, <1>10
  <2>5. QED
    BY <1>1, <1>2, <1>11, <2>1, <2>2, <2>3, <2>4 DEF TypeOK
<1>13. LaneInv'
  <2>1. newest'[k] <= arrived' /\ cutoff'[k] <= arrived'
    BY <1>1, <1>6, <1>10 DEF LaneInv
  <2>2. \A l \in Keys : l # k =>
           /\ chain'[l] = chain[l] /\ head'[l] = head[l] /\ buffer'[l] = buffer[l]
           /\ (l \in tracked' <=> l \in tracked)
           /\ newest'[l] = newest[l] /\ cutoff'[l] = cutoff[l]
    BY <1>2, <1>6, <1>10, <1>11
  <2>3. /\ head'[k] # "idle" => chain'[k] # <<>> /\ chain'[k][1].ready
        /\ ~buffer'[k].open
        /\ k \notin tracked' => chain'[k] = <<>>
    BY <1>2, <1>11
  <2>4. QED
    BY <1>12, <2>1, <2>2, <2>3, LaneStep
<1>14. WindowInv'
  BY <1>1, <1>2 DEF WindowInv, Window
<1>15. QED
  BY <1>12, <1>13, <1>14

\* A message to be debounced: what becomes of its key's chain and buffer
LEMMA DebouncedChain ==
    ASSUME IInv, NEW k \in Keys, NEW i \in Items, i = arrived + 1, EnqueueDebounced(k, i)
    PROVE  \E d \in Seq(Tasks) :
              /\ ChainBecomes(k, d) /\ d # <<>>
              /\ \A m \in DOMAIN chain[k] : chain[k][m].ready => d[m].ready
              /\ \/ buffer[k].open /\ ~d[Len(d)].ready
                    /\ buffer' = [buffer EXCEPT ![k].due = Delay(buffer[k].left)]
                    /\ tracked' = tracked /\ age' = age
                 \/ ~d[Len(d)].ready /\ tracked' = tracked \cup {k}
                    /\ buffer' = [buffer EXCEPT ![k] =
                                     [open |-> TRUE, due |-> Delay(Window), left |-> Window]]
                    /\ age' = [age EXCEPT ![k] = 0]
                 \/ ~buffer[k].open /\ tracked' = tracked \cup {k}
                    /\ buffer' = buffer /\ age' = age
<1>1. TypeOK
  BY DEF IInv
<1>2. chain[k] \in Seq(Tasks)
  BY <1>1, Parts
<1>3. ASSUME NEW r \in BOOLEAN
      PROVE  \E d \in Seq(Tasks) :
                /\ d = Append(chain[k], Task(i, k, r))
                /\ d # <<>> /\ d[Len(d)].ready = r
                /\ \A m \in DOMAIN chain[k] : chain[k][m].ready => d[m].ready
  <2>1. PICK t : t = Task(i, k, r)
    OBVIOUS
  <2>2. t \in Tasks /\ t.ready = r
    BY <1>1, <2>1, TaskTyped
  <2>3. PICK d : d = Append(chain[k], t)
    OBVIOUS
  <2>4. /\ d \in Seq(Tasks) /\ Len(d) = Len(chain[k]) + 1 /\ d # <<>>
        /\ d[Len(chain[k]) + 1] = t /\ \A m \in DOMAIN chain[k] : d[m] = chain[k][m]
    BY <1>2, <2>2, <2>3, Appended
  <2>5. d = Append(chain[k], Task(i, k, r))
    BY <2>1, <2>3
  <2>6. QED
    BY <2>2, <2>4, <2>5
<1>4. CASE /\ buffer[k].open
           /\ chain' = [chain EXCEPT ![k][Len(chain[k])].items = @ \cup {i}]
           /\ buffer' = [buffer EXCEPT ![k].due = Delay(buffer[k].left)]
           /\ UNCHANGED <<tracked, age>>
  <2>1. PICK d : d = Widen(chain[k], i)
    OBVIOUS
  <2>2. /\ d \in Seq(Tasks) /\ d # <<>> /\ DOMAIN chain[k] = DOMAIN d /\ ~d[Len(d)].ready
        /\ \A m \in DOMAIN chain[k] : d[m].ready = chain[k][m].ready
    BY <1>4, <2>1, Widened
  <2>3. ChainBecomes(k, d)
    BY <1>4, <2>1 DEF ChainBecomes, Widen
  <2>4. QED
    BY <1>4, <2>2, <2>3
<1>5. CASE /\ chain' = [chain EXCEPT ![k] = Append(@, Task(i, k, FALSE))]
           /\ buffer' = [buffer EXCEPT ![k] =
                            [open |-> TRUE, due |-> Delay(Window), left |-> Window]]
           /\ tracked' = tracked \cup {k} /\ age' = [age EXCEPT ![k] = 0]
  <2>1. PICK d \in Seq(Tasks) :
                /\ d = Append(chain[k], Task(i, k, FALSE))
                /\ d # <<>> /\ d[Len(d)].ready = FALSE
                /\ \A m \in DOMAIN chain[k] : chain[k][m].ready => d[m].ready
    BY <1>3
  <2>2. ChainBecomes(k, d)
    BY <1>5, <2>1 DEF ChainBecomes
  <2>3. QED
    BY <1>5, <2>1, <2>2
<1>6. CASE /\ ~buffer[k].open
           /\ chain' = [chain EXCEPT ![k] = Append(@, Task(i, k, TRUE))]
           /\ tracked' = tracked \cup {k} /\ UNCHANGED <<buffer, age>>
  <2>1. PICK d \in Seq(Tasks) :
                /\ d = Append(chain[k], Task(i, k, TRUE))
                /\ d # <<>> /\ d[Len(d)].ready = TRUE
                /\ \A m \in DOMAIN chain[k] : chain[k][m].ready => d[m].ready
    BY <1>3
  <2>2. ChainBecomes(k, d)
    BY <1>6, <2>1 DEF ChainBecomes
  <2>3. QED
    BY <1>6, <2>1, <2>2
<1>7. QED
  BY <1>4, <1>5, <1>6 DEF EnqueueDebounced, Window

\* The timer of a buffer fires when its window is over at the latest
LEMMA DelayInWindow ==
    ASSUME NEW left \in Nat
    PROVE  Delay(left) \in Nat /\ Delay(left) <= left
<1>1. Debounce \in Nat
  BY DebounceAssumption
<1>2. QED
  BY <1>1 DEF Delay

\* A message to be debounced
LEMMA DebouncedKeeps ==
    ASSUME IInv, NEW k \in Keys, NEW i \in Items, i = arrived + 1, arrived' = arrived + 1,
           UNCHANGED <<gen, cutoff, cancels, serialize>>, EnqueueDebounced(k, i)
    PROVE  TypeOK' /\ LaneInv' /\ WindowInv'
<1>1. TypeOK /\ LaneInv /\ WindowInv
  BY DEF IInv
<1>2. PICK d \in Seq(Tasks) :
              /\ ChainBecomes(k, d) /\ d # <<>>
              /\ \A m \in DOMAIN chain[k] : chain[k][m].ready => d[m].ready
              /\ \/ buffer[k].open /\ ~d[Len(d)].ready
                    /\ buffer' = [buffer EXCEPT ![k].due = Delay(buffer[k].left)]
                    /\ tracked' = tracked /\ age' = age
                 \/ ~d[Len(d)].ready /\ tracked' = tracked \cup {k}
                    /\ buffer' = [buffer EXCEPT ![k] =
                                     [open |-> TRUE, due |-> Delay(Window), left |-> Window]]
                    /\ age' = [age EXCEPT ![k] = 0]
                 \/ ~buffer[k].open /\ tracked' = tracked \cup {k}
                    /\ buffer' = buffer /\ age' = age
  BY DebouncedChain
<1>3. /\ buffer \in [Keys -> [open : BOOLEAN, due : Nat, left : Nat]]
      /\ age \in [Keys -> Nat] /\ Window \in Nat /\ MaxItems \in Nat /\ arrived \in Nat
      /\ tracked \in SUBSET Keys /\ Items \subseteq Nat
      /\ newest \in [Keys -> 0 .. MaxItems] /\ cutoff \in [Keys -> 0 .. MaxItems]
      /\ fate \in [Items -> {"none", "waiting", "flushed", "cancelled"}]
  BY <1>1, Buffers
<1>4. /\ chain' \in [Keys -> Seq([items : SUBSET Items, gen : Nat, ready : BOOLEAN])]
      /\ chain'[k] = d /\ \A l \in Keys : l # k => chain'[l] = chain[l]
  BY <1>1, <1>2, ChainTyped
<1>5. /\ fate' = [fate EXCEPT ![i] = "waiting"] /\ head' = head
      /\ completions' = completions /\ newest' = newest
  BY DEF EnqueueDebounced
<1>6. Delay(Window) \in Nat /\ Delay(Window) <= Window
  BY <1>3, DelayInWindow
<1>7. buffer[k].left \in Nat
  BY <1>3
<1>8. Delay(buffer[k].left) \in Nat /\ Delay(buffer[k].left) <= buffer[k].left
  BY <1>7, DelayInWindow
<1>9. PICK b : b = buffer[k]
  OBVIOUS
<1>10. b \in [open : BOOLEAN, due : Nat, left : Nat]
  BY <1>3, <1>9
<1>11. /\ \A l \in Keys : l # k => buffer'[l] = buffer[l] /\ age'[l] = age[l]
       /\ buffer' \in [Keys -> [open : BOOLEAN, due : Nat, left : Nat]]
       /\ age' \in [Keys -> Nat]
       /\ tracked' = tracked \/ tracked' = tracked \cup {k}
       /\ buffer'[k].open => ~d[Len(d)].ready
       /\ k \in tracked'
       /\ IF buffer'[k].open
          THEN age'[k] + buffer'[k].left = Window /\ buffer'[k].due <= buffer'[k].left
          ELSE age'[k] = 0
  <2>1. CASE /\ buffer[k].open /\ ~d[Len(d)].ready
             /\ buffer' = [buffer EXCEPT ![k].due = Delay(buffer[k].left)]
             /\ tracked' = tracked /\ age' = age
    <3>1. buffer' = [buffer EXCEPT ![k] = [b EXCEPT !.due = Delay(b.left)]]
      BY <1>3, <1>9, <2>1
    <3>2. PICK u : u = [b EXCEPT !.due = Delay(b.left)]
      OBVIOUS
    <3>3. /\ u \in [open : BOOLEAN, due : Nat, left : Nat] /\ u.open /\ u.left = b.left
          /\ u.due <= u.left
      BY <1>8, <1>9, <1>10, <2>1, <3>2
    <3>4. buffer'[k] = u /\ \A l \in Keys : l # k => buffer'[l] = buffer[l]
      BY <1>3, <3>1, <3>2
    <3>5. k \in tracked
      <4>1. chain[k] # <<>>
        BY <1>1, <2>1 DEF LaneInv
      <4>2. QED
        BY <1>1, <4>1 DEF LaneInv
    <3>6. age[k] + b.left = Window
      BY <1>1, <1>9, <2>1 DEF WindowInv
    <3>7. buffer' \in [Keys -> [open : BOOLEAN, due : Nat, left : Nat]]
      BY <1>3, <3>1, <3>2, <3>3
    <3>8. QED
      BY <1>3, <2>1, <3>3, <3>4, <3>5, <3>6, <3>7
  <2>2. CASE /\ ~d[Len(d)].ready /\ tracked' = tracked \cup {k}
             /\ buffer' = [buffer EXCEPT ![k] =
                              [open |-> TRUE, due |-> Delay(Window), left |-> Window]]
             /\ age' = [age EXCEPT ![k] = 0]
    <3>1. PICK u : u = [open |-> TRUE, due |-> Delay(Window), left |-> Window]
      OBVIOUS
    <3>2. /\ u \in [open : BOOLEAN, due : Nat, left : Nat] /\ u.open /\ u.left = Window
          /\ u.due <= u.left
      BY <1>3, <1>6, <3>1
    <3>3. buffer'[k] = u /\ age'[k] = 0
          /\ \A l \in Keys : l # k => buffer'[l] = buffer[l] /\ age'[l] = age[l]
      BY <1>3, <2>2, <3>1
    <3>4. /\ buffer' \in [Keys -> [open : BOOLEAN, due : Nat, left : Nat]]
          /\ age' \in [Keys -> Nat]
      BY <1>3, <2>2, <3>1, <3>2
    <3>5. QED
      BY <1>3, <2>2, <3>2, <3>3, <3>4
  <2>3. CASE /\ ~buffer[k].open /\ tracked' = tracked \cup {k}
             /\ buffer' = buffer /\ age' = age
    BY <1>1, <1>3, <2>3 DEF WindowInv
  <2>4. QED
    BY <1>2, <2>1, <2>2, <2>3
<1>12. TypeOK'
  <2>1. fate' \in [Items -> {"none", "waiting", "flushed", "cancelled"}]
    BY <1>3, <1>5
  <2>2. arrived' \in 0 .. MaxItems
    BY <1>3 DEF Items
  <2>3. tracked' \in SUBSET Keys
    BY <1>3, <1>11
  <2>4. QED
    BY <1>1, <1>4, <1>5, <1>11, <2>1, <2>2, <2>3 DEF TypeOK
<1>13. LaneInv'
  <2>1. newest'[k] <= arrived' /\ cutoff'[k] <= arrived'
    BY <1>1, <1>3, <1>5 DEF LaneInv
  <2>2. \A l \in Keys : l # k =>
           /\ chain'[l] = chain[l] /\ head'[l] = head[l] /\ buffer'[l] = buffer[l]
           /\ (l \in tracked' <=> l \in tracked)
           /\ newest'[l] = newest[l] /\ cutoff'[l] = cutoff[l]
    BY <1>4, <1>5, <1>11
  <2>3. head'[k] # "idle" => chain'[k] # <<>> /\ chain'[k][1].ready
    <3>1. ASSUME head[k] # "idle" PROVE d[1].ready
      <4>1. chain[k] # <<>> /\ chain[k][1].ready
        BY <1>1, <3>1 DEF LaneInv
      <4>2. 1 \in DOMAIN chain[k]
        BY <1>1, <4>1, FirstTask
      <4>3. QED
        BY <1>2, <4>1, <4>2
    <3>2. QED
      BY <1>2, <1>4, <1>5, <3>1
  <2>4. buffer'[k].open => chain'[k] # <<>> /\ ~chain'[k][Len(chain'[k])].ready
    BY <1>2, <1>4, <1>11
  <2>5. QED
    BY <1>11, <1>12, <2>1, <2>2, <2>3, <2>4, LaneStep
<1>14. WindowInv'
  BY <1>11, WindowStep
<1>15. QED
  BY <1>12, <1>13, <1>14

\* A buffer is flushed
LEMMA FlushKeeps ==
    ASSUME IInv, NEW k \in Keys, FlushBuffer(k)
    PROVE  TypeOK' /\ LaneInv' /\ WindowInv'
<1>1. TypeOK /\ LaneInv
  BY DEF IInv
<1>2. PICK d : d = Released(k)
  OBVIOUS
<1>3. /\ d \in Seq(Tasks) /\ Len(d) = Len(chain[k]) /\ DOMAIN d = DOMAIN chain[k]
      /\ \A m \in DOMAIN d : chain[k][m].ready => d[m].ready
  BY <1>2, ReleasedFacts
<1>4. /\ chain' \in [Keys -> Seq([items : SUBSET Items, gen : Nat, ready : BOOLEAN])]
      /\ chain'[k] = d /\ \A l \in Keys : l # k => chain'[l] = chain[l]
  <2>1. ChainBecomes(k, d)
    BY <1>2 DEF FlushBuffer, ChainBecomes
  <2>2. QED
    BY <1>1, <1>3, <2>1, ChainTyped
<1>5. /\ buffer' = [buffer EXCEPT ![k] = NoBuffer] /\ age' = [age EXCEPT ![k] = 0]
      /\ buffer[k].open
      /\ UNCHANGED <<arrived, tracked, gen, head, completions, fate, newest, cutoff, cancels,
                     serialize>>
  BY DEF FlushBuffer
<1>6. /\ buffer \in [Keys -> [open : BOOLEAN, due : Nat, left : Nat]]
      /\ age \in [Keys -> Nat] /\ NoBuffer \in [open : BOOLEAN, due : Nat, left : Nat]
      /\ ~NoBuffer.open
  BY <1>1, Buffers
<1>7. buffer'[k] = NoBuffer /\ age'[k] = 0
      /\ \A l \in Keys : l # k => buffer'[l] = buffer[l] /\ age'[l] = age[l]
  BY <1>5, <1>6
<1>8. TypeOK'
  BY <1>1, <1>4, <1>5, <1>6 DEF TypeOK
<1>9. LaneInv'
  <2>1. head'[k] # "idle" => chain'[k] # <<>> /\ chain'[k][1].ready
    <3> SUFFICES ASSUME head[k] # "idle" PROVE d # <<>> /\ d[1].ready
      BY <1>4, <1>5
    <3>1. chain[k] # <<>> /\ chain[k][1].ready
      BY <1>1 DEF LaneInv
    <3>2. 1 \in DOMAIN chain[k]
      BY <1>1, <3>1, FirstTask
    <3>3. QED
      BY <1>3, <3>1, <3>2
  <2>2. k \in tracked
    <3>1. chain[k] # <<>>
      BY <1>1, <1>5 DEF LaneInv
    <3>2. QED
      BY <1>1, <3>1 DEF LaneInv
  <2>3. newest'[k] <= arrived' /\ cutoff'[k] <= arrived'
    BY <1>1, <1>5 DEF LaneInv
  <2>4. \A l \in Keys : l # k =>
           /\ chain'[l] = chain[l] /\ head'[l] = head[l] /\ buffer'[l] = buffer[l]
           /\ (l \in tracked' <=> l \in tracked)
           /\ newest'[l] = newest[l] /\ cutoff'[l] = cutoff[l]
    BY <1>4, <1>5, <1>7
  <2>5. ~buffer'[k].open /\ k \in tracked' /\ arrived' = arrived
    BY <1>5, <1>6, <1>7, <2>2
  <2>6. QED
    BY <1>8, <2>1, <2>3, <2>4, <2>5, LaneStep
<1>10. WindowInv'
  BY <1>6, <1>7, WindowStep
<1>11. QED
  BY <1>8, <1>9, <1>10

\* Time passes
LEMMA TickKeeps ==
    ASSUME IInv, Tick
    PROVE  TypeOK' /\ LaneInv' /\ WindowInv'
<1>1. TypeOK /\ LaneInv /\ WindowInv
  BY DEF IInv
<1>2. /\ buffer \in [Keys -> [open : BOOLEAN, due : Nat, left : Nat]]
      /\ age \in [Keys -> Nat] /\ Window \in Nat
  BY <1>1, Buffers
<1>3. /\ buffer' = [k \in Keys |-> IF ~buffer[k].open THEN buffer[k]
                       ELSE [buffer[k] EXCEPT !.due = @ - 1,
                                 !.left = IF @ = 0 THEN 0 ELSE @ - 1]]
      /\ age' = [k \in Keys |-> IF buffer[k].open THEN age[k] + 1 ELSE 0]
      /\ \A k \in Keys : buffer[k].open => buffer[k].due > 0
      /\ UNCHANGED <<arrived, chain, tracked, gen, head, completions, fate, newest, cutoff,
                     cancels, serialize>>
  BY DEF Tick
<1>4. ASSUME NEW k \in Keys
      PROVE  /\ buffer'[k] \in [open : BOOLEAN, due : Nat, left : Nat]
             /\ buffer'[k].open = buffer[k].open /\ age'[k] \in Nat
             /\ IF buffer'[k].open
                THEN age'[k] + buffer'[k].left = Window /\ buffer'[k].due <= buffer'[k].left
                ELSE age'[k] = 0
  <2>1. CASE ~buffer[k].open
    BY <1>1, <1>2, <1>3, <2>1 DEF WindowInv
  <2>2. CASE buffer[k].open
    <3>1. PICK b : b = buffer[k]
      OBVIOUS
    <3>2. /\ b \in [open : BOOLEAN, due : Nat, left : Nat] /\ b.open
          /\ b.due > 0 /\ b.due <= b.left /\ age[k] + b.left = Window /\ age[k] \in Nat
      BY <1>1, <1>2, <1>3, <2>2, <3>1 DEF WindowInv
    <3>3. b.left # 0 /\ b.left - 1 \in Nat /\ b.due - 1 \in Nat
      BY <3>2
    <3>4. buffer'[k] = [b EXCEPT !.due = b.due - 1, !.left = b.left - 1]
      BY <1>3, <2>2, <3>1, <3>2, <3>3
    <3>5. age'[k] = age[k] + 1
      BY <1>3, <2>2
    <3>6. PICK c : c = buffer'[k]
      OBVIOUS
    <3>7. /\ c \in [open : BOOLEAN, due : Nat, left : Nat] /\ c.open
          /\ c.due = b.due - 1 /\ c.left = b.left - 1
      BY <3>2, <3>3, <3>4, <3>6
    <3>8. age'[k] + c.left = Window /\ c.due <= c.left /\ age'[k] \in Nat
      BY <1>2, <3>2, <3>5, <3>7
    <3>9. QED
      BY <2>2, <3>6, <3>7, <3>8
  <2>3. QED
    BY <2>1, <2>2
<1>5. buffer' \in [Keys -> [open : BOOLEAN, due : Nat, left : Nat]]
  BY <1>3, <1>4
<1>6. age' \in [Keys -> Nat]
  BY <1>3, <1>4
<1>7. TypeOK'
  BY <1>1, <1>3, <1>5, <1>6 DEF TypeOK
<1>8. LaneInv'
  BY <1>1, <1>3, <1>4 DEF LaneInv
<1>9. WindowInv'
  BY <1>4 DEF WindowInv, Window
<1>10. QED
  BY <1>7, <1>8, <1>9

\* cancelKey
LEMMA CancelKeeps ==
    ASSUME IInv, NEW k \in Keys, CancelKey(k)
    PROVE  TypeOK' /\ LaneInv' /\ WindowInv'
<1>1. TypeOK /\ LaneInv
  BY DEF IInv
<1>2. /\ buffer' = [buffer EXCEPT ![k] = NoBuffer] /\ age' = [age EXCEPT ![k] = 0]
      /\ gen' = [gen EXCEPT ![k] = gen[k] + 1] /\ cutoff' = [cutoff EXCEPT ![k] = arrived]
      /\ cancels[k] < MaxCancels /\ cancels' = [cancels EXCEPT ![k] = @ + 1]
      /\ UNCHANGED <<arrived, tracked, head, completions, newest, serialize>>
  BY DEF CancelKey, Invalidated
<1>3. /\ buffer \in [Keys -> [open : BOOLEAN, due : Nat, left : Nat]]
      /\ age \in [Keys -> Nat] /\ NoBuffer \in [open : BOOLEAN, due : Nat, left : Nat]
      /\ ~NoBuffer.open /\ gen \in [Keys -> Nat] /\ cutoff \in [Keys -> 0 .. MaxItems]
      /\ arrived \in 0 .. MaxItems /\ MaxItems \in Nat
      /\ cancels \in [Keys -> 0 .. MaxCancels] /\ MaxCancels \in Nat
      /\ fate \in [Items -> {"none", "waiting", "flushed", "cancelled"}]
  BY <1>1, Buffers
<1>4. buffer'[k] = NoBuffer /\ age'[k] = 0
      /\ \A l \in Keys : l # k => buffer'[l] = buffer[l] /\ age'[l] = age[l]
  BY <1>2, <1>3
<1>5. /\ chain' \in [Keys -> Seq([items : SUBSET Items, gen : Nat, ready : BOOLEAN])]
      /\ \A l \in Keys : l # k => chain'[l] = chain[l]
      /\ fate' \in [Items -> {"none", "waiting", "flushed", "cancelled"}]
      /\ chain[k] # <<>> /\ chain[k][1].ready => chain'[k] # <<>> /\ chain'[k][1].ready
      /\ chain[k] = <<>> => chain'[k] = <<>>
  <2>1. CASE ~buffer[k].open
    <3>1. chain' = chain /\ fate' = fate
      BY <2>1 DEF CancelKey
    <3>2. QED
      BY <1>1, <3>1 DEF TypeOK
  <2>2. CASE buffer[k].open
    <3>1. PICK d : d = Emptied(k)
      OBVIOUS
    <3>2. /\ d \in Seq(Tasks) /\ Len(d) = Len(chain[k]) /\ DOMAIN d = DOMAIN chain[k]
          /\ \A m \in DOMAIN d : chain[k][m].ready => d[m].ready
      BY <2>2, <3>1, EmptiedFacts
    <3>3. ChainBecomes(k, d)
      BY <2>2, <3>1 DEF CancelKey, ChainBecomes
    <3>4. /\ chain' \in [Keys -> Seq([items : SUBSET Items, gen : Nat, ready : BOOLEAN])]
          /\ chain'[k] = d /\ \A l \in Keys : l # k => chain'[l] = chain[l]
      BY <1>1, <3>2, <3>3, ChainTyped
    <3>5. fate' = [i \in Items |-> IF i \in chain[k][Len(chain[k])].items
                                   THEN "cancelled" ELSE fate[i]]
      BY <2>2 DEF CancelKey
    <3>6. fate' \in [Items -> {"none", "waiting", "flushed", "cancelled"}]
      BY <1>3, <3>5
    <3>7. chain[k] # <<>>
      BY <1>1, <2>2 DEF LaneInv
    <3>8. 1 \in DOMAIN chain[k]
      BY <1>1, <3>7, FirstTask
    <3>9. d # <<>>
      BY <3>2, <3>8
    <3>10. chain[k][1].ready => d[1].ready
      BY <3>2, <3>8
    <3>11. QED
      BY <3>4, <3>6, <3>7, <3>9, <3>10
  <2>3. QED
    BY <2>1, <2>2
<1>6. TypeOK'
  <2>1. gen' \in [Keys -> Nat]
    BY <1>2, <1>3
  <2>2. cutoff' \in [Keys -> 0 .. MaxItems]
    BY <1>2, <1>3
  <2>3. cancels' \in [Keys -> 0 .. MaxCancels]
    BY <1>2, <1>3
  <2>4. buffer' \in [Keys -> [open : BOOLEAN, due : Nat, left : Nat]] /\ age' \in [Keys -> Nat]
    BY <1>2, <1>3
  <2>5. QED
    BY <1>1, <1>2, <1>5, <2>1, <2>2, <2>3, <2>4 DEF TypeOK
<1>7. LaneInv'
  <2>1. head'[k] # "idle" => chain'[k] # <<>> /\ chain'[k][1].ready
    BY <1>1, <1>2, <1>5 DEF LaneInv
  <2>2. k \notin tracked' => chain'[k] = <<>>
    BY <1>1, <1>2, <1>5 DEF LaneInv
  <2>3. newest'[k] <= arrived' /\ cutoff'[k] <= arrived'
    BY <1>1, <1>2, <1>3 DEF LaneInv
  <2>4. \A l \in Keys : l # k =>
           /\ chain'[l] = chain[l] /\ head'[l] = head[l] /\ buffer'[l] = buffer[l]
           /\ (l \in tracked' <=> l \in tracked)
           /\ newest'[l] = newest[l] /\ cutoff'[l] = cutoff[l]
    BY <1>2, <1>3, <1>4, <1>5
  <2>5. ~buffer'[k].open /\ arrived' = arrived
    BY <1>2, <1>3, <1>4
  <2>6. QED
    BY <1>6, <2>1, <2>2, <2>3, <2>4, <2>5, LaneStep
<1>8. WindowInv'
  BY <1>3, <1>4, WindowStep
<1>9. QED
  BY <1>6, <1>7, <1>8

\* What the tasks do at the head of a chain
LEMMA HeadKeeps ==
    ASSUME IInv, NEW k \in Keys, chain[k] # <<>>, chain[k][1].ready,
           \/ ChainBecomes(k, Tail(chain[k])) /\ head' = [head EXCEPT ![k] = "idle"]
           \/ chain' = chain /\ \E h \in {"running", "settling"} : head' = [head EXCEPT ![k] = h],
           fate' \in [Items -> {"none", "waiting", "flushed", "cancelled"}],
           newest' \in [Keys -> 0 .. MaxItems], \A l \in Keys : newest'[l] <= arrived,
           completions' \in SUBSET Items,
           UNCHANGED <<arrived, tracked, buffer, gen, age, cutoff, cancels, serialize>>
    PROVE  TypeOK' /\ LaneInv' /\ WindowInv'
<1>1. TypeOK /\ LaneInv /\ WindowInv
  BY DEF IInv
<1>2. head \in [Keys -> {"idle", "running", "settling"}] /\ chain[k] \in Seq(Tasks)
  BY <1>1, Parts
<1>3. /\ chain' \in [Keys -> Seq([items : SUBSET Items, gen : Nat, ready : BOOLEAN])]
      /\ \A l \in Keys : l # k => chain'[l] = chain[l] /\ head'[l] = head[l]
      /\ head' \in [Keys -> {"idle", "running", "settling"}]
      /\ head'[k] # "idle" => chain'[k] # <<>> /\ chain'[k][1].ready
      /\ buffer[k].open => chain'[k] # <<>> /\ ~chain'[k][Len(chain'[k])].ready
  <2>1. CASE ChainBecomes(k, Tail(chain[k])) /\ head' = [head EXCEPT ![k] = "idle"]
    <3>1. PICK d : d = Tail(chain[k])
      OBVIOUS
    <3>2. /\ d \in Seq(Tasks) /\ Len(d) = Len(chain[k]) - 1 /\ DOMAIN d = 1 .. Len(chain[k]) - 1
          /\ \A m \in DOMAIN d : d[m] = chain[k][m + 1]
          /\ Len(chain[k]) \in Nat
      BY <1>2, <3>1, Popped
    <3>3. /\ chain' \in [Keys -> Seq([items : SUBSET Items, gen : Nat, ready : BOOLEAN])]
          /\ chain'[k] = d /\ \A l \in Keys : l # k => chain'[l] = chain[l]
      BY <1>1, <2>1, <3>1, <3>2, ChainTyped
    <3>4. ASSUME buffer[k].open PROVE d # <<>> /\ ~d[Len(d)].ready
      <4>1. ~chain[k][Len(chain[k])].ready
        BY <1>1, <3>4 DEF LaneInv
      <4>2. Len(chain[k]) # 1
        BY <4>1
      <4>3. Len(chain[k]) # 0
        BY <1>2, EmptySeq
      <4>4. Len(d) \in DOMAIN d /\ Len(d) + 1 = Len(chain[k]) /\ Len(d) # 0
        <5>1. PICK n : n = Len(chain[k])
          OBVIOUS
        <5>2. n \in Nat /\ n # 0 /\ n # 1 /\ Len(d) = n - 1 /\ DOMAIN d = 1 .. n - 1
          BY <3>2, <4>2, <4>3, <5>1
        <5>3. n - 1 \in 1 .. n - 1 /\ n - 1 # 0 /\ (n - 1) + 1 = n
          BY <5>2
        <5>4. QED
          BY <5>1, <5>2, <5>3
      <4>5. d[Len(d)] = chain[k][Len(chain[k])]
        BY <3>2, <4>4
      <4>6. QED
        BY <4>1, <4>4, <4>5
    <3>5. head'[k] = "idle" /\ \A l \in Keys : l # k => head'[l] = head[l]
      BY <1>2, <2>1
    <3>6. QED
      BY <1>2, <2>1, <3>3, <3>4, <3>5
  <2>2. CASE chain' = chain /\ \E h \in {"running", "settling"} : head' = [head EXCEPT ![k] = h]
    <3>1. PICK h \in {"running", "settling"} : head' = [head EXCEPT ![k] = h]
      BY <2>2
    <3>2. /\ head' \in [Keys -> {"idle", "running", "settling"}]
          /\ \A l \in Keys : l # k => head'[l] = head[l]
      BY <1>2, <3>1
    <3>3. chain' \in [Keys -> Seq([items : SUBSET Items, gen : Nat, ready : BOOLEAN])]
      BY <1>1, <2>2 DEF TypeOK
    <3>4. buffer[k].open => ~chain[k][Len(chain[k])].ready
      BY <1>1 DEF LaneInv
    <3>5. QED
      BY <2>2, <3>2, <3>3, <3>4
  <2>3. QED
    BY <2>1, <2>2
<1>4. TypeOK'
  BY <1>1, <1>3 DEF TypeOK
<1>5. LaneInv'
  <2>1. k \in tracked
    BY <1>1 DEF LaneInv
  <2>2. newest'[k] <= arrived' /\ cutoff'[k] <= arrived'
    BY <1>1 DEF LaneInv
  <2>3. ASSUME NEW l \in Keys
        PROVE  /\ head'[l] # "idle" => chain'[l] # <<>> /\ chain'[l][1].ready
               /\ buffer'[l].open => chain'[l] # <<>> /\ ~chain'[l][Len(chain'[l])].ready
               /\ l \notin tracked' => chain'[l] = <<>>
               /\ newest'[l] <= arrived' /\ cutoff'[l] <= arrived'
    <3>1. CASE l = k
      BY <1>3, <2>1, <2>2, <3>1
    <3>2. CASE l # k
      BY <1>1, <1>3, <3>2 DEF LaneInv
    <3>3. QED
      BY <3>1, <3>2
  <2>4. QED
    BY <2>3 DEF LaneInv
<1>6. WindowInv'
  BY <1>1 DEF WindowInv, Window
<1>7. QED
  BY <1>4, <1>5, <1>6

\* The task at the head runs
LEMMA RunKeeps ==
    ASSUME IInv, NEW k \in Keys, RunHead(k)
    PROVE  TypeOK' /\ LaneInv' /\ WindowInv'
<1>1. TypeOK /\ LaneInv /\ PlaceInv
  BY DEF IInv
<1>2. PICK t : t = chain[k][1]
  OBVIOUS
<1>3. chain[k] # <<>> /\ head[k] = "idle" /\ Head(chain[k]).ready
  BY DEF RunHead, HeadReady
<1>4. t \in Tasks /\ Head(chain[k]) = t /\ 1 \in DOMAIN chain[k]
  BY <1>1, <1>2, <1>3, FirstTask
<1>5. /\ fate \in [Items -> {"none", "waiting", "flushed", "cancelled"}]
      /\ newest \in [Keys -> 0 .. MaxItems] /\ completions \in SUBSET Items
      /\ arrived \in 0 .. MaxItems /\ MaxItems \in Nat /\ Items \subseteq Nat
  BY <1>1, Buffers
<1>6. UNCHANGED <<arrived, tracked, buffer, gen, age, cutoff, cancels, serialize>>
  BY DEF RunHead
<1>7. \/ /\ t.items = {} /\ Pop(k) /\ UNCHANGED <<completions, fate, newest>>
      \/ /\ Pop(k) /\ UNCHANGED <<completions, newest>>
         /\ fate' = [i \in Items |-> IF i \in t.items THEN "cancelled" ELSE fate[i]]
      \/ /\ t.items # {} /\ Hands(k, t.items)
         /\ \/ Pop(k) /\ UNCHANGED completions
            \/ /\ head' = [head EXCEPT ![k] = "running"]
               /\ completions' = completions \cup {Min(t.items)}
               /\ UNCHANGED chain
  BY <1>4 DEF RunHead
<1>8. Pop(k) => ChainBecomes(k, Tail(chain[k])) /\ head' = [head EXCEPT ![k] = "idle"]
  BY DEF Pop, ChainBecomes
<1>9. fate' \in [Items -> {"none", "waiting", "flushed", "cancelled"}]
  BY <1>5, <1>7 DEF Hands
<1>10. t.items \in SUBSET Items
  BY <1>4 DEF Tasks
<1>11. completions' \in SUBSET Items
  <2>1. t.items # {} => Min(t.items) \in Items
    BY <1>10, FirstMessage
  <2>2. QED
    BY <1>5, <1>7, <2>1
<1>12. newest' \in [Keys -> 0 .. MaxItems] /\ \A l \in Keys : newest'[l] <= arrived
  <2>1. \A l \in Keys : newest[l] <= arrived
    BY <1>1 DEF LaneInv
  <2>2. CASE newest' = newest
    BY <1>5, <2>1, <2>2
  <2>3. CASE t.items # {} /\ Hands(k, t.items)
    <3>1. PICK x : x = Max(t.items)
      OBVIOUS
    <3>2. x \in t.items /\ x \in Items
      BY <1>10, <2>3, <3>1, LastMessage
    <3>3. Held(k, 1, x)
      BY <1>2, <1>4, <3>2 DEF Held
    <3>4. x <= arrived
      BY <1>1, <3>2, <3>3 DEF PlaceInv
    <3>5. newest' = [newest EXCEPT ![k] = x]
      BY <2>3, <3>1 DEF Hands
    <3>6. x \in 0 .. MaxItems
      BY <1>5, <3>2 DEF Items
    <3>7. newest' \in [Keys -> 0 .. MaxItems]
      BY <1>5, <3>5, <3>6
    <3>8. \A l \in Keys : newest'[l] <= arrived
      BY <1>5, <2>1, <3>4, <3>5
    <3>9. QED
      BY <3>7, <3>8
  <2>4. QED
    BY <1>7, <2>2, <2>3
<1>13. \/ ChainBecomes(k, Tail(chain[k])) /\ head' = [head EXCEPT ![k] = "idle"]
       \/ chain' = chain /\ \E h \in {"running", "settling"} : head' = [head EXCEPT ![k] = h]
  BY <1>7, <1>8
<1>14. chain[k][1].ready
  BY <1>2, <1>3, <1>4
<1>15. QED
  BY <1>3, <1>6, <1>9, <1>11, <1>12, <1>13, <1>14, HeadKeeps

\* The running task is admitted, fails or completes
LEMMA LeaveKeeps ==
    ASSUME IInv, NEW k \in Keys, Admit(k) \/ DispatchFails(k) \/ CompleteHead(k)
    PROVE  TypeOK' /\ LaneInv' /\ WindowInv'
<1>1. TypeOK /\ LaneInv
  BY DEF IInv
<1>2. head[k] # "idle" /\ UNCHANGED <<arrived, tracked, buffer, gen, age, cutoff, cancels,
                                      serialize, fate, newest>>
  BY DEF Admit, DispatchFails, CompleteHead
<1>3. chain[k] # <<>> /\ chain[k][1].ready
  BY <1>1, <1>2 DEF LaneInv
<1>4. \/ ChainBecomes(k, Tail(chain[k])) /\ head' = [head EXCEPT ![k] = "idle"]
      \/ chain' = chain /\ \E h \in {"running", "settling"} : head' = [head EXCEPT ![k] = h]
  BY DEF Admit, DispatchFails, CompleteHead, Pop, ChainBecomes
<1>5. /\ fate' \in [Items -> {"none", "waiting", "flushed", "cancelled"}]
      /\ newest' \in [Keys -> 0 .. MaxItems] /\ \A l \in Keys : newest'[l] <= arrived
  BY <1>1, <1>2 DEF TypeOK, LaneInv
<1>6. completions' \in SUBSET Items
  BY <1>1 DEF TypeOK, Admit, DispatchFails, CompleteHead
<1>7. UNCHANGED <<arrived, tracked, buffer, gen, age, cutoff, cancels, serialize>>
  BY <1>2
<1>8. QED
  BY <1>3, <1>4, <1>5, <1>6, <1>7, HeadKeeps

\* A flush that has left its lane completes, or a finished chain is forgotten
LEMMA QuietKeeps ==
    ASSUME IInv, \/ \E i \in Items : Complete(i)
                 \/ \E k \in Keys : Cleanup(k)
                 \/ UNCHANGED vars
    PROVE  TypeOK' /\ LaneInv' /\ WindowInv'
<1>1. TypeOK /\ LaneInv /\ WindowInv
  BY DEF IInv
<1>2. CASE \E i \in Items : Complete(i)
  <2>1. /\ completions' \in SUBSET completions
        /\ UNCHANGED <<arrived, chain, tracked, buffer, gen, head, fate, age, newest, cutoff,
                       cancels, serialize>>
    BY <1>2 DEF Complete
  <2>2. TypeOK'
    BY <1>1, <2>1 DEF TypeOK
  <2>3. LaneInv'
    BY <1>1, <2>1 DEF LaneInv
  <2>4. WindowInv'
    BY <1>1, <2>1 DEF WindowInv, Window
  <2>5. QED
    BY <2>2, <2>3, <2>4
<1>3. CASE \E k \in Keys : Cleanup(k)
  <2>1. PICK k \in Keys : Cleanup(k)
    BY <1>3
  <2>2. /\ chain[k] = <<>> /\ tracked' = tracked \ {k}
        /\ gen' = [gen EXCEPT ![k] = IF buffer[k].open THEN @ ELSE 0]
        /\ UNCHANGED <<arrived, chain, buffer, head, completions, fate, age, newest, cutoff,
                       cancels, serialize>>
    BY <2>1 DEF Cleanup
  <2>3. gen' \in [Keys -> Nat]
    BY <1>1, <2>2 DEF TypeOK
  <2>4. tracked' \in SUBSET Keys
    BY <1>1, <2>2 DEF TypeOK
  <2>5. TypeOK'
    BY <1>1, <2>2, <2>3, <2>4 DEF TypeOK
  <2>6. LaneInv'
    BY <1>1, <2>2 DEF LaneInv
  <2>7. WindowInv'
    BY <1>1, <2>2 DEF WindowInv, Window
  <2>8. QED
    BY <2>5, <2>6, <2>7
<1>4. CASE UNCHANGED vars
  BY <1>1, <1>4 DEF vars, TypeOK, LaneInv, WindowInv, Window
<1>5. QED
  BY <1>2, <1>3, <1>4

-----------------------------------------------------------------------------
(* The invariant and what follows from it.                                 *)

\* The invariant holds at the start
LEMMA InitInv == Init => IInv
<1> SUFFICES ASSUME Init PROVE IInv
  OBVIOUS
<1>1. /\ MaxItems \in Nat /\ MaxCancels \in Nat
  BY DebounceAssumption
<1>2. /\ arrived = 0 /\ chain = [k \in Keys |-> <<>>] /\ tracked = {}
      /\ buffer = [k \in Keys |-> NoBuffer] /\ gen = [k \in Keys |-> 0]
      /\ head = [k \in Keys |-> "idle"] /\ completions = {}
      /\ fate = [i \in Items |-> "none"] /\ age = [k \in Keys |-> 0]
      /\ newest = [k \in Keys |-> 0] /\ cutoff = [k \in Keys |-> 0]
      /\ cancels = [k \in Keys |-> 0] /\ serialize \in Serialize
  BY DEF Init
<1>3. TypeOK
  BY <1>1, <1>2 DEF TypeOK, NoBuffer
<1>4. \A k \in Keys : chain[k] = <<>> /\ \A m, x : ~Held(k, m, x)
  BY <1>2 DEF Held
<1>5. PlaceInv /\ WaitInv
  BY <1>2, <1>4 DEF PlaceInv, WaitInv
<1>6. FreshInv
  BY <1>4 DEF FreshInv
<1>7. LaneInv /\ WindowInv
  BY <1>2 DEF LaneInv, WindowInv, NoBuffer, Window
<1>8. QED
  BY <1>3, <1>5, <1>6, <1>7 DEF IInv

\* An arrival keeps it
LEMMA EnqueueInv ==
    ASSUME IInv, NEW k \in Keys, Enqueue(k)
    PROVE  IInv'
<1>1. PICK i : i = arrived + 1
  OBVIOUS
<1>2. /\ arrived' = arrived + 1 /\ UNCHANGED <<gen, cutoff, cancels, serialize>>
      /\ EnqueueBehind(k, i) \/ EnqueueNow(k, i) \/ EnqueueDebounced(k, i)
  BY <1>1 DEF Enqueue
<1>3. i \in Items
  <2>1. arrived \in 0 .. MaxItems /\ MaxItems \in Nat
    BY Parts DEF IInv
  <2>2. arrived < MaxItems
    BY DEF Enqueue
  <2>3. QED
    BY <1>1, <2>1, <2>2 DEF Items
<1>4. CASE EnqueueBehind(k, i)
  <2>1. TypeOK' /\ LaneInv' /\ WindowInv'
    BY <1>1, <1>2, <1>3, <1>4, BehindKeeps
  <2>2. Joins(k, i)
    BY <1>1, <1>2, <1>3, <1>4, BehindJoins
  <2>3. QED
    BY <2>1, <2>2, JoinsPlaces DEF IInv
<1>5. CASE EnqueueNow(k, i)
  <2>1. TypeOK' /\ LaneInv' /\ WindowInv'
    BY <1>1, <1>2, <1>3, <1>5, NowKeeps
  <2>2. PlaceInv' /\ WaitInv' /\ FreshInv'
    BY <1>1, <1>2, <1>3, <1>5, NowPlaces
  <2>3. QED
    BY <2>1, <2>2 DEF IInv
<1>6. CASE EnqueueDebounced(k, i)
  <2>1. TypeOK' /\ LaneInv' /\ WindowInv'
    BY <1>1, <1>2, <1>3, <1>6, DebouncedKeeps
  <2>2. Joins(k, i)
    BY <1>1, <1>2, <1>3, <1>6, DebouncedJoins
  <2>3. QED
    BY <2>1, <2>2, JoinsPlaces DEF IInv
<1>7. QED
  BY <1>2, <1>4, <1>5, <1>6

\* The running task leaves its lane
LEMMA LeaveInv ==
    ASSUME IInv, NEW k \in Keys, Admit(k) \/ CompleteHead(k)
    PROVE  IInv'
<1>1. TypeOK' /\ LaneInv' /\ WindowInv'
  BY LeaveKeeps
<1>2. head[k] # "idle"
  BY DEF Admit, CompleteHead
<1>3. chain[k] # <<>>
  BY <1>2 DEF IInv, LaneInv
<1>4. /\ ChainBecomes(k, Tail(chain[k])) /\ head' = [head EXCEPT ![k] = "idle"]
      /\ UNCHANGED <<fate, newest, cutoff, gen, arrived>>
  BY DEF Admit, CompleteHead, Pop, ChainBecomes
<1>5. Leaves(k)
  BY <1>2, <1>3, <1>4 DEF Leaves, Ends
<1>6. WaitInv'
  BY <1>5, LeavesWait
<1>7. PlaceInv' /\ FreshInv'
  BY <1>3, <1>4, PopPlaces
<1>8. QED
  BY <1>1, <1>6, <1>7 DEF IInv

\* Every step keeps the invariant
LEMMA NextInv == IInv /\ [Next]_vars => IInv'
<1> SUFFICES ASSUME IInv, [Next]_vars PROVE IInv'
  OBVIOUS
<1>1. ASSUME NEW k \in Keys, Enqueue(k) PROVE IInv'
  BY <1>1, EnqueueInv
<1>2. ASSUME NEW k \in Keys, FlushBuffer(k) PROVE IInv'
  <2>1. Frees(k)
    BY <1>2, FlushFrees
  <2>2. QED
    BY <1>2, <2>1, FreesPlaces, FlushKeeps DEF IInv
<1>3. ASSUME NEW k \in Keys, CancelKey(k) PROVE IInv'
  BY <1>3, CancelPlaces, CancelKeeps DEF IInv
<1>4. ASSUME NEW k \in Keys, RunHead(k) PROVE IInv'
  BY <1>4, RunPlaces, RunKeeps DEF IInv
<1>5. ASSUME NEW k \in Keys, Admit(k) \/ CompleteHead(k) PROVE IInv'
  BY <1>5, LeaveInv
<1>6. ASSUME NEW k \in Keys, DispatchFails(k) PROVE IInv'
  <2>1. TypeOK' /\ LaneInv' /\ WindowInv'
    BY <1>6, LeaveKeeps
  <2>2. \A l \in Keys : head'[l] = "idle" <=> head[l] = "idle"
    <3>1. head \in [Keys -> {"idle", "running", "settling"}]
      BY Parts DEF IInv
    <3>2. QED
      BY <1>6, <3>1 DEF DispatchFails
  <2>3. chain' = chain /\ UNCHANGED <<fate, newest, cutoff, arrived, gen>>
    BY <1>6 DEF DispatchFails
  <2>4. PlaceInv' /\ WaitInv' /\ FreshInv'
    BY <2>2, <2>3, QuietPlaces
  <2>5. QED
    BY <2>1, <2>4 DEF IInv
<1>7. ASSUME NEW k \in Keys, Cleanup(k) PROVE IInv'
  <2>1. TypeOK' /\ LaneInv' /\ WindowInv'
    BY <1>7, QuietKeeps
  <2>2. \A l \in Keys : gen'[l] = gen[l] \/ chain[l] = <<>>
    <3>1. gen \in [Keys -> Nat]
      BY Parts DEF IInv
    <3>2. QED
      BY <1>7, <3>1 DEF Cleanup
  <2>3. chain' = chain /\ head' = head /\ UNCHANGED <<fate, newest, cutoff, arrived>>
    BY <1>7 DEF Cleanup
  <2>4. PlaceInv' /\ WaitInv' /\ FreshInv'
    BY <2>2, <2>3, QuietPlaces
  <2>5. QED
    BY <2>1, <2>4 DEF IInv
<1>8. CASE (\E i \in Items : Complete(i)) \/ Tick \/ UNCHANGED vars
  <2>1. TypeOK' /\ LaneInv' /\ WindowInv'
    BY <1>8, QuietKeeps, TickKeeps
  <2>2. chain' = chain /\ head' = head /\ UNCHANGED <<fate, newest, cutoff, arrived, gen>>
    BY <1>8 DEF Complete, Tick, vars
  <2>3. PlaceInv' /\ WaitInv' /\ FreshInv'
    BY <2>2, QuietPlaces
  <2>4. QED
    BY <2>1, <2>3 DEF IInv
<1>9. ASSUME NEW k \in Keys, Jobs(k) PROVE IInv'
  BY <1>4, <1>5, <1>6, <1>7, <1>9 DEF Jobs
<1>10. ASSUME NEW k \in Keys, FireTimer(k) \/ FlushKey(k) PROVE IInv'
  BY <1>2, <1>10 DEF FireTimer, FlushKey
<1>11. QED
  BY <1>1, <1>3, <1>8, <1>9, <1>10 DEF Next

\* The invariant holds in every reachable state
THEOREM DebounceInvariant == Spec => []IInv
<1>1. Init => IInv
  BY InitInv
<1>2. IInv /\ [Next]_vars => IInv'
  BY NextInv
<1>3. QED
  BY <1>1, <1>2, PTL DEF Spec

\* What waits in a chain, in terms of places
LEMMA WaitingPlaces ==
    ASSUME TypeOK, NEW k \in Keys, NEW x
    PROVE  x \in Waiting(k) <=> \E m \in Nat : Held(k, m, x) /\ Waits(k, m)
<1>1. DOMAIN chain[k] \subseteq Nat
  BY Parts
<1>2. QED
  BY <1>1 DEF Waiting, Held, Waits

\* No message is lost or handled twice, whatever the order of arrivals,
\* timers, cancellations and completions (inbound-debounce.ts 309-332, 411-420)
THEOREM DebounceExactlyOnce == Spec => []ExactlyOnce
<1>1. IInv => ExactlyOnce
  <2> SUFFICES ASSUME IInv PROVE ExactlyOnce
    OBVIOUS
  <2>1. TypeOK /\ WaitInv /\ PlaceInv
    BY DEF IInv
  <2>2. ASSUME NEW i \in Items
        PROVE  fate[i] = "waiting" <=> \E k \in Keys : i \in Waiting(k)
    BY <2>1, WaitingPlaces DEF WaitInv
  <2>3. ASSUME NEW k \in Keys, NEW m \in DOMAIN chain[k], NEW n \in DOMAIN chain[k], m # n
        PROVE  chain[k][m].items \cap chain[k][n].items = {}
    <3>1. m \in Nat /\ n \in Nat /\ chain[k][m] \in Tasks /\ chain[k][n] \in Tasks
      BY <2>1, Parts
    <3>2. Items \subseteq Nat
      BY <2>1, Parts
    <3>3. SUFFICES ASSUME NEW x \in Items, Held(k, m, x), Held(k, n, x) PROVE FALSE
      BY <3>1 DEF Held, Tasks
    <3>4. x < x
      BY <2>1, <2>3, <3>1, <3>3 DEF PlaceInv
    <3>5. QED
      BY <3>2, <3>4
  <2>4. QED
    BY <2>1, <2>2, <2>3 DEF ExactlyOnce
<1>2. QED
  BY <1>1, DebounceInvariant, PTL

\* Messages of a key reach onFlush in the order in which they arrived
\* (enqueueReservedKeyTask and enqueue, inbound-debounce.ts 350-432)
THEOREM DebounceInOrder == Spec => []InOrder
<1>1. IInv => InOrder
  <2> SUFFICES ASSUME IInv, NEW k \in Keys, NEW i \in Waiting(k) PROVE i > newest[k]
    BY DEF InOrder
  <2>1. TypeOK /\ WaitInv
    BY DEF IInv
  <2>2. PICK m \in Nat : Held(k, m, i) /\ Waits(k, m)
    BY <2>1, WaitingPlaces
  <2>3. i \in Items
    <3>1. chain[k][m] \in Tasks /\ i \in chain[k][m].items
      BY <2>1, <2>2, Parts DEF Held
    <3>2. QED
      BY <3>1 DEF Tasks
  <2>4. QED
    BY <2>1, <2>2, <2>3 DEF WaitInv
<1>2. QED
  BY <1>1, DebounceInvariant, PTL

\* No buffer stays open beyond its window, however many messages arrive
\* (scheduleFlush, inbound-debounce.ts)
THEOREM DebounceWindow == Spec => []WindowIsBounded
<1>1. IInv => WindowIsBounded
  <2> SUFFICES ASSUME IInv, NEW k \in Keys PROVE age[k] <= Window
    BY DEF WindowIsBounded, Window
  <2>1. TypeOK /\ WindowInv
    BY DEF IInv
  <2>2. age[k] \in Nat /\ buffer[k].left \in Nat /\ Window \in Nat
    BY <2>1, Buffers
  <2>3. QED
    BY <2>1, <2>2 DEF WindowInv
<1>2. QED
  BY <1>1, DebounceInvariant, PTL

\* Nothing that had arrived before cancelKey reaches onFlush after it
\* (runQueuedFlush 207-213, cleanup 220-227 of inbound-debounce.ts)
THEOREM DebounceCancel == Spec => CancelIsEffective
<1>1. IInv /\ [Next]_vars =>
         [\A k \in Keys : newest'[k] # newest[k] => newest'[k] > cutoff[k]]_vars
  <2> SUFFICES ASSUME IInv, Next, NEW k \in Keys, newest'[k] # newest[k]
               PROVE  newest'[k] > cutoff[k]
    OBVIOUS
  <2>1. /\ TypeOK /\ FreshInv /\ LaneInv
        /\ newest \in [Keys -> 0 .. MaxItems] /\ cutoff \in [Keys -> 0 .. MaxItems]
        /\ arrived \in 0 .. MaxItems /\ MaxItems \in Nat /\ Items \subseteq Nat
    BY Parts DEF IInv
  <2>2. ASSUME NEW l \in Keys, Enqueue(l) PROVE newest'[k] > cutoff[k]
    <3>1. PICK i : i = arrived + 1
      OBVIOUS
    <3>2. arrived < MaxItems /\ (EnqueueNow(l, i) \/ newest' = newest)
      BY <2>2, <3>1 DEF Enqueue, EnqueueBehind, EnqueueDebounced
    <3>3. EnqueueNow(l, i)
      BY <3>2
    <3>4. i \in Items
      BY <2>1, <3>1, <3>2 DEF Items
    <3>5. Max({i}) = i
      <4>1. {i} \in SUBSET Items /\ {i} # {}
        BY <3>4
      <4>2. QED
        BY <4>1, LastMessage
    <3>6. newest' = [newest EXCEPT ![l] = i]
      BY <3>3, <3>5 DEF EnqueueNow, Hands
    <3>7. newest'[k] = i
      BY <2>1, <3>6
    <3>8. cutoff[k] <= arrived /\ cutoff[k] \in Nat
      BY <2>1 DEF LaneInv
    <3>9. QED
      BY <2>1, <3>1, <3>7, <3>8
  <2>3. ASSUME NEW l \in Keys, RunHead(l) PROVE newest'[k] > cutoff[k]
    <3>1. PICK t : t = chain[l][1]
      OBVIOUS
    <3>2. chain[l] # <<>>
      BY <2>3 DEF RunHead, HeadReady
    <3>3. t \in Tasks /\ Head(chain[l]) = t /\ 1 \in DOMAIN chain[l]
      BY <2>1, <3>1, <3>2, FirstTask
    <3>4. t.items # {} /\ t.gen = gen[l] /\ Hands(l, t.items)
      BY <2>3, <3>3 DEF RunHead
    <3>5. Max(t.items) \in t.items
      BY <3>3, <3>4, LastMessage DEF Tasks
    <3>6. newest' = [newest EXCEPT ![l] = Max(t.items)]
      BY <3>4 DEF Hands
    <3>7. k = l /\ newest'[k] = Max(t.items)
      BY <2>1, <3>6
    <3>8. \A x \in t.items : x > cutoff[l]
      BY <2>1, <3>1, <3>3, <3>4 DEF FreshInv
    <3>9. QED
      BY <3>5, <3>7, <3>8
  <2>4. \/ \E l \in Keys : Enqueue(l) \/ RunHead(l)
        \/ newest' = newest
    BY DEF Next, Jobs, FireTimer, FlushKey, FlushBuffer, CancelKey, Admit, DispatchFails,
           CompleteHead, Cleanup, Complete, Tick
  <2>5. QED
    BY <2>2, <2>3, <2>4
<1>2. QED
  BY <1>1, DebounceInvariant, PTL DEF Spec, CancelIsEffective

-----------------------------------------------------------------------------
(* The draft stream loop: its state is of DraftState, its operations are Draft. *)

Draft == INSTANCE DraftStream

\* The call of flush in a slot
FlushRec == [pc : {"idle", "sending", "settled", "waiting", "woken"},
             background : BOOLEAN, value : 0 .. MaxUpdates,
             on : Flushes \cup {NoFlush}, out : {"none", "sent", "false", "rejected"}]

\* The records that the loop builds: at the end of a flush, ...
LEMMA IdleRecord ==
    Draft!Idle \in FlushRec /\ Draft!Idle.pc = "idle"
BY DraftAssumption DEF Draft!Idle, FlushRec, Draft!Empty

\* ... while it waits for another one's send, ...
LEMMA WaitingRecord ==
    ASSUME NEW b \in BOOLEAN, NEW o \in Flushes \cup {NoFlush}, NEW w,
           w = [Draft!Idle EXCEPT !.pc = "waiting", !.background = b, !.on = o]
    PROVE  w \in FlushRec /\ w.pc = "waiting"
<1>1. PICK i : i = Draft!Idle
  OBVIOUS
<1>2. w = [i EXCEPT !.pc = "waiting", !.background = b, !.on = o] /\ i \in FlushRec
  BY <1>1, IdleRecord, Zenon
<1>3. QED
  BY <1>2 DEF FlushRec

\* ... and while it sends
LEMMA SendingRecord ==
    ASSUME NEW b \in BOOLEAN, NEW v \in 0 .. MaxUpdates, NEW w,
           w = [Draft!Idle EXCEPT !.pc = "sending", !.background = b, !.value = v]
    PROVE  w \in FlushRec /\ w.pc = "sending"
<1>1. PICK i : i = Draft!Idle
  OBVIOUS
<1>2. w = [i EXCEPT !.pc = "sending", !.background = b, !.value = v] /\ i \in FlushRec
  BY <1>1, IdleRecord, Zenon
<1>3. QED
  BY <1>2 DEF FlushRec

\* A step that changes the slot of one flush, which sends afterwards exactly if
\* inFlightPromise is its send
LEMMA SlotStep ==
    ASSUME Draft!OneEditOutstanding, NEW f \in Flushes, flush[f].pc # "sending",
           NEW q \in FlushRec, flush' = [flush EXCEPT ![f] = q],
           inFlight' = IF q.pc = "sending" THEN f ELSE inFlight,
           q.pc = "sending" => inFlight = NoFlush,
           pending' \in 0 .. Draft!Blank, coalesce' = coalesce, timer' \in BOOLEAN,
           elapsed' \in BOOLEAN, stopped' \in BOOLEAN, owed' \in Draft!Debts,
           accepted' \in 0 .. MaxUpdates, handed' \in 0 .. MaxUpdates
    PROVE  Draft!OneEditOutstanding'
<1>1. flush \in [Flushes -> FlushRec] /\ flush' \in [Flushes -> FlushRec]
  BY DEF Draft!OneEditOutstanding, Draft!DraftOK, FlushRec
<1>2. Draft!DraftOK'
  <2>1. inFlight' \in Flushes \cup {NoFlush} /\ coalesce' \in Coalesce
    BY DEF Draft!OneEditOutstanding, Draft!DraftOK
  <2>2. QED
    BY <1>1, <2>1 DEF Draft!DraftOK, FlushRec, Draft!Blank
<1>3. ASSUME NEW g \in Flushes PROVE (flush'[g].pc = "sending") <=> (inFlight' = g)
  <2>1. (flush[g].pc = "sending") <=> (inFlight = g)
    BY DEF Draft!OneEditOutstanding
  <2>2. flush'[g] = IF g = f THEN q ELSE flush[g]
    BY <1>1
  <2>3. QED
    BY <2>1, <2>2, DraftAssumption DEF Draft!OneEditOutstanding
<1>4. QED
  BY <1>2, <1>3 DEF Draft!OneEditOutstanding

\* From the head of the loop to the next await, by a flush that is not sending
LEMMA LoopStep ==
    ASSUME Draft!OneEditOutstanding, NEW f \in Flushes, flush[f].pc # "sending",
           NEW background \in BOOLEAN, NEW v \in 0 .. Draft!Blank, NEW due \in Draft!Debts,
           Draft!Loop(f, background, v, due),
           accepted' \in 0 .. MaxUpdates, coalesce' = coalesce, stopped' = stopped,
           timer' \in BOOLEAN, elapsed' \in BOOLEAN
    PROVE  Draft!OneEditOutstanding'
<1>1. /\ Draft!Empty \in 0 .. Draft!Blank /\ stopped' \in BOOLEAN /\ handed \in 0 .. MaxUpdates
      /\ inFlight \in Flushes \cup {NoFlush} /\ 0 \in 0 .. MaxUpdates
      /\ "none" \in Draft!Debts
  BY DraftAssumption DEF Draft!Debts, Draft!Empty, Draft!Blank, Draft!OneEditOutstanding, Draft!DraftOK
<1>2. ~Draft!IsEmpty(v) => v \in 0 .. MaxUpdates
  BY DraftAssumption DEF Draft!IsEmpty, Draft!Empty, Draft!Blank
<1>3. ASSUME Draft!Ends(f), UNCHANGED inFlight, pending' \in 0 .. Draft!Blank, owed' \in Draft!Debts,
             handed' \in 0 .. MaxUpdates
      PROVE  Draft!OneEditOutstanding'
  BY <1>1, <1>3, IdleRecord, SlotStep DEF Draft!Ends
<1>4. CASE /\ ~stopped /\ Draft!Busy /\ pending' = v /\ owed' = due
           /\ flush' = [flush EXCEPT ![f] =
                  [Draft!Idle EXCEPT !.pc = "waiting", !.background = background, !.on = inFlight]]
           /\ UNCHANGED <<inFlight, handed>>
  <2>1. PICK q : q = [Draft!Idle EXCEPT !.pc = "waiting", !.background = background,
                                        !.on = inFlight]
    OBVIOUS
  <2>2. q \in FlushRec /\ q.pc = "waiting"
    BY <1>1, <2>1, WaitingRecord
  <2>3. flush' = [flush EXCEPT ![f] = q]
    BY <1>4, <2>1
  <2>4. QED
    BY <1>1, <1>4, <2>2, <2>3, SlotStep
<1>5. CASE ~stopped /\ ~Draft!Busy /\ ~Draft!IsEmpty(v) /\ Draft!Take(f, background, v)
  <2>1. PICK q : q = [Draft!Idle EXCEPT !.pc = "sending", !.background = background, !.value = v]
    OBVIOUS
  <2>2. q \in FlushRec /\ q.pc = "sending"
    BY <1>2, <1>5, <2>1, SendingRecord
  <2>3. flush' = [flush EXCEPT ![f] = q]
    BY <1>5, <2>1 DEF Draft!Take
  <2>4. QED
    BY <1>1, <1>2, <1>5, <2>2, <2>3, SlotStep DEF Draft!Take, Draft!Busy
<1>6. QED
  BY <1>1, <1>2, <1>3, <1>4, <1>5 DEF Draft!Loop

\* update, with the flush it may start
LEMMA UpdateStep ==
    ASSUME Draft!OneEditOutstanding, NEW v \in 0 .. Draft!Blank, Draft!Update(v)
    PROVE  Draft!OneEditOutstanding'
<1>1. /\ accepted' \in 0 .. MaxUpdates
      /\ coalesce' = coalesce /\ stopped' = stopped /\ elapsed' = elapsed
  BY DraftAssumption DEF Draft!Update, Draft!OneEditOutstanding, Draft!DraftOK, Draft!Drafts
<1>2. Draft!Debt(v) \in Draft!Debts
  BY DEF Draft!Debt, Draft!Debts
<1>3. CASE /\ pending' = v /\ owed' = Draft!Debt(v) /\ timer' \in BOOLEAN
           /\ UNCHANGED <<inFlight, flush, handed>>
  BY <1>1, <1>2, <1>3, DraftAssumption DEF Draft!OneEditOutstanding, Draft!DraftOK, Draft!Blank
<1>4. ASSUME NEW f \in Flushes, Draft!CallFlush(f, TRUE, v, Draft!Debt(v))
      PROVE  Draft!OneEditOutstanding'
  <2>1. /\ flush[f].pc # "sending" /\ timer' \in BOOLEAN /\ elapsed' \in BOOLEAN
        /\ Draft!Loop(f, TRUE, v, Draft!Debt(v))
    BY <1>1, <1>4 DEF Draft!CallFlush, Draft!OneEditOutstanding, Draft!DraftOK
  <2>2. QED
    BY <1>1, <1>2, <2>1, LoopStep
<1>5. QED
  BY <1>3, <1>4, DraftAssumption
     DEF Draft!Update, Draft!UpdateWhileBusy, Draft!OneEditOutstanding,
         Draft!DraftOK

\* flush and the timer
LEMMA CallStep ==
    ASSUME Draft!OneEditOutstanding, NEW f \in Flushes, Draft!Flush(f) \/ Draft!FireTimer(f)
    PROVE  Draft!OneEditOutstanding'
<1>1. PICK background \in BOOLEAN : Draft!CallFlush(f, background, pending, owed)
  BY DEF Draft!Flush, Draft!FireTimer
<1>2. /\ flush[f].pc # "sending" /\ timer' \in BOOLEAN /\ elapsed' \in BOOLEAN
      /\ Draft!Loop(f, background, pending, owed) /\ owed \in Draft!Debts /\ pending \in 0 .. Draft!Blank
      /\ accepted' \in 0 .. MaxUpdates /\ coalesce' = coalesce /\ stopped' = stopped
  BY <1>1 DEF Draft!Flush, Draft!FireTimer, Draft!CallFlush, Draft!OneEditOutstanding, Draft!DraftOK
<1>3. QED
  BY <1>2, LoopStep

\* A send settles: its flush and the ones that wait for it will continue
LEMMA SettleStep ==
    ASSUME Draft!OneEditOutstanding, NEW f \in Flushes, Draft!Settle(f)
    PROVE  Draft!OneEditOutstanding'
<1>1. PICK out \in {"sent", "false", "rejected"} : Draft!FlushSettles(f, out)
  BY DEF Draft!Settle
<1>2. Draft!DraftOK'
  BY <1>1, DraftAssumption, ZenonT(40) DEF Draft!FlushSettles, Draft!OneEditOutstanding, Draft!DraftOK
<1>3. ASSUME NEW g \in Flushes PROVE (flush'[g].pc = "sending") <=> (inFlight' = g)
  BY <1>1, DraftAssumption DEF Draft!FlushSettles, Draft!OneEditOutstanding, Draft!DraftOK
<1>4. QED
  BY <1>2, <1>3 DEF Draft!OneEditOutstanding

\* The flush whose send has settled continues
LEMMA ResumeStep ==
    ASSUME Draft!OneEditOutstanding, NEW f \in Flushes, Draft!Resume(f)
    PROVE  Draft!OneEditOutstanding'
<1>1. /\ flush[f].pc = "settled" /\ UNCHANGED <<stopped, coalesce, accepted>>
      /\ pending \in 0 .. Draft!Blank /\ owed \in Draft!Debts /\ accepted \in 0 .. MaxUpdates
      /\ flush[f].background \in BOOLEAN /\ flush[f].value \in 0 .. Draft!Blank
  BY DraftAssumption DEF Draft!Resume, Draft!OneEditOutstanding, Draft!DraftOK, Draft!Blank
<1>2. CASE flush[f].out \in {"false", "rejected"}
  <2>1. /\ pending' \in 0 .. Draft!Blank /\ owed' \in Draft!Debts /\ timer' \in BOOLEAN
    BY <1>1, <1>2
       DEF Draft!Resume, Draft!RetainUnsent, Draft!Coalesced, Draft!GivenUp, Draft!Debts,
           Draft!OneEditOutstanding, Draft!DraftOK
  <2>2. Draft!Ends(f) /\ UNCHANGED <<elapsed, inFlight, handed>>
    BY <1>2 DEF Draft!Resume
  <2>3. QED
    BY <1>1, <2>1, <2>2, IdleRecord, SlotStep DEF Draft!Ends, Draft!OneEditOutstanding, Draft!DraftOK
<1>3. CASE /\ flush[f].out = "sent" /\ (~Draft!HasPendingValue(pending) \/ Draft!Coalesced(f))
           /\ Draft!Ends(f)
           /\ timer' = (timer \/ Draft!HasPendingValue(pending)) /\ elapsed' = FALSE
           /\ UNCHANGED <<pending, inFlight, handed, owed>>
  <2>1. timer' \in BOOLEAN
    BY <1>3 DEF Draft!OneEditOutstanding, Draft!DraftOK, Draft!HasPendingValue
  <2>2. QED
    BY <1>1, <1>3, <2>1, IdleRecord, SlotStep DEF Draft!Ends, Draft!OneEditOutstanding, Draft!DraftOK
<1>4. CASE elapsed' = FALSE /\ Draft!Loop(f, flush[f].background, pending, owed) /\ UNCHANGED timer
  <2>1. timer' \in BOOLEAN /\ elapsed' \in BOOLEAN /\ accepted' \in 0 .. MaxUpdates
    BY <1>1, <1>4 DEF Draft!OneEditOutstanding, Draft!DraftOK
  <2>2. QED
    BY <1>1, <1>4, <2>1, LoopStep
<1>5. QED
  BY <1>2, <1>3, <1>4 DEF Draft!Resume

\* A flush that waited for another one's send continues
LEMMA WokenStep ==
    ASSUME Draft!OneEditOutstanding, NEW f \in Flushes, Draft!Woken(f)
    PROVE  Draft!OneEditOutstanding'
<1>1. /\ flush[f].pc = "woken" /\ UNCHANGED <<timer, elapsed, stopped, coalesce, accepted>>
      /\ pending \in 0 .. Draft!Blank /\ owed \in Draft!Debts /\ accepted \in 0 .. MaxUpdates
      /\ flush[f].background \in BOOLEAN /\ timer \in BOOLEAN /\ elapsed \in BOOLEAN
  BY DEF Draft!Woken, Draft!OneEditOutstanding, Draft!DraftOK
<1>2. CASE Draft!Ends(f) /\ UNCHANGED <<pending, inFlight, handed, owed>>
  BY <1>1, <1>2, IdleRecord, SlotStep DEF Draft!Ends, Draft!OneEditOutstanding, Draft!DraftOK
<1>3. CASE Draft!Loop(f, flush[f].background, pending, owed)
  BY <1>1, <1>3, LoopStep
<1>4. QED
  BY <1>2, <1>3 DEF Draft!Woken

\* The owner's operations and the clock leave the flushes alone
LEMMA OwnerStep ==
    ASSUME Draft!OneEditOutstanding,
           \/ Draft!Stop \/ Draft!Unstop \/ Draft!ResetThrottleWindow
           \/ Draft!ResetPending \/ Draft!TakePending \/ Draft!Elapse
    PROVE  Draft!OneEditOutstanding'
<1>1. 0 \in 0 .. Draft!Blank /\ {"none", "cancelled"} \subseteq Draft!Debts
  BY DraftAssumption DEF Draft!Blank, Draft!Debts
<1>2. CASE Draft!Stop
  BY <1>1, <1>2 DEF Draft!Stop, Draft!OneEditOutstanding, Draft!DraftOK, Draft!Empty, Draft!Blank
<1>3. CASE Draft!Unstop \/ Draft!ResetThrottleWindow
  BY <1>1, <1>3
     DEF Draft!Unstop, Draft!ResetThrottleWindow, Draft!OneEditOutstanding, Draft!DraftOK, Draft!Blank
<1>4. CASE Draft!ResetPending
  BY <1>1, <1>4
     DEF Draft!ResetPending, Draft!OneEditOutstanding, Draft!DraftOK, Draft!Empty, Draft!Blank
<1>5. CASE Draft!TakePending
  BY <1>1, <1>5
     DEF Draft!TakePending, Draft!OneEditOutstanding, Draft!DraftOK, Draft!Empty, Draft!Blank
<1>6. CASE Draft!Elapse
  BY <1>1, <1>6 DEF Draft!Elapse, Draft!OneEditOutstanding, Draft!DraftOK, Draft!Empty, Draft!Blank
<1>7. QED
  BY <1>2, <1>3, <1>4, <1>5, <1>6

\* However update, flush, the timer, promise jobs and the owner interleave, one
\* edit of the message is outstanding at most and inFlightPromise is that one
\* (draft-stream-loop.ts 53-74), for any number of concurrent flushes
THEOREM DraftOneEditOutstanding ==
    Draft!Spec => []OneEditOutstanding
<1>1. Draft!Init => Draft!OneEditOutstanding
  <2> SUFFICES ASSUME Draft!Init PROVE Draft!OneEditOutstanding
    OBVIOUS
  <2>1. 0 \in 0 .. Draft!Blank /\ 0 \in 0 .. MaxUpdates
    BY DraftAssumption DEF Draft!Blank
  <2>2. flush \in [Flushes -> FlushRec] /\ \A f \in Flushes : flush[f].pc = "idle"
    BY IdleRecord DEF Draft!Init
  <2>3. Draft!DraftOK
    BY <2>1, <2>2 DEF Draft!Init, Draft!DraftOK, FlushRec, Draft!Debts, Draft!Empty, Draft!Blank
  <2>4. QED
    BY <2>2, <2>3, DraftAssumption DEF Draft!Init, Draft!OneEditOutstanding
<1>2. Draft!OneEditOutstanding /\ [Draft!Next]_(Draft!vars) => Draft!OneEditOutstanding'
  <2> SUFFICES ASSUME Draft!OneEditOutstanding, [Draft!Next]_(Draft!vars)
               PROVE  Draft!OneEditOutstanding'
    OBVIOUS
  <2>1. CASE UNCHANGED Draft!vars
    BY <2>1 DEF Draft!vars, Draft!OneEditOutstanding, Draft!DraftOK
  <2>2. CASE \/ accepted < MaxUpdates /\ Draft!Update(accepted + 1)
             \/ accepted < MaxUpdates /\ \E v \in {Draft!Empty, Draft!Blank} : Draft!Update(v)
    <3>1. PICK v \in 0 .. Draft!Blank : Draft!Update(v)
      BY <2>2, DraftAssumption
         DEF Draft!OneEditOutstanding, Draft!DraftOK, Draft!Empty, Draft!Blank
    <3>2. QED
      BY <3>1, UpdateStep
  <2>3. ASSUME NEW f \in Flushes,
               Draft!Flush(f) \/ Draft!FireTimer(f) \/ Draft!Settle(f) \/ Draft!Continue(f)
        PROVE  Draft!OneEditOutstanding'
    BY <2>3, CallStep, SettleStep, ResumeStep, WokenStep DEF Draft!Continue
  <2>4. CASE \/ Draft!Stop \/ Draft!Unstop \/ Draft!ResetThrottleWindow
             \/ Draft!ResetPending \/ Draft!TakePending \/ Draft!Elapse
    BY <2>4, OwnerStep
  <2>5. QED
    BY <2>1, <2>2, <2>3, <2>4 DEF Draft!Next
<1>3. Draft!OneEditOutstanding => OneEditOutstanding
  BY DEF Draft!OneEditOutstanding, Draft!DraftOK, Draft!Blank, Draft!Debts,
     OneEditOutstanding, DraftOK, Blank, Debts
<1>4. QED
  BY <1>1, <1>2, <1>3, PTL DEF Draft!Spec
===============================================================================
