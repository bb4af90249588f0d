--------------------------- MODULE InboundDebounce ---------------------------
(***************************************************************************)
(* createInboundDebouncer of src/src/auto-reply/inbound-debounce.ts: it    *)
(* collects inbound messages per key for a short while and hands them to   *)
(* onFlush, same-key work one after the other in the order of arrival.     *)
(*                                                                         *)
(* Messages are numbered as they arrive.  The promise chain of a key is a  *)
(* sequence of tasks; the task of the buffer in the map, if there is one,  *)
(* is the last of them.  An immediate message that finds a buffer closes   *)
(* it and waits for its task, which the chain makes it do anyway.          *)
(***************************************************************************)
EXTENDS Integers, Sequences, FiniteSets, SequencesExt

CONSTANTS
    Keys,
    MaxItems,        \* bound on the messages
    MaxCancels,      \* bound on the calls of cancelKey per key
    Debounce,        \* debounceMs in clock units
    Multiplier,      \* MAX_DEBOUNCE_WINDOW_MULTIPLIER
    MaxTracked,      \* params.maxTrackedKeys
    Serialize        \* the values of params.serializeImmediate to consider

ASSUME DebounceAssumption ==
    /\ {MaxItems, MaxCancels} \subseteq Nat /\ Serialize \subseteq BOOLEAN
    /\ {Debounce, Multiplier, MaxTracked} \subseteq Nat \ {0}

VARIABLES
    serialize,   \* params.serializeImmediate of this debouncer
    arrived,     \* number of messages so far
    chain,       \* the unfinished tasks of a key's chain [items, gen, ready]
    tracked,     \* the keys of keyChains
    buffer,      \* the key's buffer in the map: [open, due, left]
    gen,         \* keyGenerations
    head,        \* what the first task of the chain is doing
    completions, \* activeCompletions, a flush named by its first message
    fate,        \* ghost: what became of each message
    age,         \* ghost: clock units since the buffer's first message
    newest,      \* ghost: the newest message of the key handed to onFlush
    cutoff,      \* ghost: the newest message when cancelKey was last called
    cancels      \* calls of cancelKey per key

vars == <<serialize, arrived, chain, tracked, buffer, gen, head, completions, fate, age, newest,
          cutoff, cancels>>

Items == 1 .. MaxItems
NoBuffer == [open |-> FALSE, due |-> 0, left |-> 0]

Init ==
    /\ serialize \in Serialize
    /\ arrived = 0
    /\ chain = [k \in Keys |-> <<>>]
    /\ tracked = {}
    /\ buffer = [k \in Keys |-> NoBuffer]
    /\ gen = [k \in Keys |-> 0]
    /\ head = [k \in Keys |-> "idle"]
    /\ completions = {}
    /\ fate = [i \in Items |-> "none"]
    /\ age = [k \in Keys |-> 0]
    /\ newest = [k \in Keys |-> 0]
    /\ cutoff = [k \in Keys |-> 0]
    /\ cancels = [k \in Keys |-> 0]

-----------------------------------------------------------------------------
(* enqueue                                                                 *)

\* Mutant of Delay: every message postpones the flush by the full debounce
DelayUnbounded(left) == Debounce

\* scheduleFlush: the first message's deadline stays fixed
Delay(left) == IF Debounce < left THEN Debounce ELSE left

\* The chain of k with its buffer's task released (releaseBuffer)
Released(k) ==
    IF ~buffer[k].open THEN chain[k]
    ELSE [chain[k] EXCEPT ![Len(chain[k])].ready = TRUE]

Task(i, k, ready) == [items |-> {i}, gen |-> gen[k], ready |-> ready]

\* runFlush calls onFlush with items of k
Hands(k, items) ==
    /\ fate' = [i \in Items |-> IF i \in items THEN "flushed" ELSE fate[i]]
    /\ newest' = [newest EXCEPT ![k] = Max(items)]

\* Mutant of MustQueue: an immediate message looks for a buffer only
MustQueueBehindBuffer(k) == buffer[k].open

\* There is same-key work an immediate message must not overtake
MustQueue(k) == buffer[k].open \/ k \in tracked

\* An immediate message behind same-key work; a buffer is flushed first
EnqueueBehind(k, i) ==
    /\ MustQueue(k)
    /\ chain' = [chain EXCEPT ![k] = Append(Released(k), Task(i, k, TRUE))]
    /\ buffer' = [buffer EXCEPT ![k] = NoBuffer]
    /\ tracked' = tracked \cup {k}
    /\ fate' = [fate EXCEPT ![i] = "waiting"]
    /\ age' = [age EXCEPT ![k] = 0]
    /\ UNCHANGED <<head, completions, newest>>

\* An immediate message of an idle key: runKeyTaskNow, or runFlush without
\* any registration when immediate work is not serialized; onFlush may throw
EnqueueNow(k, i) ==
    /\ ~MustQueue(k)
    /\ Hands(k, {i})
    /\ tracked' = IF serialize THEN tracked \cup {k} ELSE tracked
    /\ \/ UNCHANGED <<completions, chain, head>>
       \/ /\ completions' = completions \cup {i}
          /\ IF serialize
             THEN /\ chain' = [chain EXCEPT ![k] = <<Task(i, k, TRUE)>>]
                  /\ head' = [head EXCEPT ![k] = "running"]
             ELSE UNCHANGED <<chain, head>>
    /\ UNCHANGED <<buffer, age>>

\* A message to be debounced: into the buffer, or as a new buffer that
\* reserves its place in the chain, or straight into the chain if too many
\* keys are tracked
EnqueueDebounced(k, i) ==
    /\ \/ /\ buffer[k].open
          /\ chain' = [chain EXCEPT ![k][Len(chain[k])].items = @ \cup {i}]
          /\ buffer' = [buffer EXCEPT ![k].due = Delay(buffer[k].left)]
          /\ UNCHANGED <<tracked, age>>
       \/ /\ ~buffer[k].open /\ (k \in tracked \/ Cardinality(tracked) < MaxTracked)
          /\ chain' = [chain EXCEPT ![k] = Append(@, Task(i, k, FALSE))]
          /\ buffer' = [buffer EXCEPT ![k] =
                           [open |-> TRUE, due |-> Delay(Debounce * Multiplier),
                            left |-> Debounce * Multiplier]]
          /\ tracked' = tracked \cup {k}
          /\ age' = [age EXCEPT ![k] = 0]
       \/ /\ ~buffer[k].open /\ k \notin tracked /\ Cardinality(tracked) >= MaxTracked
          /\ chain' = [chain EXCEPT ![k] = Append(@, Task(i, k, TRUE))]
          /\ tracked' = tracked \cup {k}
          /\ UNCHANGED <<buffer, age>>
    /\ fate' = [fate EXCEPT ![i] = "waiting"]
    /\ UNCHANGED <<head, completions, newest>>

Enqueue(k) ==
    /\ arrived < MaxItems
    /\ arrived' = arrived + 1
    /\ \/ EnqueueBehind(k, arrived + 1)
       \/ EnqueueNow(k, arrived + 1)
       \/ EnqueueDebounced(k, arrived + 1)
    /\ UNCHANGED <<gen, cutoff, cancels, serialize>>

-----------------------------------------------------------------------------
(* flushKey, the timer, and cancelKey                                      *)

\* flushBuffer: the buffer leaves the map and its task is released
FlushBuffer(k) ==
    /\ buffer[k].open
    /\ chain' = [chain EXCEPT ![k] = Released(k)]
    /\ buffer' = [buffer EXCEPT ![k] = NoBuffer]
    /\ age' = [age EXCEPT ![k] = 0]
    /\ UNCHANGED <<arrived, tracked, gen, head, completions, fate, newest, cutoff, cancels,
                   serialize>>

FireTimer(k) == buffer[k].due = 0 /\ FlushBuffer(k)

FlushKey(k) == FlushBuffer(k)

\* Time passes; a timer that is due fires first
Tick ==
    /\ \E k \in Keys : buffer[k].open
    /\ \A k \in Keys : buffer[k].open => buffer[k].due > 0
    /\ buffer' = [k \in Keys |-> IF ~buffer[k].open THEN buffer[k]
                     ELSE [buffer[k] EXCEPT !.due = @ - 1,
                               !.left = IF @ = 0 THEN 0 ELSE @ - 1]]
    /\ age' = [k \in Keys |-> IF buffer[k].open THEN age[k] + 1 ELSE 0]
    /\ UNCHANGED <<arrived, chain, tracked, gen, head, completions, fate, newest, cutoff,
                   cancels, serialize>>

\* "Invalidate released tasks still waiting behind an active same-key flush"
Invalidated(k) == gen[k] + 1

\* Mutant of Emptied: the cancelled buffer keeps its messages and its generation
EmptiedNothing(k) == [chain[k] EXCEPT ![Len(chain[k])].ready = TRUE,
                                      ![Len(chain[k])].gen = gen[k] + 1]

\* The chain of k after its buffer's messages were taken out and released
Emptied(k) == [chain[k] EXCEPT ![Len(chain[k])].items = {}, ![Len(chain[k])].ready = TRUE]

CancelKey(k) ==
    /\ buffer[k].open \/ k \in tracked
    /\ cancels[k] < MaxCancels
    /\ cancels' = [cancels EXCEPT ![k] = @ + 1]
    /\ gen' = [gen EXCEPT ![k] = Invalidated(k)]
    /\ cutoff' = [cutoff EXCEPT ![k] = arrived]
    /\ buffer' = [buffer EXCEPT ![k] = NoBuffer]
    /\ age' = [age EXCEPT ![k] = 0]
    /\ IF buffer[k].open
       THEN /\ chain' = [chain EXCEPT ![k] = Emptied(k)]
            /\ fate' = [i \in Items |-> IF i \in chain[k][Len(chain[k])].items
                                        THEN "cancelled" ELSE fate[i]]
       ELSE UNCHANGED <<chain, fate>>
    /\ UNCHANGED <<arrived, tracked, head, completions, newest, serialize>>

-----------------------------------------------------------------------------
(* The chain of a key                                                      *)

Pop(k) ==
    /\ chain' = [chain EXCEPT ![k] = Tail(@)]
    /\ head' = [head EXCEPT ![k] = "idle"]

\* The first task may run: nothing of the key runs, and a buffer is released
HeadReady(k) == chain[k] # <<>> /\ head[k] = "idle" /\ Head(chain[k]).ready

\* The task runs: nothing to do, an outdated generation, or runFlush, where
\* onFlush may throw at once
RunHead(k) ==
    LET t == Head(chain[k])
    IN  /\ HeadReady(k)
        /\ \/ /\ t.items = {} /\ Pop(k)
              /\ UNCHANGED <<completions, fate, newest>>
           \/ /\ t.items # {} /\ t.gen # gen[k] /\ Pop(k)
              /\ fate' = [i \in Items |-> IF i \in t.items THEN "cancelled" ELSE fate[i]]
              /\ UNCHANGED <<completions, newest>>
           \/ /\ t.items # {} /\ t.gen = gen[k]
              /\ Hands(k, t.items)
              /\ \/ Pop(k) /\ UNCHANGED completions
                 \/ /\ head' = [head EXCEPT ![k] = "running"]
                    /\ completions' = completions \cup {Min(t.items)}
                    /\ UNCHANGED chain
        /\ UNCHANGED <<arrived, tracked, buffer, gen, age, cutoff, cancels, serialize>>

\* The turn was adopted or deferred: the lane goes on, completion is pending
Admit(k) ==
    /\ head[k] = "running"
    /\ Pop(k)
    /\ UNCHANGED <<arrived, tracked, buffer, gen, completions, fate, age, newest, cutoff,
                   cancels, serialize>>

\* Dispatch failed before admission: onFailed settles the source's claim first
DispatchFails(k) ==
    /\ head[k] = "running"
    /\ head' = [head EXCEPT ![k] = "settling"]
    /\ UNCHANGED <<arrived, chain, tracked, buffer, gen, completions, fate, age, newest, cutoff,
                   cancels, serialize>>

\* The dispatch of the head completed, or its failure has been settled:
\* completion releases the lane as well
CompleteHead(k) ==
    /\ head[k] \in {"running", "settling"}
    /\ Pop(k)
    /\ completions' = completions \ {Min(Head(chain[k]).items)}
    /\ UNCHANGED <<arrived, tracked, buffer, gen, fate, age, newest, cutoff, cancels, serialize>>

\* A flush that has left its lane completes
Complete(i) ==
    /\ i \in completions
    /\ \A k \in Keys : head[k] # "idle" => i \notin Head(chain[k]).items
    /\ completions' = completions \ {i}
    /\ UNCHANGED <<arrived, chain, tracked, buffer, gen, head, fate, age, newest, cutoff,
                   cancels, serialize>>

\* Mutant of Cleanup: the generation starts again although work is left
CleanupEarly(k) ==
    /\ k \in tracked /\ head[k] = "idle" /\ gen[k] > 0
    /\ gen' = [gen EXCEPT ![k] = 0]
    /\ tracked' = IF chain[k] = <<>> THEN tracked \ {k} ELSE tracked
    /\ UNCHANGED <<arrived, chain, buffer, head, completions, fate, age, newest, cutoff,
                   cancels, serialize>>

\* Mutant of Cleanup: the finished chain stays in the map
CleanupKeepsKey(k) ==
    /\ k \in tracked /\ chain[k] = <<>> /\ gen[k] # 0
    /\ gen' = [gen EXCEPT ![k] = 0]
    /\ UNCHANGED <<arrived, chain, tracked, buffer, head, completions, fate, age, newest, cutoff,
                   cancels, serialize>>

\* The cleanup job of the chain's last promise
Cleanup(k) ==
    /\ k \in tracked /\ chain[k] = <<>>
    /\ tracked' = tracked \ {k}
    /\ gen' = [gen EXCEPT ![k] = IF buffer[k].open THEN @ ELSE 0]
    /\ UNCHANGED <<arrived, chain, buffer, head, completions, fate, age, newest, cutoff,
                   cancels, serialize>>

-----------------------------------------------------------------------------
Jobs(k) == RunHead(k) \/ Admit(k) \/ DispatchFails(k) \/ CompleteHead(k) \/ Cleanup(k)

Next ==
    \/ \E k \in Keys : Enqueue(k) \/ FireTimer(k) \/ FlushKey(k) \/ CancelKey(k) \/ Jobs(k)
    \/ \E i \in Items : Complete(i)
    \/ Tick

Spec == Init /\ [][Next]_vars

\* Promise jobs run, flushes settle and time passes
LiveSpec ==
    /\ Spec
    /\ \A k \in Keys : WF_vars(Jobs(k)) /\ WF_vars(FireTimer(k))
    /\ \A i \in Items : WF_vars(Complete(i))
    /\ WF_vars(Tick)

-----------------------------------------------------------------------------
(* Properties                                                              *)

\* Every variable keeps its type
TypeOK ==
    /\ arrived \in 0 .. MaxItems
    /\ chain \in [Keys -> Seq([items : SUBSET Items, gen : Nat, ready : BOOLEAN])]
    /\ tracked \in SUBSET Keys /\ serialize \in Serialize
    /\ buffer \in [Keys -> [open : BOOLEAN, due : Nat, left : Nat]]
    /\ gen \in [Keys -> Nat] /\ age \in [Keys -> Nat]
    /\ head \in [Keys -> {"idle", "running", "settling"}]
    /\ completions \in SUBSET Items
    /\ fate \in [Items -> {"none", "waiting", "flushed", "cancelled"}]
    /\ newest \in [Keys -> 0 .. MaxItems] /\ cutoff \in [Keys -> 0 .. MaxItems]
    /\ cancels \in [Keys -> 0 .. MaxCancels]

\* The messages of a waiting task of k, the running one left out
Waiting(k) ==
    UNION {chain[k][j].items : j \in {n \in DOMAIN chain[k] : n > 1 \/ head[k] = "idle"}}

\* No message is lost or handled twice: it waits in exactly one task until it
\* is either handed to onFlush or given to onCancel, never both
\* (cancelKey 309-332 against a released buffer, 411-420); the state is well
\* typed
ExactlyOnce ==
    /\ TypeOK
    /\ \A i \in Items : fate[i] = "waiting" <=> \E k \in Keys : i \in Waiting(k)
    /\ \A k \in Keys : \A m, n \in DOMAIN chain[k] :
          m # n => chain[k][m].items \cap chain[k][n].items = {}

\* Same-key messages reach onFlush in the order they arrived, whichever mix of
\* buffers, immediate messages, timers, explicit flushes and saturation they
\* took (enqueueReservedKeyTask, enqueue 350-432)
InOrder ==
    \A k \in Keys : \A i \in Waiting(k) : i > newest[k]

\* After cancelKey nothing that had arrived before reaches onFlush any more,
\* even if it waits released behind an active flush and the key's generation
\* is forgotten and reused meanwhile (runQueuedFlush 207-213, cleanup 220-227)
CancelIsEffective ==
    [][\A k \in Keys : newest'[k] # newest[k] => newest'[k] > cutoff[k]]_vars

\* Continuous arrivals cannot hold a buffer open beyond its window
WindowIsBounded ==
    \A k \in Keys : age[k] <= Debounce * Multiplier

\* drain() returns: both registries become empty together, so every message
\* has been flushed or cancelled by then (runFlush 189-192, drain 434-440)
DrainReturns == <>[](tracked = {} /\ completions = {})
=============================================================================
