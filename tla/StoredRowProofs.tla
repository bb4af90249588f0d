---------------------------- MODULE StoredRowProofs ----------------------------
(***************************************************************************)
(* Two stored rows that processes own in turn, for every value of their    *)
(* constants.                                                              *)
(*                                                                         *)
(* OAuthRefresh.tla: for any callers, accounts and number of credentials,  *)
(* no refresh token is spent twice, no stale owner overwrites what is      *)
(* stored, and callers are handed what is stored.                          *)
(*                                                                         *)
(* StateLease.tla, as Lease: for every set of owners and every lease       *)
(* length, authority over the lease is exclusive and backed by the row.    *)
(* AtMostOneAuthority and GuardedWriteIsOwned are not inductive: they need *)
(* what ties the copies of the grant (the row, the expiry a heartbeat has  *)
(* in hand, the expiry in shared memory, the expiry staged under a fence)  *)
(* to one another.                                                         *)
(***************************************************************************)
EXTENDS OAuthRefresh, LeaseState, TLAPS

-----------------------------------------------------------------------------
(* The OAuth refresh fence.                                                *)

Working == {"claimed", "refreshing", "settling", "failing"}

\* The token of the candidate has not been spent yet
Unspent == {"claimed", "refreshing"}

\* What a call has read or claimed
CallInv == \A p \in Procs :
    /\ proc[p].phase = "checking" => proc[p].cand.kind = "credential"
    /\ proc[p].phase \in Working =>
         proc[p].fence.kind = "pending" /\ proc[p].fence.gen = proc[p].cand.gen

\* A stored credential has its token; a claimed one is not stored any more,
\* and only one call can still spend it
SpentInv ==
    /\ \A g \in Gens : uses[g] <= 1
    /\ \A g \in Gens : g > issued => uses[g] = 0
    /\ store.kind = "credential" => uses[store.gen] = 0
    /\ \A p \in Procs : proc[p].phase \in Unspent => uses[proc[p].cand.gen] = 0
    /\ \A p \in Procs : proc[p].phase \in Working =>
         ~(store.kind = "credential" /\ store.gen = proc[p].cand.gen)
    /\ \A p, q \in Procs : p # q /\ proc[p].phase \in Unspent /\ proc[q].phase \in Unspent
         => proc[p].cand.gen # proc[q].cand.gen

\* A credential that is on its way from the provider to the store is known to
\* nobody else
FreshInv == \A p \in Procs : proc[p].phase = "settling" =>
    /\ proc[p].fresh \in Gens /\ proc[p].fresh > proc[p].cand.gen
    /\ uses[proc[p].fresh] = 0
    /\ proc[p].fresh # store.gen
    /\ \A q \in Procs : /\ proc[q].cand.gen # proc[p].fresh
                        /\ q # p /\ proc[q].phase = "settling" => proc[q].fresh # proc[p].fresh

IInv == TypeOK /\ CallInv /\ SpentInv /\ FreshInv

\* A process without a call
LEMMA IdleTypes ==
    Idle \in Calls /\ Idle.phase = "idle" /\ Idle.cand.gen = 1 /\ Idle.fresh = 0
<1>1. (CHOOSE a \in Accounts : TRUE) \in Accounts
  BY OAuthAssumption
<1>2. Nothing \in Stored /\ Nothing.gen = 1
  BY <1>1, OAuthAssumption DEF Nothing, Credential, Stored, Kinds
<1> QED
  BY <1>2, OAuthAssumption DEF Idle, Calls, Phases

\* The invariant holds initially
LEMMA InvariantInit == Init => IInv
<1> SUFFICES ASSUME Init PROVE IInv
  OBVIOUS
<1> USE OAuthAssumption DEF Init, Gens
<1>1. PICK a \in Accounts : store = Credential(1, a)
  OBVIOUS
<1>2. store \in Stored /\ store.gen = 1
  BY <1>1 DEF Stored, Kinds, Credential
<1>3. proc \in [Procs -> Calls]
  BY IdleTypes
<1>4. \A p \in Procs : proc[p].phase = "idle" /\ proc[p].cand.gen = 1 /\ proc[p].fresh = 0
  BY IdleTypes
<1>5. TypeOK
  BY <1>2, <1>3, <1>4 DEF TypeOK
<1>6. CallInv /\ FreshInv
  BY <1>4 DEF CallInv, FreshInv, Working
<1>7. SpentInv
  BY <1>2, <1>4 DEF SpentInv, Working, Unspent
<1> QED
  BY <1>5, <1>6, <1>7 DEF IInv

\* How a step changes the call of p, and no other call
Moves(p, to, cand, fence, fresh) ==
    /\ proc' \in [Procs -> Calls]
    /\ \A q \in Procs \ {p} : proc'[q] = proc[q]
    /\ proc'[p].phase = to /\ proc'[p].cand = cand
    /\ proc'[p].fence = fence /\ proc'[p].fresh = fresh

\* A call that goes on with what it knows, or ends
MovesTo(p, to) ==
    \/ Moves(p, to, proc[p].cand, proc[p].fence, proc[p].fresh)
    \/ to = "idle" /\ Moves(p, to, Idle.cand, Idle.fence, Idle.fresh)

\* Goto changes the phase and nothing else
LEMMA GotoMoves ==
    ASSUME proc \in [Procs -> Calls], NEW p \in Procs, NEW to \in Phases, Goto(p, to)
    PROVE  MovesTo(p, to)
<1>1. proc[p] \in Calls /\ proc'[p] = [proc[p] EXCEPT !.phase = to]
  BY DEF Goto
<1>2. [proc[p] EXCEPT !.phase = to] \in Calls
  BY <1>1 DEF Calls
<1>3. /\ proc'[p].phase = to /\ proc'[p].cand = proc[p].cand
      /\ proc'[p].fence = proc[p].fence /\ proc'[p].fresh = proc[p].fresh
  BY <1>1 DEF Calls
<1>4. proc' \in [Procs -> Calls] /\ \A q \in Procs \ {p} : proc'[q] = proc[q]
  BY <1>1, <1>2 DEF Goto
<1> QED
  BY <1>3, <1>4 DEF MovesTo, Moves

\* Ends forgets the call
LEMMA EndsMoves ==
    ASSUME proc \in [Procs -> Calls], NEW p \in Procs, Ends(p)
    PROVE  MovesTo(p, "idle")
<1>1. proc'[p] = Idle /\ proc' \in [Procs -> Calls]
      /\ \A q \in Procs \ {p} : proc'[q] = proc[q]
  BY IdleTypes DEF Ends
<1> QED
  BY <1>1, IdleTypes DEF MovesTo, Moves

\* What the type invariant says of one call
LEMMA CallTypes ==
    ASSUME TypeOK, NEW p \in Procs
    PROVE  /\ proc[p].phase \in Phases /\ proc[p].cand \in Stored /\ proc[p].fence \in Stored
           /\ proc[p].cand.gen \in 1 .. issued /\ proc[p].cand.gen \in Gens
           /\ proc[p].fresh \in 0 .. issued
           /\ issued \in Gens /\ store \in Stored /\ store.gen \in 1 .. issued /\ store.gen \in Gens
<1>1. proc[p] \in Calls
  BY DEF TypeOK
<1>2. /\ proc[p].phase \in Phases /\ proc[p].cand \in Stored /\ proc[p].fence \in Stored
      /\ proc[p].fresh \in 0 .. MaxGen
  BY <1>1 DEF Calls
<1> QED
  BY <1>2, OAuthAssumption DEF TypeOK, Gens

\* A call that goes on, fails or ends preserves what is said of the calls,
\* also when the fence in the store is written or marked
LEMMA MoveStep ==
    ASSUME IInv, NEW p \in Procs, NEW to, MovesTo(p, to),
           to \notin {"checking", "settling"},
           to \in Working => proc[p].phase \in Working,
           to \in Unspent => proc[p].phase \in Unspent,
           UNCHANGED <<issued, uses>>,
           store'.gen = store.gen, store'.kind = "credential" => store.kind = "credential"
    PROVE  CallInv' /\ SpentInv' /\ FreshInv'
<1> USE DEF IInv, MovesTo, Moves
<1>1. CallInv'
  BY DEF CallInv, Working
<1>2. SpentInv'
  BY DEF SpentInv, Working, Unspent
<1>3. \A q \in Procs : proc[q].phase = "settling" => proc[q].fresh > 1
  BY CallTypes DEF FreshInv, Gens
<1>4. FreshInv'
  BY <1>3, IdleTypes DEF FreshInv
<1> QED
  BY <1>1, <1>2, <1>4

\* A call that takes what is stored as its candidate preserves it too
LEMMA AdoptStep ==
    ASSUME IInv, NEW p \in Procs, NEW to \in {"checking", "observing"},
           Moves(p, to, store, proc[p].fence, proc[p].fresh),
           to = "checking" => store.kind = "credential",
           UNCHANGED <<issued, uses, store>>
    PROVE  CallInv' /\ SpentInv' /\ FreshInv'
<1> USE DEF IInv, Moves
<1>1. CallInv'
  BY DEF CallInv, Working
<1>2. SpentInv'
  BY DEF SpentInv, Working, Unspent
<1>3. FreshInv'
  BY DEF FreshInv
<1> QED
  BY <1>1, <1>2, <1>3

\* The types, from the types of what a step of one call writes
LEMMA TypeStep ==
    ASSUME TypeOK, NEW p \in Procs,
           proc' \in [Procs -> Calls], \A q \in Procs \ {p} : proc'[q] = proc[q],
           store' \in Stored, store'.gen \in 1 .. issued',
           issued' \in 1 .. MaxGen, issued <= issued',
           proc'[p].cand.gen \in 1 .. issued', proc'[p].fresh <= issued',
           uses' \in [Gens -> Nat], claims' \in Nat, got' \in [Procs -> 0 .. MaxGen],
           trouble' \in 0 .. MaxTrouble, expired' = expired
    PROVE  TypeOK'
<1>1. expired' \subseteq 1 .. issued'
  BY DEF TypeOK
<1>2. ASSUME NEW q \in Procs PROVE proc'[q].cand.gen \in 1 .. issued' /\ proc'[q].fresh <= issued'
  <2>1. proc[q].cand.gen \in 1 .. issued /\ proc[q].fresh \in 0 .. issued
    BY CallTypes
  <2>2. CASE q = p
    BY <2>2
  <2>3. CASE q # p
    BY <2>1, <2>3, OAuthAssumption DEF TypeOK
  <2> QED
    BY <2>2, <2>3
<1> QED
  BY <1>1, <1>2 DEF TypeOK

\* Login, logout and the clock: no call moves
LEMMA OthersStep == IInv /\ (Login \/ Logout \/ Expire) => IInv'
<1> SUFFICES ASSUME IInv, Login \/ Logout \/ Expire PROVE IInv'
  OBVIOUS
<1> USE OAuthAssumption DEF IInv, Gens
<1>1. CASE Login
  <2>1. PICK a \in Accounts : store' = Credential(issued', a)
    BY <1>1 DEF Login
  <2>2. /\ store' \in Stored /\ store'.gen = issued + 1 /\ store'.kind = "credential"
        /\ issued' = issued + 1 /\ issued' \in 1 .. MaxGen /\ proc' = proc /\ uses' = uses
    BY <1>1, <2>1 DEF Login, Credential, Stored, Kinds, TypeOK
  <2>3. \A p \in Procs : proc[p].cand.gen \in 1 .. issued /\ proc[p].fresh \in 0 .. issued
    BY CallTypes
  <2>4. TypeOK'
    BY <1>1, <2>2, <2>3 DEF Login, TypeOK
  <2>5. CallInv' /\ FreshInv'
    BY <2>2, <2>3 DEF CallInv, FreshInv, TypeOK
  <2>6. SpentInv'
    BY <2>2, <2>3 DEF SpentInv, TypeOK
  <2> QED
    BY <2>4, <2>5, <2>6
<1>2. CASE Logout
  <2>1. /\ store' \in Stored /\ store'.gen = store.gen /\ store'.kind = "none"
        /\ UNCHANGED <<issued, proc, uses>>
    BY <1>2 DEF Logout, TypeOK, Stored, Kinds
  <2>2. TypeOK'
    BY <1>2, <2>1 DEF Logout, TypeOK
  <2>3. CallInv' /\ SpentInv' /\ FreshInv'
    BY <2>1 DEF CallInv, SpentInv, FreshInv
  <2> QED
    BY <2>2, <2>3
<1>3. CASE Expire
  <2>1. UNCHANGED <<store, issued, proc, uses>>
    BY <1>3 DEF Expire
  <2>2. TypeOK'
    BY <1>3 DEF Expire, TypeOK
  <2>3. CallInv' /\ SpentInv' /\ FreshInv'
    BY <2>1 DEF CallInv, SpentInv, FreshInv
  <2> QED
    BY <2>2, <2>3
<1> QED
  BY <1>1, <1>2, <1>3

\* The two together, for a step that spends and issues nothing
LEMMA PassStep ==
    ASSUME IInv, NEW p \in Procs, NEW to, MovesTo(p, to),
           to \notin {"checking", "settling"},
           to \in Working => proc[p].phase \in Working,
           to \in Unspent => proc[p].phase \in Unspent,
           UNCHANGED <<issued, uses, expired>>,
           store' \in Stored, store'.gen = store.gen,
           store'.kind = "credential" => store.kind = "credential",
           claims' \in Nat, got' \in [Procs -> 0 .. MaxGen], trouble' \in 0 .. MaxTrouble
    PROVE  IInv'
<1>1. CallInv' /\ SpentInv' /\ FreshInv'
  BY MoveStep
<1>2. /\ proc[p].cand.gen \in 1 .. issued /\ proc[p].fresh \in 0 .. issued
      /\ issued \in Gens /\ store.gen \in 1 .. issued /\ uses \in [Gens -> Nat]
  BY CallTypes DEF IInv, TypeOK
<1>3. TypeOK'
  BY <1>2, TypeStep, IdleTypes DEF IInv, MovesTo, Moves, Gens
<1> QED
  BY <1>1, <1>3 DEF IInv

\* A call that returns, with what is stored or without
LEMMA ReturnStep ==
    ASSUME IInv, NEW p \in Procs, Return(p) \/ Hand(p, store.gen),
           UNCHANGED <<issued, uses, expired>>,
           store' \in Stored, store'.gen = store.gen,
           store'.kind = "credential" => store.kind = "credential",
           claims' \in Nat, trouble' \in 0 .. MaxTrouble
    PROVE  IInv'
<1>1. MovesTo(p, "idle")
  BY EndsMoves DEF IInv, TypeOK, Return, Hand
<1>2. got' \in [Procs -> 0 .. MaxGen]
  BY CallTypes DEF IInv, TypeOK, Return, Hand, Stored
<1> QED
  BY <1>1, <1>2, PassStep DEF Working, Unspent

\* A call that goes on without its result
LEMMA FailingStep ==
    ASSUME IInv, NEW p \in Procs, proc[p].phase \in Working, Goto(p, "failing"), UNCHANGED got,
           UNCHANGED <<issued, uses, expired, store, claims>>, trouble' \in 0 .. MaxTrouble
    PROVE  IInv'
<1>1. MovesTo(p, "failing")
  BY GotoMoves DEF IInv, TypeOK, Phases
<1> QED
  BY <1>1, PassStep DEF Working, Unspent, IInv, TypeOK

\* A call that takes what is stored as its candidate, and nothing else
LEMMA AdoptAllStep ==
    ASSUME IInv, NEW p \in Procs, NEW to \in {"checking", "observing"},
           Moves(p, to, store, proc[p].fence, proc[p].fresh),
           to = "checking" => store.kind = "credential",
           UNCHANGED <<store, issued, uses, expired, claims, got, trouble>>
    PROVE  IInv'
<1>1. CallInv' /\ SpentInv' /\ FreshInv'
  BY AdoptStep
<1>2. /\ proc[p].fresh \in 0 .. issued /\ issued \in Gens
      /\ store \in Stored /\ store.gen \in 1 .. issued
  BY CallTypes DEF IInv
<1>3. TypeOK'
  BY <1>2, TypeStep DEF IInv, Moves, Gens, TypeOK
<1> QED
  BY <1>1, <1>3 DEF IInv

\* The trouble that is left stays in its range
LEMMA TroubleTypes ==
    ASSUME TypeOK, UNCHANGED trouble \/ (trouble > 0 /\ trouble' = trouble - 1)
    PROVE  trouble' \in 0 .. MaxTrouble
  BY OAuthAssumption DEF TypeOK

\* Steps that read the store or end the call
LEMMA ReadersStep ==
    ASSUME IInv, NEW p \in Procs,
           Read(p) \/ Decline(p) \/ Observe(p) \/ ObserveTimesOut(p) \/ Crash(p)
    PROVE  IInv'
<1> USE DEF IInv
<1>1. TypeOK /\ store \in Stored /\ claims \in Nat /\ trouble \in 0 .. MaxTrouble
  BY DEF TypeOK
<1>2. CASE Read(p)
  <2>1. CASE Select(store) = "use" /\ Hand(p, store.gen)
    BY <1>1, <1>2, <2>1, ReturnStep DEF Read
  <2>2. ASSUME NEW to \in {"checking", "observing"},
               to = "checking" => store.kind = "credential",
               proc' = [proc EXCEPT ![p].cand = store, ![p].phase = to], UNCHANGED got
        PROVE  IInv'
    <3>1. Moves(p, to, store, proc[p].fence, proc[p].fresh)
      BY <1>1, <2>2 DEF Moves, TypeOK, Calls, Phases
    <3> QED
      BY <1>2, <2>2, <3>1, AdoptAllStep DEF Read
  <2>3. CASE Select(store) = "observe" /\ ~(Select(store) = "use" /\ Hand(p, store.gen))
    BY <1>2, <2>2, <2>3 DEF Read
  <2>4. CASE Select(store) = "claimable" /\ ~(Select(store) = "use" /\ Hand(p, store.gen))
    <3>1. store.kind = "credential"
      BY <1>1, <2>4 DEF Select, Stored
    <3> QED
      BY <1>2, <2>2, <2>4, <3>1 DEF Read
  <2> QED
    BY <1>2, <2>1, <2>3, <2>4 DEF Read
<1>3. CASE Decline(p)
  BY <1>1, <1>3, ReturnStep DEF Decline
<1>4. CASE Observe(p)
  BY <1>1, <1>4, ReturnStep DEF Observe
<1>5. CASE ObserveTimesOut(p)
  BY <1>1, <1>5, ReturnStep DEF ObserveTimesOut
<1>6. CASE Crash(p)
  <2>1. trouble' \in 0 .. MaxTrouble
    BY <1>6, TroubleTypes DEF Crash
  <2> QED
    BY <1>1, <1>6, <2>1, ReturnStep DEF Crash
<1> QED
  BY <1>2, <1>3, <1>4, <1>5, <1>6

\* A fence keeps the generation of its credential
LEMMA FenceTypes ==
    ASSUME NEW c \in Stored, NEW id \in Nat
    PROVE  Fence(c, id) \in Stored /\ Fence(c, id).gen = c.gen /\ Fence(c, id).kind = "pending"
  BY DEF Fence, Stored, Kinds

\* The claim, and a claim whose transaction reports an error
LEMMA ClaimStep ==
    ASSUME IInv, NEW p \in Procs, Claim(p) \/ ClaimFails(p)
    PROVE  IInv'
<1> USE DEF IInv
<1>1. /\ TypeOK /\ claims \in Nat /\ trouble \in 0 .. MaxTrouble /\ uses \in [Gens -> Nat]
      /\ got \in [Procs -> 0 .. MaxGen] /\ issued \in 1 .. MaxGen
  BY DEF TypeOK
<1>2. /\ proc[p] \in Calls /\ proc[p].cand \in Stored /\ proc[p].fresh \in 0 .. issued
      /\ store \in Stored /\ store.gen \in 1 .. issued
  BY CallTypes DEF TypeOK
<1>3. ASSUME MayClaim(p), proc[p].phase = "checking"
      PROVE  /\ proc[p].cand = store /\ store.kind = "credential"
             /\ Fence(proc[p].cand, claims + 1) \in Stored
             /\ Fence(proc[p].cand, claims + 1).gen = store.gen
             /\ Fence(proc[p].cand, claims + 1).kind = "pending"
  <2>1. proc[p].cand = store /\ store.kind = "credential"
    BY <1>3 DEF MayClaim, IsExact, CallInv
  <2>2. claims + 1 \in Nat /\ proc[p].cand \in Stored
    BY <1>1, <1>2
  <2> QED
    BY <2>1, <2>2, FenceTypes
<1>4. CASE Claim(p) /\ MayClaim(p)
  <2> DEFINE fence == Fence(proc[p].cand, claims + 1)
  <2>1. /\ proc[p].phase = "checking" /\ store' = fence /\ claims' = claims + 1
        /\ proc' = [proc EXCEPT ![p].phase = "claimed", ![p].fence = fence]
        /\ UNCHANGED <<got, issued, expired, uses, trouble>>
    BY <1>4 DEF Claim
  <2>2. /\ proc[p].cand = store /\ store.kind = "credential"
        /\ fence \in Stored /\ fence.gen = store.gen /\ fence.kind = "pending"
    BY <1>3, <1>4, <2>1
  <2> HIDE DEF fence
  <2>3. Moves(p, "claimed", proc[p].cand, fence, proc[p].fresh)
    BY <1>1, <1>2, <2>1, <2>2 DEF Moves, TypeOK, Calls, Phases
  <2>4. TypeOK'
    BY <1>1, <1>2, <2>1, <2>2, <2>3, TypeStep DEF Moves
  <2>5. CallInv'
    BY <2>2, <2>3 DEF CallInv, Moves, Working
  <2>6. SpentInv'
    BY <2>1, <2>2, <2>3 DEF SpentInv, Moves, Working, Unspent
  <2>7. FreshInv'
    BY <2>1, <2>2, <2>3 DEF FreshInv, Moves
  <2> QED
    BY <2>4, <2>5, <2>6, <2>7
<1>5. CASE Claim(p) /\ ~MayClaim(p)
  <2>1. UNCHANGED <<store, claims, issued, expired, uses, trouble>>
    BY <1>5 DEF Claim
  <2>2. CASE Return(p) \/ Hand(p, store.gen)
    BY <1>1, <1>2, <2>1, <2>2, ReturnStep
  <2>3. CASE proc' = [proc EXCEPT ![p].phase = "observing", ![p].cand = store] /\ UNCHANGED got
    <3>1. Moves(p, "observing", store, proc[p].fence, proc[p].fresh)
      BY <1>1, <1>2, <2>3 DEF Moves, TypeOK, Calls, Phases
    <3> QED
      BY <2>1, <2>3, <3>1, AdoptAllStep
  <2>4. \/ Return(p) \/ Hand(p, store.gen)
        \/ proc' = [proc EXCEPT ![p].phase = "observing", ![p].cand = store] /\ UNCHANGED got
    <3>1. CASE Select(store) = "use"
      BY <1>5, <3>1 DEF Claim
    <3>2. CASE Select(store) = "observe"
      BY <1>5, <3>2 DEF Claim
    <3>3. CASE Select(store) # "use" /\ Select(store) # "observe"
      BY <1>5, <3>3 DEF Claim
    <3> QED
      BY <3>1, <3>2, <3>3
  <2> QED
    BY <2>2, <2>3, <2>4
<1>6. CASE ClaimFails(p)
  <2>1. trouble' \in 0 .. MaxTrouble
    BY <1>6, TroubleTypes DEF ClaimFails
  <2>2. /\ store' \in Stored /\ store'.gen = store.gen
        /\ store'.kind = "credential" => store.kind = "credential"
    BY <1>2, <1>3, <1>6 DEF ClaimFails
  <2> QED
    BY <1>1, <1>6, <2>1, <2>2, ReturnStep DEF ClaimFails
<1> QED
  BY <1>4, <1>5, <1>6

\* Spending a token, with a new credential or without
LEMMA SpendStep ==
    ASSUME IInv, NEW p \in Procs, proc[p].phase = "refreshing",
           NEW to \in {"settling", "failing"}, NEW n,
           Moves(p, to, proc[p].cand, proc[p].fence, n),
           uses' \in [Gens -> Nat], uses'[proc[p].cand.gen] = 1,
           \A h \in Gens : h # proc[p].cand.gen => uses'[h] = uses[h],
           UNCHANGED store, issued' \in Gens, issued' >= issued,
           to = "settling" => n = issued + 1 /\ issued' = issued + 1
    PROVE  CallInv' /\ SpentInv' /\ FreshInv'
<1> USE OAuthAssumption DEF IInv
<1>0. issued \in Nat
  BY DEF TypeOK
<1>1. /\ \A q \in Procs : /\ proc[q].cand.gen \in 1 .. issued /\ proc[q].cand.gen \in Gens
                          /\ proc[q].fresh \in 0 .. issued
      /\ store.gen \in 1 .. issued /\ store.gen \in Gens /\ issued \in Gens
      /\ uses \in [Gens -> Nat]
  BY CallTypes DEF TypeOK
<1>2. /\ \A q \in Procs \ {p} : proc'[q] = proc[q]
      /\ proc'[p].phase = to /\ proc'[p].cand = proc[p].cand
      /\ proc'[p].fence = proc[p].fence /\ proc'[p].fresh = n
  BY DEF Moves
<1>3. CallInv'
  BY <1>2 DEF CallInv, Working
<1>4. /\ \A g \in Gens : uses'[g] <= 1
      /\ store'.kind = "credential" => uses'[store'.gen] = 0
  BY <1>1 DEF SpentInv, Working
<1>5. \A g \in Gens : g > issued' => uses'[g] = 0
  BY <1>1 DEF SpentInv, Gens
<1>6. \A q \in Procs : proc'[q].phase \in Unspent => uses'[proc'[q].cand.gen] = 0
  BY <1>1, <1>2 DEF SpentInv, Unspent
<1>7. \A q \in Procs : proc'[q].phase \in Working =>
        ~(store'.kind = "credential" /\ store'.gen = proc'[q].cand.gen)
  BY <1>2 DEF SpentInv, Working
<1>8. \A q, r \in Procs : q # r /\ proc'[q].phase \in Unspent /\ proc'[r].phase \in Unspent
        => proc'[q].cand.gen # proc'[r].cand.gen
  BY <1>2 DEF SpentInv, Unspent
<1>9. ASSUME NEW q \in Procs, proc'[q].phase = "settling"
      PROVE  /\ proc'[q].fresh \in Gens /\ proc'[q].fresh > proc'[q].cand.gen
             /\ uses'[proc'[q].fresh] = 0 /\ proc'[q].fresh # store'.gen
             /\ \A r \in Procs :
                  /\ proc'[r].cand.gen # proc'[q].fresh
                  /\ r # q /\ proc'[r].phase = "settling" => proc'[r].fresh # proc'[q].fresh
  <2>1. \A r \in Procs : proc'[r].cand = proc[r].cand
    BY <1>2
  <2>2. CASE q = p
    <3>1. n = issued + 1 /\ issued + 1 \in Gens /\ proc'[q].fresh = issued + 1
      <4>1. to = "settling" /\ proc'[q].fresh = n
        BY <1>2, <1>9, <2>2
      <4> QED
        BY <4>1
    <3>2. uses'[issued + 1] = 0
      BY <1>1, <3>1 DEF SpentInv, Gens
    <3>3. \A r \in Procs \ {p} : proc'[r].fresh \in 0 .. issued
      BY <1>1, <1>2
    <3> QED
      <4>1. /\ \A r \in Procs : proc'[r].cand.gen <= issued
            /\ \A r \in Procs \ {p} : proc'[r].fresh <= issued
            /\ store'.gen <= issued /\ issued \in Nat
        BY <1>0, <1>1, <2>1, <3>3
      <4>2. /\ \A r \in Procs : proc'[r].cand.gen # issued + 1 /\ issued + 1 > proc'[r].cand.gen
            /\ \A r \in Procs \ {p} : proc'[r].fresh # issued + 1
            /\ store'.gen # issued + 1
        BY <1>1, <2>1, <3>3, <4>1
      <4> QED
        BY <2>2, <3>1, <3>2, <4>2
  <2>3. CASE q # p
    <3>1. proc'[q] = proc[q] /\ proc[q].phase = "settling"
      BY <1>2, <1>9, <2>3
    <3>2. /\ proc[q].fresh \in Gens /\ proc[q].fresh > proc[q].cand.gen
          /\ uses'[proc[q].fresh] = 0 /\ proc[q].fresh # store.gen
          /\ \A r \in Procs : proc[r].cand.gen # proc[q].fresh
      BY <3>1 DEF FreshInv
    <3>3. ASSUME NEW r \in Procs, r # q, proc'[r].phase = "settling"
          PROVE  proc'[r].fresh # proc[q].fresh
      <4>1. CASE r = p
        <5>1. proc'[r].fresh = issued + 1 /\ proc[q].fresh \in 0 .. issued /\ issued \in Nat
          <6>1. to = "settling" /\ proc'[r].fresh = n
            BY <1>2, <3>3, <4>1
          <6> QED
            BY <1>0, <1>1, <6>1
        <5> QED
          BY <5>1
      <4>2. CASE r # p
        BY <1>2, <3>1, <3>3, <4>2 DEF FreshInv
      <4> QED
        BY <4>1, <4>2
    <3> QED
      BY <2>1, <3>1, <3>2, <3>3
  <2> QED
    BY <2>2, <2>3
<1>10. SpentInv'
  BY <1>4, <1>5, <1>6, <1>7, <1>8 DEF SpentInv
<1>11. FreshInv'
  BY <1>9 DEF FreshInv
<1> QED
  BY <1>3, <1>10, <1>11

\* The exchange: a token is spent by the only call that can spend it, and a
\* new generation has no user yet
LEMMA ExchangeStep ==
    ASSUME IInv, NEW p \in Procs, Publish(p) \/ Exchange(p)
    PROVE  IInv'
<1> USE DEF IInv
<1>1. /\ TypeOK /\ claims \in Nat /\ trouble \in 0 .. MaxTrouble /\ uses \in [Gens -> Nat]
      /\ got \in [Procs -> 0 .. MaxGen] /\ issued \in 1 .. MaxGen
  BY DEF TypeOK
<1>2. /\ proc[p] \in Calls /\ proc[p].cand \in Stored /\ proc[p].fresh \in 0 .. issued
      /\ proc[p].cand.gen \in 1 .. issued /\ proc[p].cand.gen \in Gens
      /\ store \in Stored /\ store.gen \in 1 .. issued
  BY CallTypes DEF TypeOK
<1>3. \A q \in Procs : proc[q].cand.gen \in 1 .. issued /\ proc[q].fresh \in 0 .. issued
  BY <1>1, CallTypes
<1>4. CASE Publish(p)
  <2>1. PICK to \in AfterPublish : Goto(p, to)
    BY <1>4 DEF Publish
  <2>2. MovesTo(p, to)
    BY <1>1, <2>1, GotoMoves DEF TypeOK, AfterPublish, Phases
  <2>3. proc[p].phase = "claimed" /\ to \in {"refreshing", "failing"}
    BY <1>4 DEF Publish, AfterPublish
  <2> QED
    BY <1>1, <1>2, <1>4, <2>2, <2>3, PassStep DEF Publish, Working, Unspent
<1>5. CASE Exchange(p)
  <2> DEFINE g == proc[p].cand.gen
             spent == [uses EXCEPT ![g] = @ + 1]
  <2>1. /\ proc[p].phase = "refreshing" /\ UNCHANGED <<store, expired, claims, got, trouble>>
    BY <1>5 DEF Exchange
  <2>2. /\ spent \in [Gens -> Nat] /\ spent[g] = 1
        /\ \A h \in Gens : h # g => spent[h] = uses[h]
    BY <1>1, <1>2, <2>1 DEF SpentInv, Unspent
  <2>3. CASE /\ issued < MaxGen /\ issued' = issued + 1 /\ uses' = spent
             /\ proc' = [proc EXCEPT ![p].phase = "settling", ![p].fresh = issued']
    <3> HIDE DEF spent
    <3>1. issued' = issued + 1 /\ issued' \in 1 .. MaxGen /\ issued' \in Gens
      BY <1>1, <2>3, OAuthAssumption DEF Gens
    <3>2. Moves(p, "settling", proc[p].cand, proc[p].fence, issued + 1)
      BY <1>1, <1>2, <2>3, <3>1 DEF Moves, TypeOK, Calls, Phases
    <3>3. TypeOK'
      BY <1>1, <1>2, <2>1, <2>2, <2>3, <3>1, <3>2, TypeStep DEF Moves
    <3> QED
      BY <1>1, <2>1, <2>2, <2>3, <3>1, <3>2, <3>3, SpendStep
  <2>4. CASE uses' = spent /\ Goto(p, "failing") /\ UNCHANGED issued
    <3> HIDE DEF spent
    <3>1. MovesTo(p, "failing")
      BY <1>1, <2>4, GotoMoves DEF TypeOK, Phases
    <3>2. TypeOK'
      BY <1>1, <1>2, <2>1, <2>2, <2>4, <3>1, TypeStep DEF MovesTo, Moves
    <3> QED
      BY <1>1, <2>1, <2>2, <2>4, <3>1, <3>2, CallTypes, SpendStep DEF MovesTo
  <2>5. CASE uses' = uses /\ Goto(p, "failing") /\ UNCHANGED issued
    BY <1>1, <2>1, <2>5, FailingStep DEF Working
  <2> QED
    BY <1>5, <2>3, <2>4, <2>5 DEF Exchange
<1> QED
  BY <1>4, <1>5

\* The owner's credential reaches the store: it is newer than the claim, its
\* token is unspent and no other call knows of it
LEMMA StoreStep ==
    ASSUME IInv, NEW p \in Procs, proc[p].phase = "settling",
           NEW to \in {"idle", "failing"}, MovesTo(p, to),
           store' = Credential(proc[p].fresh, proc[p].cand.acct),
           UNCHANGED <<issued, uses, expired, claims>>,
           got' \in [Procs -> 0 .. MaxGen], trouble' \in 0 .. MaxTrouble
    PROVE  IInv'
<1> USE DEF IInv
<1>1. /\ proc[p].cand \in Stored /\ proc[p].cand.gen \in 1 .. issued
      /\ proc[p].fresh \in 0 .. issued /\ issued \in Gens
  BY CallTypes
<1>2. /\ proc[p].fresh \in Gens /\ uses[proc[p].fresh] = 0
      /\ \A q \in Procs : proc[q].cand.gen # proc[p].fresh
      /\ \A q \in Procs \ {p} : proc[q].phase = "settling" => proc[q].fresh # proc[p].fresh
  BY DEF FreshInv
<1>3. store' \in Stored /\ store'.gen = proc[p].fresh /\ store'.kind = "credential"
  BY <1>1, <1>2, OAuthAssumption DEF Credential, Stored, Kinds, Gens
<1>4. /\ proc' \in [Procs -> Calls] /\ \A q \in Procs \ {p} : proc'[q] = proc[q]
      /\ proc'[p].phase = to
      /\ \/ proc'[p].cand = proc[p].cand /\ proc'[p].fence = proc[p].fence
            /\ proc'[p].fresh = proc[p].fresh
         \/ to = "idle" /\ proc'[p].cand.gen = 1 /\ proc'[p].fresh = 0
  BY IdleTypes DEF MovesTo, Moves
<1>5. TypeOK'
  <2>1. /\ store'.gen \in 1 .. issued' /\ issued' \in 1 .. MaxGen /\ issued <= issued'
        /\ proc'[p].cand.gen \in 1 .. issued' /\ proc'[p].fresh <= issued'
    BY <1>1, <1>2, <1>3, <1>4, OAuthAssumption DEF Gens
  <2> QED
    BY <1>3, <1>4, <2>1, TypeStep DEF TypeOK
<1>6. CallInv'
  BY <1>4 DEF CallInv, Working
<1>7. SpentInv'
  BY <1>2, <1>3, <1>4 DEF SpentInv, Working, Unspent
<1>8. \A q \in Procs : proc[q].phase = "settling" => proc[q].fresh > 1
  BY CallTypes DEF FreshInv, Gens
<1>9. FreshInv'
  BY <1>2, <1>3, <1>4, <1>8 DEF FreshInv
<1> QED
  BY <1>5, <1>6, <1>7, <1>9

\* The settlement of the fence by its owner, and marking it failed
LEMMA SettleStep ==
    ASSUME IInv, NEW p \in Procs, Settle(p) \/ MarkFailed(p)
    PROVE  IInv'
<1> USE DEF IInv
<1>1. /\ TypeOK /\ claims \in Nat /\ trouble \in 0 .. MaxTrouble
      /\ got \in [Procs -> 0 .. MaxGen] /\ store \in Stored /\ proc \in [Procs -> Calls]
  BY DEF TypeOK
<1>2. CASE Settle(p)
  <2> DEFINE new == Credential(proc[p].fresh, proc[p].cand.acct)
  <2>1. proc[p].phase = "settling" /\ UNCHANGED <<issued, expired, uses, claims>>
    BY <1>2 DEF Settle
  <2>2. trouble' \in 0 .. MaxTrouble
    BY <1>1, <1>2, TroubleTypes DEF Settle
  <2>3. new.gen = proc[p].fresh /\ proc[p].fresh \in 0 .. MaxGen
    BY <1>1 DEF Credential, Calls
  <2>4. CASE store' = new /\ (Hand(p, new.gen) \/ (Goto(p, "failing") /\ UNCHANGED got))
    <3>1. MovesTo(p, "idle") \/ MovesTo(p, "failing")
      BY <1>1, <2>4, GotoMoves, EndsMoves DEF Hand, Phases
    <3>2. PICK to \in {"idle", "failing"} : MovesTo(p, to)
      BY <3>1
    <3>3. got' \in [Procs -> 0 .. MaxGen]
      BY <1>1, <2>3, <2>4 DEF Hand
    <3> QED
      BY <2>1, <2>2, <2>4, <3>2, <3>3, StoreStep
  <2>5. CASE store' = store /\ Goto(p, "failing") /\ UNCHANGED got
    BY <2>1, <2>2, <2>5, FailingStep DEF Working
  <2>6. CASE store' = store /\ Hand(p, store.gen)
    BY <1>1, <2>1, <2>2, <2>6, ReturnStep
  <2> QED
    BY <1>2, <2>4, <2>5, <2>6 DEF Settle
<1>3. CASE MarkFailed(p)
  <2>1. trouble' \in 0 .. MaxTrouble
    BY <1>1, <1>3, TroubleTypes DEF MarkFailed
  <2>2. FailedFence(store) \in Stored /\ FailedFence(store).gen = store.gen
        /\ FailedFence(store).kind = "failed"
    BY <1>1 DEF FailedFence, Stored, Kinds
  <2>3. store' = store \/ store' = FailedFence(store)
    BY <1>3 DEF MarkFailed
  <2>4. /\ store' \in Stored /\ store'.gen = store.gen
        /\ store'.kind = "credential" => store.kind = "credential"
    BY <1>1, <2>2, <2>3
  <2> QED
    BY <1>1, <1>3, <2>1, <2>4, ReturnStep DEF MarkFailed
<1> QED
  BY <1>2, <1>3

\* The invariant is inductive
LEMMA InvariantStep == IInv /\ [Next]_vars => IInv'
<1> SUFFICES ASSUME IInv, [Next]_vars PROVE IInv'
  OBVIOUS
<1>1. CASE Login \/ Logout \/ Expire
  BY <1>1, OthersStep
<1>2. ASSUME NEW p \in Procs,
             \/ Read(p) \/ Decline(p) \/ Claim(p) \/ ClaimFails(p) \/ Advance(p)
             \/ Observe(p) \/ ObserveTimesOut(p) \/ Crash(p)
      PROVE  IInv'
  BY <1>2, ReadersStep, ClaimStep, ExchangeStep, SettleStep DEF Advance
<1>3. CASE UNCHANGED vars
  BY <1>3 DEF IInv, TypeOK, CallInv, SpentInv, FreshInv, vars
<1> QED
  BY <1>1, <1>2, <1>3 DEF Next

\* Together: the invariant always holds
LEMMA Invariant == Spec => []IInv
  BY InvariantInit, InvariantStep, PTL DEF Spec

\* For any callers and accounts, every variable keeps its type
THEOREM OAuthTypes == Spec => []TypeOK
<1>1. IInv => TypeOK
  BY DEF IInv
<1> QED
  BY <1>1, Invariant, PTL

\* For any callers and accounts, no refresh token is spent twice
THEOREM RefreshTokenSpentOnce == Spec => []SpentOnce
<1>1. IInv => SpentOnce
  BY DEF IInv, SpentInv, SpentOnce
<1> QED
  BY <1>1, Invariant, PTL

\* What a step may do to the store
LEMMA NewestStep == IInv /\ [Next]_vars => [Newest]_vars
<1> SUFFICES ASSUME IInv, Next PROVE Newest
  BY DEF vars, Newest
<1>1. store \in Stored /\ store.gen \in 1 .. issued /\ issued \in 1 .. MaxGen /\ claims \in Nat
  BY DEF IInv, TypeOK
<1>2. CASE UNCHANGED store
  BY <1>1, <1>2, OAuthAssumption DEF Newest, Stored
<1>3. CASE Login
  <2>1. store'.gen = issued + 1
    BY <1>3 DEF Login, Credential
  <2> QED
    BY <1>1, <2>1, OAuthAssumption DEF Newest
<1>4. CASE Logout
  <2>1. store'.gen = store.gen /\ store'.kind = "none"
    BY <1>1, <1>4 DEF Logout, Stored
  <2> QED
    BY <1>1, <2>1 DEF Newest
<1>5. CASE Expire
  BY <1>2, <1>5 DEF Expire
<1>6. ASSUME NEW p \in Procs,
             \/ Read(p) \/ Decline(p) \/ Publish(p) \/ Exchange(p)
             \/ Observe(p) \/ ObserveTimesOut(p) \/ Crash(p)
      PROVE  Newest
  BY <1>2, <1>6 DEF Read, Decline, Publish, Exchange, Observe, ObserveTimesOut, Crash
<1>7. ASSUME NEW p \in Procs, Claim(p) \/ ClaimFails(p) PROVE Newest
  <2>1. proc[p].phase = "checking" /\ proc[p].cand \in Stored
    BY <1>7, CallTypes DEF Claim, ClaimFails, IInv
  <2>2. CASE store' = Fence(proc[p].cand, claims + 1) /\ MayClaim(p)
    <3>1. proc[p].cand = store /\ store.kind = "credential"
      BY <2>1, <2>2 DEF MayClaim, IsExact, IInv, CallInv
    <3>2. claims + 1 \in Nat /\ store \in Stored
      BY DEF IInv, TypeOK
    <3>3. store'.gen = store.gen /\ store'.kind = "pending"
      BY <2>2, <3>1, <3>2, FenceTypes
    <3> QED
      BY <1>1, <3>1, <3>3 DEF Newest
  <2>3. UNCHANGED store \/ (store' = Fence(proc[p].cand, claims + 1) /\ MayClaim(p))
    BY <1>7 DEF Claim, ClaimFails
  <2> QED
    BY <1>2, <2>2, <2>3
<1>8. ASSUME NEW p \in Procs, Settle(p) PROVE Newest
  <2> DEFINE new == Credential(proc[p].fresh, proc[p].cand.acct)
  <2>1. CASE store' = new /\ MaySettle(p)
    <3>1. proc[p].phase = "settling" /\ store = proc[p].fence
      BY <1>8, <2>1 DEF Settle, MaySettle, IsExact
    <3>2. store.gen = proc[p].cand.gen /\ store.kind = "pending" /\ proc[p].fresh > proc[p].cand.gen
      BY <3>1 DEF IInv, CallInv, FreshInv, Working
    <3>3. store'.gen > store.gen /\ store'.gen \in Nat
      BY <2>1, <3>1, <3>2, OAuthAssumption DEF Credential, IInv, FreshInv, Gens
    <3> QED
      BY <1>1, <3>3, OAuthAssumption DEF Newest
  <2>2. UNCHANGED store \/ (store' = new /\ MaySettle(p))
    BY <1>8 DEF Settle
  <2> QED
    BY <1>2, <2>1, <2>2
<1>9. ASSUME NEW p \in Procs, MarkFailed(p) PROVE Newest
  <2>1. CASE store' = FailedFence(store) /\ store = proc[p].fence /\ proc[p].phase = "failing"
    <3>1. store.kind = "pending"
      BY <2>1 DEF IInv, CallInv, Working
    <3>2. store'.gen = store.gen
      BY <1>1, <2>1 DEF FailedFence, Stored
    <3> QED
      BY <1>1, <3>1, <3>2 DEF Newest
  <2>2. \/ UNCHANGED store
        \/ store' = FailedFence(store) /\ store = proc[p].fence /\ proc[p].phase = "failing"
    BY <1>9 DEF MarkFailed, IsExact
  <2> QED
    BY <1>2, <2>1, <2>2
<1> QED
  BY <1>3, <1>4, <1>5, <1>6, <1>7, <1>8, <1>9 DEF Next, Advance

\* For any callers and accounts, no stale owner overwrites what is stored
THEOREM StoreNeverGoesBack == Spec => NewestSurvives
  BY Invariant, NewestStep, PTL DEF Spec, NewestSurvives

\* A step that changes what p has been given, gives it what is stored
LEMMA HandStep ==
    ASSUME IInv, Next, NEW q \in Procs, got'[q] # got[q] PROVE HandsOut(q)
<1>1. got \in [Procs -> 0 .. MaxGen] /\ store \in Stored /\ proc[q] \in Calls
  BY DEF IInv, TypeOK
<1>2. ASSUME NEW p \in Procs, NEW g, Hand(p, g) PROVE p = q /\ got'[q] = g
  BY <1>1, <1>2 DEF Hand
<1>3. CASE Login \/ Logout \/ Expire
  BY <1>3 DEF Login, Logout, Expire
<1>4. ASSUME NEW p \in Procs,
             \/ Decline(p) \/ ClaimFails(p) \/ Publish(p) \/ Exchange(p)
             \/ MarkFailed(p) \/ ObserveTimesOut(p) \/ Crash(p)
      PROVE  FALSE
  BY <1>4 DEF Decline, ClaimFails, Publish, Exchange, MarkFailed, ObserveTimesOut, Crash, Return
<1>5. ASSUME NEW p \in Procs, Read(p) PROVE HandsOut(q)
  <2>1. Hand(p, store.gen) /\ Select(store) = "use" /\ UNCHANGED store /\ proc[p].phase = "idle"
    BY <1>5 DEF Read
  <2>2. store.kind = "credential"
    BY <1>1, <2>1 DEF Select, Stored
  <2> QED
    BY <1>2, <2>1, <2>2 DEF HandsOut
<1>6. ASSUME NEW p \in Procs, Claim(p) PROVE HandsOut(q)
  <2>1. Hand(p, store.gen) /\ Select(store) = "use" /\ UNCHANGED store /\ proc[p].phase = "checking"
    <3>1. ~MayClaim(p) /\ UNCHANGED store /\ proc[p].phase = "checking"
      BY <1>6 DEF Claim
    <3>2. CASE Select(store) = "use"
      BY <1>6, <3>1, <3>2 DEF Claim
    <3>3. CASE Select(store) = "observe"
      BY <1>6, <3>1, <3>3 DEF Claim
    <3>4. CASE Select(store) # "use" /\ Select(store) # "observe"
      BY <1>6, <3>1, <3>4 DEF Claim, Return
    <3> QED
      BY <3>2, <3>3, <3>4
  <2>2. store.kind = "credential"
    BY <1>1, <2>1 DEF Select, Stored
  <2> QED
    BY <1>2, <2>1, <2>2 DEF HandsOut
<1>7. ASSUME NEW p \in Procs, Settle(p) PROVE HandsOut(q)
  <2> DEFINE new == Credential(proc[p].fresh, proc[p].cand.acct)
  <2>1. CASE store' = new /\ Hand(p, new.gen)
    BY <1>2, <2>1 DEF HandsOut, Credential
  <2>2. CASE Safe(proc[p].cand, store) /\ Hand(p, store.gen) /\ UNCHANGED store
    BY <1>2, <2>2 DEF HandsOut, Safe
  <2> QED
    BY <1>7, <2>1, <2>2 DEF Settle
<1>8. ASSUME NEW p \in Procs, Observe(p) PROVE HandsOut(q)
  <2>1. Safe(proc[p].cand, store) /\ Hand(p, store.gen) /\ UNCHANGED store
    BY <1>8 DEF Observe, Return
  <2> QED
    BY <1>2, <2>1 DEF HandsOut, Safe
<1> QED
  BY <1>3, <1>4, <1>5, <1>6, <1>7, <1>8 DEF Next, Advance

\* For any callers and accounts, a caller is only given the stored credential,
\* and after a wait or a claim only one of its own account
THEOREM CallersGetWhatIsStored == Spec => HandedOutIsStored
<1> DEFINE Handed == \A p \in Procs : got'[p] # got[p] => HandsOut(p)
<1>1. IInv /\ [Next]_vars => [Handed]_vars
  <2> SUFFICES ASSUME IInv, Next PROVE Handed
    BY DEF vars
  <2> QED
    BY HandStep
<1> QED
  BY <1>1, Invariant, PTL DEF Spec, HandedOutIsStored

-----------------------------------------------------------------------------
(* The shared-state lease.                                                 *)

\* Its operations
Lease == INSTANCE StateLease

\* The writer lock is held exactly by the owner inside a transaction
WriterInv == \A o \in Owners : phase[o] \in {"tx", "guarded"} <=> writer = o

\* A running heartbeat belongs to an invocation between Acquire and Drain
WorkerInv == \A o \in Owners : Lease!WorkerRuns(o) => phase[o] \notin {"acquiring",
    "draining", "done"}

\* The row records the one grant its owner received
GrantInv ==
    /\ lease.expiresAt <= clock + LeaseMs
    /\ \A o \in Owners : lease.owner = o => phase[o] # "acquiring" /\ lease.createdAt = acquiredAt[o]

\* The expiry a process observed never exceeds the row's
SeenInv == \A o \in Owners :
    Lease!WorkerRuns(o) /\ seen[o] > clock => lease.owner = o /\ lease.expiresAt >= seen[o]

\* Neither does the expiry its heartbeat has in hand
FoundInv == \A o \in Owners :
    /\ phase[o] = "acquiring" => found[o] = 0 /\ beat[o] = "idle"
    /\ Lease!WorkerRuns(o) /\ found[o] > clock =>
         lease.owner = o /\ lease.expiresAt >= found[o]

\* The fence is up only around a transaction, and a heartbeat that stands
\* behind its look at the fence, or found no row, was there before
OvertakenInv == \A o \in Owners : ownerFence[o] =>
    /\ phase[o] \in {"tx", "guarded", "settling", "dead"}
    /\ phase[o] \in {"tx", "guarded"}
         /\ (beat[o] = "unfenced" \/ (beat[o] = "renewing" /\ found[o] = 0)) => overtaken[o]

\* An expiry staged under the fence is not below the row's before COMMIT and
\* is covered by the row after it
StagedInv == \A o \in Owners :
    /\ staged[o] > 0 => ownerFence[o] /\ phase[o] \in {"guarded", "settling"}
    /\ phase[o] = "guarded" /\ staged[o] > 0 =>
         staged[o] >= lease.expiresAt /\ staged[o] <= clock + LeaseMs
    /\ phase[o] = "settling" /\ staged[o] > clock =>
         lease.owner = o /\ lease.expiresAt >= staged[o]

\* The inductive invariant
LeaseInv == Lease!TypeOK /\ WriterInv /\ WorkerInv /\ GrantInv /\ Lease!GuardedWriteIsOwned
        /\ SeenInv /\ FoundInv /\ OvertakenInv /\ StagedInv

\* The inductive invariant holds initially
LEMMA LeaseInvInit == Lease!Init => LeaseInv
  BY OwnersAssumption, LeaseAssumption
  DEF Lease!Init, LeaseInv, Lease!TypeOK, WriterInv, WorkerInv, GrantInv,
      Lease!GuardedWriteIsOwned, SeenInv, FoundInv, OvertakenInv, StagedInv,
      Lease!WorkerRuns, Lease!NoRow, Lease!Phases, Lease!Statuses, Lease!Beats

\* Types are preserved by every step
LEMMA LeaseTypeStep == Lease!TypeOK /\ [Lease!Next]_(Lease!leaseVars) => Lease!TypeOK'
<1> SUFFICES ASSUME Lease!TypeOK, [Lease!Next]_(Lease!leaseVars) PROVE Lease!TypeOK'
  OBVIOUS
<1> USE OwnersAssumption, LeaseAssumption
    DEF Lease!TypeOK, Lease!Phases, Lease!Statuses, Lease!Beats, Lease!heartbeatVars,
        Lease!HeartbeatEnds
<1>1. CASE Lease!Tick
  BY <1>1 DEF Lease!Tick
<1>2. ASSUME NEW o \in Owners, Lease!Main(o) PROVE Lease!TypeOK'
  <2>1. CASE Lease!Acquire(o)
    BY <2>1 DEF Lease!Acquire, Lease!Granted
  <2>2. CASE Lease!GiveUp(o)
    BY <2>2 DEF Lease!GiveUp
  <2>3. CASE Lease!StartupRenew(o)
    BY <2>3 DEF Lease!StartupRenew, Lease!Renewed
  <2>4. CASE Lease!StartupTimeout(o)
    BY <2>4 DEF Lease!StartupTimeout
  <2>5. CASE Lease!Enter(o)
    <3>1. CASE phase'[o] = "running"
      BY <2>5, <3>1 DEF Lease!Enter
    <3>2. CASE phase'[o] # "running"
      <4>1. Lease!HeartbeatEnds(o)
        BY <2>5, <3>2 DEF Lease!Enter
      <4>2. beat' \in [Owners -> Lease!Beats] /\ found' \in [Owners -> Nat]
        BY <4>1
      <4>3. overtaken' \in [Owners -> BOOLEAN]
        BY <4>1
      <4>4. phase' \in [Owners -> Lease!Phases] /\ status' \in [Owners -> Lease!Statuses]
        BY <2>5, <3>2 DEF Lease!Enter
      <4> QED
        BY <2>5, <4>2, <4>3, <4>4 DEF Lease!Enter
    <3> QED
      BY <3>1, <3>2
  <2>6. CASE Lease!BeginTx(o)
    BY <2>6 DEF Lease!BeginTx
  <2>7. CASE Lease!HoldFence(o)
    BY <2>7 DEF Lease!HoldFence
  <2>8. CASE Lease!AssertOwned(o)
    BY <2>8 DEF Lease!AssertOwned
  <2>9. CASE Lease!FenceRenew(o)
    BY <2>9 DEF Lease!FenceRenew
  <2>10. CASE Lease!Commit(o)
    BY <2>10 DEF Lease!Commit
  <2>11. CASE Lease!Rollback(o)
    BY <2>11 DEF Lease!Rollback
  <2>12. CASE Lease!FenceRelease(o)
    BY <2>12 DEF Lease!FenceRelease
  <2>13. CASE Lease!Drain(o)
    BY <2>13 DEF Lease!Drain
  <2>14. CASE Lease!Release(o)
    BY <2>14 DEF Lease!Release, Lease!Released, Lease!NoRow
  <2>15. CASE Lease!AbandonRelease(o)
    BY <2>15 DEF Lease!AbandonRelease
  <2> QED
    BY <1>2, <2>1, <2>2, <2>3, <2>4, <2>5, <2>6, <2>7, <2>8, <2>9, <2>10, <2>11, <2>12,
       <2>13, <2>14, <2>15 DEF Lease!Main
<1>3. ASSUME NEW o \in Owners, Lease!Worker(o) PROVE Lease!TypeOK'
  <2> USE DEF Lease!mainVars, Lease!To
  <2>1. CASE Lease!Beat(o)
    BY <2>1 DEF Lease!Beat, Lease!Renewed
  <2>2. CASE Lease!BeatContended(o) \/ Lease!LoadFence(o)
    BY <2>2 DEF Lease!BeatContended, Lease!LoadFence
  <2>3. CASE Lease!ReadExpiry(o) \/ Lease!Verify(o)
    BY <2>3 DEF Lease!ReadExpiry, Lease!Verify, Lease!CommittedExpiry
  <2>4. CASE Lease!Observe(o) \/ Lease!Judge(o) \/ Lease!BeatFails(o)
    BY <2>4 DEF Lease!Observe, Lease!Judge, Lease!BeatFails
  <2> QED
    BY <1>3, <2>1, <2>2, <2>3, <2>4 DEF Lease!Worker
<1>4. ASSUME NEW o \in Owners, Lease!Crash(o) PROVE Lease!TypeOK'
  BY <1>4 DEF Lease!Crash
<1>5. CASE UNCHANGED Lease!leaseVars
  BY <1>5 DEF Lease!leaseVars
<1> QED
  BY <1>1, <1>2, <1>3, <1>4, <1>5 DEF Lease!Next

\* Every step of the main thread preserves the inductive invariant
LEMMA MainStep ==
    ASSUME LeaseInv, Lease!TypeOK', NEW o \in Owners, Lease!Main(o)
    PROVE  LeaseInv'
<1> USE OwnersAssumption, LeaseAssumption
    DEF LeaseInv, Lease!TypeOK, WriterInv, WorkerInv, GrantInv, Lease!GuardedWriteIsOwned,
        SeenInv, FoundInv, OvertakenInv, StagedInv, Lease!WorkerRuns, Lease!heartbeatVars,
        Lease!HeartbeatEnds
<1>1. CASE Lease!Acquire(o)
  BY <1>1 DEF Lease!Acquire, Lease!Granted, Lease!Reclaimable, Lease!LockFree
<1>2. CASE Lease!GiveUp(o)
  BY <1>2 DEF Lease!GiveUp
<1>3. CASE Lease!StartupRenew(o)
  BY <1>3 DEF Lease!StartupRenew, Lease!Renewed, Lease!OwnedUnexpired, Lease!LockFree
<1>4. CASE Lease!StartupTimeout(o)
  BY <1>4 DEF Lease!StartupTimeout
<1>5. CASE Lease!Enter(o)
  BY <1>5 DEF Lease!Enter
<1>6. CASE Lease!BeginTx(o)
  BY <1>6 DEF Lease!BeginTx, Lease!LockFree
<1>7. CASE Lease!HoldFence(o)
  <2>1. OvertakenInv'
    <3> SUFFICES ASSUME NEW q \in Owners, ownerFence'[q] PROVE
            /\ phase[q] \in {"tx", "guarded", "settling", "dead"}
            /\ phase[q] \in {"tx", "guarded"}
                 /\ (beat[q] = "unfenced" \/ (beat[q] = "renewing" /\ found[q] = 0))
                 => overtaken'[q]
      BY <1>7 DEF Lease!HoldFence
    <3>1. CASE q = o
      <4>1. phase[o] = "tx" /\ overtaken'[o] = (beat[o] \in {"unfenced", "renewing"})
        BY <1>7 DEF Lease!HoldFence
      <4> QED
        BY <3>1, <4>1
    <3>2. CASE q # o
      <4>1. ownerFence[q] /\ overtaken'[q] = overtaken[q]
        BY <1>7, <3>2 DEF Lease!HoldFence
      <4> QED
        BY <4>1
    <3> QED
      BY <3>1, <3>2
  <2>2. StagedInv'
    BY <1>7 DEF Lease!HoldFence
  <2> QED
    BY <1>7, <2>1, <2>2 DEF Lease!HoldFence
<1>8. CASE Lease!AssertOwned(o)
  BY <1>8 DEF Lease!AssertOwned, Lease!OwnedUnexpired
<1>9. CASE Lease!FenceRenew(o)
  BY <1>9 DEF Lease!FenceRenew
<1>10. CASE Lease!Commit(o)
  BY <1>10 DEF Lease!Commit
<1>11. CASE Lease!Rollback(o)
  BY <1>11 DEF Lease!Rollback
<1>12. CASE Lease!FenceRelease(o)
  BY <1>12 DEF Lease!FenceRelease
<1>13. CASE Lease!Drain(o)
  BY <1>13 DEF Lease!Drain
<1>14. CASE Lease!Release(o)
  BY <1>14 DEF Lease!Release, Lease!Released, Lease!NoRow, Lease!LockFree
<1>15. CASE Lease!AbandonRelease(o)
  BY <1>15 DEF Lease!AbandonRelease
<1> QED
  BY <1>1, <1>2, <1>3, <1>4, <1>5, <1>6, <1>7, <1>8, <1>9, <1>10, <1>11, <1>12, <1>13, <1>14,
     <1>15 DEF Lease!Main

\* Every step of the heartbeat thread preserves the inductive invariant
LEMMA WorkerStep ==
    ASSUME LeaseInv, Lease!TypeOK', NEW o \in Owners, Lease!Worker(o)
    PROVE  LeaseInv'
<1> USE OwnersAssumption, LeaseAssumption
    DEF LeaseInv, Lease!TypeOK, WriterInv, WorkerInv, GrantInv, Lease!GuardedWriteIsOwned,
        SeenInv, FoundInv, OvertakenInv, StagedInv, Lease!WorkerRuns, Lease!mainVars,
        Lease!To
<1>1. CASE Lease!Beat(o)
  BY <1>1 DEF Lease!Beat, Lease!OwnedUnexpired, Lease!Renewed, Lease!LockFree
<1>2. CASE Lease!BeatContended(o)
  BY <1>2 DEF Lease!BeatContended
<1>3. CASE Lease!LoadFence(o)
  BY <1>3 DEF Lease!LoadFence, Lease!WaitsForFence
<1>4. CASE Lease!ReadExpiry(o)
  <2>1. CASE Lease!OwnedUnexpired(o)
    BY <1>4, <2>1 DEF Lease!ReadExpiry, Lease!CommittedExpiry, Lease!OwnedUnexpired
  <2>2. CASE ~Lease!OwnedUnexpired(o)
    <3>1. found' = [found EXCEPT ![o] = 0] /\ beat' = [beat EXCEPT ![o] = "renewing"]
      BY <1>4, <2>2 DEF Lease!ReadExpiry, Lease!CommittedExpiry
    <3>2. FoundInv' /\ OvertakenInv'
      BY <1>4, <3>1 DEF Lease!ReadExpiry
    <3> QED
      BY <1>4, <3>2 DEF Lease!ReadExpiry
  <2> QED
    BY <2>1, <2>2
<1>5. CASE Lease!Verify(o)
  BY <1>5 DEF Lease!Verify, Lease!CommittedExpiry, Lease!OwnedUnexpired
<1>6. CASE Lease!Observe(o)
  BY <1>6 DEF Lease!Observe
<1>7. CASE Lease!Judge(o)
  BY <1>7 DEF Lease!Judge
<1>8. CASE Lease!BeatFails(o)
  BY <1>8 DEF Lease!BeatFails
<1> QED
  BY <1>1, <1>2, <1>3, <1>4, <1>5, <1>6, <1>7, <1>8 DEF Lease!Worker

\* The inductive invariant is preserved by every step
LEMMA LeaseInvStep == LeaseInv /\ [Lease!Next]_(Lease!leaseVars) => LeaseInv'
<1> SUFFICES ASSUME LeaseInv, [Lease!Next]_(Lease!leaseVars) PROVE LeaseInv'
  OBVIOUS
<1>0. Lease!TypeOK'
  BY LeaseTypeStep DEF LeaseInv
<1>1. CASE Lease!Tick
  BY <1>0, <1>1, LeaseAssumption
  DEF Lease!Tick, LeaseInv, Lease!TypeOK, WriterInv, WorkerInv, GrantInv,
      Lease!GuardedWriteIsOwned, SeenInv, FoundInv, OvertakenInv, StagedInv,
      Lease!WorkerRuns, Lease!heartbeatVars
<1>2. ASSUME NEW o \in Owners, Lease!Main(o) PROVE LeaseInv'
  BY <1>0, <1>2, MainStep
<1>3. ASSUME NEW o \in Owners, Lease!Worker(o) PROVE LeaseInv'
  BY <1>0, <1>3, WorkerStep
<1>4. ASSUME NEW o \in Owners, Lease!Crash(o) PROVE LeaseInv'
  BY <1>0, <1>4, OwnersAssumption
  DEF Lease!Crash, LeaseInv, Lease!TypeOK, WriterInv, WorkerInv, GrantInv,
      Lease!GuardedWriteIsOwned, SeenInv, FoundInv, OvertakenInv, StagedInv,
      Lease!WorkerRuns, Lease!HeartbeatEnds
<1>5. CASE UNCHANGED Lease!leaseVars
  BY <1>5 DEF Lease!leaseVars, LeaseInv, Lease!TypeOK, WriterInv, WorkerInv, GrantInv,
     Lease!GuardedWriteIsOwned, SeenInv, FoundInv, OvertakenInv, StagedInv,
     Lease!WorkerRuns
<1> QED
  BY <1>1, <1>2, <1>3, <1>4, <1>5 DEF Lease!Next

\* Authority implies that the row is the owner's, so it is exclusive
LEMMA AuthorityIsBacked == LeaseInv => AtMostOneAuthority
  BY DEF LeaseInv, Lease!GuardedWriteIsOwned, SeenInv, Lease!WorkerRuns, AtMostOneAuthority,
     Authority, WorkerRuns

\* The lease keeps its types
THEOREM LeaseTypes == Lease!Spec => []Lease!TypeOK
<1>1. Lease!Init => Lease!TypeOK
  BY LeaseInvInit DEF LeaseInv
<1> QED
  BY <1>1, LeaseTypeStep, PTL DEF Lease!Spec

\* Two invocations never hold authority at once (observeDurableExpiry)
THEOREM LeaseSafety == Lease!Spec => []AtMostOneAuthority
BY LeaseInvInit, LeaseInvStep, AuthorityIsBacked, PTL DEF Lease!Spec

\* A transaction that passed its ownership check commits under the grant it
\* checked, also when the grant expires before its COMMIT (holdWriteFence)
THEOREM GuardedWritesAreOwned == Lease!Spec => []GuardedWriteIsOwned
<1>1. LeaseInv => GuardedWriteIsOwned
  BY DEF LeaseInv, Lease!GuardedWriteIsOwned, GuardedWriteIsOwned
<1> QED
  BY <1>1, LeaseInvInit, LeaseInvStep, PTL DEF Lease!Spec

\* Only its owner's release ends an unexpired grant of a living process
THEOREM LeaseStability == Lease!Spec => LiveGrantIsStable
<1>1. LeaseInv /\ [Lease!Next]_(Lease!leaseVars) =>
        [\A o \in Owners :
            OwnedUnexpired(o) /\ phase[o] # "dead" /\ lease'.owner # o
              => phase[o] = "draining" /\ phase'[o] = "done"]_leaseVars
  <2> SUFFICES ASSUME LeaseInv, Lease!Next, NEW o \in Owners,
                      OwnedUnexpired(o), phase[o] # "dead", lease'.owner # o
               PROVE  phase[o] = "draining" /\ phase'[o] = "done"
    BY DEF leaseVars, Lease!leaseVars
  <2> USE OwnersAssumption DEF LeaseInv, Lease!TypeOK, OwnedUnexpired, Lease!OwnedUnexpired
  <2>1. CASE Lease!Tick
    BY <2>1 DEF Lease!Tick
  <2>2. ASSUME NEW q \in Owners, Lease!Main(q)
        PROVE  phase[o] = "draining" /\ phase'[o] = "done"
    BY <2>2 DEF Lease!Main, Lease!Acquire, Lease!GiveUp, Lease!StartupRenew,
       Lease!StartupTimeout, Lease!Enter, Lease!BeginTx, Lease!HoldFence,
       Lease!AssertOwned, Lease!FenceRenew, Lease!Commit, Lease!Rollback, Lease!FenceRelease,
       Lease!Drain, Lease!Release, Lease!AbandonRelease,
       Lease!Granted, Lease!Reclaimable, Lease!Renewed, Lease!Released
  <2>3. ASSUME NEW q \in Owners, Lease!Worker(q)
        PROVE  phase[o] = "draining" /\ phase'[o] = "done"
    BY <2>3 DEF Lease!Worker, Lease!mainVars, Lease!Beat, Lease!BeatContended, Lease!LoadFence,
       Lease!ReadExpiry, Lease!Verify, Lease!Observe, Lease!Judge, Lease!BeatFails,
       Lease!Renewed
  <2>4. ASSUME NEW q \in Owners, Lease!Crash(q)
        PROVE  phase[o] = "draining" /\ phase'[o] = "done"
    BY <2>4 DEF Lease!Crash
  <2> QED
    BY <2>1, <2>2, <2>3, <2>4 DEF Lease!Next
<1> QED
  BY <1>1, LeaseInvInit, LeaseInvStep, PTL DEF Lease!Spec, LiveGrantIsStable

\* A renewal that meets the raised fence leaves its verdict open until the
\* transaction settles: only one that looked before concludes a loss under it
THEOREM FenceDefersTheVerdict == Lease!Spec => FenceDefersLoss
<1>1. LeaseInv /\ [Lease!Next]_(Lease!leaseVars) =>
        [\A o \in Owners :
            phase[o] = "guarded" /\ ownerFence[o] /\ beat[o] = "renewing"
              /\ seen[o] # 0 /\ seen'[o] = 0
              => overtaken[o]]_leaseVars
  <2> SUFFICES ASSUME LeaseInv, Lease!Next, NEW o \in Owners, phase[o] = "guarded",
                      ownerFence[o], beat[o] = "renewing", seen[o] # 0, seen'[o] = 0
               PROVE  overtaken[o]
    BY DEF leaseVars, Lease!leaseVars
  <2> USE OwnersAssumption, LeaseAssumption DEF LeaseInv, Lease!TypeOK
  <2>1. CASE Lease!Tick
    BY <2>1 DEF Lease!Tick
  <2>2. ASSUME NEW q \in Owners, Lease!Main(q) PROVE overtaken[o]
    BY <2>2 DEF Lease!Main, Lease!Acquire, Lease!GiveUp, Lease!StartupRenew,
       Lease!StartupTimeout, Lease!Enter, Lease!BeginTx, Lease!HoldFence,
       Lease!AssertOwned, Lease!FenceRenew, Lease!Commit, Lease!Rollback, Lease!FenceRelease,
       Lease!Drain, Lease!Release, Lease!AbandonRelease
  <2>3. ASSUME NEW q \in Owners, Lease!Worker(q) PROVE overtaken[o]
    <3>1. CASE Lease!Observe(q)
      BY <2>3, <3>1 DEF Lease!Observe, OvertakenInv
    <3> QED
      BY <2>3, <3>1 DEF Lease!Worker, Lease!mainVars, Lease!Beat, Lease!BeatContended,
         Lease!LoadFence, Lease!ReadExpiry, Lease!Verify, Lease!Judge, Lease!BeatFails
  <2>4. ASSUME NEW q \in Owners, Lease!Crash(q) PROVE overtaken[o]
    BY <2>4 DEF Lease!Crash
  <2> QED
    BY <2>1, <2>2, <2>3, <2>4 DEF Lease!Next
<1> QED
  BY <1>1, LeaseInvInit, LeaseInvStep, PTL DEF Lease!Spec, FenceDefersLoss
================================================================================
