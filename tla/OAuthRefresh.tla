---------------------------- MODULE OAuthRefresh ----------------------------
(***************************************************************************)
(* The refresh of one stored OAuth credential by several processes:        *)
(* runSerializedOAuthRefresh and its observers in                          *)
(* src/src/agents/auth-profiles/oauth-refresh-fence.ts.                    *)
(*                                                                         *)
(* The store's lock covers only reads and compare-and-swaps.  A process    *)
(* claims an expired credential by replacing it with a pending fence, then *)
(* spends its refresh token at the provider outside the lock, and settles  *)
(* the fence with the new credential or marks it failed.  Whoever finds a  *)
(* fence waits for its settlement.  Logins replace the credential at any   *)
(* time.  Storage errors and crashes use up `trouble`.                     *)
(*                                                                         *)
(* Generations number the credentials in the order in which providers      *)
(* issued them; two credentials of the same generation are the same bytes. *)
(***************************************************************************)
EXTENDS Naturals

CONSTANTS
    Procs,       \* callers that refresh the profile
    Accounts,    \* accounts a login can be for
    MaxGen,      \* bound on the credentials issued
    MaxTrouble   \* bound on storage errors and crashes together

ASSUME OAuthAssumption ==
    MaxGen \in Nat \ {0} /\ MaxTrouble \in Nat /\ Accounts # {}

Gens == 1 .. MaxGen

VARIABLES
    store,     \* the stored credential or fence
    issued,    \* generations issued so far
    expired,   \* generations whose access token has expired
    uses,      \* uses[g]: how often the refresh token of g was spent
    claims,    \* claim ids given out
    proc,      \* proc[p]: the call of process p
    got,       \* got[p]: generation the last call of p returned
    trouble    \* disturbances left

vars == <<store, issued, expired, uses, claims, proc, got, trouble>>

Kinds == {"none", "credential", "pending", "failed"}
Stored == [kind : Kinds, gen : 0 .. MaxGen, acct : Accounts, claim : Nat]

Credential(g, a) == [kind |-> "credential", gen |-> g, acct |-> a, claim |-> 0]

\* createOAuthRefreshFence and createFailedOAuthRefreshFence
Fence(c, id) == [c EXCEPT !.kind = "pending", !.claim = id]
FailedFence(f) == [f EXCEPT !.kind = "failed"]

Phases == {"idle", "observing", "checking", "claimed", "refreshing", "settling", "failing"}

\* cand: the candidate or the observed fence; fence: the claim; fresh: the
\* generation the provider returned
Calls == [phase : Phases, cand : Stored, fence : Stored, fresh : 0 .. MaxGen]

\* A process without a call: the other fields mean nothing
Nothing == Credential(1, CHOOSE a \in Accounts : TRUE)
Idle == [phase |-> "idle", cand |-> Nothing, fence |-> Nothing, fresh |-> 0]

Init ==
    /\ issued = 1
    /\ \E a \in Accounts : store = Credential(1, a)
    /\ expired = {}
    /\ uses = [g \in Gens |-> 0]
    /\ claims = 0
    /\ proc = [p \in Procs |-> Idle]
    /\ got = [p \in Procs |-> 0]
    /\ trouble = MaxTrouble

-----------------------------------------------------------------------------
\* selectCandidate
Select(s) ==
    CASE s.kind = "pending" -> "observe"
      [] s.kind = "credential" /\ s.gen \notin expired -> "use"
      [] s.kind = "credential" /\ s.gen \in expired -> "claimable"
      [] OTHER -> "unavailable"

\* Mutant of Safe: any settled credential will do
SafeAnyAccount(c, s) == s.kind = "credential"

\* isSafeOAuthPostClaimSettlement: a credential, of the same account
Safe(c, s) == s.kind = "credential" /\ s.acct = c.acct

Goto(p, phase) == proc' = [proc EXCEPT ![p].phase = phase]
Ends(p) == proc' = [proc EXCEPT ![p] = Idle]
Return(p) == Ends(p) /\ UNCHANGED got
Hand(p, g) == Ends(p) /\ got' = [got EXCEPT ![p] = g]

\* The first read under the lock; an unavailable credential returns null
Read(p) ==
    /\ proc[p].phase = "idle"
    /\ \/ Select(store) = "use" /\ Hand(p, store.gen)
       \/ /\ Select(store) \in {"observe", "claimable"}
          /\ proc' = [proc EXCEPT ![p].cand = store,
                        ![p].phase = IF Select(store) = "observe" THEN "observing" ELSE "checking"]
          /\ UNCHANGED got
    /\ UNCHANGED <<store, issued, expired, uses, claims, trouble>>

\* canRefresh says no, or the native section refuses the claim
Decline(p) ==
    /\ proc[p].phase = "checking"
    /\ Return(p)
    /\ UNCHANGED <<store, issued, expired, uses, claims, trouble>>

\* isExactOAuthCredential
IsExact(s, c) == s = c

\* Mutant of MayClaim: the claim compares refresh tokens, not credentials
MayClaimSameToken(p) == store.kind \in {"credential", "pending"} /\ store.gen = proc[p].cand.gen

MayClaim(p) == IsExact(store, proc[p].cand)

\* The claim under the lock, after canRefresh
Claim(p) ==
    /\ proc[p].phase = "checking"
    /\ IF MayClaim(p)
       THEN LET fence == Fence(proc[p].cand, claims + 1)
            IN  /\ store' = fence
                /\ claims' = claims + 1
                /\ proc' = [proc EXCEPT ![p].phase = "claimed", ![p].fence = fence]
                /\ UNCHANGED got
       ELSE /\ UNCHANGED <<store, claims>>
            /\ CASE Select(store) = "use" -> Hand(p, store.gen)
                 [] Select(store) = "observe" ->
                      /\ proc' = [proc EXCEPT ![p].phase = "observing", ![p].cand = store]
                      /\ UNCHANGED got
                 [] OTHER -> Return(p)
    /\ UNCHANGED <<issued, expired, uses, trouble>>

\* The transaction of the claim reports an error, committed or not
ClaimFails(p) ==
    /\ proc[p].phase = "checking" /\ MayClaim(p)
    /\ trouble > 0 /\ trouble' = trouble - 1
    /\ claims' = claims + 1
    /\ store' \in {store, Fence(proc[p].cand, claims + 1)}
    /\ Return(p)
    /\ UNCHANGED <<issued, expired, uses>>

\* Mutant of AfterPublish: a failed publication returns and leaves the fence
AfterPublishQuiet == {"refreshing", "idle"}

\* params.commit of the claim succeeds or throws
AfterPublish == {"refreshing", "failing"}

Publish(p) ==
    /\ proc[p].phase = "claimed"
    /\ \E phase \in AfterPublish : Goto(p, phase)
    /\ UNCHANGED <<store, issued, expired, uses, claims, got, trouble>>

\* params.refresh spends the token; what comes back is a new credential, or
\* an error, nothing, an unusable credential or one of another account
Exchange(p) ==
    /\ proc[p].phase = "refreshing"
    /\ LET g == proc[p].cand.gen
           spent == [uses EXCEPT ![g] = @ + 1]
       IN  \/ /\ issued < MaxGen /\ issued' = issued + 1
              /\ uses' = spent
              /\ proc' = [proc EXCEPT ![p].phase = "settling", ![p].fresh = issued']
           \/ /\ uses' \in {uses, spent}
              /\ Goto(p, "failing")
              /\ UNCHANGED issued
    /\ UNCHANGED <<store, expired, claims, got, trouble>>

\* Mutant of MaySettle: the owner settles whatever is stored
MaySettleAlways(p) == TRUE

MaySettle(p) == IsExact(store, proc[p].fence)

\* The settlement under the lock: the owner writes over its own fence only,
\* or accepts what has replaced it.  The publication of either can throw.
Settle(p) ==
    /\ proc[p].phase = "settling"
    /\ LET c == proc[p].cand
           new == Credential(proc[p].fresh, c.acct)
       IN  \/ /\ MaySettle(p)
              /\ store' = new
              /\ Hand(p, new.gen) \/ (Goto(p, "failing") /\ UNCHANGED got)
              /\ UNCHANGED trouble
           \/ /\ MaySettle(p)
              /\ trouble > 0 /\ trouble' = trouble - 1
              /\ store' \in {store, new}
              /\ Goto(p, "failing") /\ UNCHANGED got
           \/ /\ ~MaySettle(p)
              /\ \/ Safe(c, store) /\ Hand(p, store.gen)
                 \/ Goto(p, "failing") /\ UNCHANGED got
              /\ UNCHANGED <<store, trouble>>
    /\ UNCHANGED <<issued, expired, uses, claims>>

\* settleFailure: markFailed under the lock
MarkFailed(p) ==
    /\ proc[p].phase = "failing"
    /\ Return(p)
    /\ \/ /\ store' = IF IsExact(store, proc[p].fence) THEN FailedFence(store) ELSE store
          /\ UNCHANGED trouble
       \/ /\ trouble > 0 /\ trouble' = trouble - 1
          /\ UNCHANGED store
    /\ UNCHANGED <<issued, expired, uses, claims>>

\* observeFence: the fence that was read is pending no more
Observe(p) ==
    /\ proc[p].phase = "observing" /\ store.kind # "pending"
    /\ IF Safe(proc[p].cand, store) THEN Hand(p, store.gen) ELSE Return(p)
    /\ UNCHANGED <<store, issued, expired, uses, claims, trouble>>

\* The observer's deadline has passed
ObserveTimesOut(p) ==
    /\ proc[p].phase = "observing"
    /\ Return(p)
    /\ UNCHANGED <<store, issued, expired, uses, claims, trouble>>

Crash(p) ==
    /\ proc[p].phase # "idle"
    /\ trouble > 0 /\ trouble' = trouble - 1
    /\ Return(p)
    /\ UNCHANGED <<store, issued, expired, uses, claims>>

-----------------------------------------------------------------------------
\* Other writers of the store
Login ==
    /\ issued < MaxGen /\ issued' = issued + 1
    /\ \E a \in Accounts : store' = Credential(issued', a)
    /\ UNCHANGED <<expired, uses, claims, proc, got, trouble>>

Logout ==
    /\ store.kind # "none"
    /\ store' = [store EXCEPT !.kind = "none"]
    /\ UNCHANGED <<issued, expired, uses, claims, proc, got, trouble>>

\* Time passes
Expire ==
    /\ \E g \in 1 .. issued : g \notin expired /\ expired' = expired \cup {g}
    /\ UNCHANGED <<store, issued, uses, claims, proc, got, trouble>>

\* What a call does by itself once it has claimed the credential
Advance(p) == Publish(p) \/ Exchange(p) \/ Settle(p) \/ MarkFailed(p)

Next ==
    \/ Login \/ Logout \/ Expire
    \/ \E p \in Procs :
         \/ Read(p) \/ Decline(p) \/ Claim(p) \/ ClaimFails(p) \/ Advance(p)
         \/ Observe(p) \/ ObserveTimesOut(p) \/ Crash(p)

Spec == Init /\ [][Next]_vars

\* Store and provider answer a living owner
LiveSpec == Spec /\ \A p \in Procs : WF_vars(Advance(p))

-----------------------------------------------------------------------------
\* Every variable keeps its type, and nobody refers to a credential that was
\* not issued yet
TypeOK ==
    /\ store \in Stored
    /\ issued \in 1 .. MaxGen
    /\ expired \subseteq 1 .. issued
    /\ uses \in [Gens -> Nat]
    /\ claims \in Nat
    /\ proc \in [Procs -> Calls]
    /\ got \in [Procs -> 0 .. MaxGen]
    /\ trouble \in 0 .. MaxTrouble
    /\ store.gen \in 1 .. issued
    /\ \A p \in Procs : proc[p].cand.gen \in 1 .. issued /\ proc[p].fresh <= issued

\* No refresh token is spent twice, whichever callers race, crash, time out
\* or find the store failing: the claim is a compare-and-swap on the whole
\* credential, and a fence is never claimed.
SpentOnce == \A g \in Gens : uses[g] <= 1

\* A step may only replace what is stored by something newer, or end it
Newest ==
    /\ store'.gen >= store.gen
    /\ (store.kind = "credential" /\ store'.gen = store.gen)
         => store'.kind \in {"credential", "pending", "none"}
    /\ (store.kind \in {"failed", "none"} /\ store'.gen = store.gen)
         => store'.kind \in {store.kind, "none"}

\* A stale owner overwrites nothing: the stored generation never goes back, a
\* credential only becomes its own fence, and a failed fence stays until
\* somebody logs in or out (settlement and markFailed compare with the claim).
NewestSurvives == [][Newest]_vars

\* The call of p returns a credential
HandsOut(p) ==
    /\ store'.kind = "credential" /\ store'.gen = got'[p]
    /\ proc[p].phase \in {"settling", "observing"} => store'.acct = proc[p].cand.acct

\* A call only returns what is the stored credential at that moment, and one
\* that has claimed or awaited a fence only a credential of the same account
\* (isSafeOAuthPostClaimSettlement, persisted or not).
HandedOutIsStored == [][\A p \in Procs : got'[p] # got[p] => HandsOut(p)]_vars

\* A pending fence does not stay, unless there was a crash or a storage error:
\* its owner settles it or marks it failed, also when its caller has timed out
\* or its publication threw (settleFailure).
PendingIsSettled ==
    store.kind = "pending" ~> store.kind # "pending" \/ trouble < MaxTrouble
=============================================================================
