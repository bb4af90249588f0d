---------------------------- MODULE TurnAuthority ----------------------------
(***************************************************************************)
(* The in-memory authority over the turn claim, the tool authorization and *)
(* the pending workspace result of one session                             *)
(* (src/src/gateway/worker-environments/placement-turn-authority.ts), kept *)
(* beside the durable row that the operations of placement-turn-claims.ts  *)
(* write.                                                                  *)
(*                                                                         *)
(* A write runs on a SQLite worker.  Before its commit is granted the host *)
(* stages the row it will leave behind as a numbered change; once the      *)
(* outcome is known the change is committed, rolled back or, if the reply  *)
(* was lost, invalidated.  Outcomes of different writes arrive in any      *)
(* order.  Whoever holds a prepared authority, a tool call or a workspace  *)
(* result consults this memory and not the database.                       *)
(***************************************************************************)
EXTENDS Integers, FiniteSets, FiniteSetsExt

CONSTANTS
    Claims,        \* turn claims (session, claim id, run id, generation, owner)
    NoClaim,
    Authorities,   \* callers of preparePlacementTurnClaimAuthority
    Kinds,         \* the kinds of owner to consider: "worker", "local"
    Lossy,         \* an outcome may be lost
    Consulted,     \* bound: a behaviour has prepared authorities ("claim"),
                   \* observers of the workspace result ("result") or reads that
                   \* fill the placement replica ("replica"), one of the three
    MaxChanges,    \* bound on the writes,
    MaxObserved    \* and on those beside observers and replica reads

ASSUME AuthorityAssumption ==
    /\ NoClaim \notin Claims
    /\ Kinds \subseteq {"worker", "local"} /\ Lossy \in BOOLEAN
    /\ Consulted \subseteq {"claim", "result", "replica"}
    /\ MaxChanges \in Nat /\ MaxObserved \in 0 .. MaxChanges

MaybeClaims == Claims \cup {NoClaim}

VARIABLES
    setting,     \* claim.owner.kind of this placement, and who consults the memory
    row,         \* the durable row: claim, tool authorization, pending result
    post,        \* the row the open transaction will leave
    sequence,    \* owner.sequence
    pending,     \* owner.pending, each change with what became of its write
    published,   \* owner.published of the session
    placement,   \* owner.placements of the session, with a ghost: the entry is exact
    tools,       \* owner.tools of the session
    results,     \* owner.workspaceResults of the session
    auth,        \* the retained claim of each authority
    observer,    \* a running preparePlacementWorkspaceResultAuthority
    replica,     \* a running read that capturePlacementReplicaRead began
    reordered    \* ghost: an outcome has arrived before that of an older change

vars == <<setting, row, post, sequence, pending, published, placement, tools, results, auth,
          observer, replica, reordered>>

Rows == [claim : MaybeClaims, tools : MaybeClaims, result : MaybeClaims,
         incarnation : 0 .. MaxChanges]

\* A change: facts are known unless it is indeterminate; kind "claim" carries
\* a pending result only if hasResult, the placement only if hasPlacement
Changes == [seq : 1 .. MaxChanges, kind : {"claim", "tools", "result"},
            claim : MaybeClaims, result : MaybeClaims, hasResult : BOOLEAN,
            hasPlacement : BOOLEAN, known : BOOLEAN, write : {"open", "landed", "undone"}]

FreeAuth == [phase |-> "free", claim |-> NoClaim, created |-> 0, pub |-> 0,
             facts |-> {}, snapshot |-> {}, revoked |-> FALSE, since |-> 0]
NoObserver == [phase |-> "free", claim |-> NoClaim, published |-> 0, revoked |-> FALSE,
               snapshot |-> {}]
NoReplica == [phase |-> "free", seq |-> 0, snapshot |-> NoClaim, calm |-> FALSE]

Init ==
    /\ setting \in [kind : Kinds, consulted : Consulted]
    /\ row = [claim |-> NoClaim, tools |-> NoClaim, result |-> NoClaim, incarnation |-> 0]
    /\ post = row
    /\ sequence = 0
    /\ pending = {}
    /\ published = 0
    /\ placement = {}
    /\ tools = [seq |-> 0, claim |-> NoClaim]
    /\ results = {}
    /\ auth = [a \in Authorities |-> FreeAuth]
    /\ observer = NoObserver
    /\ replica = NoReplica
    /\ reordered = FALSE

-----------------------------------------------------------------------------
(* The durable operations                                                  *)

\* The claim is admissible: the row has none, or exactly this one
Admissible(c) == row.claim \in {NoClaim, c}

WithClaim(c) ==
    [row EXCEPT !.claim = c,
                !.incarnation = IF row.claim = c THEN @ ELSE @ + 1]

\* releaseTurnQuery and clearWorkerTurnToolState
WithoutClaim(c) ==
    [row EXCEPT !.claim = NoClaim, !.tools = IF @ = c THEN NoClaim ELSE @]

\* The row a write leaves, as a change numbered when it is staged
Change(kind, r, hasResult, hasPlacement) ==
    [seq |-> sequence + 1, kind |-> kind, claim |-> r.claim, result |-> r.result,
     hasResult |-> hasResult, hasPlacement |-> hasPlacement, known |-> TRUE, write |-> "open"]

\* A writer supplies the placement with a change of the claim, or does not.
\* Bound: prepared authorities do not look at it.
Supplied == IF setting.consulted = "claim" THEN {TRUE} ELSE BOOLEAN

\* Bound on the writes of this behaviour
Budget == IF setting.consulted = "claim" THEN MaxChanges ELSE MaxObserved

\* A write has entered its transaction; its change is staged before the
\* commit is granted (stageWorkerChange)
Stage(r, change) ==
    /\ \A p \in pending : p.write # "open"
    /\ sequence < Budget
    /\ sequence' = sequence + 1
    /\ pending' = pending \cup {change}
    /\ post' = r
    /\ UNCHANGED <<row, published, placement, tools, results, auth, observer, replica,
                   setting, reordered>>

\* claimTurn
ClaimTurn(c) ==
    /\ Admissible(c)
    /\ \E placed \in Supplied :
           Stage(WithClaim(c), Change("claim", WithClaim(c), FALSE, placed))

\* releaseTurn: not while a workspace result is pending
ReleaseTurn(c) ==
    /\ row.claim = c /\ row.result = NoClaim
    /\ \E placed \in Supplied :
           Stage(WithoutClaim(c), Change("claim", WithoutClaim(c), FALSE, placed))

\* claimReclaimWorkspaceResult, claimWorkspaceMutationResult: the claim and
\* its pending result are written together
ClaimWorkspaceResult(c) ==
    /\ Admissible(c) /\ row.result = NoClaim
    /\ LET r == [WithClaim(c) EXCEPT !.result = c] IN Stage(r, Change("claim", r, TRUE, TRUE))

\* completeWorkspaceResultAndReleaseTurn, cancelWorkspaceResultAndReleaseTurn:
\* by the claim, or for a local claim that a restart has cleared
ReleaseWorkspaceResult(c) ==
    /\ row.result = c
    /\ row.claim = c \/ (setting.kind = "local" /\ row.claim = NoClaim)
    /\ LET r == [WithoutClaim(c) EXCEPT !.result = NoClaim] IN Stage(r, Change("claim", r, TRUE, TRUE))

\* The pending result of the running turn is recorded
RecordWorkspaceResult(c) ==
    /\ row.claim = c /\ row.result = NoClaim
    /\ LET r == [row EXCEPT !.result = c] IN Stage(r, Change("result", r, TRUE, TRUE))

\* The tools of the worker's turn are authorized, or withdrawn
SetTools(c, authorized) ==
    /\ setting.kind = "worker" /\ row.claim = c
    /\ LET r == [row EXCEPT !.tools = IF authorized THEN c ELSE NoClaim]
           change == [Change("tools", row, FALSE, FALSE) EXCEPT
                          !.claim = r.tools, !.result = c]
       IN  Stage(r, change)

\* The open transaction commits, or rolls back
Land ==
    \E p \in pending :
        /\ p.write = "open"
        /\ row' = post
        /\ pending' = (pending \ {p}) \cup {[p EXCEPT !.write = "landed"]}
        /\ UNCHANGED <<post, sequence, published, placement, tools, results, auth,
                       observer, replica, setting, reordered>>

Undo ==
    \E p \in pending :
        /\ p.write = "open"
        /\ pending' = (pending \ {p}) \cup {[p EXCEPT !.write = "undone"]}
        /\ post' = row
        /\ UNCHANGED <<row, sequence, published, placement, tools, results, auth, observer,
                       replica, setting, reordered>>

-----------------------------------------------------------------------------
(* Publication                                                             *)

\* placementChangeAllowsClaim: the claim is still the row's after the change
Allows(change, c) == change.kind = "claim" => change.known /\ change.claim = c

\* isCurrentWorkerWorkspacePendingResultOwner
OwnsResult(claim, result) == claim \in {NoClaim, result}

\* The entry of a newer change stays; an indeterminate change removes it, and a
\* claim change without a placement leaves it alone, exact no more
NextPlacement(ch) ==
    LET newer == \E p \in placement : p.seq > ch.seq
    IN  IF newer \/ ch.kind = "tools" THEN placement
        ELSE IF ~ch.known THEN {}
        ELSE IF ch.hasPlacement THEN {[seq |-> ch.seq, claim |-> ch.claim, exact |-> TRUE]}
        ELSE {[p EXCEPT !.exact = @ /\ p.seq = ch.seq] : p \in placement}

\* Ghost: a snapshot is spoilt by a newer change that is published after it and
\* leaves no placement behind
NextReplica(ch) ==
    [replica EXCEPT !.calm = @ /\ (replica.phase = "read" /\ ch.kind # "tools"
                                     /\ ch.seq > replica.seq => ch.known /\ ch.hasPlacement)]

\* A change of the tools alone: claim is the authority, result the claim id
NextToolsFromTools(ch) ==
    IF /\ ch.seq > tools.seq
       /\ tools.claim = NoClaim \/ ch.claim # NoClaim \/ tools.claim = ch.result
    THEN [seq |-> ch.seq, claim |-> ch.claim]
    ELSE tools

\* Mutant of NextToolsFromClaim: an authorization still on its way survives
NextToolsFromClaimNow(ch, rest) ==
    IF ch.seq > tools.seq /\ tools.claim # NoClaim /\ ~Allows(ch, tools.claim)
    THEN [seq |-> ch.seq, claim |-> NoClaim]
    ELSE tools

\* A claim that ends the authorized turn withdraws its tools, also the ones
\* whose change is still pending
NextToolsFromClaim(ch, rest) ==
    IF /\ ch.seq > tools.seq
       /\ \/ ~ch.known \/ ch.claim = NoClaim
          \/ tools.claim # NoClaim /\ ~Allows(ch, tools.claim)
          \/ \E p \in rest : p.kind = "tools" /\ p.claim # NoClaim /\ ~Allows(ch, p.claim)
    THEN [seq |-> ch.seq, claim |-> NoClaim]
    ELSE tools

NextResults(ch) ==
    IF ch.seq <= published THEN results
    ELSE IF ch.known /\ ch.hasResult /\ ch.result # NoClaim
         THEN {[claim |-> ch.claim, result |-> ch.result]}
    ELSE IF ch.known /\ ~ch.hasResult /\ ch.hasPlacement
         THEN {[claim |-> ch.claim, result |-> r.result] :
                   r \in {x \in results : OwnsResult(ch.claim, x.result)}}
    ELSE {}

\* A retained claim takes the newest facts; an older change that arrives
\* late still revokes it, but not one prepared after it was overtaken
Retained(a, ch) ==
    IF auth[a].phase = "free" \/ ch.kind # "claim" \/ ch.seq <= auth[a].created THEN auth[a]
    ELSE LET newest == ch.seq > auth[a].pub
         IN  [auth[a] EXCEPT
                !.facts = IF ~newest THEN @ ELSE IF ch.known THEN {ch.claim} ELSE {},
                !.pub = IF newest THEN ch.seq ELSE @,
                !.revoked = @ \/ ~Allows(ch, auth[a].claim)]

\* commitChange
CommitChange(ch, rest) ==
    /\ pending' = rest
    /\ placement' = NextPlacement(ch)
    /\ replica' = NextReplica(ch)
    /\ tools' = CASE ch.kind = "tools" -> NextToolsFromTools(ch)
                  [] ch.kind = "claim" -> NextToolsFromClaim(ch, rest)
                  [] OTHER -> tools
    /\ IF ch.kind = "tools" THEN UNCHANGED <<results, published, observer>>
       ELSE /\ results' = NextResults(ch)
            /\ published' = IF ch.seq > published THEN ch.seq ELSE published
            /\ observer' = [observer EXCEPT !.revoked = observer.phase # "free"]
    /\ auth' = [a \in Authorities |-> Retained(a, ch)]

\* The outcome of a change arrives, maybe before that of an older one
Arrives(p) ==
    /\ p.write # "open"
    /\ reordered' = (reordered \/ \E q \in pending : q.seq < p.seq)

Commit ==
    \E p \in pending :
        /\ Arrives(p) /\ p.write = "landed"
        /\ CommitChange(p, pending \ {p})
        /\ UNCHANGED <<row, post, sequence, setting>>

Rollback ==
    \E p \in pending :
        /\ Arrives(p) /\ p.write = "undone"
        /\ pending' = pending \ {p}
        /\ UNCHANGED <<row, post, sequence, published, placement, tools, results, auth,
                       observer, replica, setting>>

\* The change of a write whose outcome was lost: its facts are dropped, of
\* a tool change the authority
Unknown(p) ==
    IF p.kind = "tools" THEN [p EXCEPT !.claim = NoClaim]
    ELSE [p EXCEPT !.known = FALSE, !.hasResult = FALSE, !.hasPlacement = FALSE]

Invalidate ==
    \E p \in pending :
        /\ Lossy /\ Arrives(p)
        /\ CommitChange(Unknown(p), pending \ {p})
        /\ UNCHANGED <<row, post, sequence, setting>>

\* clearLocalTurnClaims on the host's own connection: written and published
\* in one synchronous step (stageChange)
ClearLocalTurnClaims ==
    /\ setting.kind = "local" /\ row.claim # NoClaim
    /\ \A p \in pending : p.write # "open"
    /\ sequence < Budget
    /\ sequence' = sequence + 1
    /\ row' = [row EXCEPT !.claim = NoClaim]
    /\ post' = row'
    /\ CommitChange(Change("claim", row', FALSE, TRUE), pending)
    /\ reordered' = (reordered \/ pending # {})
    /\ UNCHANGED setting

-----------------------------------------------------------------------------
(* Prepared authorities                                                    *)

Prepare(a, c) ==
    /\ setting.consulted = "claim" /\ auth[a].phase = "free"
    /\ auth' = [auth EXCEPT ![a] = [FreeAuth EXCEPT !.phase = "reading", !.claim = c,
                                        !.created = published, !.pub = published]]
    /\ UNCHANGED <<row, post, sequence, pending, published, placement, tools, results,
                   observer, replica, setting, reordered>>

\* The reader takes its snapshot
ReadRow(a) ==
    /\ auth[a].phase = "reading"
    /\ auth' = [auth EXCEPT ![a].phase = "read", ![a].snapshot = {row.claim}]
    /\ UNCHANGED <<row, post, sequence, pending, published, placement, tools, results,
                   observer, replica, setting, reordered>>

\* Mutant of NoFence: only published changes count
NoFenceAtAll(a) == TRUE

\* No pending change newer than the authority takes the claim away
NoFence(a) ==
    \A p \in pending : p.seq > auth[a].created => Allows(p, auth[a].claim)

\* isCurrent, for an authority whose facts are given
Current(a, facts) == ~auth[a].revoked /\ facts = {auth[a].claim} /\ NoFence(a)

IsCurrent(a) == auth[a].phase = "live" /\ Current(a, auth[a].facts)

\* The preparation returns the authority, or releases the retained claim.
\* Facts published during the read supersede the snapshot.  The ghost "since"
\* is the incarnation of the claim at that moment.
Return(a) ==
    /\ auth[a].phase = "read"
    /\ LET facts == IF auth[a].facts = {} THEN auth[a].snapshot ELSE auth[a].facts
       IN  auth' = [auth EXCEPT ![a] =
                       IF Current(a, facts)
                       THEN [@ EXCEPT !.phase = "live", !.facts = facts, !.snapshot = {},
                                      !.since = row.incarnation]
                       ELSE FreeAuth]
    /\ UNCHANGED <<row, post, sequence, pending, published, placement, tools, results,
                   observer, replica, setting, reordered>>

Release(a) ==
    /\ auth[a].phase = "live"
    /\ auth' = [auth EXCEPT ![a] = FreeAuth]
    /\ UNCHANGED <<row, post, sequence, pending, published, placement, tools, results,
                   observer, replica, setting, reordered>>

-----------------------------------------------------------------------------
(* The workspace result                                                    *)

\* matchesWorkspaceResultClaim
MatchesResult(r, c) ==
    r.result = c /\ (r.claim = c \/ (setting.kind = "local" /\ r.claim = NoClaim))

\* readPlacementWorkspaceResultAuthority
ResultAuthority(c) ==
    /\ \A p \in pending : p.kind = "tools"
    /\ \E r \in results : MatchesResult(r, c)

\* preparePlacementWorkspaceResultAuthority starts to observe and to read
Observe(c) ==
    /\ setting.consulted = "result" /\ observer.phase = "free"
    /\ observer' = [NoObserver EXCEPT !.phase = "reading", !.claim = c, !.published = published]
    /\ UNCHANGED <<row, post, sequence, pending, published, placement, tools, results,
                   auth, replica, setting, reordered>>

ObserverReads ==
    /\ observer.phase = "reading"
    /\ observer' = [observer EXCEPT !.phase = "read",
                        !.snapshot = {[claim |-> row.claim, result |-> row.result]}]
    /\ UNCHANGED <<row, post, sequence, pending, published, placement, tools, results,
                   auth, replica, setting, reordered>>

\* observation.assertCurrent: nothing was published since, nothing is pending
ObservationHolds == ~observer.revoked /\ \A p \in pending : p.kind = "tools"

\* The snapshot becomes the published result if nothing has changed
ObserverReturns ==
    /\ observer.phase = "read"
    /\ observer' = NoObserver
    /\ results' =
         IF (published > observer.published /\ ResultAuthority(observer.claim))
              \/ ~ObservationHolds
         THEN results
         ELSE {r \in observer.snapshot : r.result # NoClaim /\ OwnsResult(r.claim, r.result)}
    /\ UNCHANGED <<row, post, sequence, pending, published, placement, tools, auth,
                   replica, setting, reordered>>

-----------------------------------------------------------------------------
(* The placement replica                                                   *)

\* capturePlacementReplicaRead: remember the number of the newest staged change
CaptureReplica ==
    /\ setting.consulted = "replica" /\ replica.phase = "free"
    /\ replica' = [NoReplica EXCEPT !.phase = "reading", !.seq = sequence]
    /\ UNCHANGED <<row, post, sequence, pending, published, placement, tools, results,
                   auth, observer, setting, reordered>>

\* The reader takes its snapshot.  Ghost: it is calm if the change with the
\* remembered number, and so each one before it, has committed or rolled back.
ReplicaReads ==
    /\ replica.phase = "reading"
    /\ replica' = [replica EXCEPT !.phase = "read", !.snapshot = row.claim,
                      !.calm = \A p \in pending : p.write = "open" => p.seq > replica.seq]
    /\ UNCHANGED <<row, post, sequence, pending, published, placement, tools, results,
                   auth, observer, setting, reordered>>

\* Mutant of Fills: the read replaces whatever is there
FillsAlways == TRUE

\* No entry is newer than the number the read remembered
Fills == \A p \in placement : p.seq <= replica.seq

\* The read fills the replica
ReplicaReturns ==
    /\ replica.phase = "read"
    /\ placement' = IF Fills
                    THEN {[seq |-> replica.seq, claim |-> replica.snapshot,
                           exact |-> replica.calm]}
                    ELSE placement
    /\ replica' = NoReplica
    /\ UNCHANGED <<row, post, sequence, pending, published, tools, results, auth,
                   observer, setting, reordered>>

-----------------------------------------------------------------------------
Write(c) ==
    \/ ClaimTurn(c)
    \/ ReleaseTurn(c)
    \/ ClaimWorkspaceResult(c)
    \/ ReleaseWorkspaceResult(c)
    \/ RecordWorkspaceResult(c)
    \/ \E authorized \in BOOLEAN : SetTools(c, authorized)

Next ==
    \/ \E c \in Claims : Write(c) \/ Observe(c)
    \/ Land \/ Undo \/ Commit \/ Rollback \/ Invalidate
    \/ ClearLocalTurnClaims
    \/ \E a \in Authorities :
           (\E c \in Claims : Prepare(a, c)) \/ ReadRow(a) \/ Return(a) \/ Release(a)
    \/ ObserverReads \/ ObserverReturns
    \/ CaptureReplica \/ ReplicaReads \/ ReplicaReturns

Spec == Init /\ [][Next]_vars

-----------------------------------------------------------------------------
\* isPlacementTurnToolAuthorized
ToolAuthorized(c) ==
    /\ setting.kind = "worker" /\ tools.claim = c
    /\ \A p \in pending : Allows(p, c) /\ (p.kind = "tools" => p.claim = c)

\* isPublishedPlacementTurnClaimCurrent
PublishedClaim(c) ==
    /\ \E p \in placement : p.claim = c
    /\ \A p \in pending : Allows(p, c)

\* The published claim is exact.  It is not when a read took its snapshot while a
\* change that it counts was still open, or when a change was published without a
\* placement after the entry's own change or after the snapshot.
Exact == \A p \in placement : p.exact

TypeOK ==
    /\ row \in Rows /\ post \in Rows
    /\ sequence \in 0 .. MaxChanges /\ published \in 0 .. sequence
    /\ pending \subseteq Changes
    /\ \A p, q \in pending : p.seq = q.seq => p = q
    /\ Cardinality({p \in pending : p.write = "open"}) <= 1
    /\ \A p \in placement : p.seq \in 0 .. sequence /\ p.claim \in MaybeClaims /\ p.exact \in BOOLEAN
    /\ tools.seq \in 0 .. sequence /\ tools.claim \in MaybeClaims
    /\ Cardinality(results) <= 1
    /\ replica.seq \in 0 .. sequence /\ replica.calm \in BOOLEAN
    /\ replica.phase \in {"free", "reading", "read"} /\ replica.snapshot \in MaybeClaims
    /\ setting \in [kind : Kinds, consulted : Consulted] /\ reordered \in BOOLEAN

\* A prepared authority that answers "current" stands for the claim that is
\* in the database now, and for the same incarnation of it: the claim was
\* not released and admitted again since the authority was prepared, however
\* late and in whatever order the outcomes of the writes arrive (isCurrent,
\* commitChange). The state is well typed.
AuthorityIsSound ==
    /\ TypeOK
    /\ \A a \in Authorities :
        IsCurrent(a) => row.claim = auth[a].claim /\ row.incarnation = auth[a].since

\* A tool call is let through only while its claim holds the turn, however late
\* and in whatever order outcomes arrive, and, as long as they arrive in the
\* order of their changes, only while the database authorizes the tools of
\* exactly this claim (isPlacementTurnToolAuthorized).
ToolsAreSound ==
    \A c \in Claims : ToolAuthorized(c) => row.claim = c /\ (~reordered => row.tools = c)

\* As long as outcomes arrive in the order of their changes, even after a write's
\* outcome was lost: whoever is given custody of the workspace result finds it
\* pending in the database, under the same claim and with no other turn claimed
\* (readPlacementWorkspaceResultAuthority); and a claim effect that consults an
\* exact published claim acts only while the database has this claim, also when a
\* read has filled the replica meanwhile (isPublishedPlacementTurnClaimCurrent,
\* capturePlacementReplicaRead).
PublishedIsSound ==
    ~reordered =>
        \A c \in Claims :
            /\ ResultAuthority(c) => row.result = c /\ row.claim \in {c, NoClaim}
            /\ PublishedClaim(c) /\ Exact => row.claim = c
=============================================================================
